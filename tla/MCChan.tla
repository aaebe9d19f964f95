------------------------------- MODULE MCChan -------------------------------
EXTENDS ChanNet, TLC

(* Neither threads nor the chanends that nobody sends to are told apart.   *)
Symmetry == Permutations(Thread) \cup Permutations(Chanend \ Targets)
=============================================================================
