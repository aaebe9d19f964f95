------------------------------ MODULE MCSynch ------------------------------
(* A core with three threads: groups of up to two slaves, or one slave and *)
(* an unsynchronised thread.  Main is a thread like the others for the     *)
(* lock, so the threads are not symmetric.                                 *)
EXTENDS Synch
=============================================================================
