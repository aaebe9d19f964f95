----------------------------- MODULE TimeQueue -----------------------------
(***************************************************************************)
(* What the scheduler promises, as INTERNALS.rst describes it: "a priority *)
(* queue that is ordered by the time at which the entity should next run". *)
(* The queue is the sequence of entries in the order they will run; of two *)
(* entries for the same time, the one scheduled first runs first.          *)
(***************************************************************************)
EXTENDS Integers, Sequences

CONSTANTS Runnable, MaxTime

VARIABLE entries  \* sequence of [run : Runnable, at : 0 .. MaxTime]

Without(r) == SelectSeq(entries, LAMBDA e : e.run # r)

(* r is scheduled for time t, and no longer for any other time.            *)
Schedule(r, t) ==
  entries' = SelectSeq(Without(r), LAMBDA e : e.at <= t)
               \o <<[run |-> r, at |-> t]>>
               \o SelectSeq(Without(r), LAMBDA e : e.at > t)

Cancel(r) == entries' = Without(r)

Dispatch == entries # <<>> /\ entries' = Tail(entries)

Init == entries = <<>>

Next == \/ \E r \in Runnable, t \in 0 .. MaxTime : Schedule(r, t)
        \/ \E r \in Runnable : Cancel(r)
        \/ Dispatch

Spec == Init /\ [][Next]_entries
=============================================================================
