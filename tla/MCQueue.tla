------------------------------ MODULE MCQueue ------------------------------
(* The linked list implements the time queue.  While push searches, the    *)
(* new entry counts as being in its place.                                 *)
EXTENDS RunnableQueue, Sequences

Entry(r) == [run |-> r, at |-> wakeUpTime[r]]

Walk == LET from[r \in Link] == IF r = NULL THEN <<>> ELSE <<Entry(r)>> \o from[next[r]]
        IN from[head]

Abstraction ==
  IF pushing = NULL THEN Walk
  ELSE SelectSeq(Walk, LAMBDA e : e.at <= wakeUpTime[pushing])
         \o <<Entry(pushing)>>
         \o SelectSeq(Walk, LAMBDA e : e.at > wakeUpTime[pushing])

Abstract == INSTANCE TimeQueue WITH entries <- Abstraction

(* The run queue of the simulator is the priority queue that INTERNALS.rst *)
(* describes, first come, first served among equal times.                  *)
ImplementsTimeQueue == Abstract!Spec
=============================================================================
