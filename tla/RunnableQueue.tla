--------------------------- MODULE RunnableQueue ---------------------------
(***************************************************************************)
(* The simulator's run queue (lib/RunnableQueue.cpp and .h): an intrusive  *)
(* doubly linked list of Runnables, sorted by wakeUpTime, and the loop of  *)
(* SystemState::run that pops it.  The search for the place of a new entry *)
(* is a loop in the code and a sequence of steps here.                     *)
(***************************************************************************)
EXTENDS Integers

CONSTANTS
  Runnable,  \* threads, ports, timers, peripherals
  NULL,
  MaxTime    \* bound on the times that are scheduled

ASSUME QueueAssumption == NULL \notin Runnable /\ MaxTime \in Nat

VARIABLES
  head,          \* RunnableQueue::head
  prev, next,    \* Runnable: its links
  wakeUpTime,    \* Runnable: the time it is scheduled for
  pushing,       \* the Runnable whose place push is looking for, or NULL
  p,             \* push: the entry the search has reached
  now            \* wakeUpTime of the Runnable that runs

vars == <<head, prev, next, wakeUpTime, pushing, p, now>>

Link == Runnable \cup {NULL}
Time == 0 .. MaxTime

TypeOK ==
  /\ head \in Link
  /\ prev \in [Runnable -> Link]
  /\ next \in [Runnable -> Link]
  /\ wakeUpTime \in [Runnable -> Time]
  /\ pushing \in Link
  /\ p \in Link
  /\ now \in Time

Init ==
  /\ head = NULL
  /\ prev = [r \in Runnable |-> NULL]
  /\ next = [r \in Runnable |-> NULL]
  /\ wakeUpTime = [r \in Runnable |-> 0]
  /\ pushing = NULL /\ p = NULL
  /\ now = 0

Contains(r) == prev[r] # NULL \/ r = head

(* The list after RunnableQueue::remove(r); r keeps its next link.         *)
RemovedHead(r) == IF r = head THEN next[r] ELSE head

RemovedNext(r) == IF r = head THEN next ELSE [next EXCEPT ![prev[r]] = next[r]]

RemovedPrev(r) == [x \in Runnable |-> IF x = r THEN NULL
                                      ELSE IF x = next[r] THEN prev[r] ELSE prev[x]]

Remove(r) ==
  /\ pushing = NULL /\ Contains(r)
  /\ head' = RemovedHead(r)
  /\ next' = RemovedNext(r)
  /\ prev' = RemovedPrev(r)
  /\ UNCHANGED <<wakeUpTime, pushing, p, now>>

(* Mutant of GoesFirst: an earlier time does not replace the head.         *)
GoesFirstNever(t, h) == FALSE

GoesFirst(t, h) == t < wakeUpTime[h]

(* push, up to the search: take r out of the list if it is there, set its  *)
(* time, and put it in front if its time is before all others.             *)
PushStart(r, t) ==
  LET h == IF Contains(r) THEN RemovedHead(r) ELSE head
      n == IF Contains(r) THEN RemovedNext(r) ELSE next
      v == IF Contains(r) THEN RemovedPrev(r) ELSE prev
  IN /\ pushing = NULL
     /\ wakeUpTime' = [wakeUpTime EXCEPT ![r] = t]
     /\ \/ /\ h = NULL
           /\ head' = r /\ next' = [n EXCEPT ![r] = NULL] /\ prev' = v
           /\ UNCHANGED <<pushing, p>>
        \/ /\ h # NULL /\ GoesFirst(t, h)
           /\ head' = r /\ next' = [n EXCEPT ![r] = h] /\ prev' = [v EXCEPT ![h] = r]
           /\ UNCHANGED <<pushing, p>>
        \/ /\ h # NULL /\ ~GoesFirst(t, h)
           /\ head' = h /\ next' = n /\ prev' = v
           /\ pushing' = r /\ p' = h
     /\ UNCHANGED now

(* Mutant of GoesFurther: push stops before the entries of the same time. *)
GoesLess == next[p] # NULL /\ wakeUpTime[pushing] > wakeUpTime[next[p]]

GoesFurther == next[p] # NULL /\ wakeUpTime[pushing] >= wakeUpTime[next[p]]

PushScan ==
  /\ pushing # NULL /\ GoesFurther
  /\ p' = next[p]
  /\ UNCHANGED <<head, prev, next, wakeUpTime, pushing, now>>

PushLink ==
  /\ pushing # NULL /\ ~GoesFurther
  /\ next' = [next EXCEPT ![pushing] = next[p], ![p] = pushing]
  /\ prev' = [x \in Runnable |-> IF x = pushing THEN p
                                 ELSE IF x = next[p] THEN pushing ELSE prev[x]]
  /\ pushing' = NULL /\ p' = NULL
  /\ UNCHANGED <<head, wakeUpTime, now>>

(* Mutant of PopTime: time moves past that of the Runnable.                *)
PopTimeAfter == wakeUpTime[head] + 1

PopTime == wakeUpTime[head]

(* SystemState::run takes the front of the queue and pops it; the popped   *)
(* Runnable keeps its next link.                                           *)
Pop ==
  /\ pushing = NULL /\ head # NULL
  /\ prev' = [x \in Runnable |-> IF x = next[head] THEN NULL ELSE prev[x]]
  /\ head' = next[head]
  /\ now' = PopTime
  /\ UNCHANGED <<next, wakeUpTime, pushing, p>>

(* Mutant of Earliest: what runs may schedule for a time that has passed.  *)
EarliestAny == 0

(* What runs schedules for its own time or later.                          *)
Earliest == now

Next ==
  \/ \E r \in Runnable, t \in Earliest .. MaxTime : PushStart(r, t)
  \/ PushScan
  \/ PushLink
  \/ \E r \in Runnable : Remove(r)
  \/ Pop

Spec == Init /\ [][Next]_vars

-----------------------------------------------------------------------------
Members(h, v) == {r \in Runnable : v[r] # NULL \/ r = h}

(* A sorted list: pos gives every member a position, the order of the      *)
(* positions is one of the times, and the links follow it.                 *)
IsList(h, v, n, w, pos) ==
  LET In == Members(h, v)
  IN /\ \A a, b \in In : /\ pos[a] = pos[b] => a = b
                         /\ pos[a] < pos[b] => w[a] <= w[b]
     /\ h = NULL => In = {}
     /\ h # NULL => v[h] = NULL /\ \A a \in In : pos[h] <= pos[a]
     /\ \A a \in In :
          /\ n[a] = NULL => \A b \in In : pos[b] <= pos[a]
          /\ n[a] # NULL => /\ n[a] \in In /\ v[n[a]] = a /\ pos[a] < pos[n[a]]
                            /\ \A b \in In : pos[b] <= pos[a] \/ pos[n[a]] <= pos[b]
          /\ v[a] # NULL => v[a] \in In /\ n[v[a]] = a

(* The runnable at the front of the queue is one with the earliest time,   *)
(* so SystemState::run never passes over a runnable that is due.           *)
HeadIsEarliest ==
  \A r \in Runnable : Contains(r) => head # NULL /\ wakeUpTime[head] <= wakeUpTime[r]

(* Simulated time does not run backwards from one runnable to the next.    *)
TimeMovesForward == [][now <= now']_vars
=============================================================================
