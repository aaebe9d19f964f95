------------------------------ MODULE ChanLive ------------------------------
(***************************************************************************)
(* Threads that run fixed programs on the channel network, to check that   *)
(* every thread keeps making progress.  A program is a sequence of         *)
(* instructions, the ones from position Loop[t] on repeated for ever.      *)
(***************************************************************************)
EXTENDS ChanNet

CONSTANTS
  Program,  \* the instructions of each thread
  Loop,     \* where the loop of each thread starts
  Peer      \* the destination that each thread sets

VARIABLE ip  \* the position of each thread in its program

liveVars == <<vars, ip>>

LiveInit == Init /\ ip = [t \in Thread |-> 1]

Advance(t) == IF ip[t] = Len(Program[t]) THEN Loop[t] ELSE ip[t] + 1

(* One instruction of thread t.  A position moves on when the instruction  *)
(* completes: a waiteu, when the event is taken.                           *)
Step(t) ==
  LET i == Program[t][ip[t]]
  IN /\ \/ i.op = "getr" /\ GETR(t, i.chan)
        \/ i.op = "setd" /\ SETD(t, i.chan, Peer[t])
        \/ i.op = "eeu" /\ EEU(t, i.chan)
        \/ i.op = "waiteu" /\ WaitEU(t)
        \/ i \in OutInstr /\ Out(t, i)
        \/ i \in InInstr /\ In(t, i)
     /\ ip' = [x \in Thread |->
                 IF (x = t \/ pend[x] = WAITEU) /\ pend'[x] = NULL
                 THEN Advance(x) ELSE ip[x]]

LiveNext == \E t \in Thread : Step(t)

(* The run queue is ordered by time and every instruction takes time, so a *)
(* runnable thread is not passed over for ever.                            *)
LiveSpec == LiveInit /\ [][LiveNext]_liveVars /\ \A t \in Thread : WF_liveVars(Step(t))

(* Every thread starts its loop again and again: no sender is starved by   *)
(* the others at the destination they share (the queue of claims is        *)
(* first come, first served) and no wake-up is lost on the way.            *)
EveryThreadProgresses ==
  \A t \in Thread : []<>(ip[t] = Loop[t]) /\ []<>(ip[t] # Loop[t])
=============================================================================
