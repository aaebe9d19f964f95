-------------------------------- MODULE Synch --------------------------------
(***************************************************************************)
(* Thread groups and locks of one core: the synchroniser                   *)
(* (lib/Synchroniser.cpp) of one master, a lock (lib/Lock.cpp), and the    *)
(* allocation, starting, interrupting and freeing of threads               *)
(* (lib/Thread.h).                                                         *)
(*                                                                         *)
(* The pc of a thread is abstracted to what matters here: an instruction   *)
(* that may pause, the instruction before the first one of a new thread,   *)
(* an interrupt handler, or any other code.  A paused instruction is       *)
(* completed by the thread that lets it go on, which adds one to the pc.   *)
(* Simulated times are left out: every order of the threads is covered.    *)
(***************************************************************************)
EXTENDS Integers, FiniteSets, Sequences

CONSTANTS
  Thread,        \* the threads of the core
  Main,          \* the thread that boots the core, master of the group
  NULL,          \* the null pointer
  Interruptible, \* the pcs at which interrupts are enabled
  MaxInterrupts, \* bound on the interrupts of a behaviour
  MaxQueue       \* bound on the queue of the lock

SyncOps == {"msync", "mjoin", "ssync"}
PC == SyncOps \cup {"in", "start", "handler", "code"}

ASSUME SynchAssumption ==
  /\ Main \in Thread /\ NULL \notin Thread \cup {"sync", "lock"} /\ IsFiniteSet(Thread)
  /\ Interruptible \subseteq {"code", "msync", "mjoin", "ssync", "in"}
  /\ MaxInterrupts \in Nat /\ MaxQueue \in Nat

VARIABLES
  inUse, sync, ssync,      \* Thread: allocated, has a synchroniser, in ssync
  waiting, pausedOn,       \* Thread: WAITING bit, the resource paused on
  pc, spc,                 \* Thread: pc, and the pc saved by an interrupt
  slaves, numThreads,      \* Synchroniser: threads[1..], NumThreads
  numPaused, join,         \* Synchroniser: NumPaused, join
  held, queue,             \* Lock: held, threads
  holds,                   \* the threads whose in has completed, not their out
  interrupts               \* the number of interrupts so far

groupVars  == <<slaves, numThreads, numPaused, join>>
lockVars   == <<held, queue, holds>>
threadVars == <<inUse, sync, ssync, waiting, pausedOn, pc, spc>>
vars == <<threadVars, groupVars, lockVars, interrupts>>

TypeOK ==
  /\ inUse \in [Thread -> BOOLEAN] /\ sync \in [Thread -> BOOLEAN]
  /\ ssync \in [Thread -> BOOLEAN] /\ waiting \in [Thread -> BOOLEAN]
  /\ pausedOn \in [Thread -> {NULL, "sync", "lock"}]
  /\ pc \in [Thread -> PC] /\ spc \in [Thread -> PC]
  /\ slaves \subseteq Thread
  /\ numThreads \in Nat /\ numPaused \in Nat /\ join \in BOOLEAN
  /\ held \in BOOLEAN /\ queue \in Seq(Thread) /\ holds \subseteq Thread
  /\ interrupts \in Nat

(* Core: Main runs, the synchroniser and the lock have been allocated.     *)
Init ==
  /\ inUse = [t \in Thread |-> t = Main]
  /\ sync = [t \in Thread |-> FALSE]
  /\ ssync = [t \in Thread |-> t = Main]
  /\ waiting = [t \in Thread |-> FALSE]
  /\ pausedOn = [t \in Thread |-> NULL]
  /\ pc = [t \in Thread |-> "code"] /\ spc = [t \in Thread |-> "code"]
  /\ slaves = {} /\ numThreads = 1 /\ numPaused = 0 /\ join = FALSE
  /\ held = FALSE /\ queue = <<>> /\ holds = {}
  /\ interrupts = 0

-----------------------------------------------------------------------------
(* Threads.                                                                *)

Runs(t) == inUse[t] /\ ~waiting[t] /\ pc[t] # "start"

(* pc++, by the thread itself or by the one that wakes it.                 *)
Moved(p) == IF p = "handler" THEN "handler" ELSE "code"

(* pause_on: the pc stays on the instruction.                              *)
PauseOn(t, res) ==
  /\ waiting' = [waiting EXCEPT ![t] = TRUE]
  /\ pausedOn' = [pausedOn EXCEPT ![t] = res]

(* SystemState::schedule for the threads of a set.                         *)
Schedule(S) ==
  /\ waiting' = [t \in Thread |-> waiting[t] /\ t \notin S]
  /\ pausedOn' = [t \in Thread |-> IF t \in S THEN NULL ELSE pausedOn[t]]

(* The program of t comes to an instruction that may pause.  Programs use  *)
(* msync and mjoin in the master, ssync in the others, do not lock twice   *)
(* and do not synchronise or end while they hold the lock.                 *)
Comes(t, op) ==
  /\ Runs(t) /\ pc[t] = "code" /\ t \notin holds
  /\ op \in (IF t = Main THEN {"msync", "mjoin"} ELSE {"ssync"}) \cup {"in"}
  /\ pc' = [pc EXCEPT ![t] = op]
  /\ UNCHANGED <<inUse, sync, ssync, waiting, pausedOn, spc, groupVars,
                 lockVars, interrupts>>

(* getst (with the init of the pc that follows it): Thread::alloc and      *)
(* Synchroniser::addChild.  The status register is not reset.              *)
GETST(u) ==
  /\ Runs(Main) /\ pc[Main] = "code" /\ ~inUse[u]
  /\ inUse' = [inUse EXCEPT ![u] = TRUE]
  /\ sync' = [sync EXCEPT ![u] = TRUE]
  /\ ssync' = [ssync EXCEPT ![u] = TRUE]
  /\ pausedOn' = [pausedOn EXCEPT ![u] = NULL]
  /\ pc' = [pc EXCEPT ![u] = "start"]
  /\ slaves' = slaves \cup {u}
  /\ numThreads' = numThreads + 1
  /\ numPaused' = numPaused + 1
  /\ UNCHANGED <<waiting, spc, join, lockVars, interrupts>>

(* getr of a thread: it has no synchroniser.                               *)
GETR(t, u) ==
  /\ Runs(t) /\ pc[t] = "code" /\ ~inUse[u]
  /\ inUse' = [inUse EXCEPT ![u] = TRUE]
  /\ sync' = [sync EXCEPT ![u] = FALSE]
  /\ ssync' = [ssync EXCEPT ![u] = TRUE]
  /\ pausedOn' = [pausedOn EXCEPT ![u] = NULL]
  /\ pc' = [pc EXCEPT ![u] = "start"]
  /\ UNCHANGED <<waiting, spc, groupVars, lockVars, interrupts>>

(* start: a thread without synchroniser that was allocated and initialised.*)
TSTART(t, u) ==
  /\ Runs(t) /\ pc[t] = "code" /\ pc[u] = "start"
  /\ inUse[u] /\ ssync[u] /\ ~sync[u]
  /\ ssync' = [ssync EXCEPT ![u] = FALSE]
  /\ pc' = [pc EXCEPT ![u] = Moved(@)]
  /\ Schedule({u})
  /\ UNCHANGED <<inUse, sync, spc, groupVars, lockVars, interrupts>>

(* freet: the thread ends; a thread with a synchroniser ends by mjoin.     *)
FREET(t) ==
  /\ Runs(t) /\ pc[t] = "code" /\ t # Main /\ ~sync[t] /\ t \notin holds
  /\ inUse' = [inUse EXCEPT ![t] = FALSE]
  /\ waiting' = [waiting EXCEPT ![t] = TRUE]
  /\ UNCHANGED <<sync, ssync, pausedOn, pc, spc, groupVars, lockVars, interrupts>>

(* Mutants of Cancelled: the synchroniser still counts the thread; it      *)
(* counts one less whether or not the thread was paused.                   *)
CancelledNot(t) == numPaused

CancelledAlways(t) == numPaused - 1

(* Resource::cancel of what t is paused on: only a synchroniser does       *)
(* something.  NumPaused is unsigned; it must not be 0 here.               *)
Cancelled(t) == IF waiting[t] /\ pausedOn[t] = "sync" THEN numPaused - 1 ELSE numPaused

(* takeEvent with an interrupt.  Programs disable interrupts in a thread   *)
(* before it ends, and handlers neither pause nor synchronise.             *)
Interrupt(t) ==
  /\ inUse[t] /\ pc[t] \in Interruptible /\ interrupts < MaxInterrupts
  /\ numPaused' = Cancelled(t)
  /\ Schedule(IF waiting[t] THEN {t} ELSE {})
  /\ spc' = [spc EXCEPT ![t] = pc[t]]
  /\ pc' = [pc EXCEPT ![t] = "handler"]
  /\ interrupts' = interrupts + 1
  /\ UNCHANGED <<inUse, sync, ssync, slaves, numThreads, join, lockVars>>

KRET(t) ==
  /\ Runs(t) /\ pc[t] = "handler"
  /\ pc' = [pc EXCEPT ![t] = spc[t]]
  /\ UNCHANGED <<inUse, sync, ssync, waiting, pausedOn, spc, groupVars,
                 lockVars, interrupts>>

-----------------------------------------------------------------------------
(* Synchroniser::sync, executed by t at one of SyncOps.                    *)

Members == slaves \cup {Main}

AtSync(t) == Runs(t) /\ pc[t] \in SyncOps /\ (pc[t] = "ssync" => sync[t])

(* Mutant of MustPause: one arrival is not waited for.                     *)
MustPauseLess == numPaused + 2 < numThreads

MustPause == numPaused + 1 < numThreads

(* mjoin sets join before it synchronises.                                 *)
Joins(t) == join \/ pc[t] = "mjoin"

SyncPause(t) ==
  /\ AtSync(t) /\ MustPause
  /\ join' = Joins(t)
  /\ numPaused' = numPaused + 1
  /\ ssync' = [ssync EXCEPT ![t] = @ \/ t # Main]
  /\ PauseOn(t, "sync")
  /\ UNCHANGED <<inUse, sync, pc, spc, slaves, numThreads, lockVars, interrupts>>

(* The last to arrive lets all go on: pc++ and schedule.  Its own ssync    *)
(* stays as it is.                                                         *)
SyncRelease(t) ==
  /\ AtSync(t) /\ ~MustPause /\ ~Joins(t)
  /\ numPaused' = 0
  /\ ssync' = [u \in Thread |-> ssync[u] /\ u \notin slaves \ {t}]
  /\ pc' = [u \in Thread |-> IF u \in Members \cup {t} THEN Moved(pc[u]) ELSE pc[u]]
  /\ Schedule(Members \ {t})
  /\ UNCHANGED <<inUse, sync, spc, slaves, numThreads, join, lockVars, interrupts>>

(* Mutant of JoinReset: the joined threads stay on the list.               *)
JoinResetLess == slaves' = slaves /\ numThreads' = 1

JoinReset == slaves' = {} /\ numThreads' = 1

(* The master is the last to arrive at the join.                           *)
JoinByMaster(t) ==
  /\ AtSync(t) /\ ~MustPause /\ Joins(t) /\ t = Main
  /\ numPaused' = 0 /\ join' = FALSE /\ JoinReset
  /\ inUse' = [u \in Thread |-> inUse[u] /\ u \notin slaves]
  /\ pc' = [pc EXCEPT ![t] = Moved(@)]
  /\ UNCHANGED <<sync, ssync, waiting, pausedOn, spc, lockVars, interrupts>>

(* Mutant of WakesMaster: the master is left to wait.                      *)
WakesNobody == {}

WakesMaster == {Main}

(* A slave is the last: it wakes the master, whose mjoin is executed again *)
(* for a group of one, and ends (SYNC_KILL).                               *)
JoinBySlave(t) ==
  /\ AtSync(t) /\ ~MustPause /\ Joins(t) /\ t # Main
  /\ numPaused' = 0 /\ join' = FALSE /\ JoinReset
  /\ inUse' = [u \in Thread |-> inUse[u] /\ u \notin slaves \cup {t}]
  /\ waiting' = [u \in Thread |-> (waiting[u] /\ u \notin WakesMaster) \/ u = t]
  /\ pausedOn' = [u \in Thread |-> IF u \in WakesMaster THEN NULL ELSE pausedOn[u]]
  /\ UNCHANGED <<sync, ssync, pc, spc, lockVars, interrupts>>

(* ssync of a thread without synchroniser: descheduled for good.           *)
SSyncAlone(t) ==
  /\ Runs(t) /\ pc[t] = "ssync" /\ ~sync[t]
  /\ waiting' = [waiting EXCEPT ![t] = TRUE]
  /\ UNCHANGED <<inUse, sync, ssync, pausedOn, pc, spc, groupVars, lockVars,
                 interrupts>>

Sync(t) == SyncPause(t) \/ SyncRelease(t) \/ JoinByMaster(t) \/ JoinBySlave(t)
           \/ SSyncAlone(t)

-----------------------------------------------------------------------------
(* The lock.                                                               *)

LockTaken(t) ==
  /\ Runs(t) /\ pc[t] = "in" /\ ~held
  /\ held' = TRUE /\ holds' = holds \cup {t}
  /\ pc' = [pc EXCEPT ![t] = Moved(@)]
  /\ UNCHANGED <<inUse, sync, ssync, waiting, pausedOn, spc, groupVars, queue,
                 interrupts>>

(* Mutant of Waiters: the last to come is the first to be served.          *)
WaitersFirst(t) == <<t>> \o queue

Waiters(t) == Append(queue, t)

LockWait(t) ==
  /\ Runs(t) /\ pc[t] = "in" /\ held /\ Len(queue) < MaxQueue
  /\ queue' = Waiters(t)
  /\ PauseOn(t, "lock")
  /\ UNCHANGED <<inUse, sync, ssync, pc, spc, groupVars, held, holds, interrupts>>

(* Mutant of HeldAfter: the lock is free as soon as its holder releases it.*)
HeldAfterFree == FALSE

(* Lock::out: held stays set when there is a thread to hand the lock to.   *)
HeldAfter == queue # <<>>

LockFreed(t) ==
  /\ Runs(t) /\ pc[t] = "code" /\ t \in holds /\ queue = <<>>
  /\ held' = HeldAfter /\ holds' = holds \ {t}
  /\ UNCHANGED <<threadVars, groupVars, queue, interrupts>>

(* The lock goes to the thread that waited longest: its in is completed,   *)
(* if that is where its pc still is.                                       *)
LockHandedOver(t) ==
  /\ Runs(t) /\ pc[t] = "code" /\ t \in holds /\ queue # <<>>
  /\ queue' = Tail(queue)
  /\ LET next == Head(queue)
     IN /\ pc' = [pc EXCEPT ![next] = Moved(@)]
        /\ holds' = (holds \ {t}) \cup (IF pc[next] = "in" THEN {next} ELSE {})
        /\ Schedule({next})
  /\ held' = HeldAfter
  /\ UNCHANGED <<inUse, sync, ssync, spc, groupVars, interrupts>>

Lock(t) == LockTaken(t) \/ LockWait(t) \/ LockFreed(t) \/ LockHandedOver(t)

-----------------------------------------------------------------------------
Next ==
  \/ \E u \in Thread : GETST(u)
  \/ \E t, u \in Thread : GETR(t, u) \/ TSTART(t, u)
  \/ \E t \in Thread :
       \/ \E op \in PC : Comes(t, op)
       \/ FREET(t) \/ Interrupt(t) \/ KRET(t) \/ Sync(t) \/ Lock(t)

Spec == Init /\ [][Next]_vars

(* The loop of SystemState::run gives every runnable thread its turn; a    *)
(* handler returns, and a program that took the lock releases it.          *)
FairSpec == Spec /\ \A t \in Thread : WF_vars(Lock(t)) /\ WF_vars(KRET(t))

-----------------------------------------------------------------------------
(* Properties.                                                             *)

(* The threads that the synchroniser counts: new, or paused on it.         *)
Arrived == {t \in Members : pc[t] = "start" \/ pausedOn[t] = "sync"}

(* Synchroniser.h: NumPaused is the "Number of paused threads" of the      *)
(* group, whatever was interrupted, and the last thread never pauses.      *)
PausedCount ==
  /\ numPaused = Cardinality(Arrived)
  /\ numPaused < numThreads

(* The list of the synchroniser and the pointers of the threads agree: a   *)
(* joined thread is off the list before it can be allocated again, and     *)
(* nobody is on the list twice.                                            *)
GroupConsistent ==
  /\ slaves = {t \in Thread : inUse[t] /\ sync[t]}
  /\ numThreads = Cardinality(slaves) + 1

Passes(t) == pc[t] \in SyncOps \cup {"start"} /\ pc'[t] = "code" /\ inUse[t]

(* Synchroniser::sync moves the pc of every thread of the group without    *)
(* looking at it.  No thread passes a barrier before all have come to it,  *)
(* and at a join all the slaves end: no pc is moved elsewhere.             *)
BarrierStep ==
  /\ (\E t \in Members : Passes(t)) => \A t \in Members : Passes(t) \/ ~inUse'[t]
  /\ \A t \in slaves : ~inUse'[t] => \A u \in slaves : ~inUse'[u] /\ pc[u] \in {"ssync", "start"}

BarrierTogether == [][BarrierStep]_vars

(* Lock.h: held says whether "the lock [is] currently held by a thread";   *)
(* at most one thread holds it, also while it is handed over.              *)
LockHeld ==
  /\ held <=> holds # {}
  /\ \A t, u \in holds : t = u

(* The master and the slaves, the holder and the waiters never all wait    *)
(* for each other: some thread can run.                                    *)
SomeoneRuns == \E t \in Thread : Runs(t)

(* Every thread that asks for the lock gets it.                            *)
LockGranted == \A t \in Thread : pc[t] = "in" ~> t \in holds
=============================================================================
