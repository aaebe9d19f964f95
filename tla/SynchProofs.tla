---------------------------- MODULE SynchProofs ----------------------------
(***************************************************************************)
(* Proofs about Synch, for any number of threads and of interrupts, when   *)
(* interrupts are not enabled in threads that wait for the lock.           *)
(***************************************************************************)
EXTENDS Synch, FiniteSetTheorems, TLAPS

LockUninterrupted == "in" \notin Interruptible

(* Each thread is at instructions of its own part, and one in a handler    *)
(* was interrupted where it may be.                                        *)
PcInv ==
  \A t \in Thread :
    /\ {pc[t], spc[t]} \subseteq (IF t = Main THEN {"msync", "mjoin", "in", "code", "handler"}
                                  ELSE {"ssync", "in", "code", "handler", "start"})
    /\ spc[t] \notin {"start", "handler"}
    /\ pc[t] = "handler" => spc[t] # "in"

(* A thread waits only where it paused, and is registered for it.          *)
WaitInv ==
  \A t \in Thread : inUse[t] =>
    /\ pc[t] = "start" => pausedOn[t] = NULL
    /\ pausedOn[t] = "sync" => waiting[t] /\ pc[t] \in SyncOps /\ t \in Members
    /\ waiting[t] /\ pc[t] # "start" => pc[t] \in SyncOps \cup {"in"}
    /\ waiting[t] /\ pc[t] \in SyncOps /\ t \in Members => pausedOn[t] = "sync"

(* The group is Main and the threads that point to the synchroniser.       *)
GroupInv ==
  /\ inUse[Main] /\ ~sync[Main]
  /\ GroupConsistent

(* The holder of the lock is not paused; who waits for it is in the queue, *)
(* once, and the queue is empty when the lock is free.                     *)
LockInv ==
  /\ LockHeld
  /\ \A t \in holds : inUse[t] /\ ~waiting[t] /\ "code" \in {pc[t], spc[t]} /\ pc[t] \in {"code", "handler"}
  /\ \A k \in 1 .. Len(queue) : inUse[queue[k]] /\ waiting[queue[k]] /\ pc[queue[k]] = "in"
  /\ \A j, k \in 1 .. Len(queue) : queue[j] = queue[k] => j = k
  /\ queue # <<>> => held
  /\ \A t \in Thread : inUse[t] /\ waiting[t] /\ pc[t] = "in" =>
       \E k \in 1 .. Len(queue) : queue[k] = t

SInv == TypeOK /\ PcInv /\ WaitInv /\ GroupInv /\ PausedCount /\ LockInv

-----------------------------------------------------------------------------
(* The sets that the synchroniser counts are finite, and the threads that  *)
(* have arrived are among the members.                                     *)
LEMMA Counting ==
  ASSUME SInv
  PROVE  /\ IsFiniteSet(slaves) /\ IsFiniteSet(Members) /\ IsFiniteSet(Arrived)
         /\ Main \notin slaves /\ Main \in Thread /\ Arrived \subseteq Members
         /\ Cardinality(Members) = numThreads /\ numThreads > 0
<1>1. slaves \subseteq Thread /\ Main \notin slaves /\ Main \in Thread
  BY SynchAssumption DEF SInv, TypeOK, GroupInv, GroupConsistent
<1>2. IsFiniteSet(slaves)
  BY <1>1, FS_Subset, SynchAssumption
<1>3. IsFiniteSet(Members) /\ Cardinality(Members) = Cardinality(slaves) + 1
  BY <1>1, <1>2, FS_AddElement DEF Members
<1>4. Arrived \subseteq Members
  BY DEF Arrived
<1>5. IsFiniteSet(Arrived)
  BY <1>3, <1>4, FS_Subset
<1>6. numThreads = Cardinality(slaves) + 1 /\ Cardinality(slaves) \in Nat
  BY <1>2, FS_CardinalityType DEF SInv, GroupInv, GroupConsistent
<1> QED
  BY <1>1, <1>2, <1>3, <1>4, <1>5, <1>6

(* A thread of the group that finds nobody to wait for is the last one:    *)
(* every other member is new or paused on the synchroniser.                *)
LEMMA LastToArrive ==
  ASSUME SInv, NEW t \in Members, t \notin Arrived, ~MustPause
  PROVE  \A x \in Members : x # t =>
           inUse[x] /\ (pc[x] = "start" \/ (waiting[x] /\ pc[x] \in SyncOps))
<1>1. /\ IsFiniteSet(Members \ {t})
      /\ Cardinality(Members \ {t}) = numThreads - 1
  BY Counting, FS_RemoveElement
<1>2. numPaused = numThreads - 1
  BY DEF SInv, TypeOK, PausedCount, MustPause
<1>3. Arrived \subseteq Members \ {t}
  BY DEF Arrived
<1>4. Cardinality(Arrived) = Cardinality(Members \ {t})
  BY <1>1, <1>2 DEF SInv, PausedCount
<1>5. Arrived = Members \ {t}
  BY <1>1, <1>3, <1>4, FS_Subset
<1>6. \A x \in Arrived : pc[x] = "start" \/ pausedOn[x] = "sync"
  BY DEF Arrived
<1>7. \A x \in Members : inUse[x] /\ x \in Thread
  BY SynchAssumption DEF SInv, TypeOK, GroupInv, GroupConsistent, Members
<1>8. \A x \in Members : pausedOn[x] = "sync" => waiting[x] /\ pc[x] \in SyncOps
  BY <1>7 DEF SInv, WaitInv
<1> QED
  BY <1>5, <1>6, <1>7, <1>8

(* A step that leaves the lock alone, and touches only members that        *)
(* neither hold the lock nor wait for it, preserves the part about it.     *)
LEMMA LockElsewhere ==
  ASSUME SInv, held' = held, queue' = queue, holds' = holds,
         \A x \in Members : pc[x] # "in" /\ x \notin holds,
         \A x \in Members : pc'[x] # "in",
         \A x \in Thread \ Members : /\ inUse'[x] = inUse[x] /\ waiting'[x] = waiting[x]
                                    /\ pc'[x] = pc[x] /\ spc'[x] = spc[x]
  PROVE  LockInv'
<1>2. holds \subseteq Thread /\ \A k \in 1 .. Len(queue) : queue[k] \in Thread
  BY DEF SInv, TypeOK
<1>3. \A k \in 1 .. Len(queue) : pc[queue[k]] = "in" /\ queue[k] \notin Members
  BY <1>2 DEF SInv, LockInv
<1>4. \A x \in holds : x \in Thread \ Members
  BY <1>2
<1> QED
  BY <1>2, <1>3, <1>4 DEF SInv, LockInv, LockHeld

(* The initial state: Main alone, the lock free.                           *)
LEMMA InitSInv == Init => SInv
<1> SUFFICES ASSUME Init
             PROVE  SInv
  OBVIOUS
<1>1. TypeOK
  <2>1. \A t \in Thread : "code" \in PC /\ NULL \in {NULL, "sync", "lock"}
    BY DEF PC
  <2>2. /\ inUse \in [Thread -> BOOLEAN] /\ sync \in [Thread -> BOOLEAN]
        /\ ssync \in [Thread -> BOOLEAN] /\ waiting \in [Thread -> BOOLEAN]
    BY DEF Init
  <2>3. pausedOn \in [Thread -> {NULL, "sync", "lock"}] /\ pc \in [Thread -> PC] /\ spc \in [Thread -> PC]
    BY <2>1 DEF Init
  <2>4. numThreads \in Nat /\ numPaused \in Nat /\ interrupts \in Nat /\ queue \in Seq(Thread)
    BY DEF Init
  <2>5. slaves \subseteq Thread /\ join \in BOOLEAN /\ held \in BOOLEAN /\ holds \subseteq Thread
    BY Zenon DEF Init
  <2> QED
    BY <2>2, <2>3, <2>4, <2>5 DEF TypeOK
<1>2. /\ inUse[Main] /\ ~sync[Main]
      /\ \A t \in Thread : /\ (inUse[t] <=> t = Main) /\ ~sync[t] /\ ~waiting[t]
                           /\ pausedOn[t] = NULL /\ pc[t] = "code" /\ spc[t] = "code"
  BY SynchAssumption, Zenon DEF Init
<1>3. PcInv
  BY <1>2 DEF PcInv
<1>4. WaitInv
  BY <1>2, SynchAssumption DEF WaitInv
<1>6. LockInv
  BY <1>2 DEF Init, LockInv, LockHeld
<1>7. GroupInv
  BY <1>2, FS_EmptySet DEF Init, GroupInv, GroupConsistent
<1>8. Arrived = {}
  BY <1>2, SynchAssumption DEF Init, Arrived, Members
<1>9. PausedCount
  BY <1>8, FS_EmptySet DEF Init, PausedCount
<1> QED
  BY <1>1, <1>3, <1>4, <1>6, <1>7, <1>9 DEF SInv

(* getst adds a child that counts as paused.                               *)
LEMMA GETSTStep ==
  ASSUME LockUninterrupted, SInv, NEW u \in Thread, GETST(u)
  PROVE  SInv'
<1> USE SynchAssumption DEF GETST, Runs, groupVars, lockVars, threadVars
<1>1. TypeOK'
  BY DEF SInv, TypeOK, PC, SyncOps
<1>2. PcInv'
  BY DEF SInv, TypeOK, PcInv, LockUninterrupted
<1>3. WaitInv'
  BY DEF SInv, TypeOK, PcInv, WaitInv, GroupInv, GroupConsistent, Members, SyncOps
<1>4. GroupInv'
  <2>0. u \notin slaves /\ slaves' = slaves \cup {u}
    BY DEF SInv, GroupInv, GroupConsistent
  <2>1. slaves' = {x \in Thread : inUse'[x] /\ sync'[x]}
    <3>1. inUse'[u] /\ sync'[u] /\ \A x \in Thread : x # u => inUse'[x] = inUse[x] /\ sync'[x] = sync[x]
      BY DEF SInv, TypeOK
    <3>2. \A x \in Thread : x \in slaves <=> inUse[x] /\ sync[x]
      BY DEF SInv, GroupInv, GroupConsistent
    <3>3. slaves \subseteq Thread
      BY DEF SInv, TypeOK
    <3> HIDE DEF GETST
    <3> QED BY <2>0, <3>1, <3>2, <3>3
  <2>2. Cardinality(slaves') = Cardinality(slaves) + 1
    BY ZenonT(60), <2>0, Counting, FS_AddElement
  <2>3. inUse'[Main] /\ ~sync'[Main]
    BY DEF SInv, TypeOK, GroupInv
  <2>4. numThreads' = Cardinality(slaves') + 1
    BY <2>2 DEF SInv, TypeOK, GroupInv, GroupConsistent
  <2> QED
    BY <2>1, <2>3, <2>4 DEF GroupInv, GroupConsistent
<1>5. Arrived' = Arrived \cup {u} /\ u \notin Arrived
  BY DEF SInv, TypeOK, PcInv, WaitInv, GroupInv, GroupConsistent, Members, Arrived, SyncOps
<1>6. PausedCount'
  <2>1. Cardinality(Arrived') = Cardinality(Arrived) + 1
    BY <1>5, Counting, FS_AddElement, Zenon
  <2> QED
    BY <2>1 DEF SInv, TypeOK, PausedCount
<1>7. LockInv'
  BY DEF SInv, TypeOK, PcInv, WaitInv, LockInv, LockHeld, LockUninterrupted, SyncOps
<1> QED
  BY <1>1, <1>2, <1>3, <1>4, <1>6, <1>7 DEF SInv

(* getr allocates a thread outside the group.                              *)
LEMMA GETRStep ==
  ASSUME LockUninterrupted, SInv, NEW t \in Thread, NEW u \in Thread, GETR(t, u)
  PROVE  SInv'
<1> USE SynchAssumption DEF GETR, Runs, groupVars, lockVars, threadVars
<1>1. TypeOK'
  BY DEF SInv, TypeOK, PC, SyncOps
<1>2. PcInv'
  BY DEF SInv, TypeOK, PcInv, GroupInv, LockUninterrupted
<1>3. WaitInv'
  BY DEF SInv, TypeOK, PcInv, WaitInv, GroupInv, GroupConsistent, Members, SyncOps
<1>4. GroupInv'
  BY DEF SInv, TypeOK, GroupInv, GroupConsistent
<1>5. Arrived' = Arrived
  BY DEF SInv, TypeOK, PcInv, WaitInv, GroupInv, GroupConsistent, Members, Arrived, SyncOps
<1>6. PausedCount'
  BY <1>5 DEF SInv, PausedCount
<1>7. LockInv'
  BY DEF SInv, TypeOK, PcInv, WaitInv, LockInv, LockHeld, LockUninterrupted, SyncOps
<1> QED
  BY <1>1, <1>2, <1>3, <1>4, <1>6, <1>7 DEF SInv

(* start concerns only threads outside the group.                          *)
LEMMA TSTARTStep ==
  ASSUME LockUninterrupted, SInv, NEW t \in Thread, NEW u \in Thread, TSTART(t, u)
  PROVE  SInv'
<1> USE SynchAssumption DEF TSTART, Moved, Schedule, Runs, groupVars, lockVars, threadVars
<1>1. TypeOK'
  BY DEF SInv, TypeOK, PC, SyncOps
<1>2. PcInv'
  BY DEF SInv, TypeOK, PcInv, LockUninterrupted
<1>3. WaitInv'
  BY DEF SInv, TypeOK, PcInv, WaitInv, GroupInv, GroupConsistent, Members, SyncOps
<1>4. GroupInv'
  BY DEF SInv, TypeOK, GroupInv, GroupConsistent
<1>5. Arrived' = Arrived
  BY DEF SInv, TypeOK, PcInv, WaitInv, GroupInv, GroupConsistent, Members, Arrived, SyncOps
<1>6. PausedCount'
  BY <1>5 DEF SInv, PausedCount
<1>7. LockInv'
  BY SMTT(60) DEF SInv, TypeOK, PcInv, WaitInv, LockInv, LockHeld, LockUninterrupted, SyncOps
<1> QED
  BY <1>1, <1>2, <1>3, <1>4, <1>6, <1>7 DEF SInv

(* Coming to an instruction pauses nobody.                                 *)
LEMMA ComesStep ==
  ASSUME LockUninterrupted, SInv, NEW t \in Thread, NEW op \in PC, Comes(t, op)
  PROVE  SInv'
<1> USE SynchAssumption DEF Comes, Runs, groupVars, lockVars, threadVars
<1>1. TypeOK'
  BY DEF SInv, TypeOK, PC, SyncOps
<1>2. PcInv'
  BY DEF SInv, TypeOK, PcInv, LockUninterrupted
<1>3. WaitInv'
  BY DEF SInv, TypeOK, PcInv, WaitInv, GroupInv, GroupConsistent, Members, SyncOps
<1>4. GroupInv'
  BY DEF SInv, TypeOK, GroupInv, GroupConsistent
<1>5. Arrived' = Arrived
  BY DEF SInv, TypeOK, PcInv, WaitInv, GroupInv, GroupConsistent, Members, Arrived, SyncOps
<1>6. PausedCount'
  BY <1>5 DEF SInv, PausedCount
<1>7. LockInv'
  BY SMTT(60) DEF SInv, TypeOK, PcInv, WaitInv, LockInv, LockHeld, LockUninterrupted, SyncOps
<1> QED
  BY <1>1, <1>2, <1>3, <1>4, <1>6, <1>7 DEF SInv

(* freet ends a thread outside the group.                                  *)
LEMMA FREETStep ==
  ASSUME LockUninterrupted, SInv, NEW t \in Thread, FREET(t)
  PROVE  SInv'
<1> USE SynchAssumption DEF FREET, Runs, groupVars, lockVars, threadVars
<1>1. TypeOK'
  BY DEF SInv, TypeOK, PC, SyncOps
<1>2. PcInv'
  BY DEF SInv, TypeOK, PcInv, LockUninterrupted
<1>3. WaitInv'
  BY DEF SInv, TypeOK, PcInv, WaitInv, GroupInv, GroupConsistent, Members, SyncOps
<1>4. GroupInv'
  BY DEF SInv, TypeOK, GroupInv, GroupConsistent
<1>5. Arrived' = Arrived
  BY DEF SInv, TypeOK, PcInv, WaitInv, GroupInv, GroupConsistent, Members, Arrived, SyncOps
<1>6. PausedCount'
  BY <1>5 DEF SInv, PausedCount
<1>7. LockInv'
  BY DEF SInv, TypeOK, PcInv, WaitInv, LockInv, LockHeld, LockUninterrupted, SyncOps
<1> QED
  BY <1>1, <1>2, <1>3, <1>4, <1>6, <1>7 DEF SInv

(* An interrupt takes a paused member out of the count (cancel).           *)
LEMMA InterruptStep ==
  ASSUME LockUninterrupted, SInv, NEW t \in Thread, Interrupt(t)
  PROVE  SInv'
<1> USE SynchAssumption DEF Interrupt, Cancelled, Schedule, Runs, groupVars, lockVars, threadVars
<1>a. waiting[t] /\ pausedOn[t] = "sync" => t \in Arrived /\ numPaused - 1 \in Nat
  <2> SUFFICES ASSUME waiting[t], pausedOn[t] = "sync"
               PROVE  t \in Arrived /\ numPaused - 1 \in Nat
    OBVIOUS
  <2>1. t \in Arrived
    BY DEF SInv, WaitInv, Arrived
  <2>2. numPaused # 0
    BY <2>1, Counting, FS_EmptySet DEF SInv, PausedCount
  <2> QED
    BY <2>1, <2>2 DEF SInv, TypeOK
<1>1. TypeOK'
  BY <1>a DEF SInv, TypeOK, PC, SyncOps
<1>2. PcInv'
  BY DEF SInv, TypeOK, PcInv, LockUninterrupted
<1>3. WaitInv'
  BY SMTT(60) DEF SInv, TypeOK, PcInv, WaitInv, GroupInv, GroupConsistent, Members, SyncOps
<1>4. GroupInv'
  BY DEF SInv, TypeOK, GroupInv, GroupConsistent
<1>5. ASSUME waiting[t] /\ pausedOn[t] = "sync"
      PROVE  PausedCount'
  <2>1. Arrived' = Arrived \ {t}
    BY <1>5 DEF SInv, TypeOK, PcInv, Members, Arrived
  <2>2. Cardinality(Arrived') = Cardinality(Arrived) - 1
    BY <2>1, <1>a, <1>5, Counting, FS_RemoveElement, Zenon
  <2> QED
    BY <1>5, <2>2 DEF SInv, TypeOK, PausedCount
<1>6. ASSUME ~(waiting[t] /\ pausedOn[t] = "sync")
      PROVE  PausedCount'
  <2>1. Arrived' = Arrived
    BY <1>6 DEF SInv, TypeOK, PcInv, WaitInv, Members, Arrived, SyncOps
  <2> QED
    BY <1>6, <2>1 DEF SInv, PausedCount
<1>b. PausedCount'
  BY <1>5, <1>6
<1>7. LockInv'
  BY SMTT(60) DEF SInv, TypeOK, PcInv, WaitInv, LockInv, LockHeld, LockUninterrupted, SyncOps
<1> QED
  BY <1>1, <1>2, <1>3, <1>4, <1>b, <1>7 DEF SInv

(* kret goes back to the instruction that was interrupted.                 *)
LEMMA KRETStep ==
  ASSUME LockUninterrupted, SInv, NEW t \in Thread, KRET(t)
  PROVE  SInv'
<1> USE SynchAssumption DEF KRET, Runs, groupVars, lockVars, threadVars
<1>1. TypeOK'
  BY DEF SInv, TypeOK, PC, SyncOps
<1>2. PcInv'
  BY DEF SInv, TypeOK, PcInv, LockUninterrupted
<1>3. WaitInv'
  BY SMTT(60) DEF SInv, TypeOK, PcInv, WaitInv, GroupInv, GroupConsistent, Members, SyncOps
<1>4. GroupInv'
  BY DEF SInv, TypeOK, GroupInv, GroupConsistent
<1>5. Arrived' = Arrived
  BY DEF SInv, TypeOK, PcInv, WaitInv, GroupInv, GroupConsistent, Members, Arrived, SyncOps
<1>6. PausedCount'
  BY <1>5 DEF SInv, PausedCount
<1>7. LockInv'
  BY DEF SInv, TypeOK, PcInv, WaitInv, LockInv, LockHeld, LockUninterrupted, SyncOps
<1> QED
  BY <1>1, <1>2, <1>3, <1>4, <1>6, <1>7 DEF SInv

(* A thread that is not the last at a barrier pauses.                      *)
LEMMA SyncPauseStep ==
  ASSUME LockUninterrupted, SInv, NEW t \in Thread, SyncPause(t)
  PROVE  SInv'
<1> USE SynchAssumption DEF SyncPause, AtSync, MustPause, Joins, PauseOn, Runs, groupVars, lockVars, threadVars
<1>1. TypeOK'
  BY DEF SInv, TypeOK, PC, SyncOps
<1>2. PcInv'
  BY DEF SInv, TypeOK, PcInv, LockUninterrupted
<1>3. WaitInv'
  BY SMTT(120) DEF SInv, TypeOK, PcInv, WaitInv, GroupInv, GroupConsistent, Members, SyncOps
<1>4. GroupInv'
  BY DEF SInv, TypeOK, GroupInv, GroupConsistent
<1>5. Arrived' = Arrived \cup {t} /\ t \notin Arrived
  BY SMTT(60) DEF SInv, TypeOK, PcInv, WaitInv, GroupInv, GroupConsistent, Members, Arrived, SyncOps
<1>6. PausedCount'
  <2>1. Cardinality(Arrived') = Cardinality(Arrived) + 1
    BY <1>5, Counting, FS_AddElement, Zenon
  <2> QED
    BY <2>1 DEF SInv, TypeOK, PausedCount
<1>7. LockInv'
  BY SMTT(60) DEF SInv, TypeOK, PcInv, WaitInv, LockInv, LockHeld, LockUninterrupted, SyncOps
<1> QED
  BY <1>1, <1>2, <1>3, <1>4, <1>6, <1>7 DEF SInv

(* The last at a barrier lets all go on; nobody is left to count.          *)
LEMMA SyncReleaseStep ==
  ASSUME LockUninterrupted, SInv, NEW t \in Thread, SyncRelease(t)
  PROVE  SInv'
<1> USE SynchAssumption DEF SyncRelease, AtSync, Joins, Moved, Schedule, Runs, groupVars, lockVars, threadVars
<1>a. t \in Members /\ t \notin Arrived /\ t \in Thread
  BY DEF SInv, TypeOK, PcInv, WaitInv, GroupInv, GroupConsistent, Members, Arrived, SyncOps
<1>b. \A x \in Members : x # t => inUse[x] /\ (pc[x] = "start" \/ (waiting[x] /\ pc[x] \in SyncOps))
  BY <1>a, LastToArrive
<1>1. TypeOK'
  BY DEF SInv, TypeOK, PC, SyncOps
<1>2. PcInv'
  BY DEF SInv, TypeOK, PcInv, LockUninterrupted
<1>3. WaitInv'
  BY DEF SInv, TypeOK, PcInv, WaitInv, GroupInv, GroupConsistent, Members, SyncOps
<1>4. GroupInv'
  BY DEF SInv, TypeOK, GroupInv, GroupConsistent
<1>5. Arrived' = {}
  BY SMTT(60), <1>a, <1>b DEF SInv, TypeOK, PcInv, WaitInv, GroupInv, GroupConsistent, Members, Arrived, SyncOps
<1>6. PausedCount'
  <2>1. numPaused' = 0 /\ numThreads' > 0
    BY Counting
  <2> QED
    BY <1>5, <2>1, FS_EmptySet DEF PausedCount
<1>7. LockInv'
  <2>1. \A x \in Members : pc[x] # "in" /\ x \notin holds
    BY <1>a, <1>b DEF SInv, LockInv, SyncOps
  <2>2. \A x \in Members : pc'[x] # "in"
    BY <2>1 DEF SInv, TypeOK, Members
  <2>3. \A x \in Thread \ Members : /\ inUse'[x] = inUse[x] /\ waiting'[x] = waiting[x]
                                    /\ pc'[x] = pc[x] /\ spc'[x] = spc[x]
    BY <1>a DEF SInv, TypeOK, Members
  <2>4. held' = held /\ queue' = queue /\ holds' = holds
    OBVIOUS
  <2> QED
    BY <2>1, <2>2, <2>3, <2>4, LockElsewhere
<1> QED
  BY <1>1, <1>2, <1>3, <1>4, <1>6, <1>7 DEF SInv

(* The master is the last at a join and frees the slaves.                  *)
LEMMA JoinByMasterStep ==
  ASSUME LockUninterrupted, SInv, NEW t \in Thread, JoinByMaster(t)
  PROVE  SInv'
<1> USE SynchAssumption DEF JoinByMaster, AtSync, JoinReset, Moved, Runs, groupVars, lockVars, threadVars
<1>a. t \in Members /\ t \notin Arrived /\ t \in Thread
  BY DEF SInv, TypeOK, PcInv, WaitInv, GroupInv, GroupConsistent, Members, Arrived, SyncOps
<1>b. \A x \in Members : x # t => inUse[x] /\ (pc[x] = "start" \/ (waiting[x] /\ pc[x] \in SyncOps))
  BY <1>a, LastToArrive
<1>1. TypeOK'
  BY Zenon DEF SInv, TypeOK, PC, SyncOps
<1>2. PcInv'
  BY DEF SInv, TypeOK, PcInv, LockUninterrupted
<1>3. WaitInv'
  BY DEF SInv, TypeOK, PcInv, WaitInv, GroupInv, GroupConsistent, Members, SyncOps
<1>4. GroupInv'
  <2>1. slaves' = {x \in Thread : inUse'[x] /\ sync'[x]} /\ inUse'[Main] /\ ~sync'[Main]
    BY <1>a DEF SInv, TypeOK, GroupInv, GroupConsistent, Members
  <2> QED
    BY <2>1, FS_EmptySet DEF GroupInv, GroupConsistent
<1>5. Arrived' = {}
  BY <1>a, <1>b DEF SInv, TypeOK, PcInv, WaitInv, GroupInv, GroupConsistent, Members, Arrived, SyncOps
<1>6. PausedCount'
  <2>1. numPaused' = 0 /\ numThreads' > 0
    BY Counting
  <2> QED
    BY <1>5, <2>1, FS_EmptySet DEF PausedCount
<1>7. LockInv'
  <2>1. \A x \in Members : pc[x] # "in" /\ x \notin holds
    BY <1>a, <1>b DEF SInv, LockInv, SyncOps
  <2>2. \A x \in Members : pc'[x] # "in"
    BY <2>1 DEF SInv, TypeOK, Members
  <2>3. \A x \in Thread \ Members : /\ inUse'[x] = inUse[x] /\ waiting'[x] = waiting[x]
                                    /\ pc'[x] = pc[x] /\ spc'[x] = spc[x]
    BY <1>a DEF SInv, TypeOK, Members
  <2>4. held' = held /\ queue' = queue /\ holds' = holds
    OBVIOUS
  <2> QED
    BY <2>1, <2>2, <2>3, <2>4, LockElsewhere
<1> QED
  BY <1>1, <1>2, <1>3, <1>4, <1>6, <1>7 DEF SInv

(* A slave is the last at a join, wakes the master and ends.               *)
LEMMA JoinBySlaveStep ==
  ASSUME LockUninterrupted, SInv, NEW t \in Thread, JoinBySlave(t)
  PROVE  SInv'
<1> USE SynchAssumption DEF JoinBySlave, AtSync, JoinReset, WakesMaster, Runs, groupVars, lockVars, threadVars
<1>a. t \in Members /\ t \notin Arrived /\ t \in Thread
  BY Zenon DEF SInv, TypeOK, PcInv, WaitInv, GroupInv, GroupConsistent, Members, Arrived, SyncOps
<1>b. \A x \in Members : x # t => inUse[x] /\ (pc[x] = "start" \/ (waiting[x] /\ pc[x] \in SyncOps))
  BY <1>a, LastToArrive
<1>1. TypeOK'
  BY Zenon DEF SInv, TypeOK, PC, SyncOps
<1>2. PcInv'
  BY DEF SInv, TypeOK, PcInv, LockUninterrupted
<1>3. WaitInv'
  BY DEF SInv, TypeOK, PcInv, WaitInv, GroupInv, GroupConsistent, Members, SyncOps
<1>4. GroupInv'
  <2>1. slaves' = {x \in Thread : inUse'[x] /\ sync'[x]} /\ inUse'[Main] /\ ~sync'[Main]
    BY <1>a DEF SInv, TypeOK, GroupInv, GroupConsistent, Members
  <2> QED
    BY <2>1, FS_EmptySet DEF GroupInv, GroupConsistent
<1>5. Arrived' = {}
  <2>1. pc'[Main] # "start"
    BY DEF SInv, PcInv
  <2>2. pausedOn'[Main] # "sync"
    OBVIOUS
  <2>3. Members' = {Main}
    BY DEF Members
  <2> QED
    BY <2>1, <2>2, <2>3 DEF Arrived
<1>6. PausedCount'
  <2>1. numPaused' = 0 /\ numThreads' > 0
    BY Counting
  <2> QED
    BY <1>5, <2>1, FS_EmptySet DEF PausedCount
<1>7. LockInv'
  <2>1. \A x \in Members : pc[x] # "in" /\ x \notin holds
    BY <1>a, <1>b DEF SInv, LockInv, SyncOps
  <2>2. \A x \in Members : pc'[x] # "in"
    BY <2>1 DEF SInv, TypeOK, Members
  <2>3. \A x \in Thread \ Members : /\ inUse'[x] = inUse[x] /\ waiting'[x] = waiting[x]
                                    /\ pc'[x] = pc[x] /\ spc'[x] = spc[x]
    BY <1>a DEF SInv, TypeOK, Members
  <2>4. held' = held /\ queue' = queue /\ holds' = holds
    OBVIOUS
  <2> QED
    BY <2>1, <2>2, <2>3, <2>4, LockElsewhere
<1> QED
  BY <1>1, <1>2, <1>3, <1>4, <1>6, <1>7 DEF SInv

(* ssync without a synchroniser is not counted.                            *)
LEMMA SSyncAloneStep ==
  ASSUME LockUninterrupted, SInv, NEW t \in Thread, SSyncAlone(t)
  PROVE  SInv'
<1> USE SynchAssumption DEF SSyncAlone, Runs, groupVars, lockVars, threadVars
<1>1. TypeOK'
  BY DEF SInv, TypeOK, PC, SyncOps
<1>2. PcInv'
  BY DEF SInv, TypeOK, PcInv, LockUninterrupted
<1>3. WaitInv'
  BY SMTT(60) DEF SInv, TypeOK, PcInv, WaitInv, GroupInv, GroupConsistent, Members, SyncOps
<1>4. GroupInv'
  BY DEF SInv, TypeOK, GroupInv, GroupConsistent
<1>5. Arrived' = Arrived
  BY DEF SInv, TypeOK, PcInv, WaitInv, GroupInv, GroupConsistent, Members, Arrived, SyncOps
<1>6. PausedCount'
  BY <1>5 DEF SInv, PausedCount
<1>7. LockInv'
  BY SMTT(30) DEF SInv, TypeOK, PcInv, WaitInv, LockInv, LockHeld, LockUninterrupted, SyncOps
<1> QED
  BY <1>1, <1>2, <1>3, <1>4, <1>6, <1>7 DEF SInv

(* in takes a free lock.                                                   *)
LEMMA LockTakenStep ==
  ASSUME LockUninterrupted, SInv, NEW t \in Thread, LockTaken(t)
  PROVE  SInv'
<1> USE SynchAssumption DEF LockTaken, Moved, Runs, groupVars, lockVars, threadVars
<1>1. TypeOK'
  BY DEF SInv, TypeOK, PC, SyncOps
<1>2. PcInv'
  BY DEF SInv, TypeOK, PcInv, LockUninterrupted
<1>3. WaitInv'
  BY DEF SInv, TypeOK, PcInv, WaitInv, GroupInv, GroupConsistent, Members, SyncOps
<1>4. GroupInv'
  BY DEF SInv, TypeOK, GroupInv, GroupConsistent
<1>5. Arrived' = Arrived
  BY SMTT(30) DEF SInv, TypeOK, PcInv, WaitInv, GroupInv, GroupConsistent, Members, Arrived, SyncOps
<1>6. PausedCount'
  BY <1>5, SMTT(20) DEF SInv, PausedCount
<1>7. LockInv'
  BY SMTT(30) DEF SInv, TypeOK, PcInv, WaitInv, LockInv, LockHeld, LockUninterrupted, SyncOps
<1> QED
  BY <1>1, <1>2, <1>3, <1>4, <1>6, <1>7 DEF SInv

(* in queues for a lock that is held.                                      *)
LEMMA LockWaitStep ==
  ASSUME LockUninterrupted, SInv, NEW t \in Thread, LockWait(t)
  PROVE  SInv'
<1> USE SynchAssumption DEF LockWait, PauseOn, Waiters, Runs, groupVars, lockVars, threadVars
<1>1. TypeOK'
  BY DEF SInv, TypeOK, PC, SyncOps
<1>2. PcInv'
  BY DEF SInv, TypeOK, PcInv, LockUninterrupted
<1>3. WaitInv'
  BY DEF SInv, TypeOK, PcInv, WaitInv, GroupInv, GroupConsistent, Members, SyncOps
<1>4. GroupInv'
  BY DEF SInv, TypeOK, GroupInv, GroupConsistent
<1>5. Arrived' = Arrived
  BY DEF SInv, TypeOK, PcInv, WaitInv, GroupInv, GroupConsistent, Members, Arrived, SyncOps
<1>6. PausedCount'
  BY <1>5, SMTT(20) DEF SInv, PausedCount
<1>7. LockInv'
  BY DEF SInv, TypeOK, PcInv, WaitInv, LockInv, LockHeld, LockUninterrupted, SyncOps
<1> QED
  BY <1>1, <1>2, <1>3, <1>4, <1>6, <1>7 DEF SInv

(* out without waiters frees the lock.                                     *)
LEMMA LockFreedStep ==
  ASSUME LockUninterrupted, SInv, NEW t \in Thread, LockFreed(t)
  PROVE  SInv'
<1> USE SynchAssumption DEF LockFreed, HeldAfter, Runs, groupVars, lockVars, threadVars
<1>1. TypeOK'
  BY DEF SInv, TypeOK, PC, SyncOps
<1>2. PcInv'
  BY DEF SInv, TypeOK, PcInv, LockUninterrupted
<1>3. WaitInv'
  BY DEF SInv, TypeOK, PcInv, WaitInv, GroupInv, GroupConsistent, Members, SyncOps
<1>4. GroupInv'
  BY DEF SInv, TypeOK, GroupInv, GroupConsistent
<1>5. Arrived' = Arrived
  BY DEF SInv, TypeOK, PcInv, WaitInv, GroupInv, GroupConsistent, Members, Arrived, SyncOps
<1>6. PausedCount'
  BY <1>5 DEF SInv, PausedCount
<1>7. LockInv'
  BY SMTT(30) DEF SInv, TypeOK, PcInv, WaitInv, LockInv, LockHeld, LockUninterrupted, SyncOps
<1> QED
  BY <1>1, <1>2, <1>3, <1>4, <1>6, <1>7 DEF SInv

(* out with waiters hands the lock to the first of them.                   *)
LEMMA LockHandedOverStep ==
  ASSUME LockUninterrupted, SInv, NEW t \in Thread, LockHandedOver(t)
  PROVE  SInv'
<1> USE SynchAssumption DEF LockHandedOver, HeldAfter, Moved, Schedule, Runs, groupVars, lockVars, threadVars
<1> DEFINE next == Head(queue)
<1>a. /\ next \in Thread /\ inUse[next] /\ waiting[next] /\ pc[next] = "in"
      /\ next = queue[1] /\ 1 \in 1 .. Len(queue) /\ next # t
  BY DEF SInv, TypeOK, LockInv
<1>1. TypeOK'
  BY DEF SInv, TypeOK, PC, SyncOps
<1>2. PcInv'
  BY SMTT(20) DEF SInv, TypeOK, PcInv, LockUninterrupted
<1>3. WaitInv'
  BY DEF SInv, TypeOK, PcInv, WaitInv, GroupInv, GroupConsistent, Members, SyncOps
<1>4. GroupInv'
  BY SMTT(20) DEF SInv, TypeOK, GroupInv, GroupConsistent
<1>5. Arrived' = Arrived
  BY SMTT(30), <1>a DEF SInv, TypeOK, PcInv, WaitInv, GroupInv, GroupConsistent, Members, Arrived, SyncOps
<1>6. PausedCount'
  BY <1>5, SMTT(20) DEF SInv, PausedCount
<1>7. LockInv'
  <2>1. /\ \A k \in 1 .. Len(queue') : k + 1 \in 1 .. Len(queue) /\ queue'[k] = queue[k + 1]
        /\ Len(queue') = Len(queue) - 1 /\ queue \in Seq(Thread)
    BY DEF SInv, TypeOK
  <2>2. holds' = {next} /\ held'
    <3>1. holds = {t}
      BY DEF SInv, LockInv, LockHeld
    <3> QED
      BY <1>a, <3>1, Zenon
  <2>3. \A x \in Thread : x # next => waiting'[x] = waiting[x] /\ pc'[x] = pc[x]
    BY <1>a DEF SInv, TypeOK
  <2>4. pc'[next] = "code" /\ ~waiting'[next] /\ inUse' = inUse
    BY <1>a DEF SInv, TypeOK
  <2>5. \A k \in 1 .. Len(queue') : queue'[k] # next /\ queue'[k] \in Thread
    BY <1>a, <2>1, SMTT(20) DEF SInv, LockInv
  <2>6. \A k \in 1 .. Len(queue') : inUse'[queue'[k]] /\ waiting'[queue'[k]] /\ pc'[queue'[k]] = "in"
    BY <2>1, <2>3, <2>4, <2>5, SMTT(20) DEF SInv, LockInv
  <2>7. \A j, k \in 1 .. Len(queue') : queue'[j] = queue'[k] => j = k
    BY <2>1 DEF SInv, LockInv
  <2>8. ASSUME NEW x \in Thread, inUse'[x], waiting'[x], pc'[x] = "in"
        PROVE  \E k \in 1 .. Len(queue') : queue'[k] = x
    <3>1. x # next /\ inUse[x] /\ waiting[x] /\ pc[x] = "in"
      BY <2>3, <2>4, <2>8
    <3>2. PICK k \in 1 .. Len(queue) : queue[k] = x
      BY <3>1 DEF SInv, LockInv
    <3>3. k # 1 /\ k - 1 \in 1 .. Len(queue')
      BY <1>a, <2>1, <3>1, <3>2
    <3>4. queue'[k - 1] = queue[(k - 1) + 1] /\ (k - 1) + 1 = k
      BY <2>1, <3>3
    <3> QED
      BY <3>2, <3>3, <3>4, Zenon
  <2> QED
    BY <1>a, <2>2, <2>4, <2>6, <2>7, <2>8 DEF LockInv, LockHeld
<1> QED
  BY <1>1, <1>2, <1>3, <1>4, <1>6, <1>7, SMTT(20) DEF SInv

-----------------------------------------------------------------------------
(* Every instruction and every interrupt preserves the invariant.          *)
LEMMA NextSInv ==
  ASSUME LockUninterrupted, SInv, [Next]_vars
  PROVE  SInv'
<1>1. ASSUME NEW u \in Thread, GETST(u)
      PROVE  SInv'
  BY <1>1, GETSTStep
<1>2. ASSUME NEW t \in Thread, NEW u \in Thread, GETR(t, u) \/ TSTART(t, u)
      PROVE  SInv'
  BY <1>2, GETRStep, TSTARTStep
<1>3. ASSUME NEW t \in Thread, NEW op \in PC, Comes(t, op)
      PROVE  SInv'
  BY <1>3, ComesStep
<1>4. ASSUME NEW t \in Thread, FREET(t) \/ Interrupt(t) \/ KRET(t)
      PROVE  SInv'
  BY <1>4, FREETStep, InterruptStep, KRETStep
<1>5. ASSUME NEW t \in Thread, Sync(t)
      PROVE  SInv'
  BY <1>5, SyncPauseStep, SyncReleaseStep, JoinByMasterStep, JoinBySlaveStep,
     SSyncAloneStep DEF Sync
<1>6. ASSUME NEW t \in Thread, Lock(t)
      PROVE  SInv'
  BY <1>6, LockTakenStep, LockWaitStep, LockFreedStep, LockHandedOverStep DEF Lock
<1>7. CASE UNCHANGED vars
  <2>1. /\ UNCHANGED <<inUse, sync, ssync, waiting, pausedOn, pc, spc>>
        /\ UNCHANGED <<slaves, numThreads, numPaused, join>>
        /\ UNCHANGED <<held, queue, holds, interrupts>>
    BY <1>7 DEF vars, threadVars, groupVars, lockVars
  <2>2. TypeOK'
    BY <2>1, SMTT(20) DEF SInv, TypeOK
  <2>3. PcInv' /\ WaitInv'
    BY <2>1 DEF SInv, PcInv, WaitInv, Members
  <2>4. GroupInv'
    BY <2>1, Zenon DEF SInv, GroupInv, GroupConsistent
  <2>5. PausedCount'
    BY <2>1, SMTT(20) DEF SInv, PausedCount, Arrived, Members
  <2>6. LockInv'
    BY <2>1 DEF SInv, LockInv, LockHeld
  <2> QED
    BY <2>2, <2>3, <2>4, <2>5, <2>6 DEF SInv
<1> QED
  BY <1>1, <1>2, <1>3, <1>4, <1>5, <1>6, <1>7 DEF Next

(* The invariant holds in every state of every behaviour.                  *)
THEOREM SynchInvariant ==
  ASSUME LockUninterrupted
  PROVE  Spec => []SInv
<1>1. Init => SInv
  BY InitSInv
<1>2. SInv /\ [Next]_vars => SInv'
  BY NextSInv
<1> QED
  BY <1>1, <1>2, PTL DEF Spec

(* Threads, group and lock keep their types; in particular cancel never    *)
(* takes the unsigned NumPaused below zero.                                *)
THEOREM SynchTypeCorrect ==
  ASSUME LockUninterrupted
  PROVE  Spec => []TypeOK
<1>1. SInv => TypeOK
  BY DEF SInv
<1> QED
  BY <1>1, SynchInvariant, PTL

(* NumPaused is the number of threads of the group that are paused, for    *)
(* any number of threads and any interrupts of them.                       *)
THEOREM PausedIsCounted ==
  ASSUME LockUninterrupted
  PROVE  Spec => []PausedCount
<1>1. SInv => PausedCount
  BY DEF SInv
<1> QED
  BY <1>1, SynchInvariant, PTL

(* The list of the synchroniser is the set of threads that point to it.    *)
THEOREM GroupsAgree ==
  ASSUME LockUninterrupted
  PROVE  Spec => []GroupConsistent
<1>1. SInv => GroupConsistent
  BY DEF SInv, GroupInv
<1> QED
  BY <1>1, SynchInvariant, PTL

(* The lock is held by at most one thread, and held says whether it is.    *)
THEOREM LockIsExclusive ==
  ASSUME LockUninterrupted
  PROVE  Spec => []LockHeld
<1>1. SInv => LockHeld
  BY DEF SInv, LockInv
<1> QED
  BY <1>1, SynchInvariant, PTL

(* When anybody waits for the lock, its holder can run.                    *)
LEMMA HolderRuns ==
  ASSUME SInv, NEW t \in Thread, inUse[t], waiting[t], pc[t] = "in"
  PROVE  SomeoneRuns
<1>1. queue # <<>>
  BY DEF SInv, LockInv
<1>2. PICK h \in holds : TRUE
  BY <1>1 DEF SInv, LockInv, LockHeld
<1>3. h \in Thread /\ inUse[h] /\ ~waiting[h] /\ pc[h] \in {"code", "handler"}
  BY <1>2 DEF SInv, TypeOK, LockInv
<1> QED
  BY <1>3 DEF SomeoneRuns, Runs

(* Barriers, joins and the lock never leave everybody waiting: if the      *)
(* master waits at a barrier, a slave has not arrived, and if that one     *)
(* waits for the lock, the holder runs.                                    *)
THEOREM NoDeadlock ==
  ASSUME LockUninterrupted
  PROVE  Spec => []SomeoneRuns
<1>1. ASSUME SInv
      PROVE  SomeoneRuns
  <2> USE <1>1
  <2>1. Main \in Thread /\ inUse[Main] /\ Main \in Members /\ pc[Main] # "start"
    BY SynchAssumption DEF SInv, GroupInv, PcInv, Members
  <2>2. CASE ~waiting[Main]
    BY <2>1, <2>2 DEF SomeoneRuns, Runs
  <2>3. CASE waiting[Main] /\ pc[Main] = "in"
    BY <2>1, <2>3, HolderRuns
  <2>4. CASE waiting[Main] /\ pc[Main] # "in"
    <3>1. Main \in Arrived
      BY <2>1, <2>4 DEF SInv, WaitInv, Arrived
    <3>2. Arrived # Members
      BY Counting DEF SInv, TypeOK, PausedCount
    <3>3. PICK m \in Members : m \notin Arrived
      BY <3>2, Counting
    <3>4. m \in Thread /\ inUse[m] /\ pc[m] # "start" /\ pausedOn[m] # "sync"
      BY <3>3, <2>1, SMTT(20) DEF SInv, TypeOK, GroupInv, GroupConsistent, Members, Arrived
    <3>5. waiting[m] => pc[m] = "in"
      BY <3>3, <3>4 DEF SInv, WaitInv
    <3>6. CASE waiting[m]
      BY <3>4, <3>5, <3>6, HolderRuns
    <3>7. CASE ~waiting[m]
      BY <3>4, <3>7 DEF SomeoneRuns, Runs
    <3> QED
      BY <3>6, <3>7
  <2> QED
    BY <2>2, <2>3, <2>4
<1> QED
  BY <1>1, SynchInvariant, PTL

(* A step in which no member passes a barrier and no slave ends.           *)
LEMMA NobodyPasses ==
  ASSUME SInv, \A x \in Members : ~Passes(x), \A x \in slaves : inUse'[x]
  PROVE  BarrierStep
BY DEF BarrierStep

(* The step of the last thread to arrive: the members pass together, or    *)
(* the slaves end together.                                                *)
LEMMA LastStep ==
  ASSUME SInv, NEW t \in Thread, SyncRelease(t) \/ JoinByMaster(t) \/ JoinBySlave(t)
  PROVE  BarrierStep
<1>1. /\ AtSync(t) /\ ~MustPause
      /\ t \in Members /\ t \notin Arrived
  <2>1. AtSync(t) /\ ~MustPause
    BY DEF SyncRelease, JoinByMaster, JoinBySlave
  <2> QED
    BY <2>1 DEF SInv, TypeOK, PcInv, WaitInv, GroupInv, GroupConsistent, Members, Arrived,
       SyncOps, AtSync, Runs
<1>2. \A x \in Members : inUse[x] /\ x \in Thread /\ pc[x] \in SyncOps \cup {"start"}
  <2>1. \A x \in Members : inUse[x] /\ x \in Thread
    BY SynchAssumption DEF SInv, TypeOK, GroupInv, GroupConsistent, Members
  <2>2. \A x \in Members : x # t => pc[x] \in SyncOps \cup {"start"}
    BY <1>1, LastToArrive, Zenon
  <2> QED
    BY <1>1, <2>1, <2>2 DEF AtSync
<1>3. \A x \in slaves : pc[x] \in {"ssync", "start"}
  BY <1>2, Counting, Zenon DEF SInv, PcInv, Members, SyncOps
<1>4. CASE SyncRelease(t)
  <2>1. \A x \in Members : pc'[x] = "code" /\ inUse'[x]
    BY <1>2, <1>4, Zenon DEF SyncRelease, Moved, SyncOps
  <2> QED
    BY <1>2, <2>1, Zenon DEF BarrierStep, Passes, Members
<1>5. CASE JoinByMaster(t)
  <2>1. \A x \in slaves : ~inUse'[x]
    BY <1>2, <1>5, Zenon DEF JoinByMaster, Members
  <2>2. pc'[Main] = "code"
    BY <1>1, <1>5 DEF JoinByMaster, Moved, AtSync, SyncOps, SInv, TypeOK
  <2>3. Passes(Main)
    BY <1>2, <2>2 DEF Passes, Members
  <2> QED
    BY <1>3, <2>1, <2>3, Zenon DEF BarrierStep, Members
<1>6. CASE JoinBySlave(t)
  <2>1. \A x \in slaves : ~inUse'[x]
    BY <1>2, <1>6, Zenon DEF JoinBySlave, Members
  <2>2. pc' = pc
    BY <1>6, Zenon DEF JoinBySlave
  <2>3. \A x \in Members : ~Passes(x)
    BY <2>2 DEF Passes, SyncOps
  <2> QED
    BY <1>3, <2>1, <2>3 DEF BarrierStep
<1> QED
  BY <1>4, <1>5, <1>6, SMTT(20)

(* No thread passes a barrier before all the threads of its group have     *)
(* come to it, and the slaves end only together, at a join.                *)
THEOREM BarriersStayTogether ==
  ASSUME LockUninterrupted
  PROVE  Spec => BarrierTogether
<1>1. ASSUME SInv, [Next]_vars
      PROVE  [BarrierStep]_vars
  <2> SUFFICES ASSUME Next
               PROVE  BarrierStep
    BY <1>1
  <2> USE <1>1
  <2>0. \A x \in Members : /\ x \in Thread /\ inUse[x] /\ (x = Main \/ sync[x])
                          /\ (x = Main => pc[x] # "start") /\ (x # Main => x \in slaves)
    BY SynchAssumption DEF SInv, TypeOK, GroupInv, GroupConsistent, Members, PcInv
  <2>1. ASSUME NEW u \in Thread, GETST(u)
        PROVE  BarrierStep
    <3>1. \A x \in Members : pc'[x] = pc[x] /\ inUse'[x]
      BY <2>0, <2>1 DEF GETST, SInv, TypeOK
    <3> QED
      BY <3>1, NobodyPasses DEF Passes, SyncOps, Members
  <2>2. ASSUME NEW t \in Thread, NEW u \in Thread, GETR(t, u) \/ TSTART(t, u)
        PROVE  BarrierStep
    <3>1. \A x \in Members : pc'[x] = pc[x] /\ inUse'[x]
      BY <2>0, <2>2 DEF GETR, TSTART, SInv, TypeOK
    <3> QED
      BY <3>1, NobodyPasses DEF Passes, SyncOps, Members
  <2>3. ASSUME NEW t \in Thread, NEW op \in PC, Comes(t, op)
        PROVE  BarrierStep
    <3>1. \A x \in Members : (pc'[x] = pc[x] \/ pc[x] = "code") /\ inUse'[x]
      BY <2>0, <2>3 DEF Comes, SInv, TypeOK
    <3> QED
      BY <3>1, NobodyPasses, Zenon DEF Passes, SyncOps, Members
  <2>4. ASSUME NEW t \in Thread, FREET(t) \/ Interrupt(t) \/ KRET(t)
        PROVE  BarrierStep
    <3>1. \A x \in Members : (pc'[x] = pc[x] \/ "handler" \in {pc[x], pc'[x]}) /\ inUse'[x]
      BY <2>0, <2>4, SMTT(20) DEF FREET, Interrupt, KRET, SInv, TypeOK
    <3> QED
      BY <3>1, NobodyPasses, SMTT(20) DEF Passes, SyncOps, Members
  <2>5. ASSUME NEW t \in Thread, SyncPause(t) \/ SSyncAlone(t)
        PROVE  BarrierStep
    <3>1. \A x \in Members : pc'[x] = pc[x] /\ inUse'[x]
      BY <2>0, <2>5 DEF SyncPause, SSyncAlone
    <3> QED
      BY <3>1, NobodyPasses, SMTT(20) DEF Passes, SyncOps, Members
  <2>6. ASSUME NEW t \in Thread, Lock(t)
        PROVE  BarrierStep
    <3>1. inUse' = inUse
      BY <2>6 DEF Lock, LockTaken, LockWait, LockFreed, LockHandedOver, threadVars
    <3>2. CASE LockTaken(t) \/ LockWait(t) \/ LockFreed(t)
      <4>1. \A x \in Members : pc'[x] = pc[x] \/ pc[x] = "in"
        BY <2>0, <3>2, SMTT(20) DEF LockTaken, LockWait, LockFreed, threadVars, SInv, TypeOK
      <4> QED
        BY <2>0, <3>1, <4>1, NobodyPasses, SMTT(20) DEF Passes, SyncOps, Members
    <3>3. CASE LockHandedOver(t)
      <4>1. pc[Head(queue)] = "in"
        BY <3>3 DEF LockHandedOver, SInv, TypeOK, LockInv
      <4>2. \A x \in Members : pc'[x] = pc[x] \/ pc[x] = "in"
        BY <2>0, <3>3, <4>1 DEF LockHandedOver, SInv, TypeOK
      <4> QED
        BY <2>0, <3>1, <4>2, NobodyPasses, SMTT(20) DEF Passes, SyncOps, Members
    <3> QED
      BY <2>6, <3>2, <3>3 DEF Lock
  <2>7. ASSUME NEW t \in Thread, Sync(t)
        PROVE  BarrierStep
    BY <2>5, <2>7, LastStep DEF Sync
  <2> QED
    BY <2>1, <2>2, <2>3, <2>4, <2>6, <2>7 DEF Next
<1> QED
  BY <1>1, SynchInvariant, PTL DEF Spec, BarrierTogether
=============================================================================
