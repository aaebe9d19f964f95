---------------------------- MODULE ChanWakeBase ----------------------------
(***************************************************************************)
(* No thread sleeps for ever on a chanend: the wake-up properties of the   *)
(* channel network, proved for programs that use a chanend only from the   *)
(* thread that allocated it and whose paused threads are not interrupted.  *)
(*                                                                         *)
(* The argument is a bookkeeping one.  The threads that are paused on a    *)
(* chanend are exactly the ones its pausedIn and pausedOut name, a claim   *)
(* stands in exactly the queue of the route it waits for, and a route that *)
(* has been handed over belongs to a thread that is about to run.  Every   *)
(* instruction keeps all of this in step, so what would satisfy a paused   *)
(* thread also finds and wakes it.                                         *)
(***************************************************************************)
EXTENDS ChanNetProofs

InOps == TokenInOps \cup WordInOps

(* Instruction p is an output, an input, on chanend c.                     *)
OutOn(p, c) == p # NULL /\ p.op \in OutOps /\ p.chan = c
InOn(p, c)  == p # NULL /\ p.op \in InOps /\ p.chan = c

(* c is in queue q; nobody is in q twice.                                  *)
Has(q, c) == \E k \in 1 .. Len(q) : q[k] = c
Once(q)   == \A j, k \in 1 .. Len(q) : q[j] = q[k] => j = k

(* A thread that waits has an instruction to come back to, WAITEU is the   *)
(* only one that leaves EEBLE set, and a chanend is used by its owner.     *)
ThreadsInv ==
  /\ \A t \in Thread : /\ waiting[t] => pend[t] # NULL
                       /\ eeble[t] => waiting[t]
                       /\ eeble[t] <=> pend[t] = WAITEU
  /\ \A t \in Thread, c \in Chanend :
       OutOn(pend[t], c) \/ InOn(pend[t], c) => owner[c] = t
  /\ \A c \in Chanend : owner[c] # NULL => inUse[c]

(* pausedIn names the thread that waits for input, and it lacks tokens.    *)
ReadersInv ==
  \A t \in Thread, c \in Chanend :
    /\ pausedIn[c] = t <=> waiting[t] /\ InOn(pend[t], c)
    /\ pausedIn[c] = t => /\ waitForWord[c] <=> pend[t].op \in WordInOps
                          /\ Len(buf[c]) < (IF waitForWord[c] THEN WordLen ELSE 1)

(* pausedOut names the thread that waits to output.                        *)
WritersInv ==
  \A t \in Thread, c \in Chanend :
    pausedOut[c] = t <=> waiting[t] /\ OutOn(pend[t], c)

(* A sender that waits inside a packet waits for room at the destination.  *)
FullInv ==
  \A t \in Thread, c \in Chanend : pausedOut[c] = t /\ inPacket[c] =>
    ~junkPacket[c] /\ ~CanAccept(dest[c], pend[t].op)

(* A sender that waits outside a packet waits for a route another has: it  *)
(* is queued there, once, and nowhere else.                                *)
ClaimsInv ==
  /\ \A c \in Chanend : pausedOut[c] # NULL /\ ~inPacket[c] =>
       dest[c] \in Chanend /\ Has(queue[dest[c]], c) /\ destID[c] = dest[c]
  /\ \A c, d \in Chanend : Has(queue[d], c) =>
       pausedOut[c] # NULL /\ ~inPacket[c] /\ dest[c] = d /\ source[d] # c
  /\ \A d \in Chanend : Once(queue[d])

(* Who has a route is in a packet on it, or about to begin one.            *)
HoldersInv ==
  \A d \in Chanend : source[d] # NULL =>
    /\ Target(source[d]) = d /\ ~junkPacket[source[d]]
    /\ ~inPacket[source[d]] => \E t \in Thread : ~waiting[t] /\ OutOn(pend[t], source[d])

WInv ==
  /\ ThreadsInv /\ ReadersInv /\ WritersInv /\ FullInv /\ ClaimsInv /\ HoldersInv
  /\ NoMissedEvent

-----------------------------------------------------------------------------
(* What an instruction is on.                                              *)
LEMMA OnLemma ==
  /\ \A c : ~OutOn(NULL, c) /\ ~InOn(NULL, c) /\ ~OutOn(WAITEU, c) /\ ~InOn(WAITEU, c)
  /\ \A p, c, d : OutOn(p, c) => ~InOn(p, d) /\ (OutOn(p, d) => c = d)
  /\ \A p, c, d : InOn(p, c) /\ InOn(p, d) => c = d
  /\ \A i \in OutInstr : i \notin {NULL, WAITEU} /\ i.chan \in Chanend /\ i.op \in OutOps
                         /\ \A c : (OutOn(i, c) <=> c = i.chan) /\ ~InOn(i, c)
  /\ \A i \in InInstr : i \notin {NULL, WAITEU} /\ i.chan \in Chanend /\ i.op \in InOps
                        /\ \A c : (InOn(i, c) <=> c = i.chan) /\ ~OutOn(i, c)
<1>1. \A op \in OutOps : op \notin InOps
  BY DEF OutOps, InOps, TokenInOps, WordInOps
<1>2. "waiteu" \notin OutOps /\ "waiteu" \notin InOps
  BY DEF OutOps, InOps, TokenInOps, WordInOps
<1>3. WAITEU.op = "waiteu"
  BY DEF WAITEU
<1>4. \A i \in OutInstr : i # NULL /\ i.chan \in Chanend /\ i.op \in OutOps
  BY NullAssumption DEF OutInstr
<1>5. \A i \in InInstr : i # NULL /\ i.chan \in Chanend /\ i.op \in InOps
  BY NullAssumption DEF InInstr, InOps
<1> QED BY <1>1, <1>2, <1>3, <1>4, <1>5 DEF OutOn, InOn

(* Nobody waits on a chanend whose owner is running.                       *)
LEMMA QuietLemma ==
  ASSUME IInv, WInv, NEW c \in Chanend, \A t \in Thread : owner[c] = t => ~waiting[t]
  PROVE  /\ pausedIn[c] = NULL /\ pausedOut[c] = NULL
         /\ \A d \in Chanend : ~Has(queue[d], c)
<1>1. pausedIn[c] \in Thread \cup {NULL} /\ pausedOut[c] \in Thread \cup {NULL}
  BY DEF IInv, TypeOK
<1>2. \A t \in Thread : pausedIn[c] # t /\ pausedOut[c] # t
  BY Zenon DEF WInv, ThreadsInv, ReadersInv, WritersInv
<1>3. \A d \in Chanend : Has(queue[d], c) => pausedOut[c] # NULL
  BY DEF WInv, ClaimsInv
<1> QED BY <1>1, <1>2, <1>3

(* What has a route is not in the queue for one.                           *)
LEMMA HolderLemma ==
  ASSUME IInv, WInv, NEW d \in Chanend, source[d] # NULL
  PROVE  source[d] \in Chanend /\ \A e \in Chanend : ~Has(queue[e], source[d])
<1>1. source[d] \in Chanend
  BY DEF IInv, TypeOK
<1>2. CASE inPacket[source[d]]
  BY <1>1, <1>2 DEF WInv, ClaimsInv
<1>3. CASE ~inPacket[source[d]]
  <2>1. PICK t \in Thread : ~waiting[t] /\ OutOn(pend[t], source[d])
    BY <1>3 DEF WInv, HoldersInv
  <2>2. owner[source[d]] = t
    BY <1>1, <2>1 DEF WInv, ThreadsInv
  <2> QED BY <1>1, <2>1, <2>2, QuietLemma, Zenon
<1> QED BY <1>1, <1>2, <1>3

(* checkChanend and the discipline: the thread that executes i owns its    *)
(* chanend and is at no other, and nobody waits on that chanend.           *)
LEMMA ExecLemma ==
  ASSUME Disciplined, IInv, WInv, NEW t \in Thread, NEW i \in OutInstr \cup InInstr,
         Executes(t, i)
  PROVE  /\ i.chan \in Chanend /\ owner[i.chan] = t /\ inUse[i.chan]
         /\ ~waiting[t] /\ ~eeble[t] /\ pend[t] \in {NULL, i}
         /\ pausedIn[i.chan] = NULL /\ pausedOut[i.chan] = NULL
         /\ \A d \in Chanend : ~Has(queue[d], i.chan)
         /\ \A d \in Chanend : source[d] = i.chan => Target(i.chan) = d /\ ~junkPacket[i.chan]
<1>1. i.chan \in Chanend
  BY OnLemma
<1>2. owner[i.chan] = t /\ inUse[i.chan] /\ ~waiting[t] /\ pend[t] \in {NULL, i}
  BY DEF Executes, MayUse
<1>3. ~eeble[t]
  BY <1>2 DEF WInv, ThreadsInv
<1>4. /\ pausedIn[i.chan] = NULL /\ pausedOut[i.chan] = NULL
      /\ \A d \in Chanend : ~Has(queue[d], i.chan)
  BY <1>1, <1>2, QuietLemma
<1>5. \A d \in Chanend : source[d] = i.chan => Target(i.chan) = d /\ ~junkPacket[i.chan]
  BY <1>1, ConstAssumption DEF WInv, HoldersInv
<1> QED BY <1>1, <1>2, <1>3, <1>4, <1>5, Zenon

(* So it is for the instructions that name a chanend and never pause.      *)
LEMMA RunsLemma ==
  ASSUME IInv, WInv, NEW t \in Thread, NEW op, Runs(t, op)
  PROVE  /\ ~waiting[t] /\ ~eeble[t] /\ pend[t] = NULL
         /\ \A c \in Chanend : ~OutOn(pend[t], c) /\ ~InOn(pend[t], c)
         /\ \A c \in Chanend : owner[c] \in {t, NULL} =>
              /\ pausedIn[c] = NULL /\ pausedOut[c] = NULL
              /\ \A d \in Chanend : ~Has(queue[d], c)
              /\ \A d \in Chanend : source[d] = c => inPacket[c]
<1>1. ~waiting[t] /\ ~eeble[t] /\ pend[t] = NULL
  BY DEF Runs, WInv, ThreadsInv
<1>2. \A c \in Chanend : ~OutOn(pend[t], c) /\ ~InOn(pend[t], c)
  BY <1>1, OnLemma
<1>3. ASSUME NEW c \in Chanend, owner[c] \in {t, NULL}
      PROVE  /\ pausedIn[c] = NULL /\ pausedOut[c] = NULL
             /\ \A d \in Chanend : ~Has(queue[d], c)
  BY <1>1, <1>3, QuietLemma, ConstAssumption, Zenon
<1>4. ASSUME NEW c \in Chanend, owner[c] \in {t, NULL}, NEW d \in Chanend, source[d] = c, ~inPacket[c]
      PROVE  FALSE
  <2>1. PICK x \in Thread : ~waiting[x] /\ OutOn(pend[x], c)
    BY <1>4, ConstAssumption DEF WInv, HoldersInv
  <2>2. owner[c] = x
    BY <2>1 DEF WInv, ThreadsInv
  <2> QED BY <1>2, <1>4, <2>1, <2>2, ConstAssumption, Zenon
<1> QED BY <1>1, <1>2, <1>3, <1>4, Zenon

-----------------------------------------------------------------------------
(* What the end of an instruction of t leaves of the threads: of those that *)
(* wait on a chanend only the woken ones stop waiting, and whoever was      *)
(* about to output on a chanend still is, unless it was t.                  *)
Resumed(t, woken, evented) ==
  /\ \A x \in Thread : /\ waiting'[x] => pend'[x] # NULL
                       /\ eeble'[x] => waiting'[x]
                       /\ eeble'[x] <=> pend'[x] = WAITEU
                       /\ eeble'[x] => eeble[x] /\ x \notin evented
  /\ \A x \in Thread, e \in Chanend :
       /\ OutOn(pend'[x], e) => OutOn(pend[x], e)
       /\ InOn(pend'[x], e) => InOn(pend[x], e)
       /\ waiting'[x] /\ OutOn(pend'[x], e)
            <=> waiting[x] /\ OutOn(pend[x], e) /\ x \notin woken
       /\ waiting'[x] /\ InOn(pend'[x], e)
            <=> waiting[x] /\ InOn(pend[x], e) /\ x \notin woken
       /\ waiting[x] /\ (OutOn(pend[x], e) \/ InOn(pend[x], e)) => pend'[x] = pend[x]
       /\ ~OutOn(pend[t], e) /\ ~waiting[x] /\ OutOn(pend[x], e)
            => ~waiting'[x] /\ OutOn(pend'[x], e)

(* Every instruction that completes ends so.                               *)
LEMMA ContinueLemma ==
  ASSUME IInv, WInv, NEW t \in Thread, NEW woken, NEW evented, ~waiting[t], ~eeble[t],
         \A x \in woken : ~eeble[x], \A x \in evented : eeble[x],
         Continue(t, woken, evented)
  PROVE  Resumed(t, woken, evented)
<1>1. \A x \in Thread : /\ waiting'[x] <=> waiting[x] /\ x \notin woken \cup evented
                        /\ pend'[x] = IF x \in evented \cup {t} THEN NULL ELSE pend[x]
                        /\ eeble'[x] <=> eeble[x] /\ x \notin evented
  BY DEF Continue, IInv, TypeOK
<1>2. \A x \in Thread : /\ waiting[x] => pend[x] # NULL
                        /\ eeble[x] => waiting[x]
                        /\ eeble[x] <=> pend[x] = WAITEU
  BY DEF WInv, ThreadsInv
<1>3. \A x \in Thread : x \in evented => pend[x] = WAITEU
  BY <1>2
<1>4. NULL # WAITEU
  BY NullAssumption
<1>5. \A x \in Thread : /\ waiting'[x] => pend'[x] # NULL
                        /\ eeble'[x] => waiting'[x]
                        /\ eeble'[x] <=> pend'[x] = WAITEU
                        /\ eeble'[x] => eeble[x] /\ x \notin evented
  BY <1>1, <1>2, <1>3, <1>4, Zenon
<1>6. ASSUME NEW x \in Thread, NEW e \in Chanend
      PROVE  /\ OutOn(pend'[x], e) => OutOn(pend[x], e)
             /\ InOn(pend'[x], e) => InOn(pend[x], e)
             /\ waiting'[x] /\ OutOn(pend'[x], e)
                  <=> waiting[x] /\ OutOn(pend[x], e) /\ x \notin woken
             /\ waiting'[x] /\ InOn(pend'[x], e)
                  <=> waiting[x] /\ InOn(pend[x], e) /\ x \notin woken
             /\ waiting[x] /\ (OutOn(pend[x], e) \/ InOn(pend[x], e)) => pend'[x] = pend[x]
             /\ ~OutOn(pend[t], e) /\ ~waiting[x] /\ OutOn(pend[x], e)
                  => ~waiting'[x] /\ OutOn(pend'[x], e)
  BY <1>1, <1>3, OnLemma
<1> QED BY <1>5, <1>6, Zenon DEF Resumed

(* t pauses on instruction i, which is on chanend c.                       *)
LEMMA PauseLemma ==
  ASSUME IInv, WInv, NEW t \in Thread, NEW i \in OutInstr \cup InInstr,
         ~waiting[t], ~eeble[t], pend[t] \in {NULL, i}, owner[i.chan] = t,
         Pause(t, i), UNCHANGED eeble
  PROVE  /\ waiting'[t] /\ pend'[t] = i
         /\ \A x \in Thread : x # t => waiting'[x] = waiting[x] /\ pend'[x] = pend[x]
         /\ \A x \in Thread : /\ waiting'[x] => pend'[x] # NULL
                              /\ eeble'[x] => waiting'[x]
                              /\ eeble'[x] <=> pend'[x] = WAITEU
         /\ \A x \in Thread, e \in Chanend :
              OutOn(pend'[x], e) \/ InOn(pend'[x], e) => owner[e] = x
         /\ \A x \in Thread, e \in Chanend :
              e # i.chan /\ ~waiting[x] /\ OutOn(pend[x], e)
                => ~waiting'[x] /\ OutOn(pend'[x], e)
<1>1. /\ waiting'[t] /\ pend'[t] = i
      /\ \A x \in Thread : x # t => waiting'[x] = waiting[x] /\ pend'[x] = pend[x]
      /\ eeble' = eeble
  BY DEF Pause, IInv, TypeOK
<1>2. /\ \A x \in Thread : /\ waiting[x] => pend[x] # NULL
                           /\ eeble[x] => waiting[x]
                           /\ eeble[x] <=> pend[x] = WAITEU
      /\ \A x \in Thread, e \in Chanend : OutOn(pend[x], e) \/ InOn(pend[x], e) => owner[e] = x
  BY DEF WInv, ThreadsInv
<1>3. i \notin {NULL, WAITEU} /\ \A e : OutOn(i, e) \/ InOn(i, e) => e = i.chan
  BY OnLemma
<1>4. \A x \in Thread : /\ waiting'[x] => pend'[x] # NULL
                        /\ eeble'[x] => waiting'[x]
                        /\ eeble'[x] <=> pend'[x] = WAITEU
  BY <1>1, <1>2, <1>3, Zenon
<1>5. \A x \in Thread, e \in Chanend : OutOn(pend'[x], e) \/ InOn(pend'[x], e) => owner[e] = x
  BY <1>1, <1>2, <1>3
<1>6. \A e : ~OutOn(NULL, e)
  BY OnLemma
<1>7. \A x \in Thread, e \in Chanend :
        e # i.chan /\ ~waiting[x] /\ OutOn(pend[x], e) => ~waiting'[x] /\ OutOn(pend'[x], e)
  BY <1>1, <1>3, <1>6
<1> QED BY <1>1, <1>4, <1>5, <1>7, Zenon

-----------------------------------------------------------------------------
(* Nobody waits at first.                                                  *)
LEMMA InitWInv == Init => WInv
<1> SUFFICES ASSUME Init PROVE WInv
  OBVIOUS
<1> USE ConstAssumption DEF Init
<1>1. ~Has(<<>>, NULL) /\ (\A c : ~Has(<<>>, c)) /\ Once(<<>>)
  BY EmptySeqFact DEF Has, Once
<1>2. \A c : ~OutOn(NULL, c) /\ ~InOn(NULL, c)
  BY OnLemma
<1>3. ThreadsInv
  BY <1>2, NullAssumption DEF ThreadsInv
<1>4. ReadersInv /\ WritersInv /\ FullInv
  BY <1>2 DEF ReadersInv, WritersInv, FullInv
<1>5. ClaimsInv /\ HoldersInv /\ NoMissedEvent
  BY <1>1 DEF ClaimsInv, HoldersInv, NoMissedEvent
<1> QED BY <1>3, <1>4, <1>5 DEF WInv

(* A chanend that is allocated is on nobody's mind: no thread is at it, no *)
(* claim is for it and it has no route.                                    *)
LEMMA WakeGETR ==
  ASSUME IInv, WInv, NEW t \in Thread, NEW c \in Chanend, GETR(t, c)
  PROVE  WInv'
<1>1. ~inUse[c] /\ owner[c] = NULL
  BY DEF GETR, WInv, ThreadsInv
<1>2. /\ ~waiting[t] /\ ~eeble[t]
      /\ pausedIn[c] = NULL /\ pausedOut[c] = NULL
      /\ \A d \in Chanend : ~Has(queue[d], c)
      /\ \A d \in Chanend : source[d] = c => inPacket[c]
  BY <1>1, RunsLemma DEF GETR
<1>3. ~inPacket[c] /\ ~junkPacket[c]
  BY <1>1 DEF IInv, RouteInv, FreedIsIdle, JunkInPacket
<1>4. /\ owner'[c] = t /\ inUse'[c] /\ ~eventsEnabled'[c]
      /\ \A x \in Chanend : x # c => /\ owner'[x] = owner[x] /\ inUse'[x] = inUse[x]
                                     /\ eventsEnabled'[x] = eventsEnabled[x]
                                     /\ dest'[x] = dest[x]
  BY DEF GETR, IInv, TypeOK
<1>5. \A x \in Chanend : /\ inPacket'[x] = inPacket[x] /\ junkPacket'[x] = junkPacket[x]
                         /\ pausedOut'[x] = pausedOut[x] /\ pausedIn'[x] = pausedIn[x]
  BY <1>2, <1>3, Zenon DEF GETR, IInv, TypeOK
<1>6. UNCHANGED <<source, queue, destID, buf, waitForWord, eeble, waiting, pend>>
  BY DEF GETR, threadVars
<1>7. ThreadsInv'
  BY <1>1, <1>4, <1>6, ConstAssumption DEF WInv, ThreadsInv
<1>8. ReadersInv' /\ WritersInv'
  BY <1>5, <1>6 DEF WInv, ReadersInv, WritersInv
<1>9. FullInv'
  BY <1>2, <1>4, <1>5, <1>6, ConstAssumption DEF WInv, FullInv, CanAccept
<1>10. ClaimsInv'
  BY <1>2, <1>4, <1>5, <1>6 DEF WInv, ClaimsInv
<1>11. HoldersInv'
  <2>1. ASSUME NEW d \in Chanend, source[d] # NULL
        PROVE  Target(source[d])' = Target(source[d]) /\ source[d] \in Chanend
    BY <1>2, <1>3, <1>4, <1>5, <1>6, <2>1, SMTT(30) DEF Target, IInv, TypeOK
  <2> QED BY <1>5, <1>6, <2>1 DEF WInv, HoldersInv
<1>12. NoMissedEvent'
  BY <1>4, <1>6 DEF WInv, NoMissedEvent
<1> QED BY <1>7, <1>8, <1>9, <1>10, <1>11, <1>12, Zenon DEF WInv

(* Nor is one that is freed.                                               *)
LEMMA WakeFREER ==
  ASSUME Disciplined, IInv, WInv, NEW t \in Thread, NEW c \in Chanend, FREER(t, c)
  PROVE  WInv'
<1>1. owner[c] = t
  BY DEF FREER, MayUse
<1>2. pend[t] = NULL /\ \A e \in Chanend : ~OutOn(pend[t], e) /\ ~InOn(pend[t], e)
  BY RunsLemma DEF FREER
<1>3. /\ owner'[c] = NULL
      /\ \A x \in Chanend : x # c => owner'[x] = owner[x] /\ inUse'[x] = inUse[x]
  BY DEF FREER, IInv, TypeOK
<1>4. UNCHANGED <<source, queue, destID, dest, inPacket, junkPacket, buf, pausedOut, pausedIn,
                  waitForWord, eventsEnabled, eeble, waiting, pend>>
  BY DEF FREER, senderVars, pauseVars, threadVars
<1>5. ThreadsInv'
  BY <1>1, <1>2, <1>3, <1>4 DEF WInv, ThreadsInv
<1>6. ReadersInv' /\ WritersInv' /\ FullInv' /\ ClaimsInv'
  BY <1>4 DEF WInv, ReadersInv, WritersInv, FullInv, CanAccept, ClaimsInv
<1>7. HoldersInv'
  BY <1>4 DEF WInv, HoldersInv, Target
<1>8. NoMissedEvent'
  BY <1>3, <1>4, ConstAssumption DEF WInv, NoMissedEvent
<1> QED BY <1>5, <1>6, <1>7, <1>8 DEF WInv

(* A destination is set only by a thread that is not in the middle of an   *)
(* output, so no claim or handed over route is for another one.            *)
LEMMA WakeSETD ==
  ASSUME Disciplined, IInv, WInv, NEW t \in Thread, NEW c \in Chanend, NEW d, SETD(t, c, d)
  PROVE  WInv'
<1>1. owner[c] = t /\ ~inPacket[c]
  BY DEF SETD, MayUse
<1>2. pausedOut[c] = NULL /\ \A e \in Chanend : source[e] # c
  BY <1>1, RunsLemma DEF SETD
<1>3. \A x \in Chanend : x # c => destID'[x] = destID[x]
  BY DEF SETD, IInv, TypeOK
<1>4. UNCHANGED <<inUse, source, queue, dest, inPacket, junkPacket, buf, pausedOut, pausedIn,
                  waitForWord, owner, eventsEnabled, eeble, waiting, pend>>
  BY Zenon DEF SETD, endpointVars, senderVars, pauseVars, eventVars, threadVars
<1>5. ThreadsInv' /\ ReadersInv' /\ WritersInv' /\ FullInv' /\ NoMissedEvent'
  BY <1>4 DEF WInv, ThreadsInv, ReadersInv, WritersInv, FullInv, CanAccept, NoMissedEvent
<1>6. ClaimsInv'
  BY <1>2, <1>3, <1>4, Zenon DEF WInv, ClaimsInv
<1>7. HoldersInv'
  <2>1. ASSUME NEW e \in Chanend, source[e] # NULL
        PROVE  Target(source[e])' = Target(source[e]) /\ source[e] \in Chanend
    BY <1>2, <1>3, <1>4, <2>1 DEF Target, IInv, TypeOK
  <2> QED BY <1>4, <2>1, Zenon DEF WInv, HoldersInv
<1> QED BY <1>5, <1>6, <1>7 DEF WInv

(* Enabling and disabling the events of a chanend: its owner runs, so its  *)
(* EEBLE bit is clear.                                                     *)
LEMMA WakeEvents ==
  ASSUME Disciplined, IInv, WInv, NEW t \in Thread, NEW c \in Chanend, EEU(t, c) \/ EDU(t, c)
  PROVE  WInv'
<1>1. /\ ~waiting[t] /\ ~eeble[t] /\ pend[t] = NULL
      /\ owner[c] = t
  BY RunsLemma DEF EEU, EDU, MayUse
<1>2. /\ \A x \in Chanend : owner'[x] = owner[x]
      /\ \A x \in Chanend : x # c => eventsEnabled'[x] = eventsEnabled[x]
  BY <1>1 DEF EEU, EDU, UpdateOwner, IInv, TypeOK
<1>3. UNCHANGED <<inUse, source, queue, destID, dest, inPacket, junkPacket, buf, pausedOut,
                  pausedIn, waitForWord>>
  BY DEF EEU, EDU, endpointVars, senderVars, pauseVars
<1>4. \A x \in Thread : waiting'[x] = waiting[x] /\ eeble'[x] = eeble[x] /\ pend'[x] = pend[x]
  <2>1. CASE EEU(t, c)
    <3>1. Continue(t, {}, {})
      BY <1>1, <2>1 DEF EEU
    <3> QED BY <1>1, <3>1, Zenon DEF Continue, IInv, TypeOK
  <2>2. CASE EDU(t, c)
    BY <2>2 DEF EDU, threadVars
  <2> QED BY <2>1, <2>2
<1>5. ThreadsInv'
  BY <1>2, <1>3, <1>4 DEF WInv, ThreadsInv
<1>6. ReadersInv' /\ WritersInv'
  BY <1>3, <1>4 DEF WInv, ReadersInv, WritersInv
<1>7. FullInv' /\ ClaimsInv'
  BY <1>3, <1>4, Zenon DEF WInv, FullInv, CanAccept, ClaimsInv
<1>8. HoldersInv'
  BY <1>3, <1>4, Zenon DEF WInv, HoldersInv, Target
<1>9. NoMissedEvent'
  BY <1>1, <1>2, <1>3, <1>4 DEF WInv, NoMissedEvent
<1> QED BY <1>5, <1>6, <1>7, <1>8, <1>9, Zenon DEF WInv

(* CLRE is executed by a thread whose EEBLE bit is already clear.          *)
LEMMA WakeCLRE ==
  ASSUME IInv, WInv, NEW t \in Thread, CLRE(t)
  PROVE  WInv'
<1>1. ~waiting[t] /\ ~eeble[t] /\ pend[t] = NULL
  BY RunsLemma DEF CLRE
<1>2. /\ \A c \in Chanend : eventsEnabled'[c] => eventsEnabled[c]
      /\ \A x \in Thread : eeble'[x] = eeble[x]
  BY <1>1, Zenon DEF CLRE, IInv, TypeOK
<1>3. UNCHANGED <<inUse, source, queue, destID, dest, inPacket, junkPacket, buf, pausedOut,
                  pausedIn, waitForWord, owner, waiting, pend>>
  BY DEF CLRE, endpointVars, senderVars, pauseVars
<1>4. ThreadsInv' /\ NoMissedEvent'
  BY <1>2, <1>3, Zenon DEF WInv, ThreadsInv, NoMissedEvent
<1>5. ReadersInv' /\ WritersInv' /\ FullInv' /\ ClaimsInv'
  BY <1>3, Zenon DEF WInv, ReadersInv, WritersInv, FullInv, CanAccept, ClaimsInv
<1>6. HoldersInv'
  BY <1>3, Zenon DEF WInv, HoldersInv, Target
<1> QED BY <1>4, <1>5, <1>6 DEF WInv

(* WAITEU pauses only when no enabled chanend of the thread has a token.   *)
LEMMA WakeWaitEU ==
  ASSUME IInv, WInv, NEW t \in Thread, WaitEU(t)
  PROVE  WInv'
<1>1. /\ ~waiting[t] /\ ~eeble[t] /\ pend[t] = NULL
      /\ \A e \in Chanend : ~OutOn(pend[t], e) /\ ~InOn(pend[t], e)
  BY RunsLemma, Zenon DEF WaitEU
<1>2. UNCHANGED <<inUse, source, queue, destID, dest, inPacket, junkPacket, buf, pausedOut,
                  pausedIn, waitForWord, owner, eventsEnabled>>
  BY Zenon DEF WaitEU, endpointVars, senderVars, pauseVars, eventVars
<1>3. CASE EventOnEnable(t)
  <2>1. Continue(t, {}, {t})
    BY <1>3 DEF WaitEU
  <2>2. \A x \in Thread : waiting'[x] = waiting[x] /\ eeble'[x] = eeble[x] /\ pend'[x] = pend[x]
    BY <1>1, <2>1, Zenon DEF Continue, IInv, TypeOK
  <2>3. ThreadsInv' /\ NoMissedEvent'
    BY <1>2, <2>2, Zenon DEF WInv, ThreadsInv, NoMissedEvent
  <2>4. ReadersInv' /\ WritersInv'
    BY <1>2, <2>2, SMTT(30) DEF WInv, ReadersInv, WritersInv
  <2>5. FullInv' /\ ClaimsInv'
    BY <1>2, <2>2, SMTT(30) DEF WInv, FullInv, CanAccept, ClaimsInv
  <2>6. HoldersInv'
    BY <1>2, <2>2, SMTT(30) DEF WInv, HoldersInv, Target
  <2> QED BY <2>3, <2>4, <2>5, <2>6, Zenon DEF WInv
<1>4. CASE ~EventOnEnable(t)
  <2>1. /\ eeble'[t] /\ waiting'[t] /\ pend'[t] = WAITEU
        /\ \A x \in Thread : x # t =>
             waiting'[x] = waiting[x] /\ eeble'[x] = eeble[x] /\ pend'[x] = pend[x]
    BY <1>4 DEF WaitEU, Pause, IInv, TypeOK
  <2>2. NULL # WAITEU /\ \A e : ~OutOn(WAITEU, e) /\ ~InOn(WAITEU, e)
    BY NullAssumption, OnLemma, Zenon
  <2>3. ThreadsInv'
    BY <1>1, <1>2, <2>1, <2>2 DEF WInv, ThreadsInv
  <2>4. ReadersInv' /\ WritersInv'
    BY <1>1, <1>2, <2>1, <2>2 DEF WInv, ReadersInv, WritersInv
  <2>5. \A c \in Chanend : pausedOut[c] # t
    BY <1>1, Zenon DEF WInv, WritersInv
  <2>6. FullInv' /\ ClaimsInv'
    BY <1>2, <2>1, <2>5 DEF WInv, FullInv, CanAccept, ClaimsInv
  <2>7. HoldersInv'
    <3>1. \A x \in Thread, e \in Chanend :
            ~waiting[x] /\ OutOn(pend[x], e) => ~waiting'[x] /\ OutOn(pend'[x], e)
      BY <1>1, <2>1
    <3>2. \A e \in Chanend : source[e] # NULL => source[e] \in Chanend
      BY Zenon DEF IInv, TypeOK
    <3> QED BY <1>2, <3>1, <3>2, Zenon DEF WInv, HoldersInv, Target
  <2>8. NoMissedEvent'
    BY <1>1, <1>2, <1>4, <2>1 DEF WInv, NoMissedEvent, EventOnEnable
  <2> QED BY <2>3, <2>4, <2>6, <2>7, <2>8, Zenon DEF WInv
<1> QED BY <1>3, <1>4

(* A chanend is not freed while an instruction is paused on it.            *)
LEMMA WakeIllegal ==
  ASSUME IInv, WInv, NEW t \in Thread, NEW i \in OutInstr \cup InInstr, IllegalResource(t, i)
  PROVE  FALSE
<1>1. i.chan \in Chanend /\ (OutOn(i, i.chan) \/ InOn(i, i.chan))
  BY OnLemma
<1>2. owner[i.chan] = t
  BY <1>1 DEF IllegalResource, WInv, ThreadsInv
<1> QED BY <1>1, <1>2, ConstAssumption DEF IllegalResource, WInv, ThreadsInv
=============================================================================
