---------------------------- MODULE ChanWakePause ---------------------------
(***************************************************************************)
(* The bookkeeping of pauses and claims (WInv of ChanWakeBase) across the  *)
(* inputs, and across the outputs that find their route taken.             *)
(***************************************************************************)
EXTENDS ChanWakeBase

(* An input that finds too little registers its thread.                    *)
LEMMA WakeInWait ==
  ASSUME Disciplined, IInv, WInv, NEW t \in Thread, NEW i \in InInstr, InWait(t, i)
  PROVE  WInv'
<1> DEFINE c == i.chan
<1>1. /\ c \in Chanend /\ owner[c] = t /\ ~waiting[t] /\ ~eeble[t] /\ pend[t] \in {NULL, i}
      /\ pausedIn[c] = NULL
  BY ExecLemma DEF InWait
<1>2. /\ Pause(t, i) /\ UNCHANGED eeble
      /\ UNCHANGED <<inUse, source, queue, destID, dest, inPacket, junkPacket, buf, pausedOut,
                     eventsEnabled>>
  BY DEF InWait, endpointVars, senderVars
<1>3. /\ \A x \in Chanend : owner'[x] = owner[x]
      /\ pausedIn'[c] = t /\ (waitForWord'[c] <=> i.op \in WordInOps)
      /\ \A x \in Chanend : x # c => pausedIn'[x] = pausedIn[x] /\ waitForWord'[x] = waitForWord[x]
  BY <1>1, Zenon DEF InWait, UpdateOwner, IInv, TypeOK
<1>4. Len(buf[c]) < (IF i.op \in WordInOps THEN WordLen ELSE 1)
  BY EmptySeqFact DEF InWait, MustWait
<1>5. /\ waiting'[t] /\ pend'[t] = i
      /\ \A x \in Thread : x # t => waiting'[x] = waiting[x] /\ pend'[x] = pend[x]
      /\ \A x \in Thread : /\ waiting'[x] => pend'[x] # NULL
                           /\ eeble'[x] => waiting'[x]
                           /\ eeble'[x] <=> pend'[x] = WAITEU
      /\ \A x \in Thread, e \in Chanend :
           OutOn(pend'[x], e) \/ InOn(pend'[x], e) => owner[e] = x
      /\ \A x \in Thread, e \in Chanend :
           e # c /\ ~waiting[x] /\ OutOn(pend[x], e) => ~waiting'[x] /\ OutOn(pend'[x], e)
  BY <1>1, <1>2, PauseLemma
<1>6. /\ \A e : (InOn(i, e) <=> e = c) /\ ~OutOn(i, e)
      /\ \A e : ~OutOn(pend[t], e)
  BY <1>1, OnLemma
<1> HIDE DEF c
<1>7. ThreadsInv'
  BY <1>2, <1>3, <1>5 DEF WInv, ThreadsInv
<1>8. ReadersInv'
  <2>1. ASSUME NEW x \in Thread, NEW e \in Chanend
        PROVE  pausedIn'[e] = x <=> waiting'[x] /\ InOn(pend'[x], e)
    BY <1>1, <1>3, <1>5, <1>6, ConstAssumption, SMTT(30) DEF WInv, ReadersInv, ThreadsInv
  <2>2. ASSUME NEW x \in Thread, NEW e \in Chanend, pausedIn'[e] = x
        PROVE  /\ waitForWord'[e] <=> pend'[x].op \in WordInOps
               /\ Len(buf'[e]) < (IF waitForWord'[e] THEN WordLen ELSE 1)
    <3>1. CASE e = c
      BY <1>2, <1>3, <1>4, <1>5, <2>2, <3>1, Zenon DEF c
    <3>2. CASE e # c
      <4>1. pausedIn[e] = x /\ waitForWord'[e] = waitForWord[e] /\ buf' = buf
        BY <1>2, <1>3, <2>2, <3>2, Zenon
      <4>2. x # t
        BY <1>1, <4>1, Zenon DEF WInv, ReadersInv
      <4> QED BY <1>5, <4>1, <4>2, Zenon DEF WInv, ReadersInv
    <3> QED BY <3>1, <3>2, Zenon
  <2> QED BY <2>1, <2>2, Zenon DEF ReadersInv
<1>9. WritersInv'
  BY <1>1, <1>2, <1>5, <1>6, SMTT(30) DEF WInv, WritersInv
<1>10. FullInv' /\ ClaimsInv'
  <2>1. \A e \in Chanend : pausedOut[e] # t
    BY <1>1, Zenon DEF WInv, WritersInv
  <2> QED BY <1>2, <1>5, <2>1 DEF WInv, FullInv, CanAccept, ClaimsInv
<1>11. HoldersInv'
  <2>1. \A x \in Thread, e \in Chanend :
          ~waiting[x] /\ OutOn(pend[x], e) => ~waiting'[x] /\ OutOn(pend'[x], e)
    BY <1>5, <1>6, Zenon
  <2>2. \A e \in Chanend : source[e] # NULL => source[e] \in Chanend
    BY DEF IInv, TypeOK
  <2> QED BY <1>2, <2>1, <2>2, Zenon DEF WInv, HoldersInv, Target
<1>12. NoMissedEvent'
  BY <1>2, <1>3 DEF WInv, NoMissedEvent
<1> QED BY <1>7, <1>8, <1>9, <1>10, <1>11, <1>12, Zenon DEF WInv

(* An input that takes tokens, or none, wakes the sender whose packet is   *)
(* being received; that sender was in a packet, or is not waiting.         *)
LEMMA WakeInTake ==
  ASSUME Disciplined, IInv, WInv, NEW t \in Thread, NEW i \in InInstr,
         InKeep(t, i) \/ InTake(t, i)
  PROVE  WInv'
<1> DEFINE c == i.chan
           s == IF InTake(t, i) THEN source[c] ELSE NULL
           woken == Writers(s)
<1>1. /\ c \in Chanend /\ owner[c] = t /\ ~waiting[t] /\ ~eeble[t] /\ pend[t] \in {NULL, i}
      /\ pausedIn[c] = NULL
  BY ExecLemma DEF InKeep, InTake
<1>2. UNCHANGED <<inUse, source, queue, destID, dest, inPacket, junkPacket, pausedIn,
                  waitForWord, eventsEnabled>>
  BY Zenon DEF InKeep, InTake, endpointVars, senderVars, pauseVars
<1>3. \A x \in Chanend : owner'[x] = owner[x]
  BY <1>1 DEF InKeep, InTake, UpdateOwner, IInv, TypeOK
<1>4. \A e : ~OutOn(pend[t], e)
  BY <1>1, OnLemma, SMTT(30)
<1>5. Continue(t, woken, {})
  BY Zenon DEF InKeep, InTake, Writers
<1>6. \A x \in Chanend : pausedOut'[x] = IF x = s THEN NULL ELSE pausedOut[x]
  BY ConstAssumption, SMTT(30) DEF InKeep, InTake, pauseVars, IInv, TypeOK
<1>7. \A x \in Chanend : buf'[x] = buf[x] \/ (x = c /\ s = source[c])
  BY DEF InKeep, InTake, IInv, TypeOK
<1>8. s # NULL => s \in Chanend /\ s = source[c] /\ \A e \in Chanend : ~Has(queue[e], s)
  BY <1>1, HolderLemma, Zenon
<1>9. \A x : x \in woken <=> s # NULL /\ x = pausedOut[s] /\ x # NULL
  BY DEF Writers, NonNull
<1> HIDE DEF s, woken, c
<1>10. \A x \in woken : x \in Thread /\ waiting[x] /\ OutOn(pend[x], s) /\ ~eeble[x]
  <2>1. \A x \in woken : x \in Thread
    BY <1>8, <1>9 DEF IInv, TypeOK
  <2>2. \A x \in woken : waiting[x] /\ OutOn(pend[x], s)
    BY <2>1, <1>8, <1>9, Zenon DEF WInv, WritersInv
  <2>3. \A x \in woken : pend[x] # WAITEU
    BY <2>2, OnLemma, SMTT(30)
  <2> QED BY <2>1, <2>2, <2>3, Zenon DEF WInv, ThreadsInv
<1>11. Resumed(t, woken, {})
  BY <1>1, <1>5, <1>10, ContinueLemma
<1>12. ThreadsInv'
  BY <1>2, <1>3, <1>11, Zenon DEF Resumed, WInv, ThreadsInv
<1>13. ReadersInv'
  <2>1. \A x \in Thread, e \in Chanend : InOn(pend[x], e) => x \notin woken
    BY <1>10, OnLemma, Zenon
  <2>2. \A x \in Thread, e \in Chanend : pausedIn'[e] = x <=> waiting'[x] /\ InOn(pend'[x], e)
    BY <1>2, <1>11, <2>1, Zenon DEF Resumed, WInv, ReadersInv
  <2>3. \A x \in Thread, e \in Chanend : pausedIn[e] = x => pend'[x] = pend[x] /\ e # c
    BY <1>1, <1>11, ConstAssumption DEF Resumed, WInv, ReadersInv
  <2>4. \A x \in Thread, e \in Chanend : pausedIn[e] = x => buf'[e] = buf[e]
    BY <1>7, <2>3, Zenon
  <2> QED BY <1>2, <2>2, <2>3, <2>4, SMTT(30) DEF WInv, ReadersInv
<1>14. WritersInv'
  <2>1. \A x \in Thread, e \in Chanend : OutOn(pend[x], e) /\ x \in woken => e = s
    BY <1>10, OnLemma, Zenon
  <2> QED BY <1>6, <1>8, <1>9, <1>11, <2>1, ConstAssumption, SMTT(30) DEF Resumed, WInv, WritersInv
<1>15. FullInv'
  <2>1. ASSUME NEW x \in Thread, NEW e \in Chanend, pausedOut'[e] = x, inPacket'[e]
        PROVE  ~junkPacket'[e] /\ ~CanAccept(dest[e], pend[x].op)' /\ pend'[x] = pend[x]
    <3>1. pausedOut[e] = x /\ inPacket[e] /\ e # s
      BY <1>2, <1>6, <2>1, ConstAssumption, Zenon
    <3>2. ~junkPacket[e] /\ ~CanAccept(dest[e], pend[x].op)
      BY <3>1, Zenon DEF WInv, FullInv
    <3>3. pend'[x] = pend[x]
      BY <1>11, <3>1, Zenon DEF Resumed, WInv, WritersInv
    <3>4. dest[e] \in Chanend /\ source[dest[e]] = e
      BY <3>1, <3>2, Zenon DEF IInv, RouteInv, RouteOwned
    <3>5. buf'[dest[e]] = buf[dest[e]]
      BY <1>7, <3>1, <3>4, Zenon
    <3> QED BY <1>2, <3>2, <3>3, <3>5, Zenon DEF CanAccept
  <2> QED BY <2>1, Zenon DEF FullInv, CanAccept
<1>16. ClaimsInv'
  BY <1>2, <1>6, <1>8, ConstAssumption, SMTT(30) DEF WInv, ClaimsInv
<1>17. HoldersInv'
  <2>1. \A e \in Chanend : source[e] # NULL => source[e] \in Chanend
    BY SMTT(30) DEF IInv, TypeOK
  <2> QED BY <1>2, <1>4, <1>11, <2>1, Zenon DEF Resumed, WInv, HoldersInv, Target
<1>18. NoMissedEvent'
  <2>1. SUFFICES ASSUME NEW x \in Thread, NEW e \in Chanend,
                        eeble'[x], owner'[e] = x, eventsEnabled'[e]
                 PROVE  buf'[e] = << >>
    BY Zenon DEF NoMissedEvent
  <2>2. eeble[x] /\ owner[e] = x /\ eventsEnabled[e]
    BY <2>1, <1>2, <1>3, <1>11, Zenon DEF Resumed
  <2>3. buf[e] = << >>
    BY <2>2, Zenon DEF WInv, NoMissedEvent
  <2>4. e # c
    BY <2>2, <1>1, Zenon
  <2> QED BY <2>3, <2>4, <1>7, Zenon
<1> QED BY <1>12, <1>13, <1>14, <1>15, <1>16, <1>17, <1>18, Zenon DEF WInv

-----------------------------------------------------------------------------
(* A queue of claims after push_back.                                      *)
LEMMA AppendLemma ==
  ASSUME NEW q \in Seq(Chanend), NEW c \in Chanend, Once(q), ~Has(q, c)
  PROVE  /\ \A x : Has(Append(q, c), x) <=> Has(q, x) \/ x = c
         /\ Once(Append(q, c))
<1>1. /\ Len(q) \in Nat /\ Len(Append(q, c)) = Len(q) + 1
      /\ \A k \in 1 .. Len(q) : Append(q, c)[k] = q[k]
      /\ Append(q, c)[Len(q) + 1] = c
  BY AppendFact, LenFact
<1>2. \A x : Has(Append(q, c), x) <=> Has(q, x) \/ x = c
  BY <1>1 DEF Has
<1>3. Once(Append(q, c))
  BY <1>1 DEF Has, Once
<1> QED BY <1>2, <1>3

(* A queue of claims after pop_front.                                      *)
LEMMA TailLemma ==
  ASSUME NEW q \in Seq(Chanend), q # <<>>, Once(q)
  PROVE  /\ \A x : Has(Tail(q), x) <=> Has(q, x) /\ x # Head(q)
         /\ Once(Tail(q)) /\ Has(q, Head(q)) /\ Head(q) \in Chanend
<1> DEFINE r == Tail(q)
<1>1. /\ Len(q) \in Nat /\ Len(q) > 0 /\ Len(r) = Len(q) - 1
      /\ \A k \in 1 .. Len(r) : r[k] = q[k + 1]
      /\ Head(q) = q[1] /\ Head(q) \in Chanend
  BY TailFact, LenFact, EmptySeqFact
<1> HIDE DEF r
<1>2. ASSUME NEW x, Has(r, x)
      PROVE  Has(q, x) /\ x # Head(q)
  <2>1. PICK k \in 1 .. Len(r) : r[k] = x
    BY <1>2 DEF Has
  <2>2. k + 1 \in 1 .. Len(q) /\ q[k + 1] = x /\ 1 \in 1 .. Len(q) /\ k + 1 # 1
    BY <1>1, <2>1
  <2> QED BY <1>1, <2>2 DEF Has, Once
<1>3. ASSUME NEW x, Has(q, x), x # Head(q)
      PROVE  Has(r, x)
  <2>1. PICK k \in 1 .. Len(q) : q[k] = x
    BY <1>3 DEF Has
  <2>2. k # 1
    BY <1>1, <1>3, <2>1
  <2>3. k - 1 \in 1 .. Len(r) /\ (k - 1) + 1 = k
    BY <1>1, <2>2
  <2>4. r[k - 1] = x
    BY <1>1, <2>1, <2>3
  <2> QED BY <2>3, <2>4 DEF Has
<1>4. Once(r)
  <2>1. ASSUME NEW j \in 1 .. Len(r), NEW k \in 1 .. Len(r), r[j] = r[k]
        PROVE  j = k
    <3>1. j + 1 \in 1 .. Len(q) /\ k + 1 \in 1 .. Len(q) /\ q[j + 1] = q[k + 1]
      BY <1>1, <2>1
    <3>2. j + 1 = k + 1
      BY <3>1 DEF Once
    <3> QED BY <3>2, <1>1
  <2> QED BY <2>1 DEF Once
<1>5. Has(q, Head(q))
  BY <1>1 DEF Has
<1> QED BY <1>1, <1>2, <1>3, <1>4, <1>5, Zenon DEF r

(* An output that finds its route taken joins the queue for it, where it   *)
(* was not yet.                                                            *)
LEMMA WakeOutBlocked ==
  ASSUME Disciplined, IInv, WInv, NEW t \in Thread, NEW i \in OutInstr, OutBlocked(t, i)
  PROVE  WInv'
<1> DEFINE c == i.chan
           d == Target(c)
<1>1. /\ c \in Chanend /\ owner[c] = t /\ ~waiting[t] /\ ~eeble[t] /\ pend[t] \in {NULL, i}
      /\ pausedOut[c] = NULL
      /\ \A e \in Chanend : ~Has(queue[e], c)
      /\ \A e \in Chanend : source[e] = c => d = e
  BY ExecLemma DEF OutBlocked
<1>2. d \in Chanend /\ source[d] \notin {NULL, c} /\ ~inPacket[c] /\ d = destID[c]
  BY DEF OutBlocked, RouteBusy, Junked, Target
<1>3. /\ Pause(t, i) /\ UNCHANGED eeble
      /\ UNCHANGED <<inUse, source, destID, inPacket, junkPacket, buf, pausedIn, waitForWord,
                     owner, eventsEnabled>>
  BY Zenon DEF OutBlocked, eventVars
<1>4. /\ queue'[d] = Append(queue[d], c) /\ \A x \in Chanend : x # d => queue'[x] = queue[x]
      /\ dest'[c] = d /\ \A x \in Chanend : x # c => dest'[x] = dest[x]
      /\ pausedOut'[c] = t /\ \A x \in Chanend : x # c => pausedOut'[x] = pausedOut[x]
  BY <1>1, <1>2, SMTT(30) DEF OutBlocked, Queued, IInv, TypeOK
<1>5. /\ waiting'[t] /\ pend'[t] = i
      /\ \A x \in Thread : x # t => waiting'[x] = waiting[x] /\ pend'[x] = pend[x]
      /\ \A x \in Thread : /\ waiting'[x] => pend'[x] # NULL
                           /\ eeble'[x] => waiting'[x]
                           /\ eeble'[x] <=> pend'[x] = WAITEU
      /\ \A x \in Thread, e \in Chanend :
           OutOn(pend'[x], e) \/ InOn(pend'[x], e) => owner[e] = x
      /\ \A x \in Thread, e \in Chanend :
           e # c /\ ~waiting[x] /\ OutOn(pend[x], e) => ~waiting'[x] /\ OutOn(pend'[x], e)
  BY <1>1, <1>3, PauseLemma
<1>6. \A e : (OutOn(i, e) <=> e = c) /\ ~InOn(i, e)
  BY OnLemma, Zenon
<1>7. /\ queue[d] \in Seq(Chanend) /\ Once(queue[d])
      /\ \A x : Has(queue'[d], x) <=> Has(queue[d], x) \/ x = c
      /\ Once(queue'[d])
  <2>1. queue[d] \in Seq(Chanend) /\ Once(queue[d])
    BY <1>2 DEF IInv, TypeOK, WInv, ClaimsInv
  <2> QED BY <1>1, <1>2, <1>4, <2>1, AppendLemma, SMTT(30)
<1> HIDE DEF c, d
<1>8. ThreadsInv'
  BY <1>3, <1>5, Zenon DEF WInv, ThreadsInv
<1>9. \A x \in Chanend : pausedOut[x] # t /\ pausedIn[x] # t
  BY <1>1, Zenon DEF WInv, WritersInv, ReadersInv
<1>10. ReadersInv'
  BY <1>1, <1>3, <1>5, <1>6, <1>9, SMTT(30) DEF WInv, ReadersInv
<1>11. WritersInv'
  BY <1>1, <1>4, <1>5, <1>6, <1>9, ConstAssumption, SMTT(30) DEF WInv, WritersInv, ThreadsInv
<1>12. FullInv'
  <2>1. \A y \in Thread, x \in Chanend : pausedOut'[x] = y /\ inPacket'[x] =>
          /\ pausedOut[x] = y /\ inPacket[x] /\ junkPacket'[x] = junkPacket[x]
          /\ dest'[x] = dest[x] /\ pend'[y] = pend[y]
    <3> SUFFICES ASSUME NEW y \in Thread, NEW x \in Chanend, pausedOut'[x] = y, inPacket'[x]
                 PROVE  /\ pausedOut[x] = y /\ inPacket[x] /\ junkPacket'[x] = junkPacket[x]
                        /\ dest'[x] = dest[x] /\ pend'[y] = pend[y]
      OBVIOUS
    <3>1. inPacket[x] /\ junkPacket'[x] = junkPacket[x]
      BY <1>3, Zenon
    <3>2. x # c
      BY <1>2, <3>1
    <3>3. pausedOut[x] = y /\ dest'[x] = dest[x]
      BY <1>4, <3>2, Zenon
    <3>4. y # t
      BY <1>9, <3>3, Zenon
    <3> QED BY <1>5, <3>1, <3>3, <3>4, Zenon
  <2>2. \A x, op : CanAccept(x, op)' <=> CanAccept(x, op)
    BY <1>3 DEF CanAccept
  <2> QED BY <2>1, <2>2, Zenon DEF WInv, FullInv
<1>13. ClaimsInv'
  <2>1. \A x, e \in Chanend : Has(queue'[e], x) <=> Has(queue[e], x) \/ (x = c /\ e = d)
    BY <1>4, <1>7, Zenon
  <2>2. \A x \in Chanend : pausedOut'[x] # NULL /\ ~inPacket'[x] =>
          dest'[x] \in Chanend /\ Has(queue'[dest'[x]], x) /\ destID'[x] = dest'[x]
    <3> SUFFICES ASSUME NEW x \in Chanend, pausedOut'[x] # NULL, ~inPacket'[x]
                 PROVE  dest'[x] \in Chanend /\ Has(queue'[dest'[x]], x) /\ destID'[x] = dest'[x]
      OBVIOUS
    <3>1. CASE x = c
      BY <1>2, <1>3, <1>4, <2>1, <3>1, Zenon
    <3>2. CASE x # c
      <4>1. pausedOut[x] # NULL /\ ~inPacket[x] /\ dest'[x] = dest[x]
        BY <1>3, <1>4, <3>2, Zenon
      <4>2. dest[x] \in Chanend /\ Has(queue[dest[x]], x) /\ destID[x] = dest[x]
        BY <4>1, Zenon DEF WInv, ClaimsInv
      <4> QED BY <1>3, <2>1, <4>1, <4>2, Zenon
    <3> QED BY <3>1, <3>2
  <2>3. \A x, e \in Chanend : Has(queue'[e], x) =>
          pausedOut'[x] # NULL /\ ~inPacket'[x] /\ dest'[x] = e /\ source'[e] # x
    <3> SUFFICES ASSUME NEW x \in Chanend, NEW e \in Chanend, Has(queue'[e], x)
                 PROVE  pausedOut'[x] # NULL /\ ~inPacket'[x] /\ dest'[x] = e /\ source'[e] # x
      OBVIOUS
    <3>1. CASE x = c
      <4>1. e = d
        BY <1>1, <2>1, <3>1
      <4> QED BY <1>2, <1>3, <1>4, <3>1, <4>1, ConstAssumption
    <3>2. CASE x # c
      <4>1. Has(queue[e], x)
        BY <2>1, <3>2
      <4>2. pausedOut[x] # NULL /\ ~inPacket[x] /\ dest[x] = e /\ source[e] # x
        BY <4>1, Zenon DEF WInv, ClaimsInv
      <4> QED BY <1>3, <1>4, <3>2, <4>2
    <3> QED BY <3>1, <3>2
  <2>4. \A e \in Chanend : Once(queue'[e])
    BY <1>4, <1>7, Zenon DEF WInv, ClaimsInv
  <2> QED BY <2>2, <2>3, <2>4, Zenon DEF ClaimsInv
<1>14. HoldersInv'
  <2>1. \A e \in Chanend : source[e] # NULL => source[e] \in Chanend /\ source[e] # c
    BY <1>1, <1>2 DEF IInv, TypeOK
  <2>2. \A e \in Chanend : source[e] # NULL => Target(source[e])' = Target(source[e])
    BY <1>3, <1>4, <2>1, Zenon DEF Target
  <2> QED BY <1>3, <1>5, <2>1, <2>2 DEF WInv, HoldersInv
<1>15. NoMissedEvent'
  BY <1>3 DEF WInv, NoMissedEvent
<1> QED BY <1>8, <1>10, <1>11, <1>12, <1>13, <1>14, <1>15, Zenon DEF WInv
=============================================================================
