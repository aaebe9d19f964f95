--------------------------- MODULE ChanWakeProofs ---------------------------
(***************************************************************************)
(* The bookkeeping of pauses and claims (WInv of ChanWakeBase) across the  *)
(* end of a packet, hence across every instruction; and what follows from  *)
(* it: no sender, no reader and no event handler of the channel network is *)
(* left asleep, and a route in use is held.                                *)
(***************************************************************************)
EXTENDS ChanWakePause, ChanWakeOut

(* ChanEndpoint::release: the first claim that waits at d, if there is     *)
(* one, leaves the queue and gets the route, and its thread is the one in  *)
(* Writers.                                                                *)
LEMMA HandoverLemma ==
  ASSUME IInv, WInv, NEW d \in Chanend, NEW h, h = NextSource(d), Release(d)
  PROVE  /\ source'[d] = h /\ \A x \in Chanend : x # d => source'[x] = source[x]
         /\ \A x \in Chanend : pausedOut'[x] = IF x = h THEN NULL ELSE pausedOut[x]
         /\ \A e, x \in Chanend : Has(queue'[e], x) <=> Has(queue[e], x) /\ ~(e = d /\ x = h)
         /\ \A e \in Chanend : Once(queue'[e])
         /\ h # NULL => /\ h \in Chanend /\ Has(queue[d], h)
                        /\ pausedOut[h] \in Thread /\ ~inPacket[h] /\ destID[h] = d
         /\ Writers(h) = {x \in Thread : h # NULL /\ pausedOut[h] = x}
<1>1. /\ queue[d] \in Seq(Chanend) /\ Once(queue[d])
      /\ \A x \in Chanend : pausedOut[x] \in Thread \cup {NULL}
  BY DEF IInv, TypeOK, WInv, ClaimsInv
<1>2. /\ source'[d] = h /\ \A x \in Chanend : x # d => source'[x] = source[x]
      /\ queue'[d] = (IF queue[d] = <<>> THEN queue[d] ELSE Tail(queue[d]))
      /\ \A x \in Chanend : x # d => queue'[x] = queue[x]
      /\ \A x \in Chanend : pausedOut'[x] = IF x = h THEN NULL ELSE pausedOut[x]
  BY DEF Release, IInv, TypeOK
<1>3. h # NULL => queue[d] # <<>> /\ h = Head(queue[d])
  BY DEF NextSource
<1>4. queue[d] # <<>> => h = Head(queue[d]) /\ h \in Chanend /\ h # NULL
  BY <1>1, TailLemma, ConstAssumption DEF NextSource
<1>5. h # NULL => h \in Chanend /\ Has(queue[d], h)
  BY <1>1, <1>3, TailLemma
<1>6. /\ \A x \in Chanend : Has(queue'[d], x) <=> Has(queue[d], x) /\ x # h
      /\ Once(queue'[d])
  <2>1. CASE queue[d] = <<>>
    <3>1. \A x : ~Has(queue[d], x)
      BY <2>1 DEF Has
    <3> QED BY <1>1, <1>2, <2>1, <3>1, Zenon
  <2>2. CASE queue[d] # <<>>
    BY <1>1, <1>2, <1>4, <2>2, TailLemma, SMTT(30)
  <2> QED BY <2>1, <2>2, Zenon
<1>7. \A e, x \in Chanend : Has(queue'[e], x) <=> Has(queue[e], x) /\ ~(e = d /\ x = h)
  BY <1>2, <1>6, Zenon
<1>8. \A e \in Chanend : Once(queue'[e])
  BY <1>2, <1>6, Zenon DEF WInv, ClaimsInv
<1>9. h # NULL => pausedOut[h] \in Thread /\ ~inPacket[h] /\ destID[h] = d
  <2>1. h # NULL => pausedOut[h] # NULL /\ ~inPacket[h] /\ dest[h] = d
    BY <1>5, Zenon DEF WInv, ClaimsInv
  <2>2. h # NULL => destID[h] = dest[h]
    BY <1>5, <2>1, Zenon DEF WInv, ClaimsInv
  <2> QED BY <1>1, <1>5, <2>1, <2>2, Zenon
<1>10. Writers(h) = {x \in Thread : h # NULL /\ pausedOut[h] = x}
  BY <1>1, <1>5, <1>9, ConstAssumption, Zenon DEF Writers, NonNull
<1> QED BY <1>2, <1>5, <1>7, <1>8, <1>9, <1>10, Zenon

(* The step ends the packet of c and gives the route at d to h.            *)
Ends(c, d, h) ==
  /\ h = NextSource(d) /\ Release(d)
  /\ ~inPacket'[c] /\ \A x \in Chanend : x # c => inPacket'[x] = inPacket[x]
  /\ \A x \in Chanend : x # c => dest'[x] = dest[x]
  /\ \A x \in Chanend : x # d => buf'[x] = buf[x]
  /\ UNCHANGED <<destID, junkPacket>>

(* The end of a packet (END or PAUSE in Chanend::outct): the claim that    *)
(* gets the route belongs to the thread that is woken for it.              *)
LEMMA EndsLemma ==
  ASSUME IInv, WInv, NEW t \in Thread, NEW c \in Chanend, NEW d \in Chanend, NEW h,
         Ends(c, d, h), source[d] \in {NULL, c}, ~junkPacket[c], pausedOut[c] = NULL,
         \A e \in Chanend : ~Has(queue[e], c),
         \A e \in Chanend : source[e] = c => d = e,
         \A e \in Chanend : OutOn(pend[t], e) => e = c,
         \A x \in Thread, e \in Chanend :
           /\ waiting'[x] /\ OutOn(pend'[x], e)
                <=> waiting[x] /\ OutOn(pend[x], e) /\ x \notin Writers(h)
           /\ waiting[x] /\ OutOn(pend[x], e) => pend'[x] = pend[x]
           /\ ~OutOn(pend[t], e) /\ ~waiting[x] /\ OutOn(pend[x], e)
                => ~waiting'[x] /\ OutOn(pend'[x], e)
  PROVE  WritersInv' /\ FullInv' /\ ClaimsInv' /\ HoldersInv'
<1> DEFINE writers == Writers(h)
<1>1. /\ ~inPacket'[c] /\ \A x \in Chanend : x # c => inPacket'[x] = inPacket[x]
      /\ \A x \in Chanend : x # c => dest'[x] = dest[x]
      /\ \A x \in Chanend : x # d => buf'[x] = buf[x]
      /\ UNCHANGED <<destID, junkPacket>>
  BY DEF Ends
<1>2. /\ source'[d] = h /\ \A x \in Chanend : x # d => source'[x] = source[x]
      /\ \A x \in Chanend : pausedOut'[x] = IF x = h THEN NULL ELSE pausedOut[x]
      /\ \A e, x \in Chanend : Has(queue'[e], x) <=> Has(queue[e], x) /\ ~(e = d /\ x = h)
      /\ \A e \in Chanend : Once(queue'[e])
      /\ h # NULL => /\ h \in Chanend /\ Has(queue[d], h)
                     /\ pausedOut[h] \in Thread /\ ~inPacket[h] /\ destID[h] = d
      /\ writers = {x \in Thread : h # NULL /\ pausedOut[h] = x}
  BY HandoverLemma DEF Ends
<1> HIDE DEF writers
<1>3. h # c
  BY <1>2, ConstAssumption
<1>4. \A x \in Thread, e \in Chanend : pausedOut[e] = x <=> waiting[x] /\ OutOn(pend[x], e)
  BY Zenon DEF WInv, WritersInv
<1>5. \A x \in Thread, e \in Chanend :
        /\ waiting'[x] /\ OutOn(pend'[x], e) <=> waiting[x] /\ OutOn(pend[x], e) /\ x \notin writers
        /\ waiting[x] /\ OutOn(pend[x], e) => pend'[x] = pend[x]
        /\ e # c /\ ~waiting[x] /\ OutOn(pend[x], e) => ~waiting'[x] /\ OutOn(pend'[x], e)
  BY Zenon DEF writers
<1>6. WritersInv'
  <2>1. ASSUME NEW x \in Thread, NEW e \in Chanend
        PROVE  pausedOut'[e] = x <=> pausedOut[e] = x /\ x \notin writers
    <3>1. CASE e = h
      BY <1>2, <3>1, ConstAssumption, SMTT(30)
    <3>2. CASE e # h
      <4>1. ASSUME pausedOut[e] = x, x \in writers PROVE FALSE
        <5>1. h \in Chanend /\ pausedOut[h] = x
          BY <1>2, <4>1, Zenon
        <5>2. OutOn(pend[x], e) /\ OutOn(pend[x], h)
          BY <1>4, <4>1, <5>1, Zenon
        <5>3. \A p : OutOn(p, e) /\ OutOn(p, h) => e = h
          BY OnLemma, Zenon
        <5> QED BY Zenon, <3>2, <5>2, <5>3
      <4> QED BY <1>2, <3>2, <4>1, Zenon
    <3> QED BY <3>1, <3>2, Zenon
  <2> QED BY <1>4, <1>5, <2>1, SMTT(30) DEF WritersInv
<1>7. FullInv'
  <2>1. ASSUME NEW x \in Thread, NEW e \in Chanend, pausedOut'[e] = x, inPacket'[e]
        PROVE  ~junkPacket'[e] /\ ~CanAccept(dest[e], pend[x].op)'
    <3>1. pausedOut[e] = x /\ e # c /\ inPacket[e] /\ dest'[e] = dest[e]
      BY <1>1, <1>2, <2>1, ConstAssumption, SMTT(30)
    <3>2. ~junkPacket[e] /\ ~CanAccept(dest[e], pend[x].op)
      BY <3>1, Zenon DEF WInv, FullInv
    <3>3. dest[e] \in Chanend /\ source[dest[e]] = e
      BY <3>1, <3>2, Zenon DEF IInv, RouteInv, RouteOwned
    <3>4. buf'[dest[e]] = buf[dest[e]]
      BY <1>1, <3>1, <3>3, ConstAssumption, SMTT(30)
    <3>5. pend'[x] = pend[x]
      BY <1>4, <1>5, <3>1, Zenon
    <3> QED BY <1>1, <3>1, <3>2, <3>4, <3>5 DEF CanAccept
  <2> QED BY <2>1 DEF FullInv, CanAccept
<1>8. ClaimsInv'
  <2>1. ASSUME NEW x \in Chanend, pausedOut'[x] # NULL, ~inPacket'[x]
        PROVE  dest'[x] \in Chanend /\ Has(queue'[dest'[x]], x) /\ destID'[x] = dest'[x]
    <3>1. x # h /\ x # c /\ pausedOut[x] # NULL /\ ~inPacket[x] /\ dest'[x] = dest[x]
      BY <1>1, <1>2, <2>1, SMTT(30)
    <3>2. dest[x] \in Chanend /\ Has(queue[dest[x]], x) /\ destID[x] = dest[x]
      BY <3>1, Zenon DEF WInv, ClaimsInv
    <3> QED BY <1>1, <1>2, <3>1, <3>2, Zenon
  <2>2. ASSUME NEW x \in Chanend, NEW e \in Chanend, Has(queue'[e], x)
        PROVE  pausedOut'[x] # NULL /\ ~inPacket'[x] /\ dest'[x] = e /\ source'[e] # x
    <3>1. Has(queue[e], x) /\ ~(e = d /\ x = h) /\ x # c
      BY <1>2, <2>2, SMTT(30)
    <3>2. pausedOut[x] # NULL /\ ~inPacket[x] /\ dest[x] = e /\ source[e] # x
      BY <3>1, Zenon DEF WInv, ClaimsInv
    <3>3. x # h
      <4>1. x = h => dest[x] = d
        BY <1>2, ConstAssumption, SMTT(30) DEF WInv, ClaimsInv
      <4> QED BY <3>1, <3>2, <4>1, Zenon
    <3> QED BY <1>1, <1>2, <3>1, <3>2, <3>3, Zenon
  <2> QED BY <1>2, <2>1, <2>2, Zenon DEF ClaimsInv
<1>9. HoldersInv'
  <2>1. ASSUME NEW e \in Chanend, source'[e] # NULL
        PROVE  /\ Target(source[e])' = e /\ ~junkPacket'[source'[e]]
               /\ ~inPacket'[source'[e]] =>
                    \E x \in Thread : ~waiting'[x] /\ OutOn(pend'[x], source'[e])
    <3>1. CASE e = d
      <4>1. /\ source'[e] = h /\ h \in Chanend /\ pausedOut[h] \in Thread
            /\ ~inPacket'[h] /\ destID'[h] = d
        BY <1>1, <1>2, <1>3, <2>1, <3>1, Zenon
      <4>2. PICK x \in Thread : pausedOut[h] = x
        BY <4>1, Zenon
      <4>3. waiting[x] /\ OutOn(pend[x], h) /\ x \in writers
        BY <1>2, <1>4, <2>1, <3>1, <4>1, <4>2, SMTT(30)
      <4>4. ~waiting'[x] /\ OutOn(pend'[x], h)
        BY <1>5, <4>1, <4>3, Zenon
      <4>5. ~junkPacket[h]
        BY <1>2, <4>1, ConstAssumption, SMTT(30) DEF IInv, RouteInv, JunkInPacket
      <4> QED BY <1>1, <3>1, <4>1, <4>4, <4>5, Zenon DEF Target
    <3>2. CASE e # d
      <4>1. source'[e] = source[e] /\ source[e] \in Chanend /\ source[e] # c
        BY <1>2, <2>1, <3>2, SMTT(30) DEF IInv, TypeOK
      <4>2. /\ Target(source[e]) = e /\ ~junkPacket[source[e]]
            /\ ~inPacket[source[e]] =>
                 \E x \in Thread : ~waiting[x] /\ OutOn(pend[x], source[e])
        BY <2>1, <4>1, Zenon DEF WInv, HoldersInv
      <4>3. Target(source[e])' = Target(source[e])
        BY <1>1, <4>1 DEF Target
      <4> QED BY <1>1, <1>5, <4>1, <4>2, <4>3, SMTT(30)
    <3> QED BY <3>1, <3>2, Zenon
  <2> QED BY <2>1, Zenon DEF HoldersInv
<1> QED BY <1>6, <1>7, <1>8, <1>9, Zenon

(* An END token: it is stored, the route goes on, the reader is told.      *)
LEMMA WakeOutEnd ==
  ASSUME Disciplined, IInv, WInv, NEW t \in Thread, NEW i \in OutInstr, OutEnd(t, i)
  PROVE  WInv'
<1> DEFINE c == i.chan
           d == Target(c)
           h == NextSource(d)
           len == Len(buf[d]) + 1
<1>1. /\ c \in Chanend /\ ~waiting[t] /\ ~eeble[t] /\ pend[t] \in {NULL, i}
      /\ pausedOut[c] = NULL
      /\ \A e \in Chanend : ~Has(queue[e], c)
      /\ \A e \in Chanend : source[e] = c => d = e
  BY ExecLemma DEF OutEnd
<1>2. d \in Chanend /\ source[d] \in {NULL, c} /\ ~junkPacket[c]
  BY <1>1, RouteLemma, Zenon DEF OutEnd, IInv
<1>3. /\ Continue(t, Readers(d, len) \cup Writers(h), Evented(d)) /\ Release(d)
      /\ UNCHANGED <<inUse, junkIncoming, destID, junkPacket, waitForWord, owner, eventsEnabled>>
  BY Zenon DEF OutEnd, eventVars
<1>4. /\ ~inPacket'[c] /\ \A x \in Chanend : x # c => inPacket'[x] = inPacket[x]
      /\ \A x \in Chanend : x # c => dest'[x] = dest[x]
      /\ buf'[d] = buf[d] \o Tokens(c, i.op) /\ \A x \in Chanend : x # d => buf'[x] = buf[x]
      /\ pausedIn'[d] = (IF WakesReader(d, len) THEN NULL ELSE pausedIn[d])
      /\ \A x \in Chanend : x # d => pausedIn'[x] = pausedIn[x]
  BY <1>1, <1>2, Zenon DEF OutEnd, IInv, TypeOK
<1>5. len \in Nat /\ Len(buf'[d]) = len
  <2>1. buf[d] \in Seq(Token) /\ Len(buf[d]) \in Nat /\ NumTokens(i.op) = 1
    <3>1. buf[d] \in Seq(Token)
      BY <1>2 DEF IInv, TypeOK
    <3>2. Len(buf[d]) \in Nat
      BY <3>1, LenFact
    <3>3. NumTokens(i.op) = 1
      BY DEF OutEnd, NumTokens
    <3> QED BY <3>1, <3>2, <3>3, Zenon
  <2>2. Len(buf[d] \o Tokens(c, i.op)) = Len(buf[d]) + NumTokens(i.op)
    BY <1>1, <2>1, SentLemma, Zenon
  <2> QED BY <1>4, <2>1, <2>2, SMTT(30)
<1>6. \A e : OutOn(pend[t], e) => e = c
  BY <1>1, OnLemma
<1>7. Ends(c, d, h)
  BY <1>3, <1>4 DEF Ends
<1>8. PICK writers \in {Writers(h)} : writers = Writers(h)
  OBVIOUS
<1>9. Updates(t, d, len, writers)
  BY <1>3, <1>4, <1>5, <1>8 DEF Updates
<1> HIDE DEF c, d, h, len
<1>10. \A x \in writers : x \in Thread /\ waiting[x] /\ \E e \in Chanend : OutOn(pend[x], e)
  <2>1. /\ h # NULL => h \in Chanend
        /\ writers = {x \in Thread : h # NULL /\ pausedOut[h] = x}
    BY <1>2, <1>7, <1>8, HandoverLemma DEF Ends
  <2> QED BY <2>1 DEF WInv, WritersInv
<1>11. /\ ThreadsInv' /\ ReadersInv' /\ NoMissedEvent'
       /\ \A x \in Thread, e \in Chanend :
            /\ waiting'[x] /\ OutOn(pend'[x], e)
                 <=> waiting[x] /\ OutOn(pend[x], e) /\ x \notin writers
            /\ waiting[x] /\ OutOn(pend[x], e) => pend'[x] = pend[x]
            /\ ~OutOn(pend[t], e) /\ ~waiting[x] /\ OutOn(pend[x], e)
                 => ~waiting'[x] /\ OutOn(pend'[x], e)
  BY <1>1, <1>2, <1>5, <1>9, <1>10, UpdateLemma, SMTT(20)
<1>12. WritersInv' /\ FullInv' /\ ClaimsInv' /\ HoldersInv'
  BY <1>1, <1>2, <1>6, <1>7, <1>8, <1>11, EndsLemma, SMTT(30)
<1> QED BY <1>11, <1>12, Zenon DEF WInv

(* A PAUSE token: the route goes on, nothing is stored.                    *)
LEMMA WakeOutPause ==
  ASSUME Disciplined, IInv, WInv, NEW t \in Thread, NEW i \in OutInstr, OutPause(t, i)
  PROVE  WInv'
<1> DEFINE c == i.chan
           d == Target(c)
           h == NextSource(d)
<1>1. /\ c \in Chanend /\ ~waiting[t] /\ ~eeble[t] /\ pend[t] \in {NULL, i}
      /\ pausedOut[c] = NULL
      /\ \A e \in Chanend : ~Has(queue[e], c)
      /\ \A e \in Chanend : source[e] = c => d = e
  BY ExecLemma DEF OutPause
<1>2. d \in Chanend /\ source[d] \in {NULL, c} /\ ~junkPacket[c]
  BY <1>1, RouteLemma, Zenon DEF OutPause, IInv
<1>3. /\ Continue(t, Writers(h), {}) /\ Release(d)
      /\ UNCHANGED <<inUse, junkIncoming, destID, junkPacket, buf, pausedIn, waitForWord,
                     owner, eventsEnabled>>
  BY Zenon DEF OutPause, eventVars
<1>4. /\ ~inPacket'[c] /\ \A x \in Chanend : x # c => inPacket'[x] = inPacket[x]
      /\ \A x \in Chanend : x # c => dest'[x] = dest[x]
  BY <1>1, <1>2, Zenon DEF OutPause, IInv, TypeOK
<1>5. \A e : OutOn(pend[t], e) => e = c
  BY <1>1, OnLemma, SMTT(20)
<1>6. Ends(c, d, h)
  BY <1>3, <1>4 DEF Ends
<1> HIDE DEF c, d, h
<1>7. \A x \in Writers(h) : x \in Thread /\ waiting[x] /\ \E e \in Chanend : OutOn(pend[x], e)
  <2>1. /\ h # NULL => h \in Chanend
        /\ Writers(h) = {x \in Thread : h # NULL /\ pausedOut[h] = x}
    BY <1>2, <1>6, HandoverLemma DEF Ends
  <2> QED BY <2>1, Zenon DEF WInv, WritersInv
<1>8. \A x \in Writers(h) : ~eeble[x]
  BY <1>7, OnLemma, SMTT(30) DEF WInv, ThreadsInv
<1>9. /\ \A x \in Thread : /\ waiting'[x] => pend'[x] # NULL
                           /\ eeble'[x] => waiting'[x]
                           /\ eeble'[x] <=> pend'[x] = WAITEU
                           /\ eeble'[x] => eeble[x]
      /\ \A x \in Thread, e \in Chanend :
           /\ OutOn(pend'[x], e) => OutOn(pend[x], e)
           /\ InOn(pend'[x], e) => InOn(pend[x], e)
           /\ waiting'[x] /\ OutOn(pend'[x], e)
                <=> waiting[x] /\ OutOn(pend[x], e) /\ x \notin Writers(h)
           /\ waiting'[x] /\ InOn(pend'[x], e)
                <=> waiting[x] /\ InOn(pend[x], e) /\ x \notin Writers(h)
           /\ waiting[x] /\ (OutOn(pend[x], e) \/ InOn(pend[x], e)) => pend'[x] = pend[x]
           /\ ~OutOn(pend[t], e) /\ ~waiting[x] /\ OutOn(pend[x], e)
                => ~waiting'[x] /\ OutOn(pend'[x], e)
  <2>1. Resumed(t, Writers(h), {})
    BY <1>1, <1>3, <1>8, ContinueLemma
  <2> QED BY <2>1, SMTT(30) DEF Resumed
<1>10. ThreadsInv' /\ NoMissedEvent'
  <2>1. ThreadsInv'
    BY <1>3, <1>9, Zenon DEF WInv, ThreadsInv
  <2>2. NoMissedEvent'
    BY <1>3, <1>9, Zenon DEF WInv, NoMissedEvent
  <2> QED BY <2>1, <2>2
<1>11. ReadersInv'
  <2>1. \A x \in Thread, e \in Chanend : InOn(pend[x], e) => x \notin Writers(h)
    BY <1>7, OnLemma, Zenon
  <2>2. \A x \in Thread, e \in Chanend :
          /\ waiting'[x] /\ InOn(pend'[x], e) <=> waiting[x] /\ InOn(pend[x], e)
          /\ waiting[x] /\ InOn(pend[x], e) => pend'[x] = pend[x]
    BY <1>9, <2>1, Zenon
  <2> QED BY <1>3, <2>2, SMTT(30) DEF WInv, ReadersInv
<1>12. WritersInv' /\ FullInv' /\ ClaimsInv' /\ HoldersInv'
  BY <1>1, <1>2, <1>5, <1>6, <1>9, EndsLemma, SMTT(30)
<1> QED BY <1>10, <1>11, <1>12, Zenon DEF WInv

-----------------------------------------------------------------------------
(* Every instruction keeps the bookkeeping of pauses and claims.           *)
LEMMA NextWInv ==
  ASSUME Disciplined, ~Interrupts, IInv, WInv, [Next]_vars
  PROVE  WInv'
<1>1. CASE UNCHANGED vars
  <2>1. UNCHANGED <<inUse, source, queue, destID, dest, inPacket, junkPacket, buf, pausedOut,
                    pausedIn, waitForWord, owner, eventsEnabled, eeble, waiting, pend>>
    BY <1>1 DEF vars, endpointVars, senderVars, pauseVars, eventVars, threadVars
  <2>2. ThreadsInv' /\ NoMissedEvent'
    BY <2>1, Zenon DEF WInv, ThreadsInv, NoMissedEvent
  <2>3. ReadersInv' /\ WritersInv'
    BY <2>1, Zenon DEF WInv, ReadersInv, WritersInv
  <2>4. FullInv' /\ ClaimsInv'
    BY <2>1, Zenon DEF WInv, FullInv, ClaimsInv, CanAccept
  <2>5. HoldersInv'
    BY <2>1 DEF WInv, HoldersInv, Target
  <2> QED BY <2>2, <2>3, <2>4, <2>5, Zenon DEF WInv
<1>2. CASE Next
  <2>1. PICK t \in Thread :
          \/ \E c \in Chanend : GETR(t, c) \/ FREER(t, c) \/ EEU(t, c) \/ EDU(t, c)
          \/ \E c \in Chanend, d \in Targets : SETD(t, c, d)
          \/ \E i \in OutInstr : Out(t, i)
          \/ \E i \in InInstr : In(t, i)
          \/ \E i \in OutInstr \cup InInstr : IllegalResource(t, i)
          \/ CLRE(t) \/ WaitEU(t) \/ Interrupt(t)
    BY <1>2, Zenon DEF Next
  <2>2. CASE \E c \in Chanend : GETR(t, c) \/ FREER(t, c) \/ EEU(t, c) \/ EDU(t, c)
    BY <2>2, WakeGETR, WakeFREER, WakeEvents, Zenon
  <2>3. CASE \E c \in Chanend, d \in Targets : SETD(t, c, d)
    BY <2>3, WakeSETD, Zenon
  <2>4. ASSUME NEW i \in OutInstr, Out(t, i) PROVE WInv'
    BY <2>4, WakeOutBlocked, WakeOutJunk, WakeOutFull, WakeOutSend, WakeOutEnd, WakeOutPause, SMTT(30)
       DEF Out
  <2>5. ASSUME NEW i \in InInstr, In(t, i) PROVE WInv'
    BY <2>5, WakeInWait, WakeInTake, Zenon DEF In
  <2>6. CASE \E i \in OutInstr \cup InInstr : IllegalResource(t, i)
    BY <2>6, WakeIllegal, Zenon
  <2>7. CASE CLRE(t)
    BY <2>7, WakeCLRE, Zenon
  <2>8. CASE WaitEU(t)
    BY <2>8, WakeWaitEU, Zenon
  <2>9. CASE Interrupt(t)
    BY <2>9 DEF Interrupt
  <2> QED BY <2>1, <2>2, <2>3, <2>4, <2>5, <2>6, <2>7, <2>8, <2>9, Zenon
<1> QED BY <1>1, <1>2, Zenon

(* In disciplined programs without interrupts the bookkeeping is right in  *)
(* every reachable state.                                                  *)
THEOREM WakeInvariance ==
  ASSUME Disciplined, ~Interrupts
  PROVE  Spec => [](IInv /\ WInv)
<1>1. IInv /\ WInv /\ [Next]_vars => IInv' /\ WInv'
  BY NextIInv, NextWInv
<1> QED BY <1>1, InitIInv, InitWInv, PTL DEF Spec

(* No sender is stranded: whoever is paused on an output is registered     *)
(* where the release of the route (ChanEndpoint::release) or the next      *)
(* input at the destination (notifyDestCanAcceptTokens) wakes it.          *)
THEOREM SendersAreWoken ==
  ASSUME Disciplined, ~Interrupts
  PROVE  Spec => []NoStrandedSender
<1>1. ASSUME IInv, WInv PROVE NoStrandedSender
  <2> SUFFICES ASSUME NEW t \in Thread, Paused(t, OutOps)
               PROVE  LET c == pend[t].chan
                          d == dest[c]
                      IN /\ pausedOut[c] = t
                         /\ IF inPacket[c]
                            THEN source[d] = c /\ ~CanAccept(d, pend[t].op)
                            ELSE /\ source[d] \notin {c, NULL}
                                 /\ \E k \in 1 .. Len(queue[d]) : queue[d][k] = c
    BY DEF NoStrandedSender
  <2> DEFINE c == pend[t].chan
             d == dest[c]
  <2>1. waiting[t] /\ OutOn(pend[t], c)
    BY DEF Paused, OutOn
  <2>2. c \in Chanend
    <3>1. pend[t] \in OutInstr \cup InInstr
      <4>1. pend[t] \in OutInstr \cup InInstr \cup {WAITEU, NULL}
        BY <1>1 DEF IInv, TypeOK
      <4> QED BY <2>1, <4>1, OnLemma
    <3> QED BY <3>1, OnLemma, Zenon
  <2> HIDE DEF c
  <2>3. pausedOut[c] = t
    BY <1>1, <2>1, <2>2, Zenon DEF WInv, WritersInv
  <2>4. CASE inPacket[c]
    <3>1. ~junkPacket[c] /\ ~CanAccept(d, pend[t].op)
      BY <1>1, <2>2, <2>3, <2>4, Zenon DEF WInv, FullInv
    <3>2. source[d] = c
      BY <1>1, <2>2, <2>4, <3>1, Zenon DEF IInv, RouteInv, RouteOwned
    <3> QED BY <2>3, <2>4, <3>1, <3>2, Zenon DEF c
  <2>5. CASE ~inPacket[c]
    <3>1. d \in Chanend /\ Has(queue[d], c)
      BY <1>1, <2>2, <2>3, <2>5, ConstAssumption, Zenon DEF WInv, ClaimsInv
    <3>2. source[d] # c
      BY <1>1, <2>2, <3>1, Zenon DEF WInv, ClaimsInv
    <3>3. queue[d] # <<>>
      BY <3>1 DEF Has
    <3>4. source[d] # NULL
      BY <1>1, <3>1, <3>3, Zenon DEF IInv, RouteInv, RouteOwned
    <3> QED BY <2>3, <2>5, <3>1, <3>2, <3>4, Zenon DEF c, Has
  <2> QED BY <2>4, <2>5, Zenon
<1> QED BY <1>1, WakeInvariance, PTL

(* No reader is stranded: whoever is paused on an input lacks the tokens   *)
(* it asked for, and is the thread that Chanend::update will wake.         *)
THEOREM ReadersAreWoken ==
  ASSUME Disciplined, ~Interrupts
  PROVE  Spec => []NoStrandedReader
<1>1. ASSUME IInv, WInv PROVE NoStrandedReader
  <2> SUFFICES ASSUME NEW t \in Thread, Paused(t, InOps)
               PROVE  LET c == pend[t].chan
                      IN /\ pausedIn[c] = t
                         /\ Len(buf[c]) < (IF pend[t].op \in WordInOps THEN WordLen ELSE 1)
    BY DEF NoStrandedReader, InOps
  <2> DEFINE c == pend[t].chan
  <2>1. waiting[t] /\ InOn(pend[t], c)
    BY DEF Paused, InOn
  <2>2. c \in Chanend
    <3>1. pend[t] \in OutInstr \cup InInstr
      <4>1. pend[t] \in OutInstr \cup InInstr \cup {WAITEU, NULL}
        BY <1>1 DEF IInv, TypeOK
      <4> QED BY <2>1, <4>1, OnLemma
    <3> QED BY <3>1, OnLemma
  <2> HIDE DEF c
  <2>3. pausedIn[c] = t
    BY <1>1, <2>1, <2>2, Zenon DEF WInv, ReadersInv
  <2>4. Len(buf[c]) < (IF pend[t].op \in WordInOps THEN WordLen ELSE 1)
    BY <1>1, <2>2, <2>3 DEF WInv, ReadersInv
  <2> QED BY <2>3, <2>4, Zenon DEF c
<1> QED BY <1>1, WakeInvariance, PTL

(* No event is missed: a thread that waits with EEBLE set has no chanend   *)
(* whose enabled event is already there (setSR, Chanend::update).          *)
THEOREM EventsAreTaken ==
  ASSUME Disciplined, ~Interrupts
  PROVE  Spec => []NoMissedEvent
<1>1. WInv => NoMissedEvent
  BY DEF WInv
<1> QED BY <1>1, WakeInvariance, PTL

(* A route is never lost: who has it is inside a packet to that chanend,   *)
(* or has been given it and is about to execute its output.                *)
THEOREM RoutesAreHeld ==
  ASSUME Disciplined, ~Interrupts
  PROVE  Spec => []RouteHeld
<1>1. ASSUME IInv, WInv PROVE RouteHeld
  <2> SUFFICES ASSUME NEW d \in Chanend, source[d] # NULL
               PROVE  LET s == source[d]
                      IN \/ inPacket[s] /\ dest[s] = d
                         \/ \E t \in Thread : /\ pend[t] # NULL /\ pend[t].op \in OutOps
                                              /\ pend[t].chan = s /\ ~waiting[t]
                                              /\ destID[s] = d
    BY DEF RouteHeld
  <2> DEFINE s == source[d]
  <2>1. /\ Target(s) = d
        /\ ~inPacket[s] => \E t \in Thread : ~waiting[t] /\ OutOn(pend[t], s)
    BY <1>1 DEF WInv, HoldersInv
  <2>2. CASE inPacket[s]
    BY <2>1, <2>2, Zenon DEF Target
  <2>3. CASE ~inPacket[s]
    BY <2>1, <2>3 DEF Target, OutOn
  <2> QED BY <2>2, <2>3, Zenon
<1> QED BY <1>1, WakeInvariance, PTL
=============================================================================
