----------------------------- MODULE ChanWakeOut ----------------------------
(***************************************************************************)
(* The bookkeeping of pauses and claims (WInv of ChanWakeBase) across the  *)
(* outputs that have their route, where the destination is full, or takes  *)
(* the tokens and wakes whoever waited for them; and across the outputs    *)
(* that go nowhere.                                                        *)
(***************************************************************************)
EXTENDS ChanWakeBase

(* openRoute succeeds for chanend c: who waits, or has another route, is   *)
(* not c, and waits for a route that c does not take.                      *)
LEMMA TakenClaims ==
  ASSUME IInv, WInv, NEW c \in Chanend, NEW d \in Chanend, RouteTaken(c, d),
         source[d] \in {NULL, c}, ~junkPacket[c],
         \A e \in Chanend : ~Has(queue[e], c),
         \A e \in Chanend : source[e] = c => Target(c) = e, Target(c) = d,
         \A x \in Chanend : x # c => pausedOut'[x] = pausedOut[x],
         \A x \in Thread, e \in Chanend :
           e # c /\ ~waiting[x] /\ OutOn(pend[x], e) => ~waiting'[x] /\ OutOn(pend'[x], e),
         UNCHANGED destID
  PROVE  ClaimsInv' /\ HoldersInv'
<1>1. ClaimsInv'
  BY DEF RouteTaken, WInv, ClaimsInv
<1>2. HoldersInv'
  <2>1. ASSUME NEW e \in Chanend, source'[e] # NULL
        PROVE  /\ Target(source[e])' = e /\ ~junkPacket'[source'[e]]
               /\ ~inPacket'[source'[e]] =>
                    \E x \in Thread : ~waiting'[x] /\ OutOn(pend'[x], source'[e])
    <3>1. CASE e = d
      BY <3>1, Zenon DEF RouteTaken, Target
    <3>2. CASE e # d
      <4>1. source'[e] = source[e] /\ source[e] \in Chanend /\ source[e] # c
        BY <2>1, <3>2 DEF RouteTaken, IInv, TypeOK
      <4>2. /\ Target(source[e]) = e /\ ~junkPacket[source[e]]
            /\ ~inPacket[source[e]] =>
                 \E x \in Thread : ~waiting[x] /\ OutOn(pend[x], source[e])
        BY <2>1, <4>1 DEF WInv, HoldersInv
      <4> QED BY <4>1, <4>2 DEF RouteTaken, Target
    <3> QED BY <3>1, <3>2, Zenon
  <2> QED BY <2>1 DEF HoldersInv
<1> QED BY <1>1, <1>2, Zenon

(* An output that finds no room waits inside its packet.                   *)
LEMMA WakeOutFull ==
  ASSUME Disciplined, IInv, WInv, NEW t \in Thread, NEW i \in OutInstr, OutFull(t, i)
  PROVE  WInv'
<1> DEFINE c == i.chan
           d == Target(c)
<1>1. /\ c \in Chanend /\ owner[c] = t /\ ~waiting[t] /\ ~eeble[t] /\ pend[t] \in {NULL, i}
      /\ pausedOut[c] = NULL
      /\ \A e \in Chanend : ~Has(queue[e], c)
      /\ \A e \in Chanend : source[e] = c => d = e
  BY ExecLemma DEF OutFull
<1>2. d \in Chanend /\ source[d] \in {NULL, c} /\ ~junkPacket[c]
  BY <1>1, RouteLemma DEF OutFull, IInv
<1>3. /\ Pause(t, i) /\ UNCHANGED eeble /\ ~CanAccept(d, i.op)
      /\ UNCHANGED <<inUse, junkIncoming, queue, destID, junkPacket, buf, pausedIn,
                     waitForWord, owner, eventsEnabled>>
  BY Zenon DEF OutFull, eventVars
<1>4. /\ source'[d] = c /\ \A x \in Chanend : x # d => source'[x] = source[x]
      /\ dest'[c] = d /\ \A x \in Chanend : x # c => dest'[x] = dest[x]
      /\ inPacket'[c] /\ \A x \in Chanend : x # c => inPacket'[x] = inPacket[x]
      /\ pausedOut'[c] = t /\ \A x \in Chanend : x # c => pausedOut'[x] = pausedOut[x]
  BY <1>1, <1>2, Zenon DEF OutFull, IInv, TypeOK
<1>5. /\ waiting'[t] /\ pend'[t] = i
      /\ \A x \in Thread : x # t => waiting'[x] = waiting[x] /\ pend'[x] = pend[x]
      /\ \A x \in Thread : /\ waiting'[x] => pend'[x] # NULL
                           /\ eeble'[x] => waiting'[x]
                           /\ eeble'[x] <=> pend'[x] = WAITEU
      /\ \A x \in Thread, e \in Chanend :
           OutOn(pend'[x], e) \/ InOn(pend'[x], e) => owner[e] = x
      /\ \A x \in Thread, e \in Chanend :
           e # c /\ ~waiting[x] /\ OutOn(pend[x], e) => ~waiting'[x] /\ OutOn(pend'[x], e)
  BY <1>1, <1>3, PauseLemma, Zenon
<1>6. \A e : (OutOn(i, e) <=> e = c) /\ ~InOn(i, e)
  BY OnLemma
<1>7. RouteTaken(c, d)
  BY <1>3, <1>4, Zenon DEF RouteTaken
<1>8. ClaimsInv' /\ HoldersInv'
  BY <1>1, <1>2, <1>3, <1>4, <1>5, <1>7, TakenClaims, SMTT(30)
<1> HIDE DEF c, d
<1>9. ThreadsInv'
  BY <1>3, <1>5, Zenon DEF WInv, ThreadsInv
<1>10. \A x \in Chanend : pausedOut[x] # t /\ pausedIn[x] # t
  BY <1>1 DEF WInv, WritersInv, ReadersInv
<1>11. ReadersInv'
  BY <1>1, <1>3, <1>5, <1>6, <1>10, SMTT(30) DEF WInv, ReadersInv
<1>12. WritersInv'
  BY <1>1, <1>4, <1>5, <1>6, <1>10, ConstAssumption, SMTT(30) DEF WInv, WritersInv, ThreadsInv
<1>13. FullInv'
  <2>1. ASSUME NEW x \in Thread, NEW e \in Chanend, pausedOut'[e] = x, inPacket'[e]
        PROVE  ~junkPacket'[e] /\ ~CanAccept(dest[e], pend[x].op)'
    <3>1. CASE e = c
      BY <1>2, <1>3, <1>4, <1>5, <2>1, <3>1, Zenon DEF CanAccept
    <3>2. CASE e # c
      <4>1. pausedOut[e] = x /\ inPacket[e] /\ dest'[e] = dest[e] /\ x # t
        BY <1>4, <1>10, <2>1, <3>2, Zenon
      <4>2. ~junkPacket[e] /\ ~CanAccept(dest[e], pend[x].op)
        BY <4>1, Zenon DEF WInv, FullInv
      <4> QED BY <1>3, <1>5, <4>1, <4>2, Zenon DEF CanAccept
    <3> QED BY <3>1, <3>2, Zenon
  <2> QED BY <2>1, Zenon DEF FullInv, CanAccept
<1>14. NoMissedEvent'
  BY <1>3 DEF WInv, NoMissedEvent
<1> QED BY <1>8, <1>9, <1>11, <1>12, <1>13, <1>14, Zenon DEF WInv

-----------------------------------------------------------------------------
(* The step of t makes the buffer of d len tokens long and calls Chanend:: *)
(* update; it wakes the threads in writers too.                            *)
Updates(t, d, len, writers) ==
  /\ Len(buf'[d]) = len /\ \A x \in Chanend : x # d => buf'[x] = buf[x]
  /\ pausedIn'[d] = (IF WakesReader(d, len) THEN NULL ELSE pausedIn[d])
  /\ \A x \in Chanend : x # d => pausedIn'[x] = pausedIn[x]
  /\ Continue(t, Readers(d, len) \cup writers, Evented(d))
  /\ UNCHANGED <<inUse, waitForWord, owner, eventsEnabled>>

(* Chanend::update: a reader that now has what it waits for is woken, and  *)
(* an event that is permitted is taken.                                    *)
LEMMA UpdateLemma ==
  ASSUME IInv, WInv, NEW t \in Thread, NEW d \in Chanend, NEW len \in Nat, NEW writers,
         ~waiting[t], ~eeble[t],
         \A x \in writers : x \in Thread /\ waiting[x] /\ \E e \in Chanend : OutOn(pend[x], e),
         Updates(t, d, len, writers)
  PROVE  /\ ThreadsInv' /\ ReadersInv' /\ NoMissedEvent'
         /\ \A x \in Thread, e \in Chanend :
              /\ waiting'[x] /\ OutOn(pend'[x], e)
                   <=> waiting[x] /\ OutOn(pend[x], e) /\ x \notin writers
              /\ waiting[x] /\ OutOn(pend[x], e) => pend'[x] = pend[x]
              /\ ~OutOn(pend[t], e) /\ ~waiting[x] /\ OutOn(pend[x], e)
                   => ~waiting'[x] /\ OutOn(pend'[x], e)
<1> DEFINE readers == Readers(d, len)
           woken == readers \cup writers
           evented == Evented(d)
<1>1. \A x \in Thread, e \in Chanend : pausedIn[e] = x <=> waiting[x] /\ InOn(pend[x], e)
  BY DEF WInv, ReadersInv
<1>2. \A x \in Thread : eeble[x] <=> pend[x] = WAITEU
  BY Zenon DEF WInv, ThreadsInv
<1>3. pausedIn[d] \in Thread \cup {NULL} /\ owner[d] \in Thread \cup {NULL}
  BY DEF IInv, TypeOK
<1>4. \A x \in readers : x \in Thread /\ pausedIn[d] = x /\ WakesReader(d, len)
  BY <1>3 DEF Readers, NonNull
<1>5. \A x \in evented : x \in Thread /\ eeble[x]
  BY <1>3 DEF Evented, EventsPermitted
<1>6. \A x \in Thread : pausedIn[d] = x => x \in readers \/ ~WakesReader(d, len)
  BY ConstAssumption DEF Readers, NonNull
<1>7. \A x \in Thread : eeble[x] /\ owner[d] = x /\ eventsEnabled[d] => x \in evented
  BY ConstAssumption DEF Evented, EventsPermitted
<1>8. ASSUME NEW x \in Thread, pausedIn[d] = x, ~WakesReader(d, len)
      PROVE  waitForWord[d] /\ len < WordLen
  <2>1. owner[d] = x /\ ~eeble[x]
    BY <1>1, <1>2, <1>8, OnLemma DEF WInv, ThreadsInv
  <2> QED BY <1>8, <2>1, Zenon DEF WakesReader, EventsPermitted
<1>9. /\ pausedIn'[d] = IF WakesReader(d, len) THEN NULL ELSE pausedIn[d]
      /\ \A x \in Chanend : x # d => pausedIn'[x] = pausedIn[x]
  BY DEF Updates
<1>10. /\ Continue(t, woken, evented) /\ UNCHANGED <<inUse, waitForWord, owner, eventsEnabled>>
       /\ Len(buf'[d]) = len /\ \A x \in Chanend : x # d => buf'[x] = buf[x]
  BY DEF Updates
<1> HIDE DEF readers, evented
<1>11. \A x \in woken : ~eeble[x]
  <2>1. ASSUME NEW x \in readers PROVE pend[x] # WAITEU
    <3>1. InOn(pend[x], d)
      BY <1>1, <1>4, Zenon
    <3> QED BY <3>1, OnLemma
  <2>2. \A x \in writers : pend[x] # WAITEU
    BY OnLemma, SMTT(30)
  <2> QED BY <1>2, <1>4, <2>1, <2>2, Zenon
<1> HIDE DEF woken
<1>12. Resumed(t, woken, evented)
  BY <1>5, <1>10, <1>11, ContinueLemma
<1>13. \A x \in Thread, e \in Chanend : OutOn(pend[x], e) => (x \in woken <=> x \in writers)
  BY <1>1, <1>4, OnLemma, Zenon DEF woken
<1>14. \A x \in Thread, e \in Chanend : InOn(pend[x], e) => (x \in woken <=> x \in readers)
  BY OnLemma, Zenon DEF woken
<1>15. ThreadsInv'
  BY <1>10, <1>12, Zenon DEF Resumed, WInv, ThreadsInv
<1>16. ReadersInv'
  <2>1. ASSUME NEW x \in Thread, NEW e \in Chanend
        PROVE  pausedIn'[e] = x <=> pausedIn[e] = x /\ x \notin readers
    <3>1. CASE e = d
      BY <1>4, <1>6, <1>9, <3>1, ConstAssumption
    <3>2. CASE e # d
      <4>1. x \in readers => pausedIn[e] # x
        BY <1>1, <1>4, <3>2, OnLemma, SMTT(30)
      <4> QED BY <1>9, <3>2, <4>1, Zenon
    <3> QED BY <3>1, <3>2, Zenon
  <2>2. \A x \in Thread, e \in Chanend : pausedIn'[e] = x <=> waiting'[x] /\ InOn(pend'[x], e)
    BY <1>1, <1>12, <1>14, <2>1, SMTT(30) DEF Resumed
  <2>3. ASSUME NEW x \in Thread, NEW e \in Chanend, pausedIn'[e] = x
        PROVE  /\ waitForWord'[e] <=> pend'[x].op \in WordInOps
               /\ Len(buf'[e]) < (IF waitForWord'[e] THEN WordLen ELSE 1)
    <3>1. pausedIn[e] = x /\ x \notin readers /\ pend'[x] = pend[x]
      BY <1>1, <1>12, <2>1, <2>3, SMTT(30) DEF Resumed
    <3>2. /\ waitForWord[e] <=> pend[x].op \in WordInOps
          /\ Len(buf[e]) < (IF waitForWord[e] THEN WordLen ELSE 1)
      BY <3>1, Zenon DEF WInv, ReadersInv
    <3>3. CASE e = d
      BY <1>6, <1>8, <1>10, <3>1, <3>2, <3>3, Zenon
    <3>4. CASE e # d
      BY <1>10, <3>1, <3>2, <3>4, Zenon
    <3> QED BY <3>3, <3>4, Zenon
  <2> QED BY <2>2, <2>3, Zenon DEF ReadersInv
<1>17. NoMissedEvent'
  <2>1. ASSUME NEW x \in Thread, NEW e \in Chanend, eeble'[x], owner'[e] = x, eventsEnabled'[e]
        PROVE  buf'[e] = <<>>
    <3>1. eeble[x] /\ x \notin evented /\ owner[e] = x /\ eventsEnabled[e]
      BY <1>10, <1>12, <2>1, Zenon DEF Resumed
    <3>2. e # d
      BY <1>7, <3>1
    <3> QED BY <1>10, <3>1, <3>2, Zenon DEF WInv, NoMissedEvent
  <2> QED BY <2>1, Zenon DEF NoMissedEvent
<1> QED BY <1>12, <1>13, <1>15, <1>16, <1>17, Zenon DEF Resumed

(* An output into a buffer that has room.                                  *)
LEMMA WakeOutSend ==
  ASSUME Disciplined, IInv, WInv, NEW t \in Thread, NEW i \in OutInstr, OutSend(t, i)
  PROVE  WInv'
<1> DEFINE c == i.chan
           d == Target(c)
           len == Len(buf[d]) + NumTokens(i.op)
<1>1. /\ c \in Chanend /\ ~waiting[t] /\ ~eeble[t] /\ pend[t] \in {NULL, i}
      /\ pausedOut[c] = NULL
      /\ \A e \in Chanend : ~Has(queue[e], c)
      /\ \A e \in Chanend : source[e] = c => d = e
  BY ExecLemma, SMTT(30) DEF OutSend
<1>2. d \in Chanend /\ source[d] \in {NULL, c} /\ ~junkPacket[c]
  BY <1>1, RouteLemma, Zenon DEF OutSend, IInv
<1>3. /\ Continue(t, Readers(d, len), Evented(d))
      /\ UNCHANGED <<inUse, junkIncoming, queue, destID, junkPacket, pausedOut, waitForWord,
                     owner, eventsEnabled>>
  BY Zenon DEF OutSend, eventVars
<1>4. /\ source'[d] = c /\ \A x \in Chanend : x # d => source'[x] = source[x]
      /\ dest'[c] = d /\ \A x \in Chanend : x # c => dest'[x] = dest[x]
      /\ inPacket'[c] /\ \A x \in Chanend : x # c => inPacket'[x] = inPacket[x]
      /\ buf'[d] = buf[d] \o Tokens(c, i.op) /\ \A x \in Chanend : x # d => buf'[x] = buf[x]
      /\ pausedIn'[d] = (IF WakesReader(d, len) THEN NULL ELSE pausedIn[d])
      /\ \A x \in Chanend : x # d => pausedIn'[x] = pausedIn[x]
  BY <1>1, <1>2, Zenon DEF OutSend, IInv, TypeOK
<1>5. buf[d] \in Seq(Token) /\ NumTokens(i.op) \in Nat
  BY <1>1, <1>2, TokensLemma, Zenon DEF IInv, TypeOK
<1>6. len \in Nat /\ Len(buf'[d]) = len
  <2>1. Len(buf[d]) \in Nat
    BY <1>5, LenFact, Zenon
  <2>2. Len(buf[d] \o Tokens(c, i.op)) = len
    BY <1>1, <1>5, SentLemma, Zenon
  <2> QED BY <1>4, <1>5, <2>1, <2>2, SMTT(30)
<1>7. RouteTaken(c, d)
  BY <1>3, <1>4 DEF RouteTaken
<1>8. Target(c) = d
  OBVIOUS
<1>10. \A e : OutOn(pend[t], e) => e = c
  BY <1>1, OnLemma
<1> HIDE DEF c, d, len
<1>9. /\ ThreadsInv' /\ ReadersInv' /\ NoMissedEvent'
      /\ \A x \in Thread, e \in Chanend :
           /\ waiting'[x] /\ OutOn(pend'[x], e) <=> waiting[x] /\ OutOn(pend[x], e)
           /\ waiting[x] /\ OutOn(pend[x], e) => pend'[x] = pend[x]
           /\ ~OutOn(pend[t], e) /\ ~waiting[x] /\ OutOn(pend[x], e)
                => ~waiting'[x] /\ OutOn(pend'[x], e)
  <2>1. PICK none \in {{}} : \A x : x \notin none
    BY Zenon
  <2>2. Updates(t, d, len, none)
    <3>1. Readers(d, len) \cup none = Readers(d, len)
      BY <2>1
    <3> QED BY <1>3, <1>4, <1>6, <3>1, Zenon DEF Updates
  <2> QED BY <1>1, <1>2, <1>6, <2>1, <2>2, UpdateLemma, SMTT(30)
<1>11. ClaimsInv' /\ HoldersInv'
  BY <1>1, <1>2, <1>3, <1>7, <1>8, <1>9, <1>10, TakenClaims, Zenon
<1>12. WritersInv'
  BY <1>3, <1>9, Zenon DEF WInv, WritersInv
<1>13. FullInv'
  <2>1. ASSUME NEW x \in Thread, NEW e \in Chanend, pausedOut'[e] = x, inPacket'[e]
        PROVE  ~junkPacket'[e] /\ ~CanAccept(dest[e], pend[x].op)'
    <3>1. pausedOut[e] = x /\ e # c /\ inPacket[e] /\ dest'[e] = dest[e]
      BY <1>1, <1>3, <1>4, <2>1, ConstAssumption, Zenon
    <3>2. ~junkPacket[e] /\ ~CanAccept(dest[e], pend[x].op)
      BY <3>1 DEF WInv, FullInv
    <3>3. dest[e] \in Chanend /\ source[dest[e]] = e
      BY <3>1, <3>2, Zenon DEF IInv, RouteInv, RouteOwned
    <3>4. buf'[dest[e]] = buf[dest[e]]
      BY <1>2, <1>4, <3>1, <3>3, ConstAssumption, SMTT(30)
    <3>5. pend'[x] = pend[x]
      BY <1>9, <3>1 DEF WInv, WritersInv
    <3> QED BY <1>3, <3>1, <3>2, <3>4, <3>5, Zenon DEF CanAccept
  <2> QED BY <2>1 DEF FullInv, CanAccept
<1> QED BY <1>9, <1>11, <1>12, <1>13, Zenon DEF WInv

-----------------------------------------------------------------------------
(* An output of a junked packet: its chanend has no route to give up.      *)
LEMMA WakeOutJunk ==
  ASSUME Disciplined, IInv, WInv, NEW t \in Thread, NEW i \in OutInstr, OutJunk(t, i)
  PROVE  WInv'
<1> DEFINE c == i.chan
<1>1. /\ c \in Chanend /\ owner[c] = t /\ ~waiting[t] /\ ~eeble[t] /\ pend[t] \in {NULL, i}
      /\ pausedOut[c] = NULL
      /\ \A e \in Chanend : ~Has(queue[e], c)
      /\ \A e \in Chanend : source[e] = c => Target(c) = e /\ ~junkPacket[c]
  BY ExecLemma DEF OutJunk
<1>2. \A e \in Chanend : source[e] # c
  <2>1. ASSUME NEW e \in Chanend, source[e] = c
        PROVE  FALSE
    <3>1. ~inPacket[c] /\ junkIncoming[e]
      BY <1>1, <2>1 DEF OutJunk, Junked
    <3>2. source[e] = NULL
      BY <3>1 DEF IInv, RouteInv, FreedIsIdle
    <3> QED BY <1>1, <2>1, <3>2, ConstAssumption, Zenon
  <2> QED BY <2>1
<1>3. /\ Continue(t, {}, {})
      /\ UNCHANGED <<inUse, source, queue, destID, buf, pausedOut, pausedIn, waitForWord,
                     owner, eventsEnabled>>
  BY DEF OutJunk, endpointVars, pauseVars, eventVars
<1>4. \A x \in Chanend : x # c => /\ dest'[x] = dest[x] /\ inPacket'[x] = inPacket[x]
                                  /\ junkPacket'[x] = junkPacket[x]
  BY Zenon DEF OutJunk, IInv, TypeOK
<1>5. /\ \A x \in Thread : /\ waiting'[x] => pend'[x] # NULL
                           /\ eeble'[x] => waiting'[x]
                           /\ eeble'[x] <=> pend'[x] = WAITEU
                           /\ eeble'[x] => eeble[x]
      /\ \A x \in Thread, e \in Chanend :
           /\ OutOn(pend'[x], e) => OutOn(pend[x], e)
           /\ InOn(pend'[x], e) => InOn(pend[x], e)
           /\ waiting'[x] /\ OutOn(pend'[x], e) <=> waiting[x] /\ OutOn(pend[x], e)
           /\ waiting'[x] /\ InOn(pend'[x], e) <=> waiting[x] /\ InOn(pend[x], e)
           /\ waiting[x] /\ (OutOn(pend[x], e) \/ InOn(pend[x], e)) => pend'[x] = pend[x]
           /\ ~OutOn(pend[t], e) /\ ~waiting[x] /\ OutOn(pend[x], e)
                => ~waiting'[x] /\ OutOn(pend'[x], e)
  <2>1. Resumed(t, {}, {})
    BY <1>1, <1>3, ContinueLemma
  <2> QED BY <2>1, SMTT(30) DEF Resumed
<1>6. \A e : OutOn(pend[t], e) => e = c
  BY <1>1, OnLemma
<1> HIDE DEF c
<1>7. ThreadsInv' /\ NoMissedEvent'
  <2>1. ThreadsInv'
    BY <1>3, <1>5, Zenon DEF WInv, ThreadsInv
  <2>2. NoMissedEvent'
    BY <1>3, <1>5, Zenon DEF WInv, NoMissedEvent
  <2> QED BY <2>1, <2>2
<1>8. ReadersInv' /\ WritersInv'
  <2>1. ReadersInv'
    BY <1>3, <1>5, ZenonT(30) DEF WInv, ReadersInv
  <2>2. WritersInv'
    BY <1>3, <1>5, Zenon DEF WInv, WritersInv
  <2> QED BY <2>1, <2>2
<1>9. \A x \in Thread, e \in Chanend : pausedOut[e] = x => e # c /\ pend'[x] = pend[x]
  BY <1>1, <1>5, ConstAssumption, SMTT(30) DEF WInv, WritersInv
<1>10. FullInv'
  BY <1>3, <1>4, <1>9, ZenonT(30) DEF WInv, FullInv, CanAccept
<1>11. ClaimsInv'
  BY <1>1, <1>3, <1>4, SMTT(30) DEF WInv, ClaimsInv
<1>12. HoldersInv'
  <2>1. \A e \in Chanend : source[e] # NULL => source[e] \in Chanend /\ source[e] # c
    BY <1>2, Zenon DEF IInv, TypeOK
  <2>2. \A e \in Chanend : source[e] # NULL => Target(source[e])' = Target(source[e])
    BY <1>3, <1>4, <2>1, Zenon DEF Target
  <2>3. \A x \in Thread, e \in Chanend :
          e # c /\ ~waiting[x] /\ OutOn(pend[x], e) => ~waiting'[x] /\ OutOn(pend'[x], e)
    BY <1>5, <1>6
  <2> QED BY <1>3, <1>4, <2>1, <2>2, <2>3, Zenon DEF WInv, HoldersInv
<1> QED BY <1>7, <1>8, <1>10, <1>11, <1>12, Zenon DEF WInv
=============================================================================
