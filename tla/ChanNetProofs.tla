---------------------------- MODULE ChanNetProofs ----------------------------
(***************************************************************************)
(* The safety properties of the channel network that hold for every        *)
(* program, proved for any sets of threads and chanends and any buffer     *)
(* size.  The argument: an output touches its destination only when it     *)
(* holds the route there (RouteLemma), and only the end of a packet moves  *)
(* a route, so the inductive invariant IInv is preserved.                  *)
(***************************************************************************)
EXTENDS ChanNet, TLAPS

(* The inductive strengthening: a junked packet is a packet.               *)
JunkInPacket == \A c \in Chanend : junkPacket[c] => inPacket[c]

RouteInv == RouteOwned /\ FreedIsIdle /\ JunkInPacket

IInv == TypeOK /\ RouteInv /\ NoOverflow

-----------------------------------------------------------------------------
(* What the operators on sequences give, for the tokens of a buffer and    *)
(* the claims of a queue.                                                  *)
LEMMA EmptySeqFact ==
  /\ Len(<< >>) = 0 /\ \A S : << >> \in Seq(S)
  /\ \A S : \A s \in Seq(S) : s = << >> <=> Len(s) = 0
OBVIOUS

(* A sequence has a length and elements of its set.                        *)
LEMMA LenFact ==
  ASSUME NEW S, NEW s \in Seq(S)
  PROVE  Len(s) \in Nat /\ \A k \in 1 .. Len(s) : s[k] \in S
OBVIOUS

(* One token or claim is added behind the others.                          *)
LEMMA AppendFact ==
  ASSUME NEW S, NEW s \in Seq(S), NEW e \in S
  PROVE  /\ Append(s, e) \in Seq(S) /\ Len(Append(s, e)) = Len(s) + 1
         /\ \A k \in 1 .. Len(s) : Append(s, e)[k] = s[k]
         /\ Append(s, e)[Len(s) + 1] = e
OBVIOUS

(* The first token or claim is taken off.                                  *)
LEMMA TailFact ==
  ASSUME NEW S, NEW s \in Seq(S), s # << >>
  PROVE  /\ Head(s) \in S /\ Head(s) = s[1]
         /\ Tail(s) \in Seq(S) /\ Len(Tail(s)) = Len(s) - 1
         /\ \A k \in 1 .. Len(Tail(s)) : Tail(s)[k] = s[k + 1]
OBVIOUS

(* The tokens of an instruction are added behind the others.               *)
LEMMA ConcatFact ==
  ASSUME NEW S, NEW s \in Seq(S), NEW r \in Seq(S)
  PROVE  /\ s \o r \in Seq(S) /\ Len(s \o r) = Len(s) + Len(r)
         /\ \A k \in 1 .. (Len(s) + Len(r)) :
              (s \o r)[k] = IF k <= Len(s) THEN s[k] ELSE r[k - Len(s)]
OBVIOUS

-----------------------------------------------------------------------------
(* What openRoute guarantees (Chanend.cpp): an output that gets past it    *)
(* with a packet that is not junked has an allocated destination, whose    *)
(* route it holds or can take.                                             *)
LEMMA RouteLemma ==
  ASSUME TypeOK, RouteInv, NEW c \in Chanend, RouteOpen(c)
  PROVE  /\ Target(c) \in Chanend
         /\ inUse[Target(c)]
         /\ source[Target(c)] \in {NULL, c}
         /\ ~junkPacket[c]
<1>1. CASE inPacket[c]
  BY <1>1, ConstAssumption
     DEF TypeOK, RouteInv, RouteOwned, FreedIsIdle, RouteOpen, Junked, Target
<1>2. CASE ~inPacket[c]
  BY <1>2 DEF TypeOK, RouteInv, FreedIsIdle, JunkInPacket, RouteOpen, RouteBusy,
              Junked, Target
<1> QED BY <1>1, <1>2

(* The tokens of one output: at least one, all of them tokens.             *)
LEMMA TokensLemma ==
  ASSUME NEW c \in Chanend, NEW op
  PROVE  /\ NumTokens(op) \in Nat /\ NumTokens(op) > 0
         /\ Tokens(c, op) \in Seq(Token)
         /\ Len(Tokens(c, op)) = NumTokens(op)
<1>1. NumTokens(op) \in Nat /\ NumTokens(op) > 0
  BY ConstAssumption DEF NumTokens
<1>2. TokenKind(op) \in {"data", "end", "ack"}
  BY DEF TokenKind
<1>3. [kind |-> TokenKind(op), from |-> c] \in Token
  BY <1>2 DEF Token
<1>4. Tokens(c, op) \in [1 .. NumTokens(op) -> Token]
  BY <1>3 DEF Tokens
<1> QED BY <1>1, <1>4 DEF Tokens

(* A buffer after an output.                                               *)
LEMMA SentLemma ==
  ASSUME NEW b \in Seq(Token), NEW c \in Chanend, NEW op
  PROVE  /\ b \o Tokens(c, op) \in Seq(Token)
         /\ Len(b \o Tokens(c, op)) = Len(b) + NumTokens(op)
<1> DEFINE new == Tokens(c, op)
<1>1. new \in Seq(Token) /\ Len(new) = NumTokens(op)
  BY TokensLemma
<1> HIDE DEF new
<1>2. b \o new \in Seq(Token) /\ Len(b \o new) = Len(b) + Len(new)
  BY <1>1, ConcatFact, Zenon
<1> QED BY <1>1, <1>2 DEF new

-----------------------------------------------------------------------------
(* The initial state satisfies the inductive invariant.                     *)
THEOREM InitIInv == Init => IInv
<1> SUFFICES ASSUME Init PROVE IInv
  OBVIOUS
<1> USE ConstAssumption DEF Init
<1>1. TypeOK
  BY EmptySeqFact DEF TypeOK
<1>2. RouteInv
  BY DEF RouteInv, RouteOwned, FreedIsIdle, JunkInPacket
<1>3. NoOverflow
  BY EmptySeqFact DEF NoOverflow
<1> QED BY <1>1, <1>2, <1>3 DEF IInv

(* Allocation, release and event enabling of one chanend.                  *)
LEMMA AllocStep ==
  ASSUME IInv, NEW t \in Thread, NEW c \in Chanend,
         GETR(t, c) \/ FREER(t, c) \/ EEU(t, c) \/ EDU(t, c)
  PROVE  IInv'
<1> USE ConstAssumption DEF IInv
<1>1. CASE GETR(t, c)
  <2>1. TypeOK'
    BY <1>1 DEF GETR, TypeOK, threadVars
  <2>2. RouteInv' /\ NoOverflow'
    BY <1>1 DEF GETR, TypeOK, RouteInv, RouteOwned, FreedIsIdle, JunkInPacket, NoOverflow
  <2> QED BY <2>1, <2>2
<1>2. CASE FREER(t, c)
  <2>1. TypeOK'
    BY <1>2 DEF FREER, TypeOK, threadVars, senderVars, pauseVars
  <2>2. RouteInv' /\ NoOverflow'
    BY <1>2 DEF FREER, Idle, TypeOK, RouteInv, RouteOwned, FreedIsIdle, JunkInPacket, NoOverflow,
                senderVars
  <2> QED BY <2>1, <2>2, SMTT(20)
<1>3. CASE EEU(t, c)
  <2>1. TypeOK'
    BY <1>3 DEF EEU, UpdateOwner, Continue, TypeOK, senderVars, pauseVars, endpointVars
  <2>2. RouteInv' /\ NoOverflow'
    BY <1>3 DEF EEU, RouteInv, RouteOwned, FreedIsIdle, JunkInPacket, NoOverflow,
                senderVars, endpointVars
  <2> QED BY <2>1, <2>2, SMTT(20)
<1>4. CASE EDU(t, c)
  <2>1. TypeOK'
    BY <1>4 DEF EDU, UpdateOwner, TypeOK, threadVars, senderVars, pauseVars, endpointVars
  <2>2. RouteInv' /\ NoOverflow'
    BY <1>4 DEF EDU, RouteInv, RouteOwned, FreedIsIdle, JunkInPacket, NoOverflow,
                senderVars, endpointVars
  <2> QED BY <2>1, <2>2, SMTT(20)
<1> QED BY <1>1, <1>2, <1>3, <1>4

(* A new destination is set between packets only.                          *)
LEMMA SetDStep ==
  ASSUME IInv, NEW t \in Thread, NEW c \in Chanend, NEW d \in Targets, SETD(t, c, d)
  PROVE  IInv'
BY ConstAssumption
   DEF SETD, IInv, TypeOK, RouteInv, RouteOwned, FreedIsIdle, JunkInPacket, NoOverflow,
       threadVars, senderVars, pauseVars, eventVars, endpointVars

(* The exception for a freed chanend changes the thread alone.             *)
LEMMA IllegalStep ==
  ASSUME IInv, NEW t \in Thread, NEW i \in OutInstr \cup InInstr, IllegalResource(t, i)
  PROVE  IInv'
BY DEF IllegalResource, Continue, IInv, TypeOK, RouteInv, RouteOwned, FreedIsIdle,
       JunkInPacket, NoOverflow, endpointVars, senderVars, pauseVars, eventVars

(* So do the instructions and interrupts that name no chanend.             *)
LEMMA ThreadStep ==
  ASSUME IInv, NEW t \in Thread, CLRE(t) \/ WaitEU(t) \/ Interrupt(t)
  PROVE  IInv'
<1> USE DEF IInv, RouteInv, RouteOwned, FreedIsIdle, JunkInPacket, NoOverflow, TypeOK,
            endpointVars, senderVars, pauseVars
<1>1. CASE CLRE(t)
  BY <1>1 DEF CLRE
<1>2. CASE WaitEU(t)
  <2>1. /\ UNCHANGED <<inUse, endpointVars, destID, senderVars, buf, pauseVars, eventVars>>
        /\ \/ Continue(t, {}, {t})
           \/ eeble' = [eeble EXCEPT ![t] = TRUE] /\ Pause(t, WAITEU)
    BY <1>2, Zenon DEF WaitEU
  <2>2. CASE Continue(t, {}, {t})
    BY <2>1, <2>2 DEF Continue, eventVars
  <2>3. CASE eeble' = [eeble EXCEPT ![t] = TRUE] /\ Pause(t, WAITEU)
    BY <2>1, <2>3 DEF Pause, eventVars
  <2> QED BY <2>1, <2>2, <2>3
<1>3. CASE Interrupt(t)
  BY <1>3 DEF Interrupt, eventVars
<1> QED BY <1>1, <1>2, <1>3

(* The number of tokens that an input takes is a natural number.           *)
LEMMA TakesLemma ==
  ASSUME NEW c, NEW op
  PROVE  Takes(c, op) \in Nat
<1>1. WordLen \in Nat
  BY ConstAssumption
<1>2. Takes(c, op) \in {0, 1, WordLen}
  BY DEF Takes
<1> QED BY <1>1, <1>2

(* Taking n tokens off the front of a buffer (ring_buffer.h, pop_front).   *)
LEMMA DropLemma ==
  ASSUME NEW S, NEW s \in Seq(S), NEW n \in Nat
  PROVE  /\ SubSeq(s, n + 1, Len(s)) \in Seq(S)
         /\ Len(SubSeq(s, n + 1, Len(s))) = IF n <= Len(s) THEN Len(s) - n ELSE 0
         /\ \A k \in 1 .. Len(s) - n : SubSeq(s, n + 1, Len(s))[k] = s[k + n]
OBVIOUS

(* The inputs (Chanend::intoken, inct, chkct, in and tests) take tokens    *)
(* from one buffer and leave every route alone.                            *)
LEMMA InStep ==
  ASSUME IInv, NEW t \in Thread, NEW i \in InInstr, In(t, i)
  PROVE  IInv'
<1> USE DEF IInv, RouteInv, RouteOwned, FreedIsIdle, JunkInPacket, NoOverflow, TypeOK,
            endpointVars, senderVars, UpdateOwner
<1> i.chan \in Chanend
  BY DEF InInstr
<1>1. CASE InWait(t, i)
  BY <1>1 DEF InWait, Pause
<1>2. CASE InKeep(t, i)
  BY <1>2 DEF InKeep, Continue, pauseVars
<1>3. CASE InTake(t, i)
  <2> DEFINE c == i.chan
             n == Takes(c, i.op)
  <2>1. n \in Nat
    BY TakesLemma
  <2>2. /\ SubSeq(buf[c], n + 1, Len(buf[c])) \in Seq(Token)
        /\ Len(SubSeq(buf[c], n + 1, Len(buf[c]))) <= Len(buf[c])
    BY <2>1, DropLemma
  <2> HIDE DEF n
  <2>3. TypeOK'
    BY <1>3, <2>2 DEF InTake, Continue, n
  <2>4. RouteInv'
    <3>1. /\ UNCHANGED <<inUse, junkIncoming, source, queue, dest, inPacket, junkPacket>>
          /\ inUse[c] /\ \A x \in Chanend : x # c => buf'[x] = buf[x]
      BY <1>3 DEF InTake, Executes, endpointVars, senderVars
    <3>2. RouteOwned' /\ JunkInPacket'
      BY <3>1 DEF RouteInv, RouteOwned, JunkInPacket
    <3>3. FreedIsIdle'
      BY <3>1 DEF RouteInv, FreedIsIdle
    <3> QED BY <3>2, <3>3 DEF RouteInv
  <2>5. NoOverflow'
    BY SMTT(60), <1>3, <2>2, ConstAssumption DEF InTake, n
  <2> QED BY <2>3, <2>4, <2>5
<1> QED BY <1>1, <1>2, <1>3 DEF In

(* ChanEndpoint::release changes only the route at d, and keeps the rule   *)
(* that no claim waits for a free route.                                   *)
LEMMA ReleaseLemma ==
  ASSUME TypeOK, NEW d \in Chanend, Release(d)
  PROVE  /\ source' \in [Chanend -> Chanend \cup {NULL}]
         /\ queue' \in [Chanend -> Seq(Chanend)]
         /\ pausedOut' \in [Chanend -> Thread \cup {NULL}]
         /\ \A e \in Chanend \ {d} : source'[e] = source[e] /\ queue'[e] = queue[e]
         /\ source'[d] = NULL => queue'[d] = <<>>
<1> USE ConstAssumption DEF TypeOK, Release, NextSource
<1>1. CASE queue[d] = <<>>
  BY <1>1
<1>2. CASE queue[d] # <<>>
  <2>1. Head(queue[d]) \in Chanend /\ Tail(queue[d]) \in Seq(Chanend)
    BY <1>2, TailFact
  <2> QED BY <1>2, <2>1
<1> QED BY <1>1, <1>2

(* The end of a packet of c moves the route at d, which no other packet    *)
(* can hold (outct with END or PAUSE, Chanend.cpp).                        *)
LEMMA EndLemma ==
  ASSUME TypeOK, RouteInv, NEW c \in Chanend, NEW d \in Chanend,
         inUse[d], source[d] \in {NULL, c}, ~junkPacket[c], Release(d),
         inPacket' = [inPacket EXCEPT ![c] = FALSE],
         dest' = [dest EXCEPT ![c] = NULL],
         \A e \in Chanend \ {d} : buf'[e] = buf[e],
         UNCHANGED <<inUse, junkIncoming, junkPacket>>
  PROVE  RouteInv'
<1>1. /\ \A e \in Chanend \ {d} : source'[e] = source[e] /\ queue'[e] = queue[e]
      /\ source'[d] = NULL => queue'[d] = <<>>
  BY ReleaseLemma
<1>2. RouteOwned'
  <2>1. ASSUME NEW e \in Chanend, inPacket'[e], ~junkPacket'[e]
        PROVE  dest'[e] \in Chanend /\ source'[dest'[e]] = e
    <3>1. e # c /\ inPacket[e] /\ ~junkPacket[e] /\ dest'[e] = dest[e]
      BY <2>1 DEF TypeOK
    <3>2. dest[e] \in Chanend /\ source[dest[e]] = e
      BY <3>1 DEF RouteInv, RouteOwned
    <3>3. dest[e] # d
      BY <3>1, <3>2, ConstAssumption
    <3> QED BY <1>1, <3>1, <3>2, <3>3
  <2>2. ASSUME NEW e \in Chanend, source'[e] = NULL
        PROVE  queue'[e] = <<>>
    BY <1>1, <2>2 DEF RouteInv, RouteOwned
  <2> QED BY <2>1, <2>2 DEF RouteOwned
<1>3. FreedIsIdle' /\ JunkInPacket'
  BY <1>1 DEF RouteInv, FreedIsIdle, JunkInPacket, TypeOK
<1> QED BY <1>2, <1>3 DEF RouteInv

(* openRoute and claim succeed: c is in a packet to d and has its route.   *)
RouteTaken(c, d) ==
  /\ UNCHANGED <<inUse, junkIncoming, queue, junkPacket>>
  /\ source'[d] = c /\ \A x \in Chanend : x # d => source'[x] = source[x]
  /\ dest'[c] = d /\ \A x \in Chanend : x # c => dest'[x] = dest[x]
  /\ inPacket'[c] /\ \A x \in Chanend : x # c => inPacket'[x] = inPacket[x]

(* An output that takes a free route, or keeps its own (ChanEndpoint::     *)
(* claim), keeps the rules about routes.                                   *)
LEMMA TakenLemma ==
  ASSUME TypeOK, RouteInv, NEW c \in Chanend, NEW d \in Chanend,
         inUse[c], inUse[d], source[d] \in {NULL, c}, RouteTaken(c, d),
         \A x \in Chanend : x # d => buf'[x] = buf[x]
  PROVE  RouteInv'
<1>1. RouteOwned'
  BY SMTT(120), ConstAssumption DEF RouteTaken, RouteInv, RouteOwned
<1>2. FreedIsIdle'
  BY DEF RouteTaken, RouteInv, FreedIsIdle
<1>3. JunkInPacket'
  BY DEF RouteTaken, RouteInv, JunkInPacket
<1> QED BY <1>1, <1>2, <1>3, SMTT(20) DEF RouteInv

(* The outputs (Chanend::out, outt, outct): a packet takes, keeps and      *)
(* gives back the route at its destination.                                *)
LEMMA OutStep ==
  ASSUME IInv, NEW t \in Thread, NEW i \in OutInstr, Out(t, i)
  PROVE  IInv'
<1> DEFINE c == i.chan
           d == Target(c)
<1> USE ConstAssumption DEF IInv, NoOverflow, TypeOK
<1> c \in Chanend
  BY DEF OutInstr
<1>1. CASE OutBlocked(t, i)
  <2>1. d \in Chanend /\ source[d] # NULL /\ ~inPacket[c]
    BY <1>1 DEF OutBlocked, RouteBusy, Junked, Target
  <2>2. Queued(d, c) \in Seq(Chanend)
    BY SMTT(60), <2>1, AppendFact DEF Queued
  <2>3. queue' = [queue EXCEPT ![d] = Queued(d, c)] /\ dest' = [dest EXCEPT ![c] = d]
    BY <1>1 DEF OutBlocked
  <2>4. TypeOK' /\ NoOverflow'
    <3>1. queue' \in [Chanend -> Seq(Chanend)] /\ dest' \in [Chanend -> Chanend \cup {NULL}]
      BY <2>1, <2>2, <2>3
    <3>2. pausedOut' \in [Chanend -> Thread \cup {NULL}] /\ waiting' \in [Thread -> BOOLEAN]
      BY <1>1, SMTT(20) DEF OutBlocked, Pause
    <3>3. pend' \in [Thread -> OutInstr \cup InInstr \cup {WAITEU, NULL}]
      BY <1>1 DEF OutBlocked, Pause
    <3>4. UNCHANGED <<inUse, junkIncoming, source, destID, inPacket, junkPacket, buf,
                      pausedIn, waitForWord, owner, eventsEnabled, eeble>>
      BY <1>1 DEF OutBlocked, eventVars
    <3> QED BY <3>1, <3>2, <3>3, <3>4
  <2>5. RouteInv'
    <3>1. /\ UNCHANGED <<inUse, junkIncoming, source, inPacket, junkPacket, buf>>
          /\ \A x \in Chanend : x # c => dest'[x] = dest[x]
          /\ \A x \in Chanend : x # d => queue'[x] = queue[x]
      BY <1>1, <2>1, <2>3 DEF OutBlocked
    <3>2. RouteOwned'
      BY <2>1, <3>1, Zenon DEF RouteInv, RouteOwned
    <3>3. FreedIsIdle' /\ JunkInPacket'
      BY <3>1 DEF RouteInv, FreedIsIdle, JunkInPacket
    <3> QED BY <3>2, <3>3, SMTT(20) DEF RouteInv
  <2> QED BY <2>4, <2>5, SMTT(20)
<1>2. CASE OutJunk(t, i)
  BY SMTT(120), <1>2
     DEF OutJunk, Executes, Continue, Junked, Target, RouteInv, RouteOwned, FreedIsIdle, JunkInPacket, eventVars,
     endpointVars, pauseVars
<1>3. CASE OutFull(t, i)
  <2>1. d \in Chanend /\ inUse[d] /\ source[d] \in {NULL, c} /\ ~junkPacket[c]
    BY <1>3, RouteLemma, SMTT(20) DEF OutFull
  <2>2. TypeOK' /\ NoOverflow'
    BY <1>3, <2>1, SMTT(20) DEF OutFull, Pause, eventVars
  <2>3. RouteInv'
    <3>1. inUse[c] /\ RouteTaken(c, d) /\ UNCHANGED buf
      BY SMTT(120), <1>3, <2>1 DEF OutFull, Executes, RouteTaken
    <3> QED BY <2>1, <3>1, TakenLemma, SMTT(20)
  <2> QED BY <2>2, <2>3, SMTT(20)
<1>4. CASE OutSend(t, i)
  <2> DEFINE sent == buf[d] \o Tokens(c, i.op)
  <2>1. d \in Chanend /\ inUse[d] /\ source[d] \in {NULL, c} /\ ~junkPacket[c]
    BY <1>4, RouteLemma, Zenon DEF OutSend
  <2>2. sent \in Seq(Token) /\ Len(sent) = Len(buf[d]) + NumTokens(i.op)
    BY SMTT(60), <2>1, SentLemma
  <2>3. TypeOK'
    BY <1>4, <2>1, <2>2, Zenon DEF OutSend, Continue, eventVars
  <2>4. RouteInv'
    <3>1. inUse[c] /\ RouteTaken(c, d) /\ \A x \in Chanend : x # d => buf'[x] = buf[x]
      BY ZenonT(60), <1>4, <2>1 DEF OutSend, Executes, RouteTaken
    <3> QED BY SMTT(120), <2>1, <3>1, TakenLemma
  <2>5. NoOverflow'
    BY <1>4, <2>1, <2>2, Zenon DEF OutSend, CanAccept
  <2> QED BY <2>3, <2>4, <2>5
<1>5. CASE OutEnd(t, i)
  <2> DEFINE sent == buf[d] \o Tokens(c, i.op)
  <2>1. d \in Chanend /\ inUse[d] /\ source[d] \in {NULL, c} /\ ~junkPacket[c]
    BY <1>5, RouteLemma, Zenon DEF OutEnd
  <2>2. sent \in Seq(Token) /\ Len(sent) = Len(buf[d]) + NumTokens(i.op)
    BY SMTT(60), <2>1, SentLemma
  <2>3. Release(d)
    BY <1>5, Zenon DEF OutEnd
  <2>4. TypeOK'
    BY <1>5, <2>1, <2>2, <2>3, ReleaseLemma, Zenon DEF OutEnd, Continue, eventVars
  <2>5. RouteInv'
    <3>1. \A e \in Chanend \ {d} : buf'[e] = buf[e]
      BY <1>5, Zenon DEF OutEnd
    <3> QED BY <1>5, <2>1, <2>3, <3>1, EndLemma, Zenon DEF OutEnd
  <2>6. NoOverflow'
    BY <1>5, <2>1, <2>2, Zenon DEF OutEnd, CanAccept
  <2> QED BY <2>4, <2>5, <2>6, SMTT(20)
<1>6. CASE OutPause(t, i)
  <2>1. d \in Chanend /\ inUse[d] /\ source[d] \in {NULL, c} /\ ~junkPacket[c]
    BY <1>6, RouteLemma, Zenon DEF OutPause
  <2>2. Release(d)
    BY <1>6, Zenon DEF OutPause
  <2>3. TypeOK' /\ NoOverflow'
    BY <1>6, <2>1, <2>2, ReleaseLemma, Zenon DEF OutPause, Continue, eventVars
  <2>4. RouteInv'
    BY <1>6, <2>1, <2>2, EndLemma, Zenon DEF OutPause
  <2> QED BY <2>3, <2>4, SMTT(20)
<1> QED BY <1>1, <1>2, <1>3, <1>4, <1>5, <1>6, Zenon DEF Out

-----------------------------------------------------------------------------
(* Every instruction keeps the inductive invariant.                        *)
LEMMA NextIInv == IInv /\ [Next]_vars => IInv'
<1> SUFFICES ASSUME IInv, [Next]_vars PROVE IInv'
  OBVIOUS
<1>1. CASE UNCHANGED vars
  BY <1>1 DEF vars, endpointVars, senderVars, pauseVars, eventVars, threadVars,
              IInv, TypeOK, RouteInv, RouteOwned, FreedIsIdle, JunkInPacket, NoOverflow
<1>2. CASE Next
  <2>1. PICK t \in Thread :
          \/ \E c \in Chanend : GETR(t, c) \/ FREER(t, c) \/ EEU(t, c) \/ EDU(t, c)
          \/ \E c \in Chanend, d \in Targets : SETD(t, c, d)
          \/ \E i \in OutInstr : Out(t, i)
          \/ \E i \in InInstr : In(t, i)
          \/ \E i \in OutInstr \cup InInstr : IllegalResource(t, i)
          \/ CLRE(t) \/ WaitEU(t) \/ Interrupt(t)
    BY <1>2 DEF Next
  <2> QED BY <2>1, AllocStep, SetDStep, OutStep, InStep, ThreadStep, IllegalStep
<1> QED BY <1>1, <1>2

(* The inductive invariant holds throughout.                               *)
THEOREM Invariance == Spec => []IInv
<1>1. Init => IInv
  BY InitIInv
<1>2. IInv /\ [Next]_vars => IInv'
  BY NextIInv
<1> QED BY <1>1, <1>2, PTL DEF Spec

(* Every variable keeps its type.                                          *)
THEOREM TypeCorrect == Spec => []TypeOK
<1>1. IInv => TypeOK
  BY DEF IInv
<1> QED BY <1>1, Invariance, PTL

(* ChanEndpoint::claim and release: a packet in progress always owns the   *)
(* route at its destination, whatever the programs do.                     *)
THEOREM RoutesAreOwned == Spec => []RouteOwned
<1>1. IInv => RouteOwned
  BY DEF IInv, RouteInv
<1> QED BY <1>1, Invariance, PTL

(* Chanend::free and alloc: a freed chanend is idle until it is allocated. *)
THEOREM FreedChanendsAreIdle == Spec => []FreedIsIdle
<1>1. IInv => FreedIsIdle
  BY DEF IInv, RouteInv
<1> QED BY <1>1, Invariance, PTL

(* canAcceptToken and canAcceptTokens: no buffer is ever overrun.          *)
THEOREM BuffersNeverOverflow == Spec => []NoOverflow
<1>1. IInv => NoOverflow
  BY DEF IInv
<1> QED BY <1>1, Invariance, PTL

-----------------------------------------------------------------------------
(* Packets are not interleaved.  The sender of the last, unfinished token  *)
(* in a buffer is the source, and only the source can append.              *)

(* Taking tokens off the front keeps a buffer contiguous.                  *)
LEMMA ContiguousDrop ==
  ASSUME NEW b \in Seq(Token), NEW s, NEW n \in Nat, Contiguous(b, s)
  PROVE  Contiguous(SubSeq(b, n + 1, Len(b)), s)
<1> DEFINE r == SubSeq(b, n + 1, Len(b))
<1>1. /\ Len(b) \in Nat
      /\ Len(r) = IF n <= Len(b) THEN Len(b) - n ELSE 0
      /\ \A k \in 1 .. Len(b) - n : r[k] = b[k + n]
  BY DropLemma, LenFact, Zenon
<1> HIDE DEF r
<1>2. ASSUME NEW k \in 1 .. Len(r), r[k].kind # "end"
      PROVE  IF k = Len(r) THEN s = r[k].from ELSE r[k + 1].from = r[k].from
  <2>1. /\ k \in 1 .. Len(b) - n /\ k + n \in 1 .. Len(b)
        /\ k = Len(r) <=> k + n = Len(b)
        /\ k # Len(r) => k + 1 \in 1 .. Len(b) - n
    BY <1>1
  <2>2. r[k] = b[k + n] /\ (k # Len(r) => r[k + 1] = b[(k + 1) + n])
    BY <1>1, <2>1, Zenon
  <2>3. (k + 1) + n = (k + n) + 1
    BY <1>1
  <2> QED BY <1>2, <2>1, <2>2, <2>3, Zenon DEF Contiguous
<1> QED BY <1>2, Zenon DEF Contiguous, r

(* So does appending tokens of the source; after an END, any source may    *)
(* follow.                                                                 *)
LEMMA ContiguousAppend ==
  ASSUME NEW b \in Seq(Token), NEW s, NEW c \in Chanend, NEW op, NEW x,
         Contiguous(b, s), s \in {NULL, c},
         x = c \/ TokenKind(op) = "end"
  PROVE  Contiguous(b \o Tokens(c, op), x)
<1> DEFINE new == Tokens(c, op)
           r == b \o new
<1>1. /\ new \in Seq(Token) /\ Len(new) = NumTokens(op)
      /\ NumTokens(op) \in Nat /\ NumTokens(op) > 0
  BY TokensLemma
<1>2. \A k \in 1 .. Len(new) : new[k].kind = TokenKind(op) /\ new[k].from = c
  BY <1>1 DEF Tokens
<1> HIDE DEF new
<1>3. /\ Len(b) \in Nat /\ Len(r) = Len(b) + Len(new)
      /\ \A k \in 1 .. Len(r) : r[k] = IF k <= Len(b) THEN b[k] ELSE new[k - Len(b)]
  BY <1>1, ConcatFact, LenFact, Zenon
<1> HIDE DEF r
<1>4. ASSUME NEW k \in 1 .. Len(r), r[k].kind # "end"
      PROVE  IF k = Len(r) THEN x = r[k].from ELSE r[k + 1].from = r[k].from
  <2>1. CASE k < Len(b)
    <3>1. k \in 1 .. Len(b) /\ k + 1 \in 1 .. Len(r) /\ k # Len(r) /\ k # Len(b)
      BY <2>1, <1>1, <1>3
    <3>2. r[k] = b[k] /\ r[k + 1] = b[k + 1]
      BY <2>1, <3>1, <1>3
    <3> QED BY <1>4, <3>1, <3>2 DEF Contiguous
  <2>2. CASE k = Len(b)
    <3>1. k \in 1 .. Len(b) /\ k + 1 \in 1 .. Len(r) /\ k # Len(r) /\ 1 \in 1 .. Len(new)
      BY <2>2, <1>1, <1>3
    <3>2. r[k] = b[k] /\ r[k + 1] = new[1]
      BY <2>2, <3>1, <1>1, <1>3
    <3>3. b[k].from = s
      BY <1>4, <2>2, <3>1, <3>2 DEF Contiguous
    <3>4. b[k] \in Token
      BY <3>1, LenFact
    <3>5. b[k].from \in Chanend
      BY <3>4 DEF Token
    <3>6. s = c
      BY <3>3, <3>5, ConstAssumption
    <3> QED BY <3>1, <3>2, <3>3, <3>6, <1>2
  <2>3. CASE k > Len(b)
    <3>1. k - Len(b) \in 1 .. Len(new) /\ r[k] = new[k - Len(b)]
      BY <2>3, <1>1, <1>3
    <3>2. r[k].from = c /\ x = c
      BY <1>2, <1>4, <3>1
    <3>3. ASSUME k # Len(r) PROVE r[k + 1].from = c
      <4>1. /\ k + 1 \in 1 .. Len(r) /\ (k + 1) - Len(b) \in 1 .. Len(new)
            /\ ~(k + 1 <= Len(b))
        BY <2>3, <3>3, <1>1, <1>3
      <4>2. r[k + 1] = new[(k + 1) - Len(b)]
        BY <4>1, <1>3
      <4> QED BY <4>1, <4>2, <1>2
    <3> QED BY <3>2, <3>3
  <2> QED BY <2>1, <2>2, <2>3, <1>3
<1> QED BY <1>4, Zenon DEF Contiguous, r, new

(* Taking a free route does not need the buffer to be empty: its last      *)
(* packet is complete.                                                     *)
LEMMA ContiguousClaim ==
  ASSUME NEW b \in Seq(Token), NEW s, NEW c \in Chanend, s \in {NULL, c}, Contiguous(b, s)
  PROVE  Contiguous(b, c)
<1>1. ASSUME NEW k \in 1 .. Len(b), b[k].kind # "end", k = Len(b)
      PROVE  c = b[k].from
  <2>1. b[k] \in Token
    BY <1>1, LenFact
  <2>2. b[k].from \in Chanend
    BY <2>1 DEF Token
  <2> QED BY <1>1, <2>2, ConstAssumption DEF Contiguous
<1> QED BY <1>1 DEF Contiguous

(* No step interleaves packets: the only ones that change a buffer or a    *)
(* route are the outputs that hold the route and the inputs.               *)
LEMMA ContiguousStep ==
  IInv /\ PacketsContiguous /\ [Next]_vars => PacketsContiguous'
<1> SUFFICES ASSUME IInv, PacketsContiguous, [Next]_vars, "outct_pause" \notin Ops
             PROVE  \A d \in Chanend : Contiguous(buf'[d], source'[d])
  BY DEF PacketsContiguous, Contiguous
<1> USE DEF IInv
<1>0. \A d \in Chanend : Contiguous(buf[d], source[d])
  BY DEF PacketsContiguous
<1>1. CASE buf' = buf /\ source' = source
  BY <1>0, <1>1, SMTT(20)
<1>2. ASSUME NEW t \in Thread, NEW i \in OutInstr, Out(t, i)
      PROVE  \A d \in Chanend : Contiguous(buf'[d], source'[d])
  <2> DEFINE c == i.chan
             d == Target(c)
  <2> c \in Chanend
    BY SMTT(20) DEF OutInstr
  <2>1. CASE OutBlocked(t, i) \/ OutJunk(t, i)
    BY <2>1, <1>1 DEF OutBlocked, OutJunk, endpointVars
  <2>2. CASE OutFull(t, i)
    <3>1. d \in Chanend /\ source[d] \in {NULL, c}
      BY <2>2, RouteLemma DEF OutFull
    <3>2. source' = [source EXCEPT ![d] = c] /\ buf' = buf
      BY <2>2 DEF OutFull
    <3>3. Contiguous(buf[d], c)
      BY <3>1, <1>0, ContiguousClaim DEF TypeOK
    <3> QED BY <1>0, <3>1, <3>2, <3>3 DEF TypeOK
  <2>3. CASE OutSend(t, i)
    <3>1. d \in Chanend /\ source[d] \in {NULL, c}
      BY <2>3, RouteLemma DEF OutSend
    <3>2. /\ source' = [source EXCEPT ![d] = c]
          /\ buf' = [buf EXCEPT ![d] = @ \o Tokens(c, i.op)]
      BY <2>3 DEF OutSend
    <3>3. Contiguous(buf[d] \o Tokens(c, i.op), c)
      BY <3>1, <1>0, ContiguousAppend DEF TypeOK
    <3> QED BY <1>0, <3>1, <3>2, <3>3, SMTT(20) DEF TypeOK
  <2>4. CASE OutEnd(t, i)
    <3>1. d \in Chanend /\ source[d] \in {NULL, c}
      BY <2>4, RouteLemma, Zenon DEF OutEnd
    <3>2. /\ source' = [source EXCEPT ![d] = NextSource(d)]
          /\ buf' = [buf EXCEPT ![d] = @ \o Tokens(c, i.op)]
          /\ i.op = "outct_end"
      BY <2>4 DEF OutEnd, Release
    <3>3. TokenKind(i.op) = "end"
      BY <3>2 DEF TokenKind
    <3>4. Contiguous(buf[d] \o Tokens(c, i.op), NextSource(d))
      BY <3>1, <3>3, <1>0, ContiguousAppend, SMTT(20) DEF TypeOK
    <3> QED BY <1>0, <3>1, <3>2, <3>4 DEF TypeOK
  <2>5. CASE OutPause(t, i)
    BY <2>5 DEF OutPause, Executes
  <2> QED BY <1>2, <2>1, <2>2, <2>3, <2>4, <2>5 DEF Out
<1>3. ASSUME NEW t \in Thread, NEW i \in InInstr, In(t, i)
      PROVE  \A d \in Chanend : Contiguous(buf'[d], source'[d])
  <2> DEFINE c == i.chan
             n == Takes(c, i.op)
  <2> c \in Chanend
    BY DEF InInstr
  <2>1. CASE InWait(t, i) \/ InKeep(t, i)
    BY <2>1, <1>1, Zenon DEF InWait, InKeep, endpointVars
  <2>2. CASE InTake(t, i)
    <3>1. n \in Nat
      BY TakesLemma
    <3>2. Contiguous(SubSeq(buf[c], n + 1, Len(buf[c])), source[c])
      BY <1>0, <3>1, ContiguousDrop, SMTT(20) DEF TypeOK
    <3>3. source' = source /\ buf' = [buf EXCEPT ![c] = SubSeq(@, n + 1, Len(@))]
      BY <2>2 DEF InTake, endpointVars
    <3> QED BY <1>0, <3>2, <3>3 DEF TypeOK
  <2> QED BY <1>3, <2>1, <2>2 DEF In
<1>4. ASSUME NEW t \in Thread, NEW c \in Chanend,
             GETR(t, c) \/ FREER(t, c) \/ EEU(t, c) \/ EDU(t, c)
      PROVE  buf' = buf /\ source' = source
  BY <1>4, Zenon DEF GETR, FREER, EEU, EDU, endpointVars
<1>5. ASSUME NEW t \in Thread, NEW c \in Chanend, NEW d \in Targets, SETD(t, c, d)
      PROVE  buf' = buf /\ source' = source
  BY <1>5, Zenon DEF SETD, endpointVars
<1>6. ASSUME NEW t \in Thread, NEW i \in OutInstr \cup InInstr, IllegalResource(t, i)
      PROVE  buf' = buf /\ source' = source
  BY <1>6 DEF IllegalResource, endpointVars
<1>7. ASSUME NEW t \in Thread, CLRE(t) \/ WaitEU(t) \/ Interrupt(t)
      PROVE  buf' = buf /\ source' = source
  BY <1>7, Zenon DEF CLRE, WaitEU, Interrupt, endpointVars
<1>8. CASE UNCHANGED vars
  BY <1>1, <1>8, Zenon DEF vars, endpointVars
<1> QED BY <1>1, <1>2, <1>3, <1>4, <1>5, <1>6, <1>7, <1>8, Zenon DEF Next

(* Chanend::outt, out and outct: programs that end their packets with END  *)
(* never see tokens of two senders mixed in one packet.                    *)
THEOREM PacketsStayContiguous == Spec => []PacketsContiguous
<1>1. ASSUME Init
      PROVE  PacketsContiguous
  <2>1. Len(<<>>) = 0 /\ 1 .. 0 = {}
    OBVIOUS
  <2>2. \A d \in Chanend : buf[d] = <<>>
    BY <1>1 DEF Init
  <2> QED BY <2>1, <2>2 DEF PacketsContiguous, Contiguous
<1> QED BY <1>1, Invariance, ContiguousStep, PTL DEF Spec
=============================================================================
