------------------------------- MODULE ChanNet -------------------------------
(***************************************************************************)
(* The channel network of the simulated cores: chanends (lib/Chanend.cpp), *)
(* the route protocol they inherit (lib/ChanEndpoint.cpp), the part of the *)
(* event mechanism that a chanend drives (lib/Resource.cpp) and the        *)
(* pausing and waking of the threads that execute the instructions.        *)
(*                                                                         *)
(* The simulator is one host thread: an instruction is one atomic step.    *)
(* Which runnable thread goes next is left open, so every order that the   *)
(* simulated times can produce is covered.  An instruction that pauses is  *)
(* executed again when its thread is woken: its pc has not moved.          *)
(***************************************************************************)
EXTENDS Integers, Sequences

CONSTANTS
  Thread,       \* the hardware threads of all cores
  Chanend,      \* the channel ends of all cores
  NULL,         \* the null pointer
  BufSize,      \* CHANEND_BUFFER_SIZE, 8 in the code
  WordLen,      \* tokens in a word, 4 in the code
  Disciplined,  \* TRUE: the conventions of compiled programs (see MayUse)
  Ops,          \* the instructions that the programs execute
  Targets,      \* the endpoints that their destination IDs name
  Interrupts,   \* TRUE: a paused thread may be interrupted
  MaxQueue      \* bound on the claims queued at one chanend

ASSUME ConstAssumption ==
  /\ NULL \notin Chanend /\ NULL \notin Thread
  /\ BufSize \in Nat /\ WordLen \in 1 .. BufSize
  /\ Disciplined \in BOOLEAN /\ Interrupts \in BOOLEAN
  /\ Targets \subseteq Chanend \cup {NULL}
  /\ MaxQueue \in Nat

VARIABLES
  inUse,         \* Resource::inUse
  junkIncoming,  \* ChanEndpoint: packets for this chanend are junked
  source,        \* ChanEndpoint: the sender whose packet is being received
  queue,         \* ChanEndpoint: the senders waiting for the route
  destID,        \* the endpoint that the destination ID names, NULL if none
  dest,          \* the destination of the current packet
  inPacket, junkPacket,
  buf,           \* the input buffer
  pausedOut, pausedIn, waitForWord,
  owner, eventsEnabled,         \* EventableResource
  eeble,         \* Thread: the EEBLE bit of the status register
  waiting,       \* Thread: the WAITING bit of the status register
  pend           \* Thread: the instruction at pc, once it has paused

endpointVars == <<junkIncoming, source, queue>>
senderVars   == <<dest, inPacket, junkPacket>>
pauseVars    == <<pausedOut, pausedIn, waitForWord>>
eventVars    == <<owner, eventsEnabled>>
threadVars   == <<eeble, waiting, pend>>
vars == <<inUse, endpointVars, destID, senderVars, buf, pauseVars,
          eventVars, threadVars>>

-----------------------------------------------------------------------------
(* Instructions on a chanend.  A control token other than END and PAUSE    *)
(* is "ack"; a PAUSE token is never stored in a buffer.  A token carries,  *)
(* as its payload, the chanend that sent it.                               *)

Token  == [kind : {"data", "end", "ack"}, from : Chanend]
OutOps == {"outt", "out", "outct_ack", "outct_end", "outct_pause"}
TokenInOps == {"int", "inct", "chkct_end", "testct"}
WordInOps  == {"in", "testwct"}
OutInstr == [op : OutOps, chan : Chanend]
InInstr  == [op : TokenInOps \cup WordInOps, chan : Chanend]
WAITEU == [op |-> "waiteu", chan |-> NULL]

(* The null pointer is not an instruction.                                 *)
ASSUME NullAssumption == NULL \notin OutInstr \cup InInstr \cup {WAITEU}

TypeOK ==
  /\ inUse \in [Chanend -> BOOLEAN]
  /\ junkIncoming \in [Chanend -> BOOLEAN]
  /\ source \in [Chanend -> Chanend \cup {NULL}]
  /\ queue \in [Chanend -> Seq(Chanend)]
  /\ destID \in [Chanend -> Chanend \cup {NULL}]
  /\ dest \in [Chanend -> Chanend \cup {NULL}]
  /\ inPacket \in [Chanend -> BOOLEAN]
  /\ junkPacket \in [Chanend -> BOOLEAN]
  /\ buf \in [Chanend -> Seq(Token)]
  /\ pausedOut \in [Chanend -> Thread \cup {NULL}]
  /\ pausedIn \in [Chanend -> Thread \cup {NULL}]
  /\ waitForWord \in [Chanend -> BOOLEAN]
  /\ owner \in [Chanend -> Thread \cup {NULL}]
  /\ eventsEnabled \in [Chanend -> BOOLEAN]
  /\ eeble \in [Thread -> BOOLEAN]
  /\ waiting \in [Thread -> BOOLEAN]
  /\ pend \in [Thread -> OutInstr \cup InInstr \cup {WAITEU, NULL}]

(* The constructor leaves destID unset and alloc does not set it either,   *)
(* so its first value is arbitrary.                                        *)
Init ==
  /\ inUse = [c \in Chanend |-> FALSE]
  /\ junkIncoming = [c \in Chanend |-> TRUE]
  /\ source = [c \in Chanend |-> NULL]
  /\ queue = [c \in Chanend |-> <<>>]
  /\ destID \in [Chanend -> Targets]
  /\ dest = [c \in Chanend |-> NULL]
  /\ inPacket = [c \in Chanend |-> FALSE]
  /\ junkPacket = [c \in Chanend |-> FALSE]
  /\ buf = [c \in Chanend |-> <<>>]
  /\ pausedOut = [c \in Chanend |-> NULL]
  /\ pausedIn = [c \in Chanend |-> NULL]
  /\ waitForWord = [c \in Chanend |-> FALSE]
  /\ owner = [c \in Chanend |-> NULL]
  /\ eventsEnabled = [c \in Chanend |-> FALSE]
  /\ eeble = [t \in Thread |-> FALSE]
  /\ waiting = [t \in Thread |-> FALSE]
  /\ pend = [t \in Thread |-> NULL]

-----------------------------------------------------------------------------
(* Threads.                                                                *)

(* Compiled programs operate on a chanend only from the thread that        *)
(* allocated it.                                                           *)
MayUse(t, c) == Disciplined => owner[c] = t

Runs(t, op) == op \in Ops /\ ~waiting[t] /\ pend[t] = NULL

(* checkChanend succeeds.  A thread that was woken executes the            *)
(* instruction it paused on, and no other.                                 *)
Executes(t, i) ==
  /\ i.op \in Ops /\ ~waiting[t] /\ pend[t] \in {NULL, i}
  /\ inUse[i.chan] /\ MayUse(t, i.chan)

(* The instruction of t completes (or raises its exception), the threads   *)
(* in woken are scheduled and the threads in evented go to their vector.   *)
Continue(t, woken, evented) ==
  /\ waiting' = [x \in Thread |-> waiting[x] /\ x \notin woken \cup evented]
  /\ pend' = [x \in Thread |-> IF x \in evented \cup {t} THEN NULL ELSE pend[x]]
  /\ eeble' = [x \in Thread |-> eeble[x] /\ x \notin evented]

(* pause_on and deschedule: the thread stops with its pc on instruction i. *)
Pause(t, i) ==
  /\ waiting' = [waiting EXCEPT ![t] = TRUE]
  /\ pend' = [pend EXCEPT ![t] = i]

NonNull(x) == {x} \ {NULL}

-----------------------------------------------------------------------------
(* Allocation and configuration.                                           *)

(* Chanend::alloc.  A core hands out its first free chanend; Chanend is    *)
(* the union over the cores, so any free one can be next.  destID, queue,  *)
(* source and buf keep what they had.                                      *)
GETR(t, c) ==
  /\ Runs(t, "getr") /\ ~inUse[c]
  /\ inUse' = [inUse EXCEPT ![c] = TRUE]
  /\ junkIncoming' = [junkIncoming EXCEPT ![c] = FALSE]
  /\ dest' = [dest EXCEPT ![c] = NULL]
  /\ inPacket' = [inPacket EXCEPT ![c] = FALSE]
  /\ junkPacket' = [junkPacket EXCEPT ![c] = FALSE]
  /\ pausedOut' = [pausedOut EXCEPT ![c] = NULL]
  /\ pausedIn' = [pausedIn EXCEPT ![c] = NULL]
  /\ owner' = [owner EXCEPT ![c] = t]
  /\ eventsEnabled' = [eventsEnabled EXCEPT ![c] = FALSE]
  /\ UNCHANGED <<source, queue, destID, buf, waitForWord, threadVars>>

(* Mutant of Idle: the route to the chanend is not looked at.              *)
IdleBuffer(c) == buf[c] = <<>> /\ ~inPacket[c]

Idle(c) == buf[c] = <<>> /\ source[c] = NULL /\ ~inPacket[c]

(* Chanend::free; eventsEnabled survives until the next alloc.             *)
FREER(t, c) ==
  /\ Runs(t, "freer") /\ inUse[c] /\ MayUse(t, c) /\ Idle(c)
  /\ inUse' = [inUse EXCEPT ![c] = FALSE]
  /\ junkIncoming' = [junkIncoming EXCEPT ![c] = TRUE]
  /\ owner' = [owner EXCEPT ![c] = NULL]
  /\ UNCHANGED <<source, queue, destID, senderVars, buf, pauseVars,
                 eventsEnabled, threadVars>>

SETD(t, c, d) ==
  /\ Runs(t, "setd") /\ inUse[c] /\ MayUse(t, c)
  /\ ~inPacket[c]
  /\ destID' = [destID EXCEPT ![c] = d]
  /\ UNCHANGED <<inUse, endpointVars, senderVars, buf, pauseVars, eventVars,
                 threadVars>>

(* A chanend that was freed while an instruction on it was paused.         *)
IllegalResource(t, i) ==
  /\ ~waiting[t] /\ pend[t] = i /\ ~inUse[i.chan]
  /\ Continue(t, {}, {})
  /\ UNCHANGED <<inUse, endpointVars, destID, senderVars, buf, pauseVars,
                 eventVars>>

-----------------------------------------------------------------------------
(* Arrival of tokens at chanend d.                                         *)

EventsPermitted(d) == owner[d] # NULL /\ eventsEnabled[d] /\ eeble[owner[d]]

Evented(d) == IF EventsPermitted(d) THEN {owner[d]} ELSE {}

(* Mutant of WakesReader: every reader waits for a whole word.             *)
WakesWordReader(d, len) == ~EventsPermitted(d) /\ len >= WordLen

(* Chanend::update wakes the paused reader, with len tokens in the buffer. *)
WakesReader(d, len) ==
  ~EventsPermitted(d) /\ ~(waitForWord[d] /\ len < WordLen)

Readers(d, len) == IF WakesReader(d, len) THEN NonNull(pausedIn[d]) ELSE {}

(* ChanEndpoint::release: the route goes to the first claim in the queue.  *)
NextSource(d) == IF queue[d] = <<>> THEN NULL ELSE Head(queue[d])

(* Mutants of Release: the queue is forgotten; the route is kept.          *)
ReleaseToNobody(d) ==
  /\ source' = [source EXCEPT ![d] = NULL]
  /\ UNCHANGED <<queue, pausedOut>>

ReleaseNot(d) == UNCHANGED <<source, queue, pausedOut>>

Release(d) ==
  /\ source' = [source EXCEPT ![d] = NextSource(d)]
  /\ queue' = [queue EXCEPT ![d] = IF @ = <<>> THEN @ ELSE Tail(@)]
  /\ pausedOut' = [c \in Chanend |-> IF c = NextSource(d) THEN NULL ELSE pausedOut[c]]

(* Mutant of Writers: the thread that was paused is not scheduled.         *)
NoWriters(s) == {}

Writers(s) == IF s = NULL THEN {} ELSE NonNull(pausedOut[s])

-----------------------------------------------------------------------------
(* Output: Chanend::out, outt and outct, with openRoute and claim.         *)

Target(c) == IF inPacket[c] THEN dest[c] ELSE destID[c]

Junked(c) == IF inPacket[c] THEN junkPacket[c]
             ELSE Target(c) \notin {d \in Chanend : ~junkIncoming[d]}

(* Mutant of RouteBusy: a route counts as free when the buffer is empty.   *)
RouteBusyIfFull(c) == /\ ~inPacket[c] /\ ~Junked(c) /\ source[Target(c)] \notin {NULL, c}
                      /\ buf[Target(c)] # <<>>

RouteBusy(c) == ~inPacket[c] /\ ~Junked(c) /\ source[Target(c)] \notin {NULL, c}

RouteOpen(c) == ~Junked(c) /\ ~RouteBusy(c)

(* Mutant of TokenKind: an END is stored as a data token.                  *)
TokenKindLost(op) == IF op = "outct_ack" THEN "ack" ELSE "data"

TokenKind(op) == CASE op \in {"out", "outt"} -> "data"
                   [] op = "outct_ack" -> "ack"
                   [] OTHER -> "end"

NumTokens(op) == IF op = "out" THEN WordLen ELSE 1

Tokens(c, op) ==
  [k \in 1 .. NumTokens(op) |-> [kind |-> TokenKind(op), from |-> c]]

EndsPacket(op) == op \in {"outct_end", "outct_pause"}

(* Mutant of CanAccept: there is room for a token, whatever is sent.       *)
CanAcceptOne(d, op) == Len(buf[d]) < BufSize

CanAccept(d, op) == Len(buf[d]) + NumTokens(op) <= BufSize

(* Mutant of Queued: the last claim is served first.                       *)
QueuedFirst(d, c) == <<c>> \o queue[d]

Queued(d, c) == Append(queue[d], c)

OutBlocked(t, i) ==
  LET c == i.chan
      d == Target(c)
  IN /\ Executes(t, i) /\ RouteBusy(c)
     /\ Len(queue[d]) < MaxQueue
     /\ queue' = [queue EXCEPT ![d] = Queued(d, c)]
     /\ dest' = [dest EXCEPT ![c] = d]
     /\ pausedOut' = [pausedOut EXCEPT ![c] = t]
     /\ Pause(t, i)
     /\ UNCHANGED <<inUse, junkIncoming, source, destID, inPacket, junkPacket,
                    buf, pausedIn, waitForWord, eventVars, eeble>>

OutJunk(t, i) ==
  LET c == i.chan
  IN /\ Executes(t, i) /\ Junked(c)
     /\ dest' = [dest EXCEPT ![c] = Target(c)]
     /\ inPacket' = [inPacket EXCEPT ![c] = ~EndsPacket(i.op)]
     /\ junkPacket' = [junkPacket EXCEPT ![c] = ~EndsPacket(i.op)]
     /\ Continue(t, {}, {})
     /\ UNCHANGED <<inUse, endpointVars, destID, buf, pauseVars, eventVars>>

OutFull(t, i) ==
  LET c == i.chan
      d == Target(c)
  IN /\ Executes(t, i) /\ RouteOpen(c) /\ ~CanAccept(d, i.op)
     /\ source' = [source EXCEPT ![d] = c]
     /\ dest' = [dest EXCEPT ![c] = d]
     /\ inPacket' = [inPacket EXCEPT ![c] = TRUE]
     /\ pausedOut' = [pausedOut EXCEPT ![c] = t]
     /\ Pause(t, i)
     /\ UNCHANGED <<inUse, junkIncoming, queue, destID, junkPacket, buf,
                    pausedIn, waitForWord, eventVars, eeble>>

(* receiveDataToken, receiveDataTokens, receiveCtrlToken inside a packet.  *)
OutSend(t, i) ==
  LET c == i.chan
      d == Target(c)
      len == Len(buf[d]) + NumTokens(i.op)
  IN /\ Executes(t, i) /\ RouteOpen(c) /\ CanAccept(d, i.op) /\ ~EndsPacket(i.op)
     /\ source' = [source EXCEPT ![d] = c]
     /\ dest' = [dest EXCEPT ![c] = d]
     /\ inPacket' = [inPacket EXCEPT ![c] = TRUE]
     /\ buf' = [buf EXCEPT ![d] = @ \o Tokens(c, i.op)]
     /\ pausedIn' = [pausedIn EXCEPT ![d] = IF WakesReader(d, len) THEN NULL ELSE @]
     /\ Continue(t, Readers(d, len), Evented(d))
     /\ UNCHANGED <<inUse, junkIncoming, queue, destID, junkPacket, pausedOut,
                    waitForWord, eventVars>>

(* receiveCtrlToken for END: store, release the route, then update.        *)
OutEnd(t, i) ==
  LET c == i.chan
      d == Target(c)
      len == Len(buf[d]) + 1
  IN /\ Executes(t, i) /\ RouteOpen(c) /\ CanAccept(d, i.op)
     /\ i.op = "outct_end"
     /\ dest' = [dest EXCEPT ![c] = NULL]
     /\ inPacket' = [inPacket EXCEPT ![c] = FALSE]
     /\ buf' = [buf EXCEPT ![d] = @ \o Tokens(c, i.op)]
     /\ Release(d)
     /\ pausedIn' = [pausedIn EXCEPT ![d] = IF WakesReader(d, len) THEN NULL ELSE @]
     /\ Continue(t, Readers(d, len) \cup Writers(NextSource(d)), Evented(d))
     /\ UNCHANGED <<inUse, junkIncoming, destID, junkPacket, waitForWord, eventVars>>

(* receiveCtrlToken for PAUSE: release the route, store nothing.           *)
OutPause(t, i) ==
  LET c == i.chan
      d == Target(c)
  IN /\ Executes(t, i) /\ RouteOpen(c) /\ CanAccept(d, i.op)
     /\ i.op = "outct_pause"
     /\ dest' = [dest EXCEPT ![c] = NULL]
     /\ inPacket' = [inPacket EXCEPT ![c] = FALSE]
     /\ Release(d)
     /\ Continue(t, Writers(NextSource(d)), {})
     /\ UNCHANGED <<inUse, junkIncoming, destID, junkPacket, buf, pausedIn,
                    waitForWord, eventVars>>

Out(t, i) ==
  \/ OutBlocked(t, i) \/ OutJunk(t, i) \/ OutFull(t, i)
  \/ OutSend(t, i) \/ OutEnd(t, i) \/ OutPause(t, i)

-----------------------------------------------------------------------------
(* Input.                                                                  *)

(* Mutant of UpdateOwner: the sender is recorded in place of the reader.   *)
UpdateOwnerToSource(t, c) == owner' = [owner EXCEPT ![c] = source[c]]

(* testct and testwct make t the owner before they look at the buffer.     *)
UpdateOwner(t, c) == owner' = [owner EXCEPT ![c] = t]

(* A control token among the first WordLen tokens: testwct's position > 0. *)
ControlInWord(c) == \E k \in 1 .. WordLen : k <= Len(buf[c]) /\ buf[c][k].kind # "data"

(* testct finds no token, testwct neither a word nor a control token.      *)
MustWait(c, op) == IF op \in WordInOps
                   THEN ~ControlInWord(c) /\ Len(buf[c]) < WordLen
                   ELSE buf[c] = <<>>

(* The number of tokens the instruction takes, 0 if it is a test or raises *)
(* an exception (ILLEGAL).                                                 *)
Takes(c, op) ==
  CASE op = "int"       -> IF Head(buf[c]).kind = "data" THEN 1 ELSE 0
    [] op = "inct"      -> IF Head(buf[c]).kind # "data" THEN 1 ELSE 0
    [] op = "chkct_end" -> IF Head(buf[c]).kind = "end" THEN 1 ELSE 0
    [] op = "in"        -> IF ControlInWord(c) THEN 0 ELSE WordLen
    [] OTHER            -> 0

InWait(t, i) ==
  LET c == i.chan
  IN /\ Executes(t, i) /\ MustWait(c, i.op)
     /\ UpdateOwner(t, c)
     /\ pausedIn' = [pausedIn EXCEPT ![c] = t]
     /\ waitForWord' = [waitForWord EXCEPT ![c] = i.op \in WordInOps]
     /\ Pause(t, i)
     /\ UNCHANGED <<inUse, endpointVars, destID, senderVars, buf, pausedOut,
                    eventsEnabled, eeble>>

InKeep(t, i) ==
  LET c == i.chan
  IN /\ Executes(t, i) /\ ~MustWait(c, i.op) /\ Takes(c, i.op) = 0
     /\ UpdateOwner(t, c)
     /\ Continue(t, {}, {})
     /\ UNCHANGED <<inUse, endpointVars, destID, senderVars, buf, pauseVars,
                    eventsEnabled>>

(* poptoken, or the pop of a word in Chanend::in: the sender whose packet  *)
(* is being received is told that there is room.                           *)
InTake(t, i) ==
  LET c == i.chan
      n == Takes(c, i.op)
  IN /\ Executes(t, i) /\ ~MustWait(c, i.op) /\ n > 0
     /\ UpdateOwner(t, c)
     /\ buf' = [buf EXCEPT ![c] = SubSeq(@, n + 1, Len(@))]
     /\ pausedOut' = [s \in Chanend |-> IF s = source[c] THEN NULL ELSE pausedOut[s]]
     /\ Continue(t, Writers(source[c]), {})
     /\ UNCHANGED <<inUse, endpointVars, destID, senderVars, pausedIn,
                    waitForWord, eventsEnabled>>

In(t, i) == InWait(t, i) \/ InKeep(t, i) \/ InTake(t, i)

-----------------------------------------------------------------------------
(* Events.                                                                 *)

(* eventEnable: an event that is already there is taken at the end of the  *)
(* instruction.                                                            *)
EEU(t, c) ==
  /\ Runs(t, "eeu") /\ inUse[c] /\ MayUse(t, c)
  /\ UpdateOwner(t, c)
  /\ eventsEnabled' = [eventsEnabled EXCEPT ![c] = TRUE]
  /\ Continue(t, {}, IF eeble[t] /\ buf[c] # <<>> THEN {t} ELSE {})
  /\ UNCHANGED <<inUse, endpointVars, destID, senderVars, buf, pauseVars>>

EDU(t, c) ==
  /\ Runs(t, "edu") /\ inUse[c] /\ MayUse(t, c)
  /\ UpdateOwner(t, c)
  /\ eventsEnabled' = [eventsEnabled EXCEPT ![c] = FALSE]
  /\ UNCHANGED <<inUse, endpointVars, destID, senderVars, buf, pauseVars,
                 threadVars>>

CLRE(t) ==
  /\ Runs(t, "clre")
  /\ eeble' = [eeble EXCEPT ![t] = FALSE]
  /\ eventsEnabled' = [c \in Chanend |-> eventsEnabled[c] /\ owner[c] # t]
  /\ UNCHANGED <<inUse, endpointVars, destID, senderVars, buf, pauseVars,
                 owner, waiting, pend>>

(* Mutant of EventOnEnable: enabling events does not look for any.         *)
NoEventOnEnable(t) == FALSE

(* setSR scans the enabled resources only when EEBLE goes from 0 to 1.     *)
EventOnEnable(t) ==
  ~eeble[t] /\ \E c \in Chanend : owner[c] = t /\ eventsEnabled[c] /\ buf[c] # <<>>

WaitEU(t) ==
  /\ Runs(t, "waiteu")
  /\ IF EventOnEnable(t)
     THEN Continue(t, {}, {t})
     ELSE eeble' = [eeble EXCEPT ![t] = TRUE] /\ Pause(t, WAITEU)
  /\ UNCHANGED <<inUse, endpointVars, destID, senderVars, buf, pauseVars, eventVars>>

(* An interrupt taken by a thread that is paused on a chanend: cancel does *)
(* nothing, the thread is scheduled, and the handler's kret returns to the *)
(* paused instruction.  The handler itself uses no chanend.                *)
Interrupt(t) ==
  /\ Interrupts /\ waiting[t] /\ pend[t] # WAITEU /\ ~eeble[t]
  /\ waiting' = [waiting EXCEPT ![t] = FALSE]
  /\ UNCHANGED <<inUse, endpointVars, destID, senderVars, buf, pauseVars,
                 eventVars, eeble, pend>>

-----------------------------------------------------------------------------
Next ==
  \E t \in Thread :
    \/ \E c \in Chanend : GETR(t, c) \/ FREER(t, c) \/ EEU(t, c) \/ EDU(t, c)
    \/ \E c \in Chanend, d \in Targets : SETD(t, c, d)
    \/ \E i \in OutInstr : Out(t, i)
    \/ \E i \in InInstr : In(t, i)
    \/ \E i \in OutInstr \cup InInstr : IllegalResource(t, i)
    \/ CLRE(t) \/ WaitEU(t) \/ Interrupt(t)

Spec == Init /\ [][Next]_vars

-----------------------------------------------------------------------------
(* Properties that hold for every program, shared chanends included.       *)

(* A packet in progress owns the route at its destination, so two packets  *)
(* are never open to the same chanend; no claim waits for a free route.    *)
RouteOwned ==
  /\ \A c \in Chanend : inPacket[c] /\ ~junkPacket[c] =>
       dest[c] \in Chanend /\ source[dest[c]] = c
  /\ \A d \in Chanend : source[d] = NULL => queue[d] = <<>>

(* A chanend can be reallocated at once when it has been freed: it holds   *)
(* no token, no route and no packet, and it junks what is sent to it.      *)
FreedIsIdle ==
  \A c \in Chanend : /\ junkIncoming[c] <=> ~inUse[c]
                     /\ ~inUse[c] => buf[c] = <<>> /\ source[c] = NULL /\ ~inPacket[c]

(* In buffer b, received from source s, a token that is not an END is      *)
(* followed by one of the same sender; the last one came from s.           *)
Contiguous(b, s) ==
  \A k \in 1 .. Len(b) : b[k].kind # "end" =>
    IF k = Len(b) THEN s = b[k].from ELSE b[k + 1].from = b[k].from

(* Packets of different senders are not interleaved in a buffer: between   *)
(* their tokens there is an END, and an unfinished packet still has the    *)
(* route (for programs that do not split packets with PAUSE).              *)
PacketsContiguous ==
  "outct_pause" \notin Ops => \A d \in Chanend : Contiguous(buf[d], source[d])

(* The input buffer never overflows: every output checks for room first.   *)
NoOverflow == \A d \in Chanend : Len(buf[d]) <= BufSize

-----------------------------------------------------------------------------
(* Properties of disciplined programs that are not interrupted.            *)

Paused(t, ops) == waiting[t] /\ pend[t] # NULL /\ pend[t].op \in ops

(* A thread that is paused on an output is registered where it will be     *)
(* woken: in the queue of a busy route, or as the source of a destination  *)
(* that really has no room.                                                *)
NoStrandedSender ==
  \A t \in Thread : Paused(t, OutOps) =>
    LET c == pend[t].chan
        d == dest[c]
    IN /\ pausedOut[c] = t
       /\ IF inPacket[c]
          THEN source[d] = c /\ ~CanAccept(d, pend[t].op)
          ELSE source[d] \notin {c, NULL} /\ \E k \in 1 .. Len(queue[d]) : queue[d][k] = c

(* A thread that is paused on an input lacks the tokens it asked for, and  *)
(* the next token wakes it.                                                *)
NoStrandedReader ==
  \A t \in Thread : Paused(t, TokenInOps \cup WordInOps) =>
    LET c == pend[t].chan
    IN /\ pausedIn[c] = t
       /\ Len(buf[c]) < (IF pend[t].op \in WordInOps THEN WordLen ELSE 1)

(* A thread with events enabled has no chanend that could event: the token *)
(* either came before EEBLE was set, and was seen then, or evented.        *)
NoMissedEvent ==
  \A t \in Thread, c \in Chanend :
    eeble[t] /\ owner[c] = t /\ eventsEnabled[c] => buf[c] = <<>>

(* ChanEndpoint.h: source is "The source of the current packet, 0 if not   *)
(* receiving a packet."  A route with a source is in a packet, or has been *)
(* handed to a sender that is about to execute its output again.           *)
RouteHeld ==
  \A d \in Chanend : source[d] # NULL =>
    LET s == source[d]
    IN \/ inPacket[s] /\ dest[s] = d
       \/ \E t \in Thread : /\ pend[t] # NULL /\ pend[t].op \in OutOps /\ pend[t].chan = s
                            /\ ~waiting[t] /\ destID[s] = d

(* Chanends/basic.S: testwct with one control token in the buffer gives    *)
(* its position.  A thread paused on a word has no control token to see.   *)
NoStrandedWordReader ==
  \A t \in Thread : Paused(t, WordInOps) => ~ControlInWord(pend[t].chan)
=============================================================================
