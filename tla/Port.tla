-------------------------------- MODULE Port --------------------------------
(***************************************************************************)
(* One port of a core (lib/Port.cpp, lib/Port.h) and the ready port that   *)
(* shows its ready-out signal.  A port is not stepped at every edge of its *)
(* clock: it is brought up to date when something touches it or at the     *)
(* time it scheduled (wake), and skips the edges at which nothing is       *)
(* supposed to happen.  Every operator here maps the port (a record p) and *)
(* its clock block (a record c) to the port that the method leaves.        *)
(* Times are relative to the present, see Signal.                          *)
(***************************************************************************)
EXTENDS Signal, Bitwise, FiniteSetsExt, SequencesExt

CONSTANTS
  NULL,          \* no thread
  CounterBits    \* width of the port counter: 16 in the code

COND_FULL == "FULL"
COND_EQ   == "EQ"
COND_NEQ  == "NEQ"

NOREADY   == "NOREADY"
STROBED   == "STROBED"
HANDSHAKE == "HANDSHAKE"

DATAPORT  == "DATAPORT"
READYPORT == "READYPORT"
CLOCKPORT == "CLOCKPORT"

PortWidth  == 1   \* ready and inverted ports have one pin
CounterMod == 2 ^ CounterBits
PinValues  == 0 .. 2 ^ PortWidth - 1
EntryMod   == 2 * CounterMod   \* the count of valid entries: 32 bits wide in the code
NoEdge     == [at |-> 1, type |-> RISING]
NONE       == 1000   \* the time of an update that is not scheduled

(* The port after power up and setc INUSE_ON.  loop is what the port's     *)
(* loopback was last shown, ready the ready port: whether it is attached   *)
(* to the port, whether it is inverted, and what its loopback was shown.   *)
NewPort ==
  [inUse |-> TRUE, data |-> 0, condition |-> COND_FULL, outputPort |-> FALSE,
   buffered |-> FALSE, inverted |-> FALSE, samplingEdge |-> RISING,
   transferRegValid |-> FALSE, timeRegValid |-> FALSE, holdTransferReg |-> FALSE,
   validShiftRegEntries |-> 0, timestampReg |-> 0, shiftReg |-> 0,
   shiftRegEntries |-> 1, portShiftCount |-> 1, portCounter |-> 0,
   readyIn |-> FALSE, readyOut |-> FALSE, readyMode |-> NOREADY,
   masterSlave |-> "MASTER", portType |-> DATAPORT, transferWidth |-> PortWidth,
   transferReg |-> 0, timeReg |-> 0,
   pausedIn |-> NULL, pausedOut |-> NULL, pausedSync |-> NULL,
   waiting |-> NULL,     \* the owner, waiting with events permitted on the port
   pinsInputValue |-> Level(0), nextEdge |-> NoEdge, wake |-> NONE,
   loop |-> Level(0), ready |-> [attached |-> FALSE, inverted |-> FALSE, loop |-> Level(0)]]

----------------------------------------------------------------------------
(* Queries.                                                                *)

UseReadyIn(p)  == p.readyMode = HANDSHAKE \/ (p.readyMode = STROBED /\ p.masterSlave = "SLAVE")
UseReadyOut(p) == p.readyMode = HANDSHAKE \/ (p.readyMode = STROBED /\ p.masterSlave = "MASTER")

IsFixedFrequency(c) == c.running /\ IsClock(c.value)

(* A port whose edges count: in use, a data port, on a clock that runs.    *)
Clocked(p, c) == p.inUse /\ p.portType = DATAPORT /\ IsFixedFrequency(c)

Effective(inverted, s) == IF inverted THEN FlipLeastSignificantBit(s) ELSE s

Bit(b) == IF b THEN 1 ELSE 0

GetValue(c) == IF c.running THEN c.value ELSE Level(0)

(* Port::getPinsOutputValue.  The port itself is a ready port of nothing.  *)
GetPinsOutputValue(p, c) ==
  Effective(p.inverted,
            CASE p.portType = READYPORT -> Level(0)
              [] p.portType = CLOCKPORT -> GetValue(c)
              [] OTHER -> Level(IF p.outputPort THEN p.shiftReg % 2 ^ PortWidth ELSE 0))

(* getPinsOutputValue of the ready port.                                   *)
ReadyPinsOutputValue(p) ==
  Effective(p.ready.inverted, Level(Bit(p.ready.attached /\ p.readyOut)))

InputPins(p) ==
  Effective(p.inverted, IF p.outputPort THEN Level(p.shiftReg % 2 ^ PortWidth) ELSE p.pinsInputValue)

ValueMeetsCondition(p, v) ==
  CASE p.condition = COND_FULL -> TRUE
    [] p.condition = COND_EQ   -> p.data = v
    [] p.condition = COND_NEQ  -> p.data # v

ConditionMet(p) ==
  p.transferRegValid /\ (p.condition = COND_FULL
                         \/ (~p.buffered /\ ValueMeetsCondition(p, p.transferReg)))

TimeAndConditionMet(p) ==
  /\ p.transferRegValid
  /\ ~p.timeRegValid \/ p.timestampReg = p.timeReg
  /\ ConditionMet(p)

EventsPermitted(p) == p.waiting # NULL

(* How many falling edges, and how many edges, until the time is met.      *)
FallingEdgesUntilTimeMet(p) == ((p.timeReg - (p.portCounter + 1)) % CounterMod) + 1

EdgesUntilTimeMet(p) ==
  2 * FallingEdgesUntilTimeMet(p) - Bit(p.nextEdge.type = FALLING)

----------------------------------------------------------------------------
(* What the outside world is shown.                                        *)

OutputValue(p, s) == [p EXCEPT !.loop = s]

SetReadyOut(p, v) ==
  IF p.readyOut = v THEN p
  ELSE [p EXCEPT !.readyOut = v,
                 !.ready.loop = IF p.ready.attached THEN Effective(p.inverted, Level(Bit(v))) ELSE @]

ComputeReadyOut(p) ==
  /\ UseReadyOut(p)
  /\ IF p.outputPort THEN (~UseReadyIn(p) \/ p.readyIn) /\ p.validShiftRegEntries # 0
     ELSE IF p.timeRegValid THEN p.portCounter = p.timeReg
     ELSE p.validShiftRegEntries # p.portShiftCount

(* A condition met in the transfer register: the owner, waiting with       *)
(* events enabled, is woken (EventableResource::event, completeEvent).     *)
Event(p) == [p EXCEPT !.waiting = NULL, !.holdTransferReg = TRUE]

----------------------------------------------------------------------------
(* One edge of the clock.                                                  *)

NextShiftRegOutputPort(p) ==
  LET top == 2 ^ (p.transferWidth - PortWidth)
  IN (p.shiftReg \div 2 ^ PortWidth) | ((p.shiftReg \div top) * top)

(* The port time is met, and what that does to a port.                     *)
TimeMet(p) == p.timeRegValid /\ p.timeReg = p.portCounter

AfterTimeMet(p) == [p EXCEPT !.timeRegValid = FALSE, !.validShiftRegEntries = 0]

(* The shift register moves on or is loaded, or the port turns around; out *)
(* is the direction otherwise.                                             *)
ShiftOutputPort(q, out) ==
  LET left == IF q.validShiftRegEntries > 0 THEN q.validShiftRegEntries - 1 ELSE 0
      load == ~q.timeRegValid /\ q.transferRegValid
      turn == ~q.timeRegValid /\ ~q.transferRegValid /\ q.pausedIn # NULL
  IN IF UseReadyIn(q) /\ ~q.readyIn THEN [q EXCEPT !.outputPort = out]
     ELSE IF left # 0
          THEN [q EXCEPT !.outputPort = out, !.validShiftRegEntries = left,
                         !.shiftReg = NextShiftRegOutputPort(q)]
     ELSE IF load
          THEN [q EXCEPT !.outputPort = out, !.validShiftRegEntries = q.portShiftCount,
                         !.portShiftCount = q.shiftRegEntries, !.shiftReg = q.transferReg,
                         !.timestampReg = q.portCounter, !.transferRegValid = FALSE,
                         !.pausedOut = NULL]
     ELSE [q EXCEPT !.outputPort = out /\ ~turn, !.validShiftRegEntries = 0,
                    !.pausedSync = IF q.transferRegValid THEN @ ELSE NULL]

(* The pins are shown if they are not those of the shift register before.  *)
ShowPins(r, c, before) ==
  IF before % (2 ^ PortWidth) # (IF r.outputPort THEN r.shiftReg ELSE 0) % (2 ^ PortWidth)
  THEN OutputValue(r, GetPinsOutputValue(r, c)) ELSE r

SeeFallingEdgeOutputPort(p, c) ==
  ShowPins(ShiftOutputPort(IF TimeMet(p) THEN AfterTimeMet(p) ELSE p,
                           IF TimeMet(p) THEN p.transferRegValid ELSE p.outputPort),
           c, p.shiftReg)

(* The port counter counts falling edges; ready-out changes on them.       *)
UpdateReadyOut(p) == SetReadyOut(p, ComputeReadyOut(p))

Counted(p) == [p EXCEPT !.portCounter = (@ + 1) % CounterMod]

AtFallingEdge(p, c) ==
  IF p.outputPort THEN SeeFallingEdgeOutputPort(p, c)
  ELSE IF UseReadyOut(p) /\ TimeMet(p) THEN AfterTimeMet(p) ELSE p

SeeFallingEdge(p, c) == UpdateReadyOut(AtFallingEdge(Counted(p), c))

ShouldRealignShiftRegister(p, value) ==
  /\ p.buffered
  /\ p.pausedIn # NULL \/ EventsPermitted(p)
  /\ ~p.holdTransferReg
  /\ ValueMeetsCondition(p, value)
  /\ IF p.timeRegValid THEN ~UseReadyOut(p) /\ p.portCounter = p.timeReg
     ELSE p.condition # COND_FULL

(* The second half of seeSamplingEdge: a full shift register moves to the  *)
(* transfer register, and a waiting thread is resumed.                     *)
Transfer(p) ==
  IF ~(/\ p.validShiftRegEntries = p.portShiftCount
       /\ ~UseReadyOut(p) \/ ~p.transferRegValid \/ p.timeRegValid \/ p.condition # COND_FULL)
  THEN p
  ELSE LET q == IF p.holdTransferReg THEN [p EXCEPT !.validShiftRegEntries = 0]
                ELSE [p EXCEPT !.validShiftRegEntries = 0, !.portShiftCount = p.shiftRegEntries,
                               !.timestampReg = p.portCounter, !.transferReg = p.shiftReg,
                               !.transferRegValid = TRUE]
           met == ~p.holdTransferReg /\ TimeAndConditionMet(q)
           r == IF met THEN [q EXCEPT !.timeRegValid = FALSE, !.pausedIn = NULL] ELSE q
       IN IF met /\ EventsPermitted(r) THEN Event(r) ELSE r

SeeSamplingEdge(p, time) ==
  IF \/ p.outputPort
     \/ UseReadyOut(p) /\ (~p.readyOut \/ p.timeRegValid)
     \/ UseReadyIn(p) /\ ~p.readyIn
  THEN p
  ELSE LET value == SigValue(InputPins(p), time)
           q == [p EXCEPT !.shiftReg = (@ \div 2 ^ PortWidth)
                                         | (value * 2 ^ (p.transferWidth - PortWidth)),
                          !.validShiftRegEntries = (@ + 1) % EntryMod]
       IN Transfer(
            IF ShouldRealignShiftRegister(q, value)
            THEN [q EXCEPT !.validShiftRegEntries = q.portShiftCount, !.transferRegValid = FALSE,
                           !.timeRegValid = FALSE, !.condition = COND_FULL]
            ELSE IF q.buffered /\ q.timeRegValid /\ ~UseReadyOut(q) /\ q.portCounter = q.timeReg
                 THEN [q EXCEPT !.timeRegValid = FALSE]
            ELSE q)

(* Port::seeEdge, for an edge of this type at this time.                   *)
Sampled(p, c, type, time) ==
  IF type # p.samplingEdge THEN p
  ELSE SeeSamplingEdge([p EXCEPT !.readyIn = SigValue(c.readyInValue, time) # 0], time)

SeeEdge(p, c, type, time) ==
  IF p.portType # DATAPORT THEN p
  ELSE Sampled(IF type = FALLING THEN SeeFallingEdge(p, c) ELSE p, c, type, time)

(* seeEdge(nextEdge++).                                                    *)
SeeNextEdge(p, c) ==
  SeeEdge([p EXCEPT !.nextEdge = Plus(@, 1, c.value.halfPeriod)], c, p.nextEdge.type, p.nextEdge.at)

(* The ports after 0, 1, .. n more edges, and after n of them.             *)
RECURSIVE Edges(_, _, _)
Edges(trace, c, n) ==
  IF n = 0 THEN trace ELSE Edges(Append(trace, SeeNextEdge(Last(trace), c)), c, n - 1)

AfterEdges(p, c, n) == Last(Edges(<<p>>, c, n))

(* A port and the edges it has still to see.                               *)
Pending(p, n) == [port |-> p, left |-> n]

(* while (Go) { seeEdge(nextEdge++); if (--numEdges == 0) return; }        *)
StoppedIn(trace, n, Go(_)) ==
  LET k == Min({i \in 0 .. n : ~Go(trace[i + 1])} \cup {n}) IN Pending(trace[k + 1], n - k)

EdgesWhile(w, c, Go(_)) == StoppedIn(Edges(<<w.port>>, c, w.left), w.left, Go)

(* Mutant of SkipEdges: the type of the next edge is not looked at.        *)
SkipEdgesHalf(p, c, n) ==
  [p EXCEPT !.portCounter = (@ + n \div 2) % CounterMod,
            !.nextEdge = Plus(@, n, c.value.halfPeriod)]

(* updatePortCounter(n); nextEdge += n.                                    *)
SkipEdges(p, c, n) ==
  [p EXCEPT !.portCounter = (@ + (n + Bit(p.nextEdge.type = FALLING)) \div 2) % CounterMod,
            !.nextEdge = Plus(@, n, c.value.halfPeriod)]

(* updateInputValidShiftRegEntries(n).                                     *)
CountSamples(p, n) ==
  [p EXCEPT !.validShiftRegEntries =
              (@ + (n + Bit(p.nextEdge.type = p.samplingEdge)) \div 2) % p.shiftRegEntries]

----------------------------------------------------------------------------
(* Bringing the port up to date.                                           *)

(* The shift register of an input port whose pins have long been constant. *)
ComputeSteadyStateInputShiftReg(p) ==
  SigValue(InputPins(p), 0) * (2 ^ p.transferWidth - 1)

(* The ready-in signal has been low for n edges.                           *)
SkipNotReady(p, c, n) ==
  SkipEdges(IF p.timeRegValid /\ n >= FallingEdgesUntilTimeMet(p) /\ (p.outputPort \/ UseReadyOut(p))
            THEN AfterTimeMet(p) ELSE p, c, n)

(* Mutant of Shifting: a partial word is not waited for.                   *)
ShiftingEntries(p) == p.validShiftRegEntries > 1

Shifting(p) == p.validShiftRegEntries # 0 \/ p.portShiftCount # p.shiftRegEntries

(* The edges left are skipped.                                             *)
SkipLeft(w, c) == SkipEdges(w.port, c, w.left)

(* The port time is not met in the edges left, or they are skipped up to   *)
(* the one at which it is.                                                 *)
TimeNotMet(w) ==
  (w.left + Bit(w.port.nextEdge.type = FALLING)) \div 2 < FallingEdgesUntilTimeMet(w.port)

UntilTimeMet(w, c) ==
  LET skip == EdgesUntilTimeMet(w.port) - 1
  IN EdgesWhile(Pending(SkipEdges(w.port, c, skip), w.left - skip), c, LAMBDA q : q.timeRegValid)

SkipIdleOutputPort(w, c) ==
  IF ~w.port.timeRegValid \/ TimeNotMet(w) THEN SkipLeft(w, c)
  ELSE SkipLeft(EdgesWhile(UntilTimeMet(w, c), c, Shifting), c)

SkipOutputPort(w, c) == SkipIdleOutputPort(EdgesWhile(w, c, Shifting), c)

(* With ready-out and its condition met, an input port fills up and stops; *)
(* otherwise it samples the constant pins on and on.                       *)
SkipFilling(w, c) ==
  SkipLeft(EdgesWhile(EdgesWhile(w, c, LAMBDA q : q.condition # COND_FULL), c,
                      LAMBDA q : ~q.transferRegValid \/ q.portShiftCount # q.shiftRegEntries), c)

SkipSampling(w, c) ==
  IF w.left = 0 THEN w.port ELSE SkipEdges(CountSamples(w.port, w.left), c, w.left)

(* An input port after its port time, if it had one.                       *)
SkipInputPort(w, c) ==
  LET steady == ComputeSteadyStateInputShiftReg(w.port)
      readyOut == UseReadyOut(w.port)
  IN IF readyOut /\ ValueMeetsCondition(w.port, SigValue(InputPins(w.port), 0))
     THEN SkipFilling(w, c)
     ELSE SkipSampling(EdgesWhile(w, c,
            LAMBDA q : \/ q.shiftReg # steady \/ q.portShiftCount # q.shiftRegEntries
                       \/ ~readyOut /\ (~q.transferRegValid \/ q.transferReg # steady)), c)

SkipUntilTime(w, c) == IF TimeNotMet(w) THEN SkipLeft(w, c) ELSE SkipInputPort(UntilTimeMet(w, c), c)

SkipInputPortUntilTime(w, c) ==
  LET steady == ComputeSteadyStateInputShiftReg(w.port)
  IN SkipUntilTime(
       IF UseReadyOut(w.port) THEN w
       ELSE EdgesWhile(w, c, LAMBDA q : q.shiftReg # steady \/ q.portShiftCount # q.shiftRegEntries), c)

(* Port::updateNoExternalChange; first ready-in is brought up to date.     *)
SkipPending(w, c) ==
  IF UseReadyIn(w.port) /\ ~w.port.readyIn THEN SkipNotReady(w.port, c, w.left)
  ELSE IF w.port.outputPort THEN SkipOutputPort(w, c)
  ELSE IF IsClock(w.port.pinsInputValue) THEN AfterEdges(w.port, c, w.left)
  ELSE IF w.port.timeRegValid THEN SkipInputPortUntilTime(w, c)
  ELSE SkipInputPort(w, c)

UpdateNoExternalChange(p, c, n) ==
  IF UseReadyIn(p) /\ IsClock(c.readyInValue) THEN AfterEdges(p, c, n)
  ELSE SkipPending(
         IF UseReadyIn(p)
         THEN EdgesWhile(Pending(p, n), c, LAMBDA q : Bit(q.readyIn) # SigValue(c.readyInValue, 0))
         ELSE Pending(p, n), c)

(* The edges up to time that the port has not seen yet.                    *)
Lag(p, c, time) ==
  IF Clocked(p, c) /\ p.nextEdge.at <= time
  THEN 1 + (time - p.nextEdge.at) \div c.value.halfPeriod ELSE 0

(* Port::update.                                                           *)
Update(p, c, time) ==
  LET n == Lag(p, c, time)
  IN IF n <= 2 THEN AfterEdges(p, c, n)
     ELSE SeeNextEdge(UpdateNoExternalChange(p, c, n - 1), c)

----------------------------------------------------------------------------
(* When the port asks to be updated next.                                  *)

ReadyOutIsInSteadyState(p, c) ==
  IF ~UseReadyOut(p) THEN ~p.readyOut
  ELSE /\ p.readyOut = ComputeReadyOut(p)
       /\ IF p.outputPort
          THEN ~p.readyOut /\ (p.validShiftRegEntries = 0 \/ c.readyInValue = Level(0))
          ELSE \/ ~p.readyOut
               \/ /\ ~p.timeRegValid
                  /\ ~(UseReadyIn(p) /\ ~p.readyIn /\ c.readyInValue = Level(0))
                  /\ p.condition # COND_FULL
                  /\ ~ValueMeetsCondition(p, SigValue(InputPins(p), 0))

(* The number of edges after nextEdge of the update to schedule, or NONE.  *)
ScheduledEdgeOutputPort(p, c) ==
  LET readyInKnownZero == UseReadyIn(p) /\ c.readyInValue = Level(0)
  IN IF p.nextEdge.type = FALLING THEN 0
     ELSE IF \/ ~ReadyOutIsInSteadyState(p, c)
             \/ ~readyInKnownZero /\ NextShiftRegOutputPort(p) # p.shiftReg
             \/ ~readyInKnownZero /\ UseReadyOut(p) /\ p.readyOut
          THEN 1
     ELSE IF p.timeRegValid THEN 2 * FallingEdgesUntilTimeMet(p) - 1
     ELSE IF ~readyInKnownZero /\ (p.pausedIn # NULL \/ p.pausedSync # NULL \/ p.transferRegValid)
          THEN 1
     ELSE NONE

(* Mutant of ScheduledEdgeInputPort: a paused thread is not reason enough. *)
ScheduledEdgeEventsOnly(p, c) ==
  IF p.nextEdge.type = RISING \/ p.timeRegValid \/ EventsPermitted(p) THEN 0 ELSE NONE

ScheduledEdgeInputPort(p, c) ==
  IF \/ p.nextEdge.type = RISING
     \/ ~ReadyOutIsInSteadyState(p, c)
     \/ p.pausedOut # NULL /\ ~p.timeRegValid
  THEN 0
  ELSE IF p.timeRegValid
       THEN 2 * (FallingEdgesUntilTimeMet(p) - 1)
              + Bit(~UseReadyOut(p) /\ p.samplingEdge = RISING)
  ELSE IF /\ ~UseReadyIn(p) \/ c.readyInValue # Level(0)
          /\ p.pausedIn # NULL \/ EventsPermitted(p) \/ (UseReadyOut(p) /\ p.readyOut)
          /\ IsClock(InputPins(p)) \/ ValueMeetsCondition(p, SigValue(InputPins(p), 0))
       THEN Bit(p.samplingEdge # FALLING)
  ELSE NONE

(* scheduleUpdateIfNeeded: a push replaces the time of an earlier one.     *)
ScheduleUpdateIfNeeded(p, c) ==
  LET n == IF p.outputPort THEN ScheduledEdgeOutputPort(p, c) ELSE ScheduledEdgeInputPort(p, c)
  IN IF ~Clocked(p, c) \/ n = NONE THEN p
     ELSE [p EXCEPT !.wake = Plus(p.nextEdge, n, c.value.halfPeriod).at]

----------------------------------------------------------------------------
(* The instructions.  Each maps the port, already updated to the present,  *)
(* to the result of the instruction and the port it leaves; thread t       *)
(* executes it.                                                            *)

Continue(p)   == [res |-> "CONTINUE", port |-> p]
Deschedule(p) == [res |-> "DESCHEDULE", port |-> p]
Illegal(p)    == [res |-> "ILLEGAL", port |-> p]

IsValidPortShiftCount(p, count) == count >= PortWidth /\ count <= p.transferWidth

(* in and inpw of a data port, once their own checks are done.             *)
InData(p, c, t, psc, resetValid) ==
  IF ~p.outputPort /\ TimeAndConditionMet(p)
  THEN Continue(
         IF p.validShiftRegEntries = p.portShiftCount
         THEN [p EXCEPT !.portShiftCount = p.shiftRegEntries, !.transferReg = p.shiftReg,
                        !.validShiftRegEntries = IF resetValid THEN 0 ELSE @,
                        !.timestampReg = p.portCounter, !.holdTransferReg = FALSE]
         ELSE [p EXCEPT !.transferRegValid = FALSE, !.holdTransferReg = FALSE])
  ELSE Deschedule(ScheduleUpdateIfNeeded(
         [p EXCEPT !.pausedIn = t, !.portShiftCount = IF p.outputPort THEN @ ELSE psc], c))

In(p, c, t) ==
  IF p.portType # DATAPORT THEN Continue(p) ELSE InData(p, c, t, p.portShiftCount, TRUE)

Inpw(p, c, t, width) ==
  IF ~p.buffered \/ ~IsValidPortShiftCount(p, width) THEN Illegal(p)
  ELSE IF p.portType # DATAPORT THEN Continue(p)
  ELSE InData(p, c, t, width \div PortWidth, FALSE)

(* out, outpw, setpsc and setpt pause while the transfer register is full. *)
PauseOut(p, c, t) == Deschedule(ScheduleUpdateIfNeeded([p EXCEPT !.pausedOut = t], c))

OutData(p, c, t, value, psc) ==
  IF p.outputPort /\ p.transferRegValid THEN PauseOut(p, c, t)
  ELSE Continue(ScheduleUpdateIfNeeded(
         [p EXCEPT !.validShiftRegEntries = IF p.outputPort THEN @ ELSE 1,
                   !.portShiftCount = psc, !.transferReg = value,
                   !.transferRegValid = TRUE, !.outputPort = TRUE], c))

Out(p, c, t, value) ==
  IF p.portType # DATAPORT THEN Continue(p) ELSE OutData(p, c, t, value, p.portShiftCount)

Outpw(p, c, t, value, width) ==
  IF ~p.buffered \/ ~IsValidPortShiftCount(p, width) THEN Illegal(p)
  ELSE IF p.portType # DATAPORT THEN Continue(p)
  ELSE OutData(p, c, t, value, width \div PortWidth)

Setpsc(p, c, t, width) ==
  IF ~p.buffered \/ ~IsValidPortShiftCount(p, width) THEN Illegal(p)
  ELSE IF p.portType # DATAPORT THEN Continue(p)
  ELSE IF p.outputPort /\ p.transferRegValid THEN PauseOut(p, c, t)
  ELSE Continue(ScheduleUpdateIfNeeded([p EXCEPT !.portShiftCount = width \div PortWidth], c))

Endin(p, c, t) ==
  IF p.outputPort \/ ~p.buffered THEN Illegal(p)
  ELSE IF p.portType # DATAPORT THEN Continue(p)
  ELSE Continue(ScheduleUpdateIfNeeded(
         IF p.transferRegValid
         THEN [p EXCEPT !.portShiftCount = IF p.validShiftRegEntries # 0 THEN p.validShiftRegEntries ELSE @]
         ELSE [p EXCEPT !.validShiftRegEntries = 0, !.portShiftCount = p.shiftRegEntries,
                        !.timestampReg = p.portCounter, !.transferReg = p.shiftReg,
                        !.transferRegValid = TRUE], c))

Sync(p, c, t) ==
  IF p.portType # DATAPORT \/ ~p.outputPort THEN Continue(p)
  ELSE Deschedule(ScheduleUpdateIfNeeded([p EXCEPT !.pausedSync = t], c))

(* setpt and clrpt do not schedule an update.                              *)
SetPortTime(p, c, t, value) ==
  IF p.portType # DATAPORT THEN Continue(p)
  ELSE IF p.outputPort /\ p.transferRegValid THEN PauseOut(p, c, t)
  ELSE Continue([p EXCEPT !.timeReg = value, !.timeRegValid = TRUE])

ClearPortTime(p) == Continue([p EXCEPT !.timeRegValid = FALSE])

ClearBuf(p) ==
  Continue(SetReadyOut([p EXCEPT !.transferRegValid = FALSE, !.holdTransferReg = FALSE,
                                 !.validShiftRegEntries = 0], FALSE))

(* A thread enables events on the port and waits for one.  The port is not *)
(* brought up to date first.                                               *)
WaitEvent(p, c, t) ==
  LET q == [p EXCEPT !.waiting = t]
  IN IF TimeAndConditionMet(q) THEN Continue(Event(q))
     ELSE Deschedule(ScheduleUpdateIfNeeded(q, c))

----------------------------------------------------------------------------
(* setc, setd, setrdy, settw: the configuration.                           *)

SetCInUse(p, c) ==
  SetReadyOut(
    [NewPort EXCEPT
       !.readyOut = p.readyOut, !.transferReg = p.transferReg, !.timeReg = p.timeReg,
       !.pausedIn = p.pausedIn, !.pausedOut = p.pausedOut, !.pausedSync = p.pausedSync,
       !.pinsInputValue = p.pinsInputValue, !.wake = p.wake, !.loop = p.loop, !.ready = p.ready,
       !.nextEdge = IF IsFixedFrequency(c) THEN NextEdge(c.value, 0) ELSE NoEdge], FALSE)

SetCondition(p, c, cond) == ScheduleUpdateIfNeeded([p EXCEPT !.condition = cond], c)

SetData(p, c, d) == ScheduleUpdateIfNeeded([p EXCEPT !.data = d % 2 ^ PortWidth], c)

SetPortInv(p, c, value) ==
  LET q == [p EXCEPT !.inverted = value]
  IN IF p.inverted = value THEN p ELSE OutputValue(q, GetPinsOutputValue(q, c))

SetSamplingEdge(p, c, type) ==
  IF p.samplingEdge = type THEN p ELSE ScheduleUpdateIfNeeded([p EXCEPT !.samplingEdge = type], c)

SetBuffered(p, value) ==
  IF ~value /\ (p.transferWidth # PortWidth \/ p.readyMode # NOREADY) THEN p
  ELSE [p EXCEPT !.buffered = value]

SetReadyMode(p, c, mode) ==
  IF mode # NOREADY /\ ~p.buffered THEN p ELSE ScheduleUpdateIfNeeded([p EXCEPT !.readyMode = mode], c)

SetMasterSlave(p, c, value) == ScheduleUpdateIfNeeded([p EXCEPT !.masterSlave = value], c)

SetPortType(p, c, type) ==
  LET q == [p EXCEPT !.portType = type, !.outputPort = IF type = DATAPORT THEN @ ELSE TRUE,
                     !.nextEdge = IF type = DATAPORT /\ IsFixedFrequency(c)
                                  THEN NextEdge(c.value, 0) ELSE NoEdge]
      changed == GetPinsOutputValue(q, c) # GetPinsOutputValue(p, c) \/ ~p.outputPort
  IN IF p.portType = type THEN p
     ELSE ScheduleUpdateIfNeeded(IF changed THEN OutputValue(q, GetPinsOutputValue(q, c)) ELSE q, c)

(* checkTransferWidth looks at the old width first: from the port width    *)
(* any width is accepted, from a wider one the two wide widths.            *)
SetTransferWidth(p, width, wide) ==
  IF p.transferWidth # PortWidth /\ width \notin wide THEN p
  ELSE [p EXCEPT !.transferWidth = width, !.shiftRegEntries = width \div PortWidth,
                 !.portShiftCount = width \div PortWidth]

(* setrdy on the ready port, naming the port.                              *)
SetReady(p) ==
  [p EXCEPT !.ready.attached = TRUE, !.ready.loop = Effective(p.ready.inverted, Level(Bit(p.readyOut)))]

SetReadyInv(p) ==
  LET q == [p EXCEPT !.ready.inverted = ~@] IN [q EXCEPT !.ready.loop = ReadyPinsOutputValue(q)]

----------------------------------------------------------------------------
(* Calls from the clock block and from the other end of the pins.          *)

SeeClockChange(p, c) ==
  IF ~p.inUse THEN p
  ELSE ScheduleUpdateIfNeeded(
         IF p.portType = CLOCKPORT THEN OutputValue(p, GetPinsOutputValue(p, c))
         ELSE IF p.portType = DATAPORT /\ IsFixedFrequency(c)
              THEN [p EXCEPT !.nextEdge = NextEdge(c.value, 0)]
         ELSE p, c)

(* setclk: the port is attached to the clock block again.                  *)
SetClk(p, c) == SeeClockChange([p EXCEPT !.portCounter = 0], c)

SeeClockStart(p, c) == IF ~p.inUse THEN p ELSE SeeClockChange([p EXCEPT !.portCounter = 0], c)

SeePinsChange(p, c, s) ==
  LET q == [Update(p, c, 0) EXCEPT !.pinsInputValue = s]
  IN IF q.inUse /\ q.outputPort THEN q ELSE ScheduleUpdateIfNeeded(q, c)

(* The update that the port scheduled.                                     *)
RunUpdate(p, c) == ScheduleUpdateIfNeeded(Update([p EXCEPT !.wake = NONE], c, p.wake), c)
=============================================================================
