------------------------------- MODULE Ports --------------------------------
(***************************************************************************)
(* A port, the clock block it is attached to (lib/ClockBlock.cpp), the     *)
(* threads that use it and the devices at its pins.  A thread executes an  *)
(* instruction only once everything scheduled before its time has run      *)
(* (Thread::hasTimeSliceExpired), so an update that is due runs before     *)
(* time passes, but may run after an instruction of the same tick.         *)
(***************************************************************************)
EXTENDS Port

CONSTANTS
  Thread,
  Wide,       \* transfer widths above the port width: 8 and 32 in the code
  Divides,    \* settings of the clock divider, as half periods
  OutValues,  \* words that threads output
  Modes,      \* ready modes the port is set up with
  NotExecuted, \* instructions without operands that the threads do not use
  MaxOps,     \* bound on instructions, changes of configuration, clocks and pins
  MaxEnv,     \* bound on the changes among them
  MaxLag      \* bound on the edges the port may fall behind

VARIABLES
  port,    \* the port, with its ready port
  clk,     \* the clock block
  thr,     \* [Thread -> its state and the instruction it is at]
  instrs, changes

vars == <<port, clk, thr, instrs, changes>>

NoInstr == [name |-> "none"]

----------------------------------------------------------------------------
(* ClockBlock: the methods map the port and the clock block to both.       *)

SeeChangeOnAttachedPorts(p, c) == IF c.running THEN SeeClockChange(p, c) ELSE p

(* The edge that a change of the clock from c to d is, and the change of   *)
(* frequency, as the attached port sees them.                              *)
SeeValueEdge(p, c, d) ==
  LET old == SigValue(c.value, 0)
  IN IF SigValue(d.value, 0) = old THEN p
     ELSE SeeEdge(p, d, IF old = 0 THEN RISING ELSE FALLING, 0)

SeeValueChange(p, d) == IF IsFixedFrequency(d) THEN SeeClockChange(p, d) ELSE p

ClockSetValue(p, c, s) ==
  LET d == [c EXCEPT !.value = s]
      Shown(q) == IF c.running THEN SeeValueChange(SeeValueEdge(q, c, d), d) ELSE q
  IN IF s = c.value THEN <<p, c>>
     ELSE <<Shown(IF IsFixedFrequency(c) \/ IsClock(s) THEN Update(p, c, 0) ELSE p), d>>

SetSourceRefClock(p, c) ==
  ClockSetValue(Update(p, c, 0), [c EXCEPT !.source = "ref"],
                ChangeFrequency(c.value, 0, SigValue(c.value, 0), c.divide))

SetSource(p, c, pins) ==
  IF c.divide # 1 THEN <<p, c>>
  ELSE [ClockSetValue(p, c, pins) EXCEPT ![2].source = "port"]

(* setd: on an XS1 the divider is refused while a port is the source.      *)
ClockSetData(p, c, divide) ==
  IF c.source = "port" THEN <<p, c>>
  ELSE ClockSetValue(p, [c EXCEPT !.divide = divide],
                     ChangeFrequency(c.value, 0, SigValue(c.value, 0), divide))

Start(p, c) ==
  LET d == [c EXCEPT !.running = TRUE,
                     !.value = IF c.source = "ref" THEN ChangeFrequency(@, 0, 0, c.divide) ELSE @]
  IN <<SeeClockStart(Update(p, c, 0), d), d>>

Stop(p, c) ==
  LET d == [c EXCEPT !.running = FALSE]
  IN IF ~c.running THEN <<p, c>> ELSE <<SeeChangeOnAttachedPorts(Update(p, c, 0), d), d>>

SetReadyInValue(p, c, s) ==
  LET d == [c EXCEPT !.readyInValue = s]
  IN <<SeeChangeOnAttachedPorts(Update(p, c, 0), d), d>>

(* ClockBlock::setReady, with a port whose pin shows s.                    *)
ClockSetReady(p, c, s) == SetReadyInValue(p, c, s)

ClockSetCInUse(p, c) ==
  SetSourceRefClock(Update(p, c, 0),
                    [c EXCEPT !.running = FALSE, !.divide = 1, !.readyInValue = Level(1)])

----------------------------------------------------------------------------
(* Threads.                                                                *)

(* Threads that a change of the port from p to q resumes.  sync is         *)
(* finished by the port, the other instructions are executed again.        *)
Resumed(f, p, q) ==
  [t \in Thread |->
     CASE (p.pausedIn = t /\ q.pausedIn # t) \/ (p.pausedOut = t /\ q.pausedOut # t) ->
            [f[t] EXCEPT !.state = "woken"]
       [] (p.pausedSync = t /\ q.pausedSync # t) \/ (p.waiting = t /\ q.waiting # t) ->
            [state |-> "run", instr |-> NoInstr]
       [] OTHER -> f[t]]

(* nextEdge only means something while the port is clocked.                *)
Normal(p, c) == IF Clocked(p, c) THEN p ELSE [p EXCEPT !.nextEdge = NoEdge]

Instructions ==
  [name : {"in", "endin", "sync", "clrpt", "clrbuf", "touch", "waiteu"} \ NotExecuted]
    \cup [name : {"inpw", "setpsc"}, width : {PortWidth} \cup Wide]
    \cup [name : {"out"}, value : OutValues]
    \cup [name : {"outpw"}, value : OutValues, width : {PortWidth} \cup Wide]
    \cup [name : {"setpt"}, value : 0 .. CounterMod - 1]

INOrOUT(q, c, t, i) == IF i.name = "in" THEN In(q, c, t) ELSE Out(q, c, t, i.value)
INPWOrOUTPW(q, c, t, i) ==
  IF i.name = "inpw" THEN Inpw(q, c, t, i.width) ELSE Outpw(q, c, t, i.value, i.width)
ENDINOrSETPSC(q, c, t, i) == IF i.name = "endin" THEN Endin(q, c, t) ELSE Setpsc(q, c, t, i.width)
SETPT(q, c, t, i) == SetPortTime(q, c, t, i.value)
SYNCROrCLRPT(q, c, t, i) == IF i.name = "sync" THEN Sync(q, c, t) ELSE ClearPortTime(q)

(* touch stands for peek, getts and setc's pin delay: they only update.    *)
Perform(p, c, t, i) ==
  LET Updated(q) ==
        CASE i.name \in {"in", "out"}       -> INOrOUT(q, c, t, i)
          [] i.name \in {"inpw", "outpw"}   -> INPWOrOUTPW(q, c, t, i)
          [] i.name \in {"endin", "setpsc"} -> ENDINOrSETPSC(q, c, t, i)
          [] i.name = "setpt"  -> SETPT(q, c, t, i)
          [] i.name \in {"sync", "clrpt"}   -> SYNCROrCLRPT(q, c, t, i)
          [] i.name = "clrbuf" -> ClearBuf(q)
          [] i.name = "touch"  -> Continue(q)
  IN IF i.name = "waiteu" THEN WaitEvent(p, c, t) ELSE Updated(Update(p, c, 0))

(* The port keeps one thread for each kind of wait.                        *)
Free(p, i) ==
  CASE i.name \in {"in", "inpw"} -> p.pausedIn = NULL
    [] i.name \in {"out", "outpw", "setpsc", "setpt"} -> p.pausedOut = NULL
    [] i.name = "sync" -> p.pausedSync = NULL
    [] i.name = "waiteu" -> p.waiting = NULL
    [] OTHER -> TRUE

Execute(t, i) ==
  /\ port.wake >= 0 /\ Free(port, i)
  /\ \E r \in {IF port.inUse THEN Perform(port, clk, t, i) ELSE Illegal(port)} :
       /\ port' = Normal(r.port, clk)
       /\ thr' = [Resumed(thr, port, r.port) EXCEPT
                    ![t] = IF r.res = "DESCHEDULE" THEN [state |-> "paused", instr |-> i]
                           ELSE [state |-> "run", instr |-> NoInstr]]
  /\ UNCHANGED clk

Issue(t) ==
  /\ thr[t].state = "run" /\ instrs + changes < MaxOps
  /\ \E i \in Instructions : Execute(t, i)
  /\ instrs' = instrs + 1
  /\ UNCHANGED changes

Retry(t) ==
  /\ thr[t].state = "woken"
  /\ Execute(t, thr[t].instr)
  /\ UNCHANGED <<instrs, changes>>

----------------------------------------------------------------------------
(* Everything else that happens to the port.                               *)

Becomes(p, c) ==
  /\ port' = Normal(p, c) /\ clk' = c
  /\ thr' = Resumed(thr, port, p)
  /\ UNCHANGED instrs

Signals == {Level(0), Level(1), Clock(0, 1)}

Change == port.wake >= 0 /\ changes < MaxEnv /\ instrs + changes < MaxOps /\ changes' = changes + 1

(* Some thread runs and can execute setc, setd, setclk and the like.       *)
ByThread == Change /\ \E t \in Thread : thr[t].state = "run"

Configure ==
  /\ ByThread /\ port.inUse
  /\ \E u \in {Update(port, clk, 0)} :
       \E q \in {SetCondition(u, clk, x) : x \in {COND_FULL, COND_EQ, COND_NEQ}}
                \cup {SetData(u, clk, x) : x \in PinValues}
                \cup {SetPortInv(u, clk, x) : x \in BOOLEAN}
                \cup {SetSamplingEdge(u, clk, x) : x \in {RISING, FALLING}}
                \cup {SetBuffered(u, x) : x \in BOOLEAN}
                \cup {SetReadyMode(u, clk, x) : x \in Modes}
                \cup {SetMasterSlave(u, clk, x) : x \in {"MASTER", "SLAVE"}}
                \cup {SetPortType(u, clk, x) : x \in {DATAPORT, READYPORT, CLOCKPORT}}
                \cup {SetTransferWidth(u, x, Wide) : x \in {PortWidth} \cup Wide}
                \cup {SetReady(u), SetReadyInv(u), SetClk(u, clk)}
         : Becomes(q, clk)

(* setc INUSE_ON and INUSE_OFF.                                            *)
SetInUse ==
  /\ ByThread
  /\ \E q \in {SetCInUse(port, clk), [port EXCEPT !.inUse = FALSE, !.waiting = NULL]} :
       Becomes(q, clk)

ClockOp ==
  /\ ByThread
  /\ \E pc \in {Start(port, clk), Stop(port, clk), SetSourceRefClock(port, clk),
                ClockSetCInUse(port, clk)}
               \cup {SetSource(port, clk, s) : s \in Signals}
               \cup {ClockSetReady(port, clk, s) : s \in Signals}
               \cup {ClockSetData(port, clk, d) : d \in Divides}
       : Becomes(pc[1], pc[2])

(* The device at the pins, at the ready-in pin and at the source's pin.    *)
Device ==
  /\ Change
  /\ \/ \E s \in Signals : Becomes(SeePinsChange(port, clk, s), clk)
     \/ \E pc \in {SetReadyInValue(port, clk, s) : s \in Signals} : Becomes(pc[1], pc[2])
     \/ /\ clk.source = "port"
        /\ \E pc \in {ClockSetValue(port, clk, s) : s \in Signals} : Becomes(pc[1], pc[2])

RunPort ==
  /\ port.wake <= 0
  /\ Becomes(RunUpdate(port, clk), clk)
  /\ UNCHANGED changes

Tick ==
  /\ port.wake > 0 /\ \A t \in Thread : thr[t].state # "woken"
  /\ Lag(port, clk, 0) < MaxLag
  /\ port' = [port EXCEPT !.nextEdge.at = IF Clocked(port, clk) THEN @ - 1 ELSE @,
                          !.wake = IF @ = NONE THEN NONE ELSE @ - 1,
                          !.pinsInputValue = Aged(@), !.loop = Aged(@)]
  /\ clk' = [clk EXCEPT !.value = Aged(@), !.readyInValue = Aged(@)]
  /\ UNCHANGED <<thr, instrs, changes>>

(* Nothing is scheduled and nobody looks at the port: it lags further and  *)
(* further.                                                                *)
Idle ==
  /\ port.wake = NONE /\ Lag(port, clk, 0) = MaxLag
  /\ UNCHANGED vars

(* The port set up in one of the modes, its clock block started.           *)
Init ==
  \E buffered \in BOOLEAN, width \in {PortWidth} \cup Wide, mode \in Modes,
     role \in {"MASTER", "SLAVE"}, edge \in {RISING, FALLING} :
    LET stopped == [running |-> FALSE, value |-> Clock(0, 1), source |-> "ref", divide |-> 1,
                    readyInValue |-> Level(0)]
        p == SetSamplingEdge(SetMasterSlave(SetReadyMode(SetTransferWidth(
               SetBuffered(SetReady(NewPort), buffered), width, Wide), stopped, mode),
               stopped, role), stopped, edge)
    IN /\ ~buffered => width = PortWidth /\ mode = NOREADY
       /\ mode # STROBED => role = "MASTER"
       /\ \E started \in {Start(p, stopped)} : port = started[1] /\ clk = started[2]
       /\ thr = [t \in Thread |-> [state |-> "run", instr |-> NoInstr]]
       /\ instrs = 0 /\ changes = 0

Next ==
  \/ \E t \in Thread : Issue(t) \/ Retry(t)
  \/ Configure \/ SetInUse \/ ClockOp \/ Device \/ RunPort \/ Tick \/ Idle

Spec == Init /\ [][Next]_vars

----------------------------------------------------------------------------
(* Properties.                                                             *)

Skipped == Lag(port, clk, 0) - 1

Fast == UpdateNoExternalChange(port, clk, Skipped)
Slow == AfterEdges(port, clk, Skipped)

(* Port::update says of the edges it skips: "There can be no externally    *)
(* visisble changes in this time", and its slow mode asserts that stepping *)
(* through them one by one changes neither the direction, nor the pins,    *)
(* nor ready-out.                                                          *)
SkippedEdgesInvisible ==
  Skipped >= 1 /\ port.wake >= 0 =>
    /\ Slow.outputPort = port.outputPort
    /\ GetPinsOutputValue(Slow, clk) = GetPinsOutputValue(port, clk)
    /\ Slow.readyOut = port.readyOut

(* However many edges updateNoExternalChange skips, by whichever of its    *)
(* shortcuts, the port counter, the next edge and the ready-in that the    *)
(* port uses are those of a port that saw every edge.                      *)
CounterExact ==
  LET Same(f, s) == /\ f.portCounter = s.portCounter /\ f.nextEdge = s.nextEdge
                    /\ UseReadyIn(port) => f.readyIn = s.readyIn
  IN Skipped >= 2 => Same(Fast, Slow)

(* The shortcut of an output port that has data for its port time, if it   *)
(* has one, and is not held up by ready-in, leaves every register, pin and *)
(* paused thread as stepping through all edges does.                       *)
OutputSkipIsExact ==
  /\ Skipped >= 2 /\ port.wake >= 0
  /\ port.outputPort /\ ~UseReadyIn(port) /\ (port.timeRegValid => port.transferRegValid)
  => [Fast EXCEPT !.readyIn = Slow.readyIn] = Slow

(* scheduleUpdateIfNeeded forgets nobody: a thread paused in an input,     *)
(* output, sync or wait, that a port stepped edge by edge would resume,    *)
(* has an update scheduled.                                                *)
NoForgottenThread ==
  Clocked(port, clk) /\ port.wake = NONE =>
    LET q == AfterEdges(port, clk, 2 * CounterMod)
    IN \A f \in {"pausedIn", "pausedOut", "pausedSync", "waiting"} : q[f] = port[f]
=============================================================================
