------------------------------ MODULE Plumbing ------------------------------
(***************************************************************************)
(* The wires between ports (src/lib/PortConnectionManager.cpp,             *)
(* PortCombiner.cpp, PortSplitter.cpp and PortHandleClockMixin.h).  A port *)
(* whose pins lead to several places, or only partly to one, drives a      *)
(* combiner; a port that is driven slice by slice is behind a splitter.    *)
(* Both turn clock signals into changes of a value, edge by edge.          *)
(*                                                                         *)
(* Times are relative to the present as in Signal.  A connection leads     *)
(* from the bits [begin, end) of a driving port to the bits from at on of  *)
(* a driven port; an interface is a slice << port, begin, end >>.          *)
(***************************************************************************)
EXTENDS Integers, Sequences, SequencesExt
LOCAL INSTANCE Signal

CONSTANTS PortWidth,       \* width of each port
          WireOrders,      \* sequences of connections, as the user may list them
          HalfPeriods      \* of the clocks one bit ports drive

VARIABLES wires,     \* the connections
          driven,    \* the signal each driving port puts out
          pipe       \* the objects between the ports, and what the driven ports see
plumbVars == << wires, driven, pipe >>

Unscheduled == -1
Bits2(v, begin, end) == (v \div 2^begin) % 2^(end - begin)
FromPorts(ws) == { ws[i].from : i \in DOMAIN ws }
ToPorts(ws)   == { ws[i].to : i \in DOMAIN ws }
Far(c)     == << c.to, c.at, c.at + c.end - c.begin >>
isEntirePort(p, begin, end) == begin = 0 /\ end = PortWidth[p]

-----------------------------------------------------------------------------
(* PortHandleClockMixin: the value and signal seen last, and when run() is *)
(* due.                                                                    *)
Mixin == [cur |-> 0, signal |-> Level(0), wake |-> Unscheduled]

(* Mutant of mixinSeePinsChange: a clock that stops is not taken out of    *)
(* the scheduler.                                                          *)
mixinSeePinsChangeRunsOn(m, signal) ==
  [signal |-> signal, cur |-> SigValue(signal, 0),
   wake |-> IF IsClock(signal) THEN NextEdge(signal, 0).at ELSE m.wake]

mixinSeePinsChange(m, signal) ==
  [signal |-> signal, cur |-> SigValue(signal, 0),
   wake |-> IF IsClock(signal) THEN NextEdge(signal, 0).at
            ELSE IF IsClock(m.signal) THEN Unscheduled ELSE m.wake]

mixinRun(m) == [m EXCEPT !.cur = IF @ = 0 THEN 1 ELSE 0, !.wake = m.signal.halfPeriod]

(* PortSplitter: the bits of the slice replace those of the value.         *)
SplitterChange(p, t, v) ==
  LET old == p.split[t[1]]
      new == old + 2^t[2] * ((v % 2^(t[3] - t[2])) - Bits2(old, t[2], t[3]))
  IN  IF new = old THEN p
      ELSE [p EXCEPT !.split[t[1]] = new, !.seen[t[1]] = Level(new)]

SliceBecomes(p, t, m) ==
  LET q == [p EXCEPT !.slice[t] = m]
  IN  IF m.cur = p.slice[t].cur THEN q ELSE SplitterChange(q, t, m.cur)

(* seePinsChange of the port itself, or of a slice of its splitter.        *)
Deliver(p, t, signal) ==
  IF isEntirePort(t[1], t[2], t[3]) THEN [p EXCEPT !.seen[t[1]] = signal]
  ELSE SliceBecomes(p, t, mixinSeePinsChange(p.slice[t], signal))

(* PortCombiner: each slice whose bits change is told.                     *)
CombinerChange(p, f, new) ==
  LET old == p.value[f]
      tell(q, s) == IF Bits2(new, s.begin, s.end) = Bits2(old, s.begin, s.end) THEN q
                    ELSE Deliver(q, s.to, Level(Bits2(new, s.begin, s.end)))
  IN  [FoldLeft(tell, p, p.combiner[f]) EXCEPT !.value[f] = new]

CombinerBecomes(p, f, m) ==
  LET q == [p EXCEPT !.comb[f] = m]
  IN  IF m.cur = p.comb[f].cur THEN q ELSE CombinerChange(q, f, m.cur)

-----------------------------------------------------------------------------
(* PortConnectionManager::attach: the first connection of an entire port   *)
(* is direct; a combiner takes its place when there is another.            *)
attach(p, c) ==
  LET slice == [begin |-> c.begin, end |-> c.end, to |-> Far(c)]
      old   == [begin |-> 0, end |-> PortWidth[c.from], to |-> p.direct[c.from]]
  IN  IF p.combiner[c.from] # << >>
      THEN [p EXCEPT !.combiner[c.from] = Append(@, slice)]
      ELSE IF p.direct[c.from] = << >> /\ isEntirePort(c.from, c.begin, c.end)
      THEN [p EXCEPT !.direct[c.from] = Far(c)]
      ELSE [p EXCEPT !.direct[c.from] = << >>,
                     !.combiner[c.from] = IF old.to = << >> THEN << slice >> ELSE << old, slice >>]

NewPipe(ws) ==
  LET from == FromPorts(ws)
      to   == ToPorts(ws)
  IN  [direct |-> [f \in from |-> << >>], combiner |-> [f \in from |-> << >>],
       comb |-> [f \in from |-> Mixin], value |-> [f \in from |-> 0],
       slice |-> [t \in { Far(ws[i]) : i \in DOMAIN ws } |-> Mixin],
       split |-> [d \in to |-> 0], seen |-> [d \in to |-> Level(0)]]

PlumbInit ==
  /\ wires \in WireOrders
  /\ driven = [f \in FromPorts(wires) |-> Level(0)]
  /\ pipe = FoldLeft(attach, NewPipe(wires), wires)

Signals(f) ==
  { Level(v) : v \in 0 .. (2^PortWidth[f] - 1) }
    \cup IF PortWidth[f] = 1 THEN { Clock(0, h) : h \in HalfPeriods } ELSE {}

(* A port puts out another signal, also at a time an edge is due.          *)
Drive ==
  \E f \in DOMAIN driven : \E s \in Signals(f) \ {driven[f]} :
    /\ driven' = [driven EXCEPT ![f] = s]
    /\ pipe' = IF pipe.direct[f] # << >> THEN Deliver(pipe, pipe.direct[f], s)
               ELSE CombinerBecomes(pipe, f, mixinSeePinsChange(pipe.comb[f], s))
    /\ UNCHANGED wires

RunCombiner ==
  \E f \in DOMAIN driven :
    /\ pipe.comb[f].wake = 0
    /\ pipe' = CombinerBecomes(pipe, f, mixinRun(pipe.comb[f]))
    /\ UNCHANGED << wires, driven >>

RunSlice ==
  \E t \in DOMAIN pipe.slice :
    /\ pipe.slice[t].wake = 0
    /\ pipe' = SliceBecomes(pipe, t, mixinRun(pipe.slice[t]))
    /\ UNCHANGED << wires, driven >>

Mixins     == { pipe.comb[f] : f \in DOMAIN pipe.comb } \cup { pipe.slice[t] : t \in DOMAIN pipe.slice }
NothingDue == \A m \in Mixins : m.wake # 0

AgedMixin(m) ==
  [m EXCEPT !.signal = Aged(@), !.wake = IF @ = Unscheduled THEN @ ELSE @ - 1]

Pass ==
  /\ NothingDue
  /\ driven' = [f \in DOMAIN driven |-> Aged(driven[f])]
  /\ pipe' = [pipe EXCEPT !.comb = [f \in DOMAIN @ |-> AgedMixin(@[f])],
                          !.slice = [t \in DOMAIN @ |-> AgedMixin(@[t])],
                          !.seen = [d \in DOMAIN @ |-> Aged(@[d])]]
  /\ UNCHANGED wires

PlumbNext == Drive \/ RunCombiner \/ RunSlice \/ Pass

-----------------------------------------------------------------------------
(* Once the edges that are due have been run, every driven pin has the     *)
(* level of the pin it is wired to, whichever way the wires were listed:   *)
(* also when clocks start, change and stop, at an edge too, and when one   *)
(* port is driven by several (seePinsChange and run of                     *)
(* PortHandleClockMixin, PortSplitter::seePinsValueChange,                 *)
(* PortCombiner::seePinsValueChange).  run() only happens while the signal *)
(* is a clock, as it asserts.                                              *)
PinsFollow ==
  /\ NothingDue =>
       \A i \in DOMAIN wires :
         LET c == wires[i]
         IN  Bits2(SigValue(pipe.seen[c.to], 0), c.at, c.at + c.end - c.begin)
               = Bits2(SigValue(driven[c.from], 0), c.begin, c.end)
  /\ \A m \in Mixins : m.wake # Unscheduled => IsClock(m.signal)
=============================================================================
