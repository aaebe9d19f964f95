------------------------------- MODULE Signal -------------------------------
(***************************************************************************)
(* Signals (lib/Signal.h): a constant value, or a one bit clock of fixed   *)
(* frequency.  Times are relative to the present, which is time 0: when    *)
(* the present moves on by one tick every time falls by one (Aged).  The   *)
(* unit of time is CYCLES_PER_TICK / 2, the shortest half period.          *)
(***************************************************************************)
EXTENDS Integers

RISING  == "RISING"
FALLING == "FALLING"

Flip(type) == IF type = RISING THEN FALLING ELSE RISING

(* halfPeriod 0: the constant v; otherwise 0 in [v, v + halfPeriod) and 1  *)
(* in [v + halfPeriod, v + 2 * halfPeriod), and so on.                     *)
Level(v) == [halfPeriod |-> 0, v |-> v]

Clock(start, hp) == [halfPeriod |-> hp, v |-> start % (2 * hp)]

IsClock(s) == s.halfPeriod # 0

SigValue(s, time) ==
  IF IsClock(s) THEN ((time - s.v) \div s.halfPeriod) % 2 ELSE s.v

(* The iterator at the first edge after time.                              *)
NextEdge(s, time) ==
  LET n == 1 + (time - s.v) \div s.halfPeriod
  IN [at |-> s.v + n * s.halfPeriod, type |-> IF n % 2 = 1 THEN RISING ELSE FALLING]

(* EdgeIterator += n, for a clock of half period hp.                       *)
Plus(edge, n, hp) ==
  [at |-> edge.at + n * hp, type |-> IF n % 2 = 1 THEN Flip(edge.type) ELSE edge.type]

ChangeFrequency(s, time, initial, hp) ==
  Clock(IF initial # 0 THEN time + hp ELSE time, hp)

FlipLeastSignificantBit(s) ==
  IF IsClock(s) THEN [s EXCEPT !.v = (@ + s.halfPeriod) % (2 * s.halfPeriod)]
  ELSE [s EXCEPT !.v = IF @ % 2 = 0 THEN @ + 1 ELSE @ - 1]

Aged(s) == IF IsClock(s) THEN Clock(s.v - 1, s.halfPeriod) ELSE s
=============================================================================
