------------------------------- MODULE SDRAM --------------------------------
(***************************************************************************)
(* The SDRAM (lib/SDRAM.cpp): commands are taken on the rising edges of    *)
(* the clock, bursts run on through NOPs, and data read comes out on a     *)
(* falling edge, as many edges later as the mode register's CAS latency    *)
(* says.  What a word holds matters to no property, so a pending read      *)
(* carries where it read.  The masks are left out: they hide data only in  *)
(* commands that end a burst.  The driver obeys the data sheet: it loads   *)
(* the mode register before it reads or writes, and later only when no     *)
(* burst runs and no data is on its way.                                   *)
(***************************************************************************)
EXTENDS Integers, Sequences, FiniteSets

CONSTANTS ColumnBits, Rows, Banks,
          BurstLengths,      \* of the mode register; 0 is a full page
          Latencies,         \* its CAS latencies
          EdgeMod,           \* edgeNumber counts modulo this: 256 in the code
          MaxBeats           \* bound: beats of a full page burst

(* 8 column bits, bursts of 1, 2, 4 or 8 words or a full page, and         *)
(* latencies of 2 or 3 edges, counted modulo 256.                          *)
ASSUME SdramAssumption ==
  /\ 2^ColumnBits \in Nat \ {0} /\ EdgeMod \in Nat \ {0}
  /\ \A cas \in Latencies : cas \in 1 .. (EdgeMod - 1)
  /\ \A l \in BurstLengths : l \in Nat /\ (l # 0 => 2^ColumnBits % l = 0)

VARIABLES mode, command, column, row, bank, counter, edgeNumber, pendingReads,
          clk,
          beats        \* history: the columns of the running burst, in order
sdramVars == << mode, command, column, row, bank, counter, edgeNumber, pendingReads, clk, beats >>

Columns == 0..(2^ColumnBits - 1)
Modes   == [length : BurstLengths, interleaved : BOOLEAN, cas : Latencies]

(* The mode register holds 0 until it is loaded.                           *)
ResetMode == [length |-> 1, interleaved |-> FALSE, cas |-> 0]

SdramInit ==
  /\ mode = ResetMode
  /\ command = "NOP" /\ column = 0 /\ row = 0 /\ bank = 0 /\ counter = 0
  /\ edgeNumber = 0 /\ pendingReads = << >> /\ clk = 0 /\ beats = << >>

(* Exclusive or of two small numbers, by its low bit and the rest.         *)
XorOf(a, b) ==
  LET bits == ColumnBits + 1
      part[i \in 0..bits] ==
        IF i = bits THEN 0
        ELSE 2^i * ((((a \div 2^i) % 2) + ((b \div 2^i) % 2)) % 2) + part[i + 1]
  IN part[0]

(* Mutant of BurstColumn: a sequential burst runs on into the next block.  *)
BurstColumnRunsOn(m, start, n) ==
  IF m.length = 0 THEN (start + n) % 2^ColumnBits
  ELSE IF m.interleaved THEN XorOf(start, n)
  ELSE (start + n) % 2^ColumnBits

(* getMemoryIndex: the column of beat n of a burst that began at start.    *)
BurstColumn(m, start, n) ==
  IF m.length = 0 THEN (start + n) % 2^ColumnBits
  ELSE IF m.interleaved THEN XorOf(start, n)
  ELSE LET block == (start \div m.length) * m.length
           c     == block + ((start + n) % m.length)
       IN  IF c \div m.length > start \div m.length THEN c - m.length ELSE c

Older(reads) == [i \in 1..Len(reads) |-> [reads[i] EXCEPT !.age = @ + 1]]

(* The registers after the command on the pins has been taken.             *)
Take(new, a, b, m) ==
  [mode    |-> IF new = "LOAD_MODE_REGISTER" THEN m ELSE mode,
   row     |-> IF new = "ACTIVE" THEN a ELSE row,
   column  |-> IF new \in {"READ", "WRITE"} THEN a ELSE column,
   bank    |-> IF new \in {"READ", "WRITE"} THEN b ELSE bank,
   counter |-> IF new \in {"READ", "WRITE"} THEN 0 ELSE counter,
   command |-> IF new = "NOP" THEN command ELSE new]

(* Rising edge.  A beat of a write stores only while WE is high, which it  *)
(* is not in the WRITE command itself.                                     *)
Rising(new, a, b, m) ==
  LET r      == Take(new, a, b, m)
      beat   == r.command \in {"READ", "WRITE"}
      col    == BurstColumn(r.mode, r.column, r.counter)
      begins == new \in {"READ", "WRITE"}
      ends   == r.mode.length # 0 /\ r.counter + 1 = r.mode.length
      read   == [at |-> << r.bank, r.row, col >>, cas |-> r.mode.cas, age |-> 1,
                 edge |-> (edgeNumber + r.mode.cas) % EdgeMod]
  IN  /\ mode' = r.mode /\ row' = r.row /\ column' = r.column /\ bank' = r.bank
      /\ counter' = IF beat THEN r.counter + 1 ELSE r.counter
      /\ command' = IF beat /\ ends THEN "NOP" ELSE r.command
      /\ pendingReads' = IF r.command = "READ" THEN Append(Older(pendingReads), read)
                         ELSE Older(pendingReads)
      /\ beats' = IF beat THEN Append(IF begins THEN << >> ELSE beats, col)
                  ELSE IF new = "NOP" THEN beats ELSE << >>
      /\ edgeNumber' = (edgeNumber + 1) % EdgeMod

seeRisingEdge ==
  /\ clk = 0 /\ clk' = 1
  /\ counter < MaxBeats \/ command \notin {"READ", "WRITE"}
  /\ \/ \E new \in {"NOP", "PRECHARGE", "AUTO_REFRESH", "BURST_TERMINATE"} : Rising(new, 0, 0, mode)
     \/ \E a \in Rows : Rising("ACTIVE", a, 0, mode)
     \/ /\ mode # ResetMode
        /\ \E new \in {"READ", "WRITE"}, a \in Columns, b \in Banks : Rising(new, a, b, mode)
     \/ /\ command \notin {"READ", "WRITE"} /\ pendingReads = << >>
        /\ \E m \in Modes : Rising("LOAD_MODE_REGISTER", 0, 0, m)

(* Falling edge: the oldest pending read comes out when its edge is due.   *)
seeFallingEdge ==
  /\ clk = 1 /\ clk' = 0
  /\ pendingReads' = IF pendingReads # << >> /\ Head(pendingReads).edge = edgeNumber
                     THEN Tail(pendingReads) ELSE pendingReads
  /\ UNCHANGED << mode, command, column, row, bank, counter, edgeNumber, beats >>

SdramNext == seeRisingEdge \/ seeFallingEdge

(* A read is never late and never stuck behind another: after the falling  *)
(* edge at which it is due it is no longer pending, however bursts         *)
(* interrupt one another and wherever edgeNumber wraps; and the beats of a *)
(* burst visit different columns of the block that holds its first column. *)
(* (SDRAM::seeCLKChange, getMemoryIndex.)                                  *)
SdramBursts ==
  /\ \A i \in 1..Len(pendingReads) :
       pendingReads[i].age <= pendingReads[i].cas - (IF clk = 0 THEN 1 ELSE 0)
  /\ \A i, j \in 1..Len(beats) :
       /\ i # j /\ Len(beats) <= 2^ColumnBits => beats[i] # beats[j]
       /\ mode.length # 0 => beats[i] \div mode.length = beats[j] \div mode.length
       /\ beats[i] \in Columns
=============================================================================
