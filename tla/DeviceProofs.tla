---------------------------- MODULE DeviceProofs ----------------------------
(***************************************************************************)
(* The SDRAM (lib/SDRAM.cpp) answers every read on time and gives a        *)
(* sequential burst the columns it asked for, the LCD screen               *)
(* (lib/LCDScreen.cpp) shows every pixel where it was sent, ring_buffer    *)
(* (lib/ring_buffer.h) is a queue, and the files of the simulated program  *)
(* (lib/SyscallHandler.cpp) stay apart: for every size, latency, burst     *)
(* length and number of files.                                             *)
(***************************************************************************)
EXTENDS SDRAM, LCDScreen, RingBuffer, SyscallHandler, FiniteSetTheorems, TLAPS

-----------------------------------------------------------------------------
(* A sequence is empty when its length is zero.                            *)
LEMMA EmptySeqFact ==
  ASSUME NEW S, NEW s \in Seq(S)
  PROVE  s = << >> <=> Len(s) = 0
OBVIOUS

(* A sequence is a function on the numbers up to its length.               *)
LEMMA LenFact ==
  ASSUME NEW S, NEW s \in Seq(S)
  PROVE  Len(s) \in Nat /\ DOMAIN s = 1 .. Len(s)
OBVIOUS

(* The elements of a sequence are of its set.                              *)
LEMMA ElementFact ==
  ASSUME NEW S, NEW s \in Seq(S), NEW n \in 1 .. Len(s)
  PROVE  s[n] \in S
OBVIOUS

(* A sequence over a set is one over every larger set.                     *)
LEMMA SubsetSeqFact ==
  ASSUME NEW S, NEW T, NEW s \in Seq(S), S \subseteq T
  PROVE  s \in Seq(T)
OBVIOUS

(* A function on the numbers up to n is a sequence.                        *)
LEMMA FunctionSeqFact ==
  ASSUME NEW S, NEW n \in Nat, NEW f \in [1 .. n -> S]
  PROVE  f \in Seq(S) /\ Len(f) = n
OBVIOUS

(* What push_back gives (pendingReads of SDRAM.cpp, ring_buffer.h).        *)
LEMMA AppendFact ==
  ASSUME NEW S, NEW s \in Seq(S), NEW e \in S
  PROVE  /\ Append(s, e) \in Seq(S) /\ Len(Append(s, e)) = Len(s) + 1
         /\ \A i \in 1 .. Len(s) : Append(s, e)[i] = s[i]
         /\ Append(s, e)[Len(s) + 1] = e
OBVIOUS

(* What pop_front gives (pendingReads of SDRAM.cpp).                       *)
LEMMA TailFact ==
  ASSUME NEW S, NEW s \in Seq(S), s # << >>
  PROVE  /\ Head(s) \in S /\ Tail(s) \in Seq(S) /\ Len(Tail(s)) = Len(s) - 1
         /\ \A i \in 1 .. Len(Tail(s)) : Tail(s)[i] = s[i + 1]
OBVIOUS

(* What pop_front(num) gives (ring_buffer.h).                              *)
LEMMA SubSeqFact ==
  ASSUME NEW S, NEW s \in Seq(S), NEW m \in 1 .. (Len(s) + 1)
  PROVE  /\ SubSeq(s, m, Len(s)) \in Seq(S) /\ Len(SubSeq(s, m, Len(s))) = Len(s) - m + 1
         /\ \A i \in 1 .. (Len(s) - m + 1) : SubSeq(s, m, Len(s))[i] = s[m + i - 1]
OBVIOUS

-----------------------------------------------------------------------------
(* The SDRAM.                                                              *)
SdramSpec == SdramInit /\ [][SdramNext]_sdramVars

(* Quotients and remainders, for the columns getMemoryIndex computes.      *)
LEMMA DivMod ==
  ASSUME NEW n \in Nat \ {0}, NEW a \in Nat
  PROVE  /\ a \div n \in Nat /\ a % n \in 0 .. (n - 1)
         /\ a = (a \div n) * n + (a % n)
<1>1. a \div n \in Int /\ a % n \in 0 .. (n - 1)
  OBVIOUS
<1>2. a = n * (a \div n) + (a % n)
  OBVIOUS
<1>3. \A q \in Int : n * q = q * n /\ (n * q > - n => q >= 0)
  OBVIOUS
<1> QED BY <1>1, <1>2, <1>3

(* A number is its quotient and remainder.                                 *)
LEMMA DivUnique ==
  ASSUME NEW n \in Nat \ {0}, NEW q \in Nat, NEW r \in 0 .. (n - 1)
  PROVE  (q * n + r) \div n = q /\ (q * n + r) % n = r
OBVIOUS

(* n numbers in a row have different remainders modulo n.                  *)
LEMMA ModInjective ==
  ASSUME NEW n \in Nat \ {0}, NEW s \in Nat, NEW i \in 0 .. (n - 1), NEW j \in 0 .. (n - 1),
         (s + i) % n = (s + j) % n
  PROVE  i = j
<1> DEFINE p == (s + i) \div n
           q == (s + j) \div n
<1>0. s + i \in Nat /\ s + j \in Nat
  OBVIOUS
<1>1. p \in Nat /\ q \in Nat /\ s + i = p * n + ((s + i) % n) /\ s + j = q * n + ((s + j) % n)
  BY <1>0, DivMod, Zenon
<1>2. (s + i) % n \in Nat
  BY <1>0, DivMod
<1> HIDE DEF p, q
<1>3. i - j = (p - q) * n
  <2>1. p * n \in Int /\ q * n \in Int /\ (p - q) * n = p * n - q * n
    BY <1>1
  <2> QED BY <1>1, <1>2, <2>1
<1>4. \A d \in Int : d * n < n /\ d * n > - n => d = 0
  OBVIOUS
<1>5. p - q = 0
  BY <1>3, <1>4, <1>1
<1> QED BY <1>3, <1>5

(* A block that begins in a page ends in it.                               *)
LEMMA BlockBound ==
  ASSUME NEW n \in Nat \ {0}, NEW m \in Nat \ {0}, m % n = 0, NEW s \in 0 .. (m - 1), NEW r \in 0 .. (n - 1)
  PROVE  (s \div n) * n + r < m
<1> DEFINE k == m \div n
           q == s \div n
<1>1. k \in Nat /\ m = k * n + 0
  BY DivMod
<1>2. q \in Nat /\ s >= q * n
  BY DivMod
<1> HIDE DEF k, q
<1>3. q * n < k * n
  BY <1>1, <1>2
<1>4. q < k
  BY <1>3, <1>1, <1>2
<1>5. (q + 1) * n <= k * n
  BY <1>4, <1>1, <1>2
<1>6. q * n + n <= k * n
  BY <1>5, <1>2
<1> QED BY <1>1, <1>6 DEF q

(* A sequential burst stays in the block of its first column.              *)
LEMMA SequentialColumn ==
  ASSUME NEW m \in Modes, ~m.interleaved, m.length # 0, NEW s \in Columns, NEW i \in Nat
  PROVE  /\ BurstColumn(m, s, i) = (s \div m.length) * m.length + ((s + i) % m.length)
         /\ BurstColumn(m, s, i) \in Columns
         /\ BurstColumn(m, s, i) \div m.length = s \div m.length
<1>1. PICK n \in Nat \ {0} : n = m.length /\ 2^ColumnBits % n = 0
  BY SdramAssumption DEF Modes
<1>2. s \in Nat /\ s + i \in Nat /\ s \in 0 .. (2^ColumnBits - 1)
  BY SdramAssumption DEF Columns
<1>3. PICK q \in Nat : q = s \div n
  BY <1>1, <1>2, DivMod
<1>4. PICK r \in 0 .. (n - 1) : r = (s + i) % n
  BY <1>1, <1>2, DivMod, Zenon
<1>5. (q * n + r) \div n = q
  BY <1>3, <1>4, DivUnique, Zenon
<1>6. q * n + r < 2^ColumnBits
  BY <1>1, <1>2, <1>3, <1>4, BlockBound, SdramAssumption, Zenon
<1>7. q * n + r \in Nat
  BY <1>3, <1>4
<1>8. BurstColumn(m, s, i) = IF (q * n + r) \div n > q THEN q * n + r - n ELSE q * n + r
  BY <1>1, <1>3, <1>4 DEF BurstColumn
<1>9. BurstColumn(m, s, i) = q * n + r
  BY <1>5, <1>8, <1>3
<1>10. q * n + r \in Columns
  BY <1>6, <1>7, SdramAssumption DEF Columns
<1> QED BY <1>1, <1>3, <1>4, <1>5, <1>9, <1>10

(* The beats of a burst that is not interleaved have different columns.    *)
LEMMA SequentialDistinct ==
  ASSUME NEW m \in Modes, ~m.interleaved, NEW s \in Columns,
         NEW n \in Nat \ {0}, n = IF m.length = 0 THEN 2^ColumnBits ELSE m.length,
         NEW i \in 0 .. (n - 1), NEW j \in 0 .. (n - 1), i # j
  PROVE  BurstColumn(m, s, i) # BurstColumn(m, s, j)
<1>1. s \in Nat
  BY SdramAssumption DEF Columns
<1>2. (s + i) % n # (s + j) % n
  BY <1>1, ModInjective, Zenon
<1>3. CASE m.length = 0
  BY <1>2, <1>3 DEF BurstColumn
<1>4. CASE m.length # 0
  <2>1. i \in Nat /\ j \in Nat /\ n = m.length
    BY <1>4
  <2>2. /\ BurstColumn(m, s, i) = (s \div n) * n + ((s + i) % n)
        /\ BurstColumn(m, s, j) = (s \div n) * n + ((s + j) % n)
    BY <1>4, <2>1, SequentialColumn
  <2>3. s \div n \in Nat /\ (s + i) % n \in Int /\ (s + j) % n \in Int
    <3>1. s + i \in Nat /\ s + j \in Nat
      BY <1>1
    <3>2. s \div n \in Nat
      BY <1>1, DivMod, Zenon
    <3>3. (s + i) % n \in 0 .. (n - 1) /\ (s + j) % n \in 0 .. (n - 1)
      BY <3>1, DivMod, Zenon
    <3> QED BY <3>2, <3>3
  <2> QED BY <1>2, <2>2, <2>3
<1> QED BY <1>3, <1>4

(* A full page burst runs round the page.                                  *)
LEMMA PageColumn ==
  ASSUME NEW m \in Modes, m.length = 0, NEW s \in Columns, NEW i \in Nat
  PROVE  BurstColumn(m, s, i) \in Columns
<1>1. s + i \in Nat
  BY SdramAssumption DEF Columns
<1>2. (s + i) % 2^ColumnBits \in 0 .. (2^ColumnBits - 1)
  BY <1>1, DivMod, SdramAssumption, Zenon
<1> QED BY <1>2 DEF BurstColumn, Columns

-----------------------------------------------------------------------------
(* edgeNumber wraps once in the sums that are formed with it.              *)
LEMMA WrapsOnce ==
  ASSUME NEW n \in Nat \ {0}, NEW a \in 0 .. (2 * n - 1)
  PROVE  a % n = IF a < n THEN a ELSE a - n
OBVIOUS

(* A read that is due d edges from now is due d - 1 edges from the next.   *)
LEMMA EdgeLemma ==
  ASSUME NEW e \in 0 .. (EdgeMod - 1), NEW d \in 0 .. (EdgeMod - 1)
  PROVE  /\ (e + d) % EdgeMod = e <=> d = 0
         /\ d > 0 => (((e + 1) % EdgeMod) + d - 1) % EdgeMod = (e + d) % EdgeMod
         /\ (e + 1) % EdgeMod \in 0 .. (EdgeMod - 1)
<1>1. PICK n \in Nat \ {0} : n = EdgeMod
  BY SdramAssumption
<1>2. \A a \in 0 .. (2 * n - 1) : a % n = IF a < n THEN a ELSE a - n
  BY WrapsOnce, Zenon
<1>3. (e + d) % n = IF e + d < n THEN e + d ELSE e + d - n
  BY <1>1, <1>2
<1>4. (e + 1) % n = IF e + 1 < n THEN e + 1 ELSE e + 1 - n
  BY <1>1, <1>2
<1>5. PICK f \in Int : f = (e + 1) % n
  BY <1>4, <1>1
<1>6. f \in 0 .. (n - 1)
  BY <1>4, <1>5, <1>1
<1>7. d > 0 => (f + d - 1) % n = IF f + d - 1 < n THEN f + d - 1 ELSE f + d - 1 - n
  BY <1>1, <1>2, <1>6
<1>8. d > 0 => (f + d - 1) % n = (e + d) % n
  BY <1>1, <1>3, <1>4, <1>5, <1>6, <1>7
<1> QED BY <1>1, <1>3, <1>5, <1>6, <1>8

-----------------------------------------------------------------------------
(* The rising edges at most that a pending read may have seen.             *)
Limit == mode.cas - (IF clk = 0 THEN 1 ELSE 0)

ReadsOf(P) == [at : P, cas : Nat, age : Nat, edge : Nat]

(* Every pending read was made in this mode, falls due as many edges later *)
(* as the latency says, and before the reads behind it.                    *)
Due(r, m, e, limit) ==
  /\ r.cas = m.cas /\ r.age >= 1 /\ r.age <= limit
  /\ r.edge = (e + (m.cas - r.age)) % EdgeMod

ReadsInv ==
  /\ clk \in {0, 1} /\ edgeNumber \in 0 .. (EdgeMod - 1)
  /\ mode \in Modes \cup {ResetMode}
  /\ \E P : pendingReads \in Seq(ReadsOf(P))
  /\ pendingReads # << >> => mode \in Modes
  /\ \A i \in 1 .. Len(pendingReads) : Due(pendingReads[i], mode, edgeNumber, Limit)
  /\ \A i, j \in 1 .. Len(pendingReads) : i < j => pendingReads[i].age > pendingReads[j].age

(* Ageing the reads.                                                       *)
LEMMA OlderLemma ==
  ASSUME NEW P, NEW s \in Seq(ReadsOf(P))
  PROVE  /\ Older(s) \in Seq(ReadsOf(P)) /\ Len(Older(s)) = Len(s)
         /\ \A i \in 1 .. Len(s) :
              /\ Older(s)[i].cas = s[i].cas /\ Older(s)[i].edge = s[i].edge
              /\ Older(s)[i].age = s[i].age + 1
<1>1. Len(s) \in Nat /\ \A i \in 1 .. Len(s) : s[i] \in ReadsOf(P)
  BY ElementFact, LenFact
<1>2. \A i \in 1 .. Len(s) : Older(s)[i] = [s[i] EXCEPT !.age = @ + 1]
  BY DEF Older
<1>3. \A r \in ReadsOf(P) :
        /\ [r EXCEPT !.age = @ + 1] \in ReadsOf(P)
        /\ [r EXCEPT !.age = @ + 1].cas = r.cas /\ [r EXCEPT !.age = @ + 1].edge = r.edge
        /\ [r EXCEPT !.age = @ + 1].age = r.age + 1
  <2> TAKE r \in ReadsOf(P)
  <2>1. r.at \in P /\ r.cas \in Nat /\ r.age + 1 \in Nat /\ r.edge \in Nat
    BY DEF ReadsOf
  <2>2. [r EXCEPT !.age = @ + 1] \in ReadsOf(P)
    BY <2>1, SMTT(20) DEF ReadsOf
  <2>3. /\ [r EXCEPT !.age = @ + 1].cas = r.cas /\ [r EXCEPT !.age = @ + 1].edge = r.edge
        /\ [r EXCEPT !.age = @ + 1].age = r.age + 1
    BY DEF ReadsOf
  <2> QED BY <2>2, <2>3
<1>4. Older(s) \in [1 .. Len(s) -> ReadsOf(P)]
  BY <1>1, <1>3 DEF Older
<1>5. Older(s) \in Seq(ReadsOf(P))
  BY <1>1, <1>4, FunctionSeqFact
<1>6. Len(Older(s)) = Len(s)
  BY <1>1 DEF Older
<1> QED BY <1>1, <1>2, <1>3, <1>5, <1>6, Zenon

(* What a rising edge does to the reads.                                   *)
ReadsAge == pendingReads' = Older(pendingReads)
ReadAdded ==
  \E p : pendingReads' = Append(Older(pendingReads),
           [at |-> p, cas |-> mode'.cas, age |-> 1, edge |-> (edgeNumber + mode'.cas) % EdgeMod])
ReadsRise ==
  /\ clk = 0 /\ clk' = 1 /\ edgeNumber' = (edgeNumber + 1) % EdgeMod
  /\ mode' = mode \/ (pendingReads = << >> /\ mode' \in Modes /\ ReadsAge)
  /\ ReadsAge \/ (ReadAdded /\ mode' \in Modes)

(* The pending reads are older by one edge, and as many edges nearer.      *)
LEMMA RiseLemma == ReadsInv /\ ReadsRise => ReadsInv'
<1> SUFFICES ASSUME ReadsInv, ReadsRise PROVE ReadsInv'
  OBVIOUS
<1>1. PICK P : pendingReads \in Seq(ReadsOf(P))
  BY DEF ReadsInv
<1> DEFINE old == Older(pendingReads)
           n == Len(pendingReads)
<1>2. /\ old \in Seq(ReadsOf(P)) /\ Len(old) = n /\ n \in Nat
      /\ \A i \in 1 .. n : /\ old[i].cas = pendingReads[i].cas /\ old[i].edge = pendingReads[i].edge
                           /\ old[i].age = pendingReads[i].age + 1
                           /\ pendingReads[i].age \in Nat
  <2>1. n \in Nat
    BY <1>1, LenFact
  <2>2. \A i \in 1 .. n : pendingReads[i].age \in Nat
    <3> TAKE i \in 1 .. n
    <3>1. pendingReads[i] \in ReadsOf(P)
      BY <1>1, ElementFact
    <3> QED BY <3>1 DEF ReadsOf
  <2> QED BY <1>1, <2>1, <2>2, OlderLemma
<1>3. clk = 0 /\ clk' = 1 /\ edgeNumber' = (edgeNumber + 1) % EdgeMod /\ edgeNumber \in 0 .. (EdgeMod - 1)
  BY DEF ReadsInv, ReadsRise
<1>4. edgeNumber' \in 0 .. (EdgeMod - 1)
  BY <1>3, EdgeLemma, SdramAssumption
<1>5. \A m \in Modes : m.cas \in 1 .. (EdgeMod - 1)
  BY SdramAssumption DEF Modes
<1>6. n > 0 => mode \in Modes /\ mode' = mode
  BY <1>1, <1>2, EmptySeqFact DEF ReadsInv, ReadsRise
<1>7. ASSUME NEW i \in 1 .. n
      PROVE  Due(old[i], mode', edgeNumber', Limit')
  <2>1. mode \in Modes /\ mode' = mode /\ mode.cas \in 1 .. (EdgeMod - 1)
    BY <1>2, <1>5, <1>6
  <2>2. Due(pendingReads[i], mode, edgeNumber, mode.cas - 1)
    BY <1>3 DEF ReadsInv, Limit
  <2>3. Limit' = mode.cas
    BY <1>3, <2>1 DEF Limit
  <2>4. PICK d \in 1 .. (EdgeMod - 1) : d = mode.cas - pendingReads[i].age
    <3>1. /\ pendingReads[i].age \in Nat /\ pendingReads[i].age >= 1
          /\ pendingReads[i].age <= mode.cas - 1 /\ mode.cas \in Nat
      BY <2>1, <2>2, <1>2, SdramAssumption DEF Due
    <3>2. mode.cas - pendingReads[i].age \in 1 .. (EdgeMod - 1)
      BY <3>1, <2>1, SdramAssumption
    <3> QED BY <3>2
  <2>5. (edgeNumber' + d - 1) % EdgeMod = (edgeNumber + d) % EdgeMod
    <3>1. d \in 0 .. (EdgeMod - 1) /\ d > 0 /\ edgeNumber \in 0 .. (EdgeMod - 1)
      BY <1>3, SdramAssumption
    <3>2. (((edgeNumber + 1) % EdgeMod) + d - 1) % EdgeMod = (edgeNumber + d) % EdgeMod
      BY <3>1, EdgeLemma
    <3> QED BY <3>2, <1>3
  <2>6. mode.cas - old[i].age = d - 1 /\ edgeNumber' + (d - 1) = edgeNumber' + d - 1
    <3>1. /\ mode.cas \in Int /\ pendingReads[i].age \in Int /\ d \in Int /\ edgeNumber' \in Int
          /\ old[i].age = pendingReads[i].age + 1 /\ d = mode.cas - pendingReads[i].age
      BY <2>1, <2>4, <1>2, <1>4, SdramAssumption
    <3> QED BY <3>1
  <2> QED BY <2>1, <2>2, <2>3, <2>4, <2>5, <2>6, <1>2, SMTT(20) DEF Due
<1>8. \A i, j \in 1 .. n : i < j => old[i].age > old[j].age
  <2>1. \A i, j \in 1 .. n : i < j => pendingReads[i].age > pendingReads[j].age
    BY DEF ReadsInv
  <2> TAKE i, j \in 1 .. n
  <2> QED BY <1>2, <2>1, SMTT(30)
<1>9. \A i \in 1 .. n : old[i].age > 1
  <2> TAKE i \in 1 .. n
  <2>1. Due(pendingReads[i], mode, edgeNumber, Limit)
    BY DEF ReadsInv
  <2> QED BY <1>2, <2>1 DEF Due
<1> HIDE DEF old
<1>10. CASE ReadsAge
  <2>1. pendingReads' = old
    BY <1>10 DEF ReadsAge, old
  <2>2. mode' \in Modes \cup {ResetMode} /\ (pendingReads' # << >> => mode' \in Modes)
    BY <2>1, <1>2, <1>6, EmptySeqFact DEF ReadsInv, ReadsRise
  <2> QED BY <2>1, <2>2, <1>2, <1>3, <1>4, <1>7, <1>8 DEF ReadsInv
<1>11. CASE ReadAdded /\ mode' \in Modes
  <2> DEFINE new(p) == [at |-> p, cas |-> mode'.cas, age |-> 1,
                        edge |-> (edgeNumber + mode'.cas) % EdgeMod]
  <2>1. PICK p : pendingReads' = Append(old, new(p))
    BY <1>11, Zenon DEF ReadAdded, old
  <2>2. mode'.cas \in 1 .. (EdgeMod - 1) /\ mode'.cas \in Nat
    BY <1>5, <1>11, SdramAssumption
  <2>3. (edgeNumber + mode'.cas) % EdgeMod \in Nat
    <3>1. edgeNumber + mode'.cas \in Nat
      BY <2>2, <1>3
    <3> QED BY <3>1, SdramAssumption
  <2>4. new(p) \in ReadsOf(P \cup {p}) /\ new(p).age = 1 /\ new(p).cas = mode'.cas
        /\ new(p).edge = (edgeNumber + mode'.cas) % EdgeMod
    BY <2>2, <2>3 DEF ReadsOf
  <2> HIDE DEF new
  <2>5. old \in Seq(ReadsOf(P \cup {p}))
    <3>1. ReadsOf(P) \subseteq ReadsOf(P \cup {p})
      BY DEF ReadsOf
    <3> QED BY <3>1, <1>2, SubsetSeqFact, Zenon
  <2>6. /\ pendingReads' \in Seq(ReadsOf(P \cup {p})) /\ Len(pendingReads') = n + 1
        /\ \A i \in 1 .. n : pendingReads'[i] = old[i]
        /\ pendingReads'[n + 1] = new(p)
    BY <2>1, <2>4, <2>5, <1>2, AppendFact
  <2>7. Due(new(p), mode', edgeNumber', Limit')
    <3>1. Limit' = mode'.cas
      BY <1>3, <2>2 DEF Limit
    <3>2. (edgeNumber' + mode'.cas - 1) % EdgeMod = (edgeNumber + mode'.cas) % EdgeMod
      BY <2>2, <1>3, EdgeLemma
    <3>3. edgeNumber' + (mode'.cas - 1) = edgeNumber' + mode'.cas - 1
      BY <2>2, <1>4
    <3> QED BY <3>1, <3>2, <3>3, <2>2, <2>4 DEF Due
  <2>8. \A i \in 1 .. Len(pendingReads') : Due(pendingReads'[i], mode', edgeNumber', Limit')
    BY <2>6, <2>7, <1>2, <1>7
  <2>9. \A i, j \in 1 .. Len(pendingReads') : i < j => pendingReads'[i].age > pendingReads'[j].age
    <3> TAKE i, j \in 1 .. Len(pendingReads')
    <3>0. i \in 1 .. (n + 1) /\ j \in 1 .. (n + 1) /\ n \in Nat
      BY <2>6, <1>2
    <3> HIDE DEF n
    <3>1. i < j => i \in 1 .. n /\ (j \in 1 .. n \/ j = n + 1)
      BY <3>0
    <3> QED BY <3>1, <2>4, <2>6, <1>8, <1>9
  <2> QED BY <2>6, <2>8, <2>9, <1>3, <1>4, <1>11 DEF ReadsInv
<1> QED BY <1>10, <1>11 DEF ReadsRise

(* The oldest read leaves on the falling edge at which it is due.          *)
LEMMA FallLemma == ReadsInv /\ seeFallingEdge => ReadsInv'
<1> SUFFICES ASSUME ReadsInv, seeFallingEdge PROVE ReadsInv'
  OBVIOUS
<1>1. PICK P : pendingReads \in Seq(ReadsOf(P))
  BY DEF ReadsInv
<1> DEFINE n == Len(pendingReads)
<1>2. /\ clk = 1 /\ clk' = 0 /\ mode' = mode /\ edgeNumber' = edgeNumber
      /\ pendingReads' = IF pendingReads # << >> /\ Head(pendingReads).edge = edgeNumber
                         THEN Tail(pendingReads) ELSE pendingReads
      /\ edgeNumber \in 0 .. (EdgeMod - 1) /\ mode \in Modes \cup {ResetMode}
      /\ pendingReads # << >> => mode \in Modes
  BY DEF ReadsInv, seeFallingEdge
<1>3. n \in Nat /\ \A i \in 1 .. n : pendingReads[i] \in ReadsOf(P)
  BY <1>1, LenFact, ElementFact
<1>4. \A i, j \in 1 .. n : i < j => pendingReads[i].age > pendingReads[j].age
  BY DEF ReadsInv
<1>5. CASE pendingReads = << >>
  <2>1. pendingReads' = << >> /\ Len(pendingReads') = 0
    BY <1>2, <1>5
  <2>2. pendingReads' \in Seq(ReadsOf(P))
    BY <2>1
  <2> QED BY <2>1, <2>2, <1>2 DEF ReadsInv
<1>6. CASE pendingReads # << >>
  <2>1. mode.cas \in 1 .. (EdgeMod - 1) /\ mode \in Modes
    BY <1>2, <1>6, SdramAssumption DEF Modes
  <2>2. n > 0 /\ Head(pendingReads) = pendingReads[1]
    BY <1>1, <1>3, <1>6, EmptySeqFact
  <2>3. ASSUME NEW i \in 1 .. n
        PROVE  /\ Due(pendingReads[i], mode, edgeNumber, mode.cas)
               /\ pendingReads[i].age \in 1 .. mode.cas
    <3>1. Limit = mode.cas
      BY <1>2, <2>1, SdramAssumption DEF Limit
    <3>2. pendingReads[i].age \in Nat
      BY <1>3 DEF ReadsOf
    <3> QED BY <3>1, <3>2, <2>1 DEF ReadsInv, Due
  <2>4. Limit' = mode.cas - 1
    BY <1>2 DEF Limit
  <2>5. pendingReads[1].edge = edgeNumber <=> pendingReads[1].age = mode.cas
    <3>1. 1 \in 1 .. n
      BY <2>2, <1>3
    <3>2. PICK d \in 0 .. (EdgeMod - 1) : d = mode.cas - pendingReads[1].age
      <4>1. mode.cas - pendingReads[1].age \in 0 .. (EdgeMod - 1)
        BY <3>1, <2>1, <2>3, SdramAssumption
      <4> QED BY <4>1
    <3>3. pendingReads[1].edge = (edgeNumber + d) % EdgeMod
      BY <3>1, <3>2, <2>3 DEF Due
    <3>4. d = 0 <=> pendingReads[1].age = mode.cas
      BY <3>1, <3>2, <2>1, <2>3, SdramAssumption
    <3>5. edgeNumber \in 0 .. (EdgeMod - 1)
      BY <1>2
    <3>6. (edgeNumber + d) % EdgeMod = edgeNumber <=> d = 0
      BY <3>5, EdgeLemma
    <3> QED BY <3>3, <3>4, <3>6
  <2>6. \A i \in 1 .. n : i > 1 \/ pendingReads[1].age # mode.cas =>
          Due(pendingReads[i], mode, edgeNumber, mode.cas - 1)
    <3> TAKE i \in 1 .. n
    <3> HAVE i > 1 \/ pendingReads[1].age # mode.cas
    <3>1. 1 \in 1 .. n /\ (i > 1 => pendingReads[1].age > pendingReads[i].age) /\ (i = 1 \/ i > 1)
      BY <2>2, <1>3, <1>4
    <3>2. pendingReads[i].age <= mode.cas - 1
      BY <3>1, <2>1, <2>3, SdramAssumption
    <3> QED BY <3>2, <2>3 DEF Due
  <2>7. CASE pendingReads[1].age = mode.cas
    <3>1. pendingReads' = Tail(pendingReads)
      BY <2>2, <2>5, <2>7, <1>2, <1>6
    <3>2. /\ pendingReads' \in Seq(ReadsOf(P)) /\ Len(pendingReads') = n - 1
          /\ \A i \in 1 .. (n - 1) : pendingReads'[i] = pendingReads[i + 1]
      BY <3>1, <1>1, <1>6, TailFact
    <3>3. \A i \in 1 .. (n - 1) : i + 1 \in 1 .. n /\ i + 1 > 1
      BY <1>3
    <3>4. \A i \in 1 .. Len(pendingReads') : Due(pendingReads'[i], mode', edgeNumber', Limit')
      BY <3>2, <3>3, <2>4, <2>6, <1>2
    <3>5. \A i, j \in 1 .. Len(pendingReads') : i < j => pendingReads'[i].age > pendingReads'[j].age
      BY <3>2, <3>3, <1>4, SMTT(30)
    <3> QED BY <3>2, <3>4, <3>5, <2>1, <1>2 DEF ReadsInv
  <2>8. CASE pendingReads[1].age # mode.cas
    <3>1. pendingReads' = pendingReads
      BY <2>2, <2>5, <2>8, <1>2
    <3> QED BY <3>1, <2>1, <2>4, <2>6, <2>8, <1>1, <1>2, <1>4, Zenon DEF ReadsInv
  <2> QED BY <2>7, <2>8
<1> QED BY <1>5, <1>6

-----------------------------------------------------------------------------
(* The burst that runs, or ran last: its beats are those of its first      *)
(* column, and it runs until it has as many as the mode register says.     *)
Bursting == command \in {"READ", "WRITE"}
BurstInv ==
  /\ mode \in Modes \cup {ResetMode} /\ column \in Columns /\ counter \in Nat
  /\ \E S : beats \in Seq(S)
  /\ Bursting => mode \in Modes /\ counter = Len(beats)
  /\ Bursting /\ mode.length # 0 => counter < mode.length
  /\ beats # << >> => mode \in Modes
  /\ beats # << >> /\ mode.length # 0 => Len(beats) <= mode.length
  /\ \A i \in 1 .. Len(beats) : beats[i] = BurstColumn(mode, column, i - 1)

(* What a rising edge does to the burst: it goes on, it is not running, a  *)
(* new one begins, or the command ends it.                                 *)
BurstGoesOn ==
  /\ Bursting /\ UNCHANGED << mode, column >>
  /\ counter' = counter + 1
  /\ beats' = Append(beats, BurstColumn(mode, column, counter))
  /\ command' = IF mode.length # 0 /\ counter + 1 = mode.length THEN "NOP" ELSE command
BurstRests ==
  /\ ~Bursting /\ UNCHANGED << mode, column, counter, beats, command >>
BurstBegins(new, a) ==
  /\ a \in Columns /\ column' = a /\ mode \in Modes /\ mode' = mode /\ counter' = 1
  /\ beats' = << BurstColumn(mode, a, 0) >>
  /\ command' = IF mode.length # 0 /\ 1 = mode.length THEN "NOP" ELSE new
BurstEnds ==
  /\ mode' \in Modes \/ mode' = mode
  /\ UNCHANGED << column, counter >> /\ beats' = << >> /\ command' \notin {"READ", "WRITE"}
BurstStep == BurstGoesOn \/ BurstRests \/ BurstEnds \/ \E new, a : BurstBegins(new, a)

(* A rising edge as the reads and the burst see it.                        *)
LEMMA RisingLemma ==
  ASSUME BurstInv, seeRisingEdge
  PROVE  ReadsRise /\ BurstStep
<1>1. clk = 0 /\ clk' = 1
  BY DEF seeRisingEdge
<1>2. ASSUME NEW new, NEW a, NEW b, NEW m, Rising(new, a, b, m),
             new \in {"PRECHARGE", "AUTO_REFRESH", "BURST_TERMINATE", "ACTIVE"}, m = mode
      PROVE  ReadsRise /\ BurstEnds
  BY <1>1, <1>2, Zenon DEF Rising, Take, ReadsRise, ReadsAge, BurstEnds
<1>3. ASSUME NEW m \in Modes, Rising("LOAD_MODE_REGISTER", 0, 0, m), pendingReads = << >>
      PROVE  ReadsRise /\ BurstEnds
  BY <1>1, <1>3, Zenon DEF Rising, Take, ReadsRise, ReadsAge, BurstEnds
<1>4. ASSUME NEW new \in {"READ", "WRITE"}, NEW a \in Columns, NEW b, Rising(new, a, b, mode), mode # ResetMode
      PROVE  ReadsRise /\ BurstBegins(new, a)
  <2>1. mode \in Modes
    BY <1>4 DEF BurstInv
  <2>2. /\ mode' = mode /\ column' = a /\ counter' = 0 + 1
        /\ command' = IF mode.length # 0 /\ 0 + 1 = mode.length THEN "NOP" ELSE new
        /\ beats' = Append(<< >>, BurstColumn(mode, a, 0))
    BY <1>4, Zenon DEF Rising, Take
  <2>3. edgeNumber' = (edgeNumber + 1) % EdgeMod /\ (ReadsAge \/ ReadAdded)
    BY <1>4, Zenon DEF Rising, Take, ReadsAge, ReadAdded
  <2>4. ReadsRise
    BY <2>1, <2>2, <2>3, <1>1 DEF ReadsRise
  <2>5. Append(<< >>, BurstColumn(mode, a, 0)) = << BurstColumn(mode, a, 0) >> /\ 0 + 1 = 1
    OBVIOUS
  <2>6. BurstBegins(new, a)
    BY <2>1, <2>2, <2>5 DEF BurstBegins
  <2> QED BY <2>4, <2>6
<1>5. ASSUME Rising("NOP", 0, 0, mode)
      PROVE  ReadsRise /\ (BurstGoesOn \/ BurstRests)
  <2>1. Bursting => mode \in Modes
    BY DEF BurstInv
  <2>2. /\ mode' = mode /\ column' = column /\ edgeNumber' = (edgeNumber + 1) % EdgeMod
        /\ Bursting => ReadsAge \/ ReadAdded
        /\ ~Bursting => ReadsAge
    BY <1>5, Zenon DEF Rising, Take, ReadsAge, ReadAdded, Bursting
  <2>3. ReadsRise
    BY <2>1, <2>2, <1>1 DEF ReadsRise
  <2>4. Bursting => BurstGoesOn
    BY <1>5, Zenon DEF Rising, Take, Bursting, BurstGoesOn
  <2>5. ~Bursting => BurstRests
    BY <1>5, Zenon DEF Rising, Take, Bursting, BurstRests
  <2> QED BY <2>3, <2>4, <2>5
<1> QED BY <1>2, <1>3, <1>4, <1>5 DEF seeRisingEdge, BurstStep

(* The beats of the burst stay those of its first column.                  *)
LEMMA BurstLemma == BurstInv /\ BurstStep => BurstInv'
<1> SUFFICES ASSUME BurstInv, BurstStep PROVE BurstInv'
  OBVIOUS
<1>1. CASE BurstGoesOn
  <2>1. PICK S : beats \in Seq(S)
    BY DEF BurstInv
  <2> DEFINE c == BurstColumn(mode, column, counter)
             n == Len(beats)
  <2>2. /\ beats' = Append(beats, c) /\ mode' = mode /\ column' = column /\ counter' = n + 1
        /\ mode \in Modes /\ counter = n /\ n \in Nat /\ column \in Columns
    BY <2>1, <1>1, LenFact DEF BurstGoesOn, BurstInv
  <2>3. beats \in Seq(S \cup {c})
    BY <2>1, SubsetSeqFact
  <2>4. /\ beats' \in Seq(S \cup {c}) /\ Len(beats') = n + 1 /\ beats' # << >>
        /\ \A i \in 1 .. n : beats'[i] = beats[i]
        /\ beats'[n + 1] = c
    BY <2>2, <2>3, AppendFact
  <2>5. \A i \in 1 .. Len(beats') : beats'[i] = BurstColumn(mode', column', i - 1)
    <3> TAKE i \in 1 .. Len(beats')
    <3>1. i \in 1 .. n \/ (i = n + 1 /\ i - 1 = n)
      BY <2>2, <2>4
    <3>2. \A k \in 1 .. n : beats[k] = BurstColumn(mode, column, k - 1)
      BY DEF BurstInv
    <3> QED BY <3>1, <3>2, <2>2, <2>4
  <2>6. mode.length \in Nat
    BY <2>2, SdramAssumption DEF Modes
  <2>7. mode.length # 0 => counter < mode.length
    BY <1>1 DEF BurstInv, BurstGoesOn
  <2>8. Bursting' => ~(mode.length # 0 /\ counter + 1 = mode.length)
    BY <1>1 DEF BurstGoesOn, Bursting
  <2>9. /\ mode'.length # 0 => Len(beats') <= mode'.length
        /\ Bursting' /\ mode'.length # 0 => counter' < mode'.length
    BY <2>2, <2>4, <2>6, <2>7, <2>8
  <2>10. counter' \in Nat /\ counter' = Len(beats')
    BY <2>2, <2>4
  <2> QED BY <2>2, <2>4, <2>5, <2>9, <2>10 DEF BurstInv
<1>2. CASE BurstRests
  BY <1>2 DEF BurstInv, BurstRests, Bursting
<1>3. CASE BurstEnds
  <2>1. /\ beats' = << >> /\ Len(beats') = 0 /\ beats' \in Seq({}) /\ ~Bursting'
        /\ column' = column /\ counter' = counter
    BY <1>3 DEF BurstEnds, Bursting
  <2>2. mode' \in Modes \cup {ResetMode}
    BY <1>3 DEF BurstEnds, BurstInv
  <2> QED BY <2>1, <2>2 DEF BurstInv
<1>4. CASE \E new, a : BurstBegins(new, a)
  <2>1. PICK new, a : BurstBegins(new, a)
    BY <1>4
  <2> DEFINE c == BurstColumn(mode, a, 0)
  <2>2. /\ beats' = << c >> /\ mode' = mode /\ mode \in Modes /\ column' = a /\ a \in Columns
        /\ counter' = 1 /\ (Bursting' => ~(mode.length # 0 /\ 1 = mode.length))
    BY <2>1 DEF BurstBegins, Bursting
  <2>3. Len(beats') = 1 /\ beats' \in Seq({c}) /\ beats' # << >> /\ beats'[1] = c
    BY <2>2
  <2>4. mode.length \in Nat
    BY <2>2, SdramAssumption DEF Modes
  <2>5. \A i \in 1 .. Len(beats') : beats'[i] = BurstColumn(mode', column', i - 1)
    <3> TAKE i \in 1 .. Len(beats')
    <3>1. i = 1 /\ i - 1 = 0
      BY <2>3
    <3> QED BY <3>1, <2>2, <2>3
  <2>6. /\ mode'.length # 0 => Len(beats') <= mode'.length
        /\ Bursting' /\ mode'.length # 0 => counter' < mode'.length
    BY <2>2, <2>3, <2>4
  <2>7. counter' \in Nat /\ counter' = Len(beats')
    BY <2>2, <2>3
  <2> QED BY <2>2, <2>3, <2>5, <2>6, <2>7, Zenon DEF BurstInv
<1> QED BY <1>1, <1>2, <1>3, <1>4 DEF BurstStep

-----------------------------------------------------------------------------
(* The SDRAM's inductive invariant holds (SDRAM::seeCLKChange).            *)
THEOREM SdramInvariance == SdramSpec => [](ReadsInv /\ BurstInv)
<1>1. SdramInit => ReadsInv /\ BurstInv
  <2> SUFFICES ASSUME SdramInit PROVE ReadsInv /\ BurstInv
    OBVIOUS
  <2>1. pendingReads = << >> /\ Len(pendingReads) = 0 /\ pendingReads \in Seq(ReadsOf({}))
    BY DEF SdramInit
  <2>2. beats = << >> /\ Len(beats) = 0 /\ beats \in Seq({})
    BY DEF SdramInit
  <2>3. ReadsInv
    BY <2>1, SdramAssumption DEF SdramInit, ReadsInv
  <2>4. BurstInv
    BY <2>2, SdramAssumption DEF SdramInit, BurstInv, Bursting, Columns
  <2> QED BY <2>3, <2>4
<1>2. ReadsInv /\ BurstInv /\ [SdramNext]_sdramVars => ReadsInv' /\ BurstInv'
  <2> SUFFICES ASSUME ReadsInv, BurstInv, [SdramNext]_sdramVars PROVE ReadsInv' /\ BurstInv'
    OBVIOUS
  <2>1. CASE seeRisingEdge
    BY <2>1, RisingLemma, RiseLemma, BurstLemma
  <2>2. CASE seeFallingEdge
    <3>1. UNCHANGED << mode, command, column, counter, beats >>
      BY <2>2 DEF seeFallingEdge
    <3>2. BurstInv'
      BY <3>1, SMTT(20) DEF BurstInv, Bursting
    <3> QED BY <3>2, <2>2, FallLemma
  <2>3. CASE UNCHANGED sdramVars
    BY <2>3 DEF sdramVars, ReadsInv, BurstInv, Bursting, Limit
  <2> QED BY <2>1, <2>2, <2>3 DEF SdramNext
<1> QED BY <1>1, <1>2, PTL DEF SdramSpec

(* No read is late: after the falling edge at which it is due it is no     *)
(* longer pending, in every mode (SDRAM::seeCLKChange).                    *)
ReadsOnTime ==
  \A i \in 1 .. Len(pendingReads) :
    pendingReads[i].age <= pendingReads[i].cas - (IF clk = 0 THEN 1 ELSE 0)

(* Every read comes out as many edges after its command as the mode        *)
(* register says, however bursts interrupt one another and edgeNumber      *)
(* wraps, for any latencies below its range (SDRAM::seeCLKChange).         *)
THEOREM ReadsAreOnTime == SdramSpec => []ReadsOnTime
<1>1. ReadsInv => ReadsOnTime
  BY DEF ReadsInv, ReadsOnTime, Due, Limit
<1> QED BY <1>1, SdramInvariance, PTL

(* Reads are on time and the beats of a burst are different columns of one *)
(* block, unless the mode register asks for interleaved bursts             *)
(* (SDRAM::seeCLKChange, getMemoryIndex).                                  *)
THEOREM SequentialBursts == SdramSpec => [](~mode.interleaved => SdramBursts)
<1>1. ReadsInv /\ BurstInv => (~mode.interleaved => SdramBursts)
  <2> SUFFICES ASSUME ReadsInv, BurstInv, ~mode.interleaved PROVE SdramBursts
    OBVIOUS
  <2>1. \A i \in 1 .. Len(pendingReads) :
          pendingReads[i].age <= pendingReads[i].cas - (IF clk = 0 THEN 1 ELSE 0)
    BY DEF ReadsInv, Due, Limit
  <2>2. ASSUME NEW i \in 1 .. Len(beats), NEW j \in 1 .. Len(beats)
        PROVE  /\ i # j /\ Len(beats) <= 2^ColumnBits => beats[i] # beats[j]
               /\ mode.length # 0 => beats[i] \div mode.length = beats[j] \div mode.length
               /\ beats[i] \in Columns
    <3>1. Len(beats) \in Nat /\ beats # << >>
      <4>1. PICK S : beats \in Seq(S)
        BY DEF BurstInv
      <4> QED BY <4>1, LenFact
    <3>2. mode \in Modes /\ mode.length \in Nat /\ column \in Columns
      BY <3>1, SdramAssumption DEF BurstInv, Modes
    <3>3. beats[i] = BurstColumn(mode, column, i - 1) /\ beats[j] = BurstColumn(mode, column, j - 1)
      BY DEF BurstInv
    <3>4. i - 1 \in Nat /\ j - 1 \in Nat /\ (i # j => i - 1 # j - 1)
      BY <3>1
    <3>5. CASE mode.length = 0
      <4>1. ASSUME i # j, Len(beats) <= 2^ColumnBits PROVE beats[i] # beats[j]
        <5>1. i - 1 \in 0 .. (2^ColumnBits - 1) /\ j - 1 \in 0 .. (2^ColumnBits - 1)
          BY <4>1, <3>1, SdramAssumption
        <5> QED BY <5>1, <4>1, <3>2, <3>3, <3>4, <3>5, SequentialDistinct, SdramAssumption
      <4>2. beats[i] \in Columns
        BY <3>2, <3>3, <3>4, <3>5, PageColumn
      <4> QED BY <4>1, <4>2, <3>5
    <3>6. CASE mode.length # 0
      <4>1. i - 1 \in 0 .. (mode.length - 1) /\ j - 1 \in 0 .. (mode.length - 1)
        BY <3>1, <3>2, <3>6, SMTT(20) DEF BurstInv
      <4>2. i # j => beats[i] # beats[j]
        <5>1. PICK n \in Nat \ {0} : n = mode.length
          BY <3>2, <3>6
        <5> QED BY <5>1, <4>1, <3>2, <3>3, <3>4, <3>6, SequentialDistinct
      <4>3. /\ BurstColumn(mode, column, i - 1) \in Columns
            /\ BurstColumn(mode, column, i - 1) \div mode.length = column \div mode.length
        BY <3>2, <3>4, <3>6, SequentialColumn
      <4>4. BurstColumn(mode, column, j - 1) \div mode.length = column \div mode.length
        BY <3>2, <3>4, <3>6, SequentialColumn, SMTT(20)
      <4> QED BY <4>2, <4>3, <4>4, <3>3
    <3> QED BY <3>5, <3>6
  <2> QED BY <2>1, <2>2, Zenon DEF SdramBursts
<1> QED BY <1>1, SdramInvariance, PTL

-----------------------------------------------------------------------------
LcdSpec == LcdInit /\ [][LcdNext]_lcdVars

-----------------------------------------------------------------------------
(* The LCD screen.                                                         *)

(* The edges since DE was last high, those of the blanking still to come   *)
(* included.                                                               *)
LowEdges == (edgeCounter - lastDEHighEdge) + blank

(* Where the next pixel of a line goes, when its first one went to x = 0.  *)
ColumnOf(c) == IF lin >= Height THEN 0 ELSE IF c < Width THEN c ELSE Width

(* The screen is where the driver is: within a line x and y are its column *)
(* and line, and between lines the blanking will tell what comes next.     *)
LcdInv ==
  /\ x \in Nat /\ y \in Nat /\ edgeCounter \in Nat /\ lastDEHighEdge \in Nat /\ blank \in Nat
  /\ col \in 0 .. (LineWidth - 1) /\ lin \in 0 .. (FrameLines - 1) /\ framesSent \in Nat
  /\ DOMAIN screen = Pixels /\ screen = [p \in Pixels |-> screen[p]]
  /\ col > 0 => LowEdges = 0 /\ blank = 0 /\ y = lin /\ x = ColumnOf(col)
  /\ col = 0 /\ lin > 0 => LowEdges \in MinHorizontal .. (MinVertical - 1) /\ y = lin - 1
  /\ col = 0 /\ lin = 0 => LowEdges >= MinVertical
  /\ PixelsInPlace

(* The screen starts blank, in the blanking before a frame.                *)
LEMMA InitLcd == LcdInit => LcdInv
<1> SUFFICES ASSUME LcdInit PROVE LcdInv
  OBVIOUS
<1>1. /\ x = 0 /\ y = 0 /\ edgeCounter = 0 /\ lastDEHighEdge = 0
      /\ col = 0 /\ lin = 0 /\ framesSent = 0 /\ blank \in Nat /\ blank >= MinVertical
      /\ screen = [p \in Pixels |-> Blank]
  BY LcdAssumption DEF LcdInit
<1>2. PixelsInPlace
  BY <1>1, LcdAssumption DEF PixelsInPlace, Pixels
<1> QED BY <1>1, <1>2, LcdAssumption DEF LcdInv, LowEdges

(* The place that seeSamplingEdge computes for the driver's next pixel.    *)
LEMMA PlaceLemma ==
  ASSUME LcdInv, blank = 0, NEW low, low = edgeCounter + 1 - (lastDEHighEdge + 1)
  PROVE  LineStart(low).x = ColumnOf(col) /\ LineStart(low).y = lin
<1>1. low = LowEdges /\ low \in Int
  BY DEF LcdInv, LowEdges
<1>2. /\ col > 0 => low = 0 /\ y = lin /\ x = ColumnOf(col)
      /\ col = 0 /\ lin > 0 => low \in MinHorizontal .. (MinVertical - 1) /\ y = lin - 1
      /\ col = 0 /\ lin = 0 => low >= MinVertical
      /\ col \in Nat /\ lin \in Nat
  BY <1>1, LcdAssumption DEF LcdInv
<1>3. col = 0 => ColumnOf(col) = 0
  BY LcdAssumption, SMTT(20) DEF ColumnOf
<1>4. CASE col > 0
  BY <1>1, <1>2, <1>4, LcdAssumption, SMTT(20) DEF LineStart
<1>5. CASE col = 0 /\ lin > 0
  BY <1>1, <1>2, <1>3, <1>5, LcdAssumption, SMTT(20) DEF LineStart
<1>6. CASE col = 0 /\ lin = 0
  BY <1>1, <1>2, <1>3, <1>6, LcdAssumption, SMTT(20) DEF LineStart
<1> QED BY <1>2, <1>4, <1>5, <1>6

(* A blanking edge.                                                        *)
LEMMA BlankStep == LcdInv /\ BlankEdge => LcdInv'
<1> SUFFICES ASSUME LcdInv, BlankEdge PROVE LcdInv'
  OBVIOUS
<1>1. /\ UNCHANGED <<x, y, lastDEHighEdge, screen, col, lin, framesSent>>
      /\ edgeCounter' = edgeCounter + 1 /\ blank' = blank - 1 /\ blank > 0
  BY SMTT(20) DEF BlankEdge, seeSamplingEdge
<1>2. PixelsInPlace'
  BY <1>1 DEF LcdInv, PixelsInPlace
<1>3. LowEdges' = LowEdges /\ blank' \in Nat /\ edgeCounter' \in Nat
  BY <1>1 DEF LcdInv, LowEdges
<1>4. \A c : ColumnOf(c)' = ColumnOf(c)
  BY <1>1 DEF ColumnOf
<1>5. ~(col > 0)
  BY <1>1 DEF LcdInv
<1> QED BY <1>1, <1>2, <1>3, <1>5 DEF LcdInv

(* A pixel: the screen takes it where the driver means it.                 *)
LEMMA PixelStep == LcdInv /\ PixelEdge => LcdInv'
<1> SUFFICES ASSUME LcdInv, PixelEdge PROVE LcdInv'
  OBVIOUS
<1> DEFINE fit == ColumnOf(col) < Width /\ lin < Height
           pix == << framesSent, col, lin >>
<1>1. PICK low \in {edgeCounter + 1 - (lastDEHighEdge + 1)} :
        low = edgeCounter + 1 - (lastDEHighEdge + 1)
  OBVIOUS
<1>2. LineStart(low).x = ColumnOf(col) /\ LineStart(low).y = lin
  BY <1>1, PlaceLemma DEF PixelEdge
<1>3. edgeCounter' = edgeCounter + 1
  BY DEF PixelEdge, seeSamplingEdge
<1>4. /\ x' = IF fit THEN ColumnOf(col) + 1 ELSE ColumnOf(col)
      /\ y' = lin
      /\ screen' = IF fit THEN [screen EXCEPT ![<< ColumnOf(col), lin >>] = pix] ELSE screen
      /\ lastDEHighEdge' = edgeCounter'
  <2>1. seeSamplingEdge(1, pix)
    BY DEF PixelEdge
  <2>2. edgeCounter' - (lastDEHighEdge + 1) = low
    BY <1>1, <1>3, SMTT(20) DEF LcdInv
  <2>3. LET at == LineStart(low)
            room == at.x < Width /\ at.y < Height
        IN  /\ x' = IF room THEN at.x + 1 ELSE at.x
            /\ y' = at.y
            /\ screen' = IF room THEN [screen EXCEPT ![<< at.x, at.y >>] = pix] ELSE screen
            /\ lastDEHighEdge' = edgeCounter'
    BY <2>1, <2>2 DEF seeSamplingEdge
  <2> QED BY <1>2, <2>3
<1>5. /\ col \in 0 .. (LineWidth - 1) /\ lin \in 0 .. (FrameLines - 1)
      /\ framesSent \in Nat /\ edgeCounter \in Nat
      /\ DOMAIN screen = Pixels /\ screen = [p \in Pixels |-> screen[p]]
      /\ PixelsInPlace
  BY DEF LcdInv
<1>6. ColumnOf(col) \in Nat /\ (fit <=> col < Width /\ lin < Height) /\ (fit => ColumnOf(col) = col)
  BY <1>5, LcdAssumption DEF ColumnOf
<1>7. fit => << col, lin >> \in Pixels
  BY <1>5, <1>6, LcdAssumption DEF Pixels
<1>8. DOMAIN screen' = Pixels /\ screen' = [p \in Pixels |-> screen'[p]]
  BY <1>4, <1>5, SMTT(20)
<1>9. \A p \in Pixels : screen'[p] = IF p = << col, lin >> THEN pix ELSE screen[p]
  <2> TAKE p \in Pixels
  <2>1. p = << col, lin >> => fit
    BY <1>6, LcdAssumption DEF Pixels
  <2> QED BY <2>1, <1>4, <1>5, <1>6, <1>7
<1>10. /\ col' = IF LastPixel THEN 0 ELSE col + 1
       /\ lin' = IF ~LastPixel THEN lin ELSE IF LastLine THEN 0 ELSE lin + 1
       /\ framesSent' = IF LastPixel /\ LastLine THEN framesSent + 1 ELSE framesSent
       /\ blank' \in IF ~LastPixel THEN {0} ELSE IF LastLine THEN VerticalBlank ELSE HorizontalBlank
  BY DEF PixelEdge
<1>11. LowEdges' = blank' /\ edgeCounter' \in Nat /\ lastDEHighEdge' \in Nat
  <2>1. blank' \in Nat
    BY <1>10, LcdAssumption
  <2> QED BY <2>1, <1>3, <1>4, <1>5 DEF LowEdges
<1>12. x' \in Nat /\ y' \in Nat /\ y' = lin
  BY <1>4, <1>5, <1>6, SMTT(20)
<1>13. PixelsInPlace'
  <2> DEFINE now(p)   == p[1] < LineWidth /\ (p[2] < lin \/ (p[2] = lin /\ p[1] < col))
             f(p)     == IF now(p) THEN framesSent ELSE framesSent - 1
             show(p, g) == IF g < 0 \/ p[1] >= LineWidth \/ p[2] >= FrameLines
                           THEN Blank ELSE << g, p[1], p[2] >>
  <2>1. \A p \in Pixels : screen[p] = show(p, f(p))
    BY <1>5 DEF PixelsInPlace
  <2>2. SUFFICES ASSUME NEW p \in Pixels
                 PROVE  screen'[p] = show(p, f(p)')
    BY DEF PixelsInPlace
  <2>3. p[1] \in Nat /\ p[2] \in Nat /\ p = << p[1], p[2] >>
    BY LcdAssumption DEF Pixels
  <2>4. CASE p = << col, lin >>
    <3>1. screen'[p] = pix /\ p[1] = col /\ p[2] = lin
      BY <2>4, <1>9
    <3>2. f(p)' = framesSent
      BY <3>1, <1>5, <1>10, LcdAssumption DEF LastPixel, LastLine
    <3> QED BY <3>1, <3>2, <1>5, LcdAssumption
  <2>5. CASE p # << col, lin >>
    <3>1. screen'[p] = show(p, f(p)) /\ (p[1] # col \/ p[2] # lin)
      BY <2>1, <2>3, <2>5, <1>9, SMTT(20)
    <3>2. p[1] < LineWidth /\ p[2] < FrameLines => f(p)' = f(p)
      BY <3>1, <2>3, <1>5, <1>10, LcdAssumption, SMTT(20) DEF LastPixel, LastLine
    <3> HIDE DEF f
    <3> QED BY <3>1, <3>2, <2>3, LcdAssumption
  <2> QED BY <2>4, <2>5
<1>14. CASE ~LastPixel
  <2>1. col' = col + 1 /\ lin' = lin /\ framesSent' = framesSent /\ blank' = 0
    BY <1>10, <1>14
  <2>2. col' \in 0 .. (LineWidth - 1) /\ lin' \in 0 .. (FrameLines - 1) /\ col' > 0
    BY <2>1, <1>5, <1>14, LcdAssumption, SMTT(20) DEF LastPixel
  <2>3. x' = ColumnOf(col)'
    BY <2>1, <1>4, <1>5, <1>6, LcdAssumption, SMTT(20) DEF ColumnOf
  <2> QED BY <2>1, <2>2, <2>3, <1>5, <1>8, <1>11, <1>12, <1>13 DEF LcdInv
<1>15. CASE LastPixel /\ ~LastLine
  <2>1. col' = 0 /\ lin' = lin + 1 /\ framesSent' = framesSent /\ blank' \in HorizontalBlank
    BY <1>10, <1>15
  <2>2. col' \in 0 .. (LineWidth - 1) /\ lin' \in 0 .. (FrameLines - 1) /\ lin' > 0 /\ y' = lin' - 1
    BY <2>1, <1>5, <1>12, <1>15, LcdAssumption DEF LastLine
  <2>3. blank' \in MinHorizontal .. (MinVertical - 1) /\ blank' \in Nat
    BY <2>1, LcdAssumption, SMTT(20)
  <2> QED BY <2>1, <2>2, <2>3, <1>5, <1>8, <1>11, <1>12, <1>13 DEF LcdInv
<1>16. CASE LastPixel /\ LastLine
  <2>1. col' = 0 /\ lin' = 0 /\ framesSent' = framesSent + 1 /\ blank' \in VerticalBlank
    BY <1>10, <1>16
  <2>2. col' \in 0 .. (LineWidth - 1) /\ lin' \in 0 .. (FrameLines - 1) /\ framesSent' \in Nat
    BY <2>1, <1>5, LcdAssumption
  <2>3. blank' >= MinVertical /\ blank' \in Nat
    BY <2>1, LcdAssumption
  <2> QED BY <2>1, <2>2, <2>3, <1>5, <1>8, <1>11, <1>12, <1>13 DEF LcdInv
<1> QED BY <1>14, <1>15, <1>16

(* The screen never loses its place in the frame (LCDScreen's              *)
(* seeSamplingEdge), whatever the sizes and the blanking.                  *)
THEOREM LcdInvariance == LcdSpec => []LcdInv
<1>1. LcdInv /\ [LcdNext]_lcdVars => LcdInv'
  <2> SUFFICES ASSUME LcdInv, UNCHANGED lcdVars PROVE LcdInv'
    BY BlankStep, PixelStep DEF LcdNext
  <2> QED BY DEF lcdVars, LcdInv, LowEdges, ColumnOf, PixelsInPlace
<1> QED BY <1>1, InitLcd, PTL DEF LcdSpec

(* Every pixel is shown where it was sent, on a screen of any size with    *)
(* frames of any size: what does not fit is cut off (seeSamplingEdge).     *)
THEOREM PixelsAreInPlace == LcdSpec => []PixelsInPlace
<1>1. LcdInv => PixelsInPlace
  BY DEF LcdInv
<1> QED BY <1>1, LcdInvariance, PTL

-----------------------------------------------------------------------------
RingSpec == RingInit /\ [][RingNext]_ringVars

(* What an index below twice the buffer size is reduced to.                *)
Wrap(a) == IF a < BufSize THEN a ELSE a - BufSize

(* The entries lie from readIdx on, wrapping, in order, and the next one   *)
(* will be written behind them.                                            *)
RingInv ==
  /\ ring \in [0 .. (BufSize - 1) -> Kinds]
  /\ readIdx \in 0 .. (BufSize - 1) /\ writeIdx \in 0 .. (BufSize - 1)
  /\ content \in Seq(Kinds) /\ Len(content) = numEntries
  /\ numEntries \in 0 .. BufSize
  /\ writeIdx = Wrap(readIdx + numEntries)
  /\ \A i \in 1 .. Len(content) : ring[Wrap(readIdx + i - 1)] = content[i]

-----------------------------------------------------------------------------
(* The indices are computed with %, which wraps them once.                 *)
LEMMA ModOnce ==
  ASSUME NEW n \in Nat \ {0}, NEW a \in 0 .. (2 * n - 1)
  PROVE  a % n = IF a < n THEN a ELSE a - n
OBVIOUS

(* The reduction of an index that ran over the end once.                   *)
LEMMA WrapLemma ==
  ASSUME NEW a \in 0 .. (2 * BufSize - 1)
  PROVE  Wrap(a) = a % BufSize /\ Wrap(a) \in 0 .. (BufSize - 1)
<1>1. BufSize \in Nat \ {0}
  BY BufSizeAssumption
<1>2. a % BufSize = IF a < BufSize THEN a ELSE a - BufSize
  BY <1>1, ModOnce, Zenon
<1> QED BY <1>1, <1>2 DEF Wrap

(* A multiple of n less one: what back() computes when writeIdx is 0.      *)
LEMMA ModBelow ==
  ASSUME NEW n \in Nat \ {0}, NEW q \in Nat \ {0}
  PROVE  (q * n - 1) % n = n - 1
<1>1. q * n - 1 = (q - 1) * n + (n - 1)
  OBVIOUS
<1>2. q - 1 \in Int /\ n - 1 \in 0 .. (n - 1)
  OBVIOUS
<1>3. \A k \in Int, r \in 0 .. (n - 1) : (k * n + r) % n = r
  OBVIOUS
<1> QED BY <1>1, <1>2, <1>3

(* A multiple of n plus a rest below n, modulo n.                          *)
LEMMA Multiple ==
  ASSUME UnsignedMod % BufSize = 0
  PROVE  \E q \in Nat \ {0} : UnsignedMod = q * BufSize
<1> DEFINE q == UnsignedMod \div BufSize
<1>1. q \in Int /\ UnsignedMod = q * BufSize
  BY BufSizeAssumption
<1> HIDE DEF q
<1>2. q > 0
  BY <1>1, BufSizeAssumption
<1> QED BY <1>1, <1>2

(* An index reduced first modulo the range of unsigned numbers.            *)
LEMMA IndexLemma ==
  ASSUME UnsignedMod % BufSize = 0
  PROVE  /\ \A a \in 0 .. (2 * BufSize - 1) : (a % UnsignedMod) % BufSize = Wrap(a)
         /\ \A a \in 0 .. (BufSize - 1) :
              ((a - 1) % UnsignedMod) % BufSize = IF a = 0 THEN BufSize - 1 ELSE a - 1
<1>1. PICK q \in Nat \ {0} : UnsignedMod = q * BufSize
  BY Multiple
<1>2. UnsignedMod >= BufSize /\ (UnsignedMod = BufSize \/ UnsignedMod >= 2 * BufSize)
  <2>1. CASE q = 1
    BY <1>1, <2>1, BufSizeAssumption
  <2>2. CASE q >= 2
    BY <1>1, <2>2, BufSizeAssumption
  <2> QED BY <2>1, <2>2
<1>3. ASSUME NEW a \in 0 .. (2 * BufSize - 1)
      PROVE  (a % UnsignedMod) % BufSize = Wrap(a)
  <2>1. CASE a < UnsignedMod
    <3>1. a % UnsignedMod = a
      BY <2>1, BufSizeAssumption
    <3> QED BY <3>1, WrapLemma
  <2>2. CASE a >= UnsignedMod
    <3>1. UnsignedMod = BufSize /\ a - BufSize \in 0 .. (BufSize - 1)
      BY <1>2, <2>2, BufSizeAssumption
    <3>2. a % UnsignedMod = a - BufSize
      BY <2>2, <3>1, WrapLemma, BufSizeAssumption DEF Wrap
    <3>3. (a - BufSize) % BufSize = a - BufSize
      BY <3>1, ModOnce, BufSizeAssumption
    <3> QED BY <2>2, <3>1, <3>2, <3>3, BufSizeAssumption DEF Wrap
  <2> QED BY <2>1, <2>2, BufSizeAssumption
<1>4. ASSUME NEW a \in 0 .. (BufSize - 1)
      PROVE  ((a - 1) % UnsignedMod) % BufSize = IF a = 0 THEN BufSize - 1 ELSE a - 1
  <2>1. CASE a = 0
    <3>1. (a - 1) % UnsignedMod = UnsignedMod - 1
      BY <2>1, BufSizeAssumption
    <3>2. (UnsignedMod - 1) % BufSize = BufSize - 1
      BY <1>1, ModBelow, BufSizeAssumption
    <3> QED BY <2>1, <3>1, <3>2
  <2>2. CASE a # 0
    <3>1. (a - 1) % UnsignedMod = a - 1
      BY <1>2, <2>2, BufSizeAssumption
    <3>2. (a - 1) % BufSize = a - 1
      BY <2>2, BufSizeAssumption
    <3> QED BY <2>2, <3>1, <3>2
  <2> QED BY <2>1, <2>2
<1> QED BY <1>3, <1>4

-----------------------------------------------------------------------------
(* The constructor's state.                                                *)
LEMMA InitRing == RingInit => RingInv
BY BufSizeAssumption DEF RingInit, RingInv, Wrap

(* push_back writes behind the last entry, where no entry is.              *)
LEMMA PushStep ==
  ASSUME RingInv, NEW t \in Kinds, push_back(t)
  PROVE  RingInv'
<1>0. /\ readIdx \in 0 .. (BufSize - 1) /\ numEntries \in 0 .. BufSize
      /\ writeIdx \in 0 .. (BufSize - 1) /\ ring \in [0 .. (BufSize - 1) -> Kinds]
      /\ Len(content) = numEntries /\ BufSize \in Nat \ {0}
  BY BufSizeAssumption DEF RingInv
<1>1. numEntries < BufSize /\ Wrap(readIdx + numEntries) = writeIdx
  BY BufSizeAssumption DEF RingInv, push_back, remaining, size
<1>2. /\ readIdx' = readIdx /\ numEntries' = numEntries + 1
      /\ writeIdx' = Wrap(writeIdx + 1)
      /\ ring' = [ring EXCEPT ![writeIdx] = t]
  BY WrapLemma, BufSizeAssumption DEF RingInv, push_back
<1>3. /\ content' \in Seq(Kinds) /\ Len(content') = Len(content) + 1
      /\ content'[Len(content) + 1] = t
      /\ \A i \in 1 .. Len(content) : content'[i] = content[i]
  BY AppendFact DEF RingInv, push_back
<1>4. /\ ring' \in [0 .. (BufSize - 1) -> Kinds] /\ writeIdx' \in 0 .. (BufSize - 1)
      /\ writeIdx' = Wrap(readIdx' + numEntries')
  BY <1>0, <1>1, <1>2 DEF Wrap
<1>5. ASSUME NEW i \in 1 .. Len(content')
      PROVE  ring'[Wrap(readIdx' + i - 1)] = content'[i]
  <2>1. CASE i = Len(content) + 1
    <3>1. readIdx' + i - 1 = readIdx + numEntries
      BY <1>0, <1>2, <2>1
    <3>2. ring'[writeIdx] = t /\ content'[i] = t
      BY <1>0, <1>2, <1>3, <2>1
    <3> QED BY <3>1, <3>2, <1>1
  <2>2. CASE i \in 1 .. Len(content)
    <3>1. Wrap(readIdx + i - 1) # writeIdx /\ Wrap(readIdx + i - 1) \in 0 .. (BufSize - 1)
      BY <1>0, <1>1, <2>2 DEF Wrap
    <3>2. ring[Wrap(readIdx + i - 1)] = content[i]
      BY <2>2 DEF RingInv
    <3>3. ring'[Wrap(readIdx + i - 1)] = ring[Wrap(readIdx + i - 1)]
      BY <1>0, <1>2, <3>1
    <3> QED BY <1>2, <1>3, <2>2, <3>2, <3>3
  <2>3. i = Len(content) + 1 \/ i \in 1 .. Len(content)
    BY <1>0, <1>3
  <2> QED BY <2>1, <2>2, <2>3
<1>6. Len(content') = numEntries' /\ numEntries' \in 0 .. BufSize /\ readIdx' \in 0 .. (BufSize - 1)
  BY <1>0, <1>1, <1>2, <1>3
<1> QED BY <1>3, <1>4, <1>5, <1>6, Zenon DEF RingInv

(* pop_front and clear are cases of pop_front(num).                        *)
LEMMA PopStep ==
  ASSUME RingInv, NEW num \in 0 .. numEntries,
         ring' = ring, writeIdx' = writeIdx, readIdx' = (readIdx + num) % BufSize,
         numEntries' = numEntries - num,
         content' = SubSeq(content, num + 1, Len(content))
  PROVE  RingInv'
<1>0. /\ readIdx \in 0 .. (BufSize - 1) /\ numEntries \in 0 .. BufSize
      /\ writeIdx \in 0 .. (BufSize - 1) /\ writeIdx = Wrap(readIdx + numEntries)
      /\ Len(content) = numEntries /\ BufSize \in Nat \ {0}
  BY BufSizeAssumption DEF RingInv
<1>1. readIdx' = Wrap(readIdx + num) /\ readIdx' \in 0 .. (BufSize - 1)
  <2>1. readIdx + num \in 0 .. (2 * BufSize - 1)
    BY <1>0
  <2> QED BY <2>1, WrapLemma
<1>2. /\ content' \in Seq(Kinds) /\ Len(content') = Len(content) - num
      /\ \A i \in 1 .. Len(content') : content'[i] = content[num + i]
  <2>1. Len(content) = numEntries /\ content \in Seq(Kinds) /\ numEntries \in Nat
    BY DEF RingInv
  <2>2. num + 1 \in 1 .. (Len(content) + 1) /\ Len(content) \in num .. Len(content)
    BY <2>1
  <2> QED BY <2>1, <2>2, SubSeqFact
<1>3. writeIdx' = Wrap(readIdx' + numEntries')
  BY <1>0, <1>1, SMTT(20) DEF Wrap
<1>4. ASSUME NEW i \in 1 .. Len(content')
      PROVE  ring'[Wrap(readIdx' + i - 1)] = content'[i]
  <2>1. num + i \in 1 .. Len(content) /\ content'[i] = content[num + i]
    BY <1>2, SMTT(20) DEF RingInv
  <2>2. Wrap(readIdx' + i - 1) = Wrap(readIdx + (num + i) - 1)
    <3>1. i \in Nat /\ num \in Nat /\ num + i <= BufSize
      BY <1>0, <2>1
    <3>2. CASE readIdx + num < BufSize
      BY <1>0, <1>1, <3>1, <3>2 DEF Wrap
    <3>3. CASE readIdx + num >= BufSize
      BY <1>0, <1>1, <3>1, <3>3, SMTT(20) DEF Wrap
    <3> QED BY <1>0, <3>2, <3>3
  <2> QED BY <2>1, <2>2, SMTT(20) DEF RingInv
<1>5. Len(content') = numEntries' /\ numEntries' \in 0 .. BufSize /\ writeIdx' \in 0 .. (BufSize - 1)
  BY <1>0, <1>2, SMTT(20)
<1>6. ring' \in [0 .. (BufSize - 1) -> Kinds]
  BY DEF RingInv
<1> QED BY <1>1, <1>2, <1>3, <1>4, <1>5, <1>6, Zenon DEF RingInv

(* Every operation keeps the entries in their places.                      *)
LEMMA NextRing == RingInv /\ [RingNext]_ringVars => RingInv'
<1> SUFFICES ASSUME RingInv, [RingNext]_ringVars PROVE RingInv'
  OBVIOUS
<1>1. ASSUME NEW t \in Kinds, push_back(t) PROVE RingInv'
  BY <1>1, PushStep
<1>2. CASE pop_front
  <2>1. 1 \in 0 .. numEntries /\ content # << >>
    BY <1>2 DEF RingInv, pop_front, empty
  <2>2. content' = SubSeq(content, 1 + 1, Len(content))
    BY <1>2 DEF pop_front, Tail
  <2> QED BY <1>2, <2>1, <2>2, PopStep DEF pop_front
<1>3. ASSUME NEW num \in 0 .. BufSize, pop_front_num(num) PROVE RingInv'
  <2>1. num \in 0 .. numEntries
    BY <1>3 DEF RingInv, pop_front_num, size
  <2> QED BY <1>3, <2>1, PopStep DEF pop_front_num
<1>4. CASE clear
  BY <1>4, BufSizeAssumption DEF RingInv, clear, Wrap
<1>5. CASE UNCHANGED ringVars
  BY <1>5 DEF RingInv, ringVars, Wrap
<1> QED BY <1>1, <1>2, <1>3, <1>4, <1>5 DEF RingNext

(* The entries are in their places in every reachable state.               *)
THEOREM RingInvariance == RingSpec => []RingInv
BY InitRing, NextRing, PTL DEF RingSpec

(* What ring_buffer.h reads with size, full, front, back and operator[] is *)
(* the queue of the tokens pushed and not yet popped.                      *)
THEOREM RingBufferIsQueue ==
  ASSUME UnsignedMod % BufSize = 0
  PROVE  RingSpec => []RingIsQueue
<1>1. ASSUME RingInv PROVE RingIsQueue
  <2>1. size = Len(content) /\ full = (Len(content) = BufSize)
    BY <1>1 DEF RingInv, size, full
  <2>2. ASSUME NEW i \in 1 .. Len(content) PROVE At(i - 1) = content[i]
    <3>1. readIdx + (i - 1) \in 0 .. (2 * BufSize - 1)
      BY <1>1, BufSizeAssumption DEF RingInv
    <3>2. ((readIdx + (i - 1)) % UnsignedMod) % BufSize = Wrap(readIdx + i - 1)
      BY <3>1, IndexLemma
    <3> QED BY <1>1, <3>2 DEF RingInv, At
  <2>3. ASSUME ~empty PROVE front = Head(content) /\ back = content[Len(content)]
    <3>1. /\ content # << >> /\ Len(content) \in Nat \ {0}
          /\ 1 \in 1 .. Len(content) /\ Len(content) \in 1 .. Len(content)
      BY <1>1, <2>3 DEF RingInv, empty
    <3>2. front = content[1]
      <4>1. Wrap(readIdx + 1 - 1) = readIdx
        BY <1>1, BufSizeAssumption DEF RingInv, Wrap
      <4> QED BY <1>1, <3>1, <4>1 DEF RingInv, front
    <3>3. back = content[Len(content)]
      <4>1. ((writeIdx - 1) % UnsignedMod) % BufSize
              = IF writeIdx = 0 THEN BufSize - 1 ELSE writeIdx - 1
        BY <1>1, IndexLemma DEF RingInv
      <4>2. Wrap(readIdx + Len(content) - 1)
              = IF writeIdx = 0 THEN BufSize - 1 ELSE writeIdx - 1
        BY <1>1, <3>1, BufSizeAssumption DEF RingInv, Wrap
      <4> QED BY <1>1, <3>1, <4>1, <4>2 DEF RingInv, back
    <3> QED BY <3>1, <3>2, <3>3 DEF Head
  <2> QED BY <2>1, <2>2, <2>3 DEF RingIsQueue
<1> QED BY <1>1, RingInvariance, PTL

-----------------------------------------------------------------------------
(* A set of numbers that is not empty has a least one (FiniteSetsExt).     *)
LEMMA LeastExists ==
  ASSUME NEW S \in SUBSET Nat, S # {}
  PROVE  Min(S) \in S /\ \A n \in S : Min(S) <= n
<1> DEFINE R == { p \in Nat \X Nat : p[1] < p[2] }
<1>1. IsWellFoundedOn(R, Nat)
  <2>1. R = OpToRel(<, Nat)
    BY DEF OpToRel
  <2> QED BY <2>1, NatLessThanWellFounded, Zenon
<1>2. PICK m \in S : \A n \in S : ~(<< n, m >> \in R)
  BY <1>1, WFMin, Zenon
<1>3. \A n \in S : n \in Nat /\ m \in Nat /\ ~(n < m)
  <2> TAKE n \in S
  <2>1. n \in Nat /\ m \in Nat /\ << n, m >>[1] = n /\ << n, m >>[2] = m /\ << n, m >> \in Nat \X Nat
    OBVIOUS
  <2> QED BY <1>2, <2>1
<1>4. \A n \in S : m <= n
  BY <1>3
<1> QED BY <1>4, Zenon DEF Min

(* The host has a free number, and gives out one that is not in use.       *)
LEMMA FreeLemma ==
  ASSUME NEW host \in SUBSET Nat, IsFiniteSet(host)
  PROVE  Free(host) \in Nat /\ Free(host) \notin host
<1> DEFINE n == Cardinality(host) + 1
           S == (0 .. n) \ host
<1>1. n \in Nat /\ Cardinality(host) < n + 1
  BY FS_CardinalityType
<1>2. IsFiniteSet(0 .. n) /\ Cardinality(0 .. n) = n + 1
  BY <1>1, FS_Interval
<1>3. S # {}
  <2> SUFFICES ASSUME S = {} PROVE FALSE
    OBVIOUS
  <2>1. (0 .. n) \in SUBSET host
    OBVIOUS
  <2> HIDE DEF n
  <2>2. Cardinality(0 .. n) <= Cardinality(host)
    BY <2>1, FS_Subset, Zenon
  <2> QED BY <2>2, <1>1, <1>2, FS_CardinalityType
<1>4. S \in SUBSET Nat
  BY <1>1
<1>5. Min(S) \in S
  BY <1>3, <1>4, LeastExists
<1> QED BY <1>4, <1>5 DEF Free

-----------------------------------------------------------------------------
FilesSpec == SyscallInit /\ [][FileCall]_fileVars

(* The table: every file of the program has a host file of its own, which  *)
(* is open and is not the host's standard input, and the only other        *)
(* numbers in use are those that stand for that.                           *)
FilesInv ==
  /\ fds \in [Fds -> Nat \cup {None}]
  /\ hostOpen \in SUBSET Nat /\ IsFiniteSet(hostOpen) /\ 0 \in hostOpen
  /\ mine \in SUBSET Fds
  /\ \A i \in mine : fds[i] \in hostOpen \ {0}
  /\ \A i, j \in mine : i # j => fds[i] # fds[j]
  /\ \A i \in 3 .. 5 : fds[i] = 0
  /\ \A i \in Fds : fds[i] # None => i \in mine \cup 3 .. 5
  /\ touched \in mine \cup {None} \cup 3 .. 5

(* The table that the SyscallHandler is made with.                         *)
LEMMA InitFiles == SyscallInit => FilesInv
<1> SUFFICES ASSUME SyscallInit PROVE FilesInv
  OBVIOUS
<1>1. MaxFds \in Nat /\ 3 .. 5 \subseteq Fds /\ {0, 1, 2} \subseteq Fds
  BY MaxFdsAssumption DEF Fds
<1>2. \A i \in Fds : fds[i] = IF i < 3 THEN i + 3 ELSE IF i \in 3 .. 5 THEN 0 ELSE None
  BY DEF SyscallInit
<1>3. fds \in [Fds -> Nat \cup {None}]
  <2>1. \A i \in Fds : fds[i] \in Nat \cup {None}
    BY <1>1, <1>2 DEF Fds
  <2>2. DOMAIN fds = Fds /\ fds = [i \in Fds |-> fds[i]]
    BY DEF SyscallInit
  <2> QED BY <2>1, <2>2
<1>4. hostOpen \in SUBSET Nat /\ IsFiniteSet(hostOpen) /\ 0 \in hostOpen
  <2>1. hostOpen = 0 .. 5
    BY DEF SyscallInit
  <2>2. IsFiniteSet(0 .. 5)
    <3>1. PICK n \in Nat : n = 5
      OBVIOUS
    <3>2. IsFiniteSet(0 .. n)
      BY FS_Interval
    <3> QED BY <3>1, <3>2
  <2>3. 0 .. 5 \in SUBSET Nat /\ 0 \in 0 .. 5
    OBVIOUS
  <2> QED BY <2>1, <2>2, <2>3
<1>5. mine = {0, 1, 2} /\ fds[0] = 3 /\ fds[1] = 4 /\ fds[2] = 5 /\ touched = None
  BY <1>1, <1>2 DEF SyscallInit
<1>6. \A i \in mine : fds[i] \in hostOpen \ {0}
  BY <1>5 DEF SyscallInit
<1>7. \A i \in 3 .. 5 : fds[i] = 0
  BY <1>1, <1>2
<1>8. \A i \in Fds : fds[i] # None => i \in mine \cup 3 .. 5
  BY <1>1, <1>2, <1>5 DEF Fds
<1> QED BY <1>1, <1>3, <1>4, <1>5, <1>6, <1>7, <1>8 DEF FilesInv

(* open gives out a number that stands for no file, and a new host file.   *)
LEMMA OpenStep ==
  ASSUME FilesInv, NEW valid, NEW fails, doOsCallOpen(valid, fails)
  PROVE  FilesInv'
<1>1. touched' = None
  BY DEF doOsCallOpen
<1>2. CASE UNCHANGED << fds, hostOpen, mine >>
  BY <1>1, <1>2 DEF FilesInv
<1>3. CASE ~UNCHANGED << fds, hostOpen, mine >>
  <2> DEFINE none == { i \in Fds : fds[i] = None }
  <2>1. /\ getNewFd # Fail
        /\ fds' = [fds EXCEPT ![getNewFd] = Free(hostOpen)]
        /\ hostOpen' = hostOpen \cup {Free(hostOpen)} /\ mine' = mine \cup {getNewFd}
    BY <1>3 DEF doOsCallOpen
  <2>2. none # {} /\ getNewFd = Min(none)
    BY <2>1 DEF getNewFd
  <2>3. none \in SUBSET Nat
    BY DEF Fds
  <2>4. Min(none) \in none
    BY <2>2, <2>3, LeastExists
  <2>5. PICK new \in Fds : new = getNewFd /\ fds[new] = None
    BY <2>2, <2>4
  <2>6. PICK host \in Nat : host = Free(hostOpen) /\ host \notin hostOpen
    BY FreeLemma DEF FilesInv
  <2>7. /\ fds' = [fds EXCEPT ![new] = host] /\ hostOpen' = hostOpen \cup {host}
        /\ mine' = mine \cup {new}
    BY <2>1, <2>5, <2>6
  <2>8. \A i \in Fds : fds'[i] = IF i = new THEN host ELSE fds[i]
    BY <2>7 DEF FilesInv
  <2>9. fds' \in [Fds -> Nat \cup {None}]
    BY <2>7 DEF FilesInv
  <2>10. IsFiniteSet(hostOpen') /\ hostOpen' \in SUBSET Nat /\ 0 \in hostOpen' /\ host # 0
    BY <2>6, <2>7, FS_AddElement, Zenon DEF FilesInv
  <2>11. new \notin mine /\ new \notin 3 .. 5
    BY <2>5 DEF FilesInv, None
  <2>12. \A i \in mine' : fds'[i] \in hostOpen' \ {0}
    BY <2>7, <2>8, <2>10, <2>11 DEF FilesInv
  <2>13. \A i, j \in mine' : i # j => fds'[i] # fds'[j]
    BY <2>6, <2>7, <2>8, <2>11 DEF FilesInv
  <2>14. \A i \in 3 .. 5 : fds'[i] = 0
    BY <2>8, <2>11, MaxFdsAssumption DEF FilesInv, Fds
  <2>15. \A i \in Fds : fds'[i] # None => i \in mine' \cup 3 .. 5
    BY <2>7, <2>8 DEF FilesInv
  <2> QED BY <1>1, <2>7, <2>9, <2>10, <2>12, <2>13, <2>14, <2>15 DEF FilesInv
<1> QED BY <1>2, <1>3

(* close frees the number and the host file of one of the program's files. *)
LEMMA CloseStep ==
  ASSUME FilesInv, NEW fd \in mine, NEW fails, doOsCallClose(fd, fails)
  PROVE  FilesInv'
<1>1. touched' = None
  BY DEF doOsCallClose
<1>2. CASE UNCHANGED << fds, hostOpen, mine >>
  BY <1>1, <1>2 DEF FilesInv
<1>3. CASE ~UNCHANGED << fds, hostOpen, mine >>
  <2>1. /\ fds' = [fds EXCEPT ![fd] = None] /\ hostOpen' = hostOpen \ {fds[fd]}
        /\ mine' = mine \ {fd}
    BY <1>3 DEF doOsCallClose
  <2>2. fd \in Fds /\ fds[fd] # 0
    BY DEF FilesInv
  <2>3. \A i \in Fds : fds'[i] = IF i = fd THEN None ELSE fds[i]
    BY <2>1 DEF FilesInv
  <2>4. fds' \in [Fds -> Nat \cup {None}]
    BY <2>1 DEF FilesInv
  <2>5. IsFiniteSet(hostOpen') /\ hostOpen' \in SUBSET Nat /\ 0 \in hostOpen'
    BY <2>1, <2>2, FS_RemoveElement, Zenon DEF FilesInv
  <2>6. \A i \in mine' : i \in mine /\ i \in Fds /\ i # fd /\ fds'[i] = fds[i]
    BY <2>1, <2>3 DEF FilesInv
  <2>7. \A i \in mine' : fds'[i] \in hostOpen' \ {0}
    BY <2>1, <2>6 DEF FilesInv
  <2>8. \A i, j \in mine' : i # j => fds'[i] # fds'[j]
    BY <2>6 DEF FilesInv
  <2>9. \A i \in 3 .. 5 : fds'[i] = 0
    <3> TAKE i \in 3 .. 5
    <3>1. i \in Fds /\ fds[i] = 0
      BY MaxFdsAssumption DEF Fds, FilesInv
    <3> QED BY <3>1, <2>2, <2>3
  <2>10. \A i \in Fds : fds'[i] # None => i \in mine' \cup 3 .. 5
    BY <2>1, <2>3 DEF FilesInv
  <2> QED BY <1>1, <2>1, <2>4, <2>5, <2>6, <2>7, <2>8, <2>9, <2>10 DEF FilesInv
<1> QED BY <1>2, <1>3

(* read, write and lseek use the host only for a number that is in use.    *)
LEMMA UseStep ==
  ASSUME FilesInv, NEW fd, NEW valid, doOsCallFile(fd, valid)
  PROVE  FilesInv'
<1>1. touched' \in mine \cup {None} \cup 3 .. 5
  BY DEF doOsCallFile, isValidFd, FilesInv
<1>2. UNCHANGED << fds, hostOpen, mine >>
  BY DEF doOsCallFile
<1> QED BY <1>1, <1>2 DEF FilesInv

(* The file table, from the SyscallHandler's constructor on and through    *)
(* every sequence of file calls (doOsCallOpen, doOsCallClose, read, write  *)
(* and lseek).                                                             *)
THEOREM FilesInvariance == FilesSpec => []FilesInv
<1>1. SyscallInit => FilesInv
  BY InitFiles
<1>2. FilesInv /\ [FileCall]_fileVars => FilesInv'
  <2> SUFFICES ASSUME FilesInv, FileCall \/ UNCHANGED fileVars PROVE FilesInv'
    OBVIOUS
  <2>1. CASE FileCall
    BY <2>1, OpenStep, CloseStep, UseStep DEF FileCall
  <2>2. CASE UNCHANGED fileVars
    BY <2>2 DEF fileVars, FilesInv
  <2> QED BY <2>1, <2>2
<1> QED BY <1>1, <1>2, PTL DEF FilesSpec

(* A program's files never share a host file and are open behind their     *)
(* numbers, and the host is used for no other (SyscallHandler::getNewFd,   *)
(* doOsCallOpen, doOsCallClose).                                           *)
THEOREM FilesAreDistinct == FilesSpec => []FilesDistinct
<1>1. FilesInv => FilesDistinct
  BY DEF FilesInv, FilesDistinct
<1> QED BY <1>1, FilesInvariance, PTL
=============================================================================
