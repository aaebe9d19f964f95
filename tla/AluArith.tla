------------------------------ MODULE AluArith ------------------------------
(***************************************************************************)
(* The arithmetic instructions (InstructionGen.cpp, BitManip.h) on words   *)
(* of Bits bits, where the code has 32.  A word is an unsigned number; a   *)
(* double word, the uint64_t of the code, has 2 * Bits bits.  The order of *)
(* the operands is the one of the instruction table, which swaps operands  *)
(* of the five register format.                                            *)
(***************************************************************************)
EXTENDS Integers

CONSTANT Bits
ASSUME BitsAssumption == Bits \in Nat /\ Bits > 1

Base == 2^Bits
AluWord == 0..(Base - 1)

uint32(x) == x % Base
uint64(x) == x % (Base * Base)
int32(x) == IF 2 * x >= Base THEN x - Base ELSE x
Bool(b) == IF b THEN 1 ELSE 0
ET_ARITHMETIC == -1              \* the instruction raises an exception

ADD(x, y) == uint32(x + y)
SUB(x, y) == uint32(x - y)
NEG(x) == uint32(-x)
NOT(x) == Base - 1 - x
EQ(x, y) == Bool(x = y)
LSS(x, y) == Bool(int32(x) < int32(y))
LSU(x, y) == Bool(x < y)
MUL(x, y) == uint32(x * y)
SHL(x, s) == IF s >= Bits THEN 0 ELSE uint32(x * 2^s)
SHR(x, s) == IF s >= Bits THEN 0 ELSE x \div 2^s
ASHR(x, s) == uint32(int32(x) \div 2^(IF s >= Bits THEN Bits - 1 ELSE s))
SEXT(x, n) == IF n = 0 \/ n > Bits - 1 THEN x
              ELSE LET low == x % 2^n IN uint32(IF 2 * low >= 2^n THEN low - 2^n ELSE low)
ZEXT(x, n) == IF n = 0 \/ n > Bits - 1 THEN x ELSE x % 2^n
MKMSK(n) == IF n > Bits - 1 THEN Base - 1 ELSE 2^n - 1

(* Division truncates towards zero, as in C.                               *)
Abs(x) == IF x < 0 THEN -x ELSE x
CDiv(x, y) == IF (x < 0) = (y < 0) THEN Abs(x) \div Abs(y) ELSE -(Abs(x) \div Abs(y))
CRem(x, y) == x - y * CDiv(x, y)
DivTraps(x, y) == y = 0 \/ (2 * x = Base /\ y = Base - 1)
DIVS(x, y) == IF DivTraps(x, y) THEN ET_ARITHMETIC ELSE uint32(CDiv(int32(x), int32(y)))
REMS(x, y) == IF DivTraps(x, y) THEN ET_ARITHMETIC ELSE uint32(CRem(int32(x), int32(y)))
DIVU(x, y) == IF y = 0 THEN ET_ARITHMETIC ELSE x \div y
REMU(x, y) == IF y = 0 THEN ET_ARITHMETIC ELSE x % y

(* The instructions with a double word result: hi is the first, lo the     *)
(* second destination; the carry is the lowest bit of its register.        *)
HiLo(r) == [hi |-> r \div Base, lo |-> r % Base]
(* Mutant of LADD: the carry in is ignored.                                *)
LADDNoCarry(x, y, c) == HiLo(uint64(x + y))
LADD(x, y, c) == HiLo(uint64(x + y + (c % 2)))

(* Mutant of LSUB: the borrow is the whole upper word.                     *)
LSUBWide(x, y, c) == HiLo(uint64(x - y - (c % 2)))
LSUB(x, y, c) == LET r == HiLo(uint64(x - y - (c % 2))) IN [r EXCEPT !.hi = @ % 2]
LMUL(x, y, a, b) == HiLo(uint64(x * y + a + b))
MACCU(hi, lo, x, y) == HiLo(uint64(hi * Base + lo + x * y))
MACCS(hi, lo, x, y) == HiLo(uint64(hi * Base + lo + int32(x) * int32(y)))

LDivTraps(hi, y) == hi >= y
LDIVU(hi, lo, y) ==
  IF LDivTraps(hi, y) THEN [q |-> ET_ARITHMETIC, r |-> ET_ARITHMETIC]
  ELSE [q |-> uint32((lo + hi * Base) \div y), r |-> uint32((lo + hi * Base) % y)]

(* LSATS: saturates the signed double word to n bits above the lower word. *)
LSATS(hi, lo, n) ==
  LET top == 2^(n - 1)
      sign_word == int32(hi) \div top
  IN  CASE n = 0 \/ n >= Bits -> [hi |-> hi, lo |-> lo]
        [] n \in 1..(Bits - 1) /\ int32(hi) < 0 /\ sign_word # -1 -> [hi |-> Base - top, lo |-> 0]
        [] n \in 1..(Bits - 1) /\ int32(hi) >= 0 /\ sign_word # 0 -> [hi |-> top - 1, lo |-> Base - 1]
        [] OTHER -> [hi |-> hi, lo |-> lo]

-----------------------------------------------------------------------------
(* The accumulator of a program that computes with numbers of two words:   *)
(* each instruction leaves a result that the next one takes up.            *)
VARIABLES acc, arg
aluVars == << acc, arg >>

AluInit == acc = [hi |-> 0, lo |-> 0] /\ arg \in AluWord

StepLADD == LET lo == LADD(acc.lo, arg, 0) IN
            acc' = [hi |-> LADD(acc.hi, 0, lo.hi).lo, lo |-> lo.lo]
StepLSUB == LET lo == LSUB(acc.lo, arg, 0) IN
            acc' = [hi |-> LSUB(acc.hi, 0, lo.hi).lo, lo |-> lo.lo]
StepLMUL == LET lo == LMUL(acc.lo, arg, 0, 0) IN
            acc' = [hi |-> LMUL(acc.hi, arg, lo.hi, 0).lo, lo |-> lo.lo]
StepMACCU == acc' = MACCU(acc.hi, acc.lo, arg, Base - 1)
StepMACCS == acc' = MACCS(acc.hi, acc.lo, arg, Base - 1)
(* The two word division: the remainder of the upper words is the upper    *)
(* word of the second dividend.                                            *)
StepLDIVU ==
  LET hi == LDIVU(0, acc.hi, arg)
      lo == LDIVU(hi.r, acc.lo, arg)
  IN  acc' = IF arg = 0 THEN acc ELSE [hi |-> hi.q, lo |-> lo.q]
StepLSATS == acc' = LSATS(acc.hi, acc.lo, arg)
AluNext ==
  /\ \/ StepLADD \/ StepLSUB \/ StepLMUL \/ StepMACCU \/ StepMACCS \/ StepLDIVU \/ StepLSATS
  /\ arg' = arg

Value(h) == h.hi * Base + h.lo
Signed(h) == int32(h.hi) * Base + h.lo
Clamp(v, low, high) == IF v < low THEN low ELSE IF v > high THEN high ELSE v
(* Chained by their carries, borrows, upper words and remainders, the long *)
(* instructions add, subtract, multiply, divide and saturate numbers of    *)
(* two words exactly (modulo their width), and none raises an exception    *)
(* except a division by zero.                                              *)
LongArithmeticExact ==
  [][/\ StepLADD => Value(acc') = uint64(Value(acc) + arg)
     /\ StepLSUB => Value(acc') = uint64(Value(acc) - arg)
     /\ StepLMUL => Value(acc') = uint64(Value(acc) * arg)
     /\ StepMACCU => Value(acc') = uint64(Value(acc) + arg * (Base - 1))
     /\ StepMACCS => Value(acc') = uint64(Value(acc) - int32(arg))
     /\ StepLDIVU /\ arg # 0 => Value(acc') = Value(acc) \div arg
     /\ StepLSATS /\ arg \in 1..(Bits - 1) =>
          LET top == 2^(arg - 1) * Base IN Signed(acc') = Clamp(Signed(acc), -top, top - 1)]_aluVars

(* The one word instructions agree with the long ones and with each other: *)
(* division and remainder recompose their dividend and trap exactly when   *)
(* the quotient has no word; shifts are products and quotients; extensions *)
(* keep the low bits.  (The upper word of acc plays no part: one value of  *)
(* it is enough.)                                                          *)
ShortArithmeticConsistent ==
  LET x == acc.lo
      y == arg
  IN  acc.hi = 1 =>
      /\ DIVU(x, y) = ET_ARITHMETIC <=> y = 0
      /\ y # 0 => ADD(MUL(DIVU(x, y), y), REMU(x, y)) = x
      /\ DIVS(x, y) = ET_ARITHMETIC <=> (y = 0 \/ CDiv(int32(x), int32(y)) \notin (-(Base \div 2))..(Base \div 2 - 1))
      /\ DIVS(x, y) # ET_ARITHMETIC => ADD(MUL(DIVS(x, y), y), REMS(x, y)) = x
      /\ SUB(x, y) = ADD(x, NEG(y)) /\ NEG(y) = ADD(NOT(y), 1)
      /\ LSUB(x, y, 0).hi = LSU(x, y) /\ LADD(x, y, 0).lo = ADD(x, y)
      /\ LSS(x, y) = LSU(ADD(x, Base \div 2), ADD(y, Base \div 2))
      /\ EQ(x, y) = 1 - Bool(SUB(x, y) # 0)
      /\ \A s \in 0..(Bits + 1) :
           /\ SHL(x, s) = MUL(x, IF s < Bits THEN 2^s ELSE 0)
           /\ ASHR(x, s) = IF int32(x) < 0 THEN NOT(SHR(NOT(x), s)) ELSE SHR(x, s)
           /\ s \in 1..(Bits - 1) =>
                /\ SEXT(x, s) = ASHR(SHL(x, Bits - s), Bits - s)
                /\ ZEXT(x, s) = SHR(SHL(x, Bits - s), Bits - s)
                /\ ZEXT(SEXT(x, s), s) = ZEXT(x, s)
           /\ MKMSK(s) = SUB(SHL(1, s), 1)
=============================================================================
