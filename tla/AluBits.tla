------------------------------ MODULE AluBits -------------------------------
(***************************************************************************)
(* The instructions that move or combine single bits (InstructionGen.cpp,  *)
(* BitManip.h, CRC.h).  A word is the set of the positions of its ones;    *)
(* it has four bytes of ByteBits bits, where the code has four of eight.   *)
(***************************************************************************)
EXTENDS Integers, FiniteSets, FiniteSetsExt

CONSTANT ByteBits
WordBits == 4 * ByteBits
LogBits == CHOOSE k \in 0..WordBits : 2^k = WordBits
BitWord == SUBSET (0..(WordBits - 1))

And(x, y) == x \cap y
Or(x, y) == x \cup y
Xor(x, y) == (x \ y) \cup (y \ x)
AndNot(x, y) == x \ y
Xor4(x, y, z, w) == Xor(Xor(x, y), Xor(z, w))
Shr(x, k) == { i - k : i \in { j \in x : j >= k } }
Shl(x, k) == { i + k : i \in { j \in x : j + k < WordBits } }

bitReverse(x) == { WordBits - 1 - i : i \in x }
bswap32(x) == { ByteBits * (3 - i \div ByteBits) + (i % ByteBits) : i \in x }
countLeadingZeros(x) == IF x = {} THEN WordBits ELSE WordBits - 1 - Max(x)

(* LEXTRACT: bitp bits of the double word (hi, lo) from position s.        *)
LEXTRACT(hi, lo, s, bitp) ==
  LET shifted == CASE s >= WordBits -> hi
                   [] s = 0 -> lo
                   [] OTHER -> Shr(lo, s) \cup Shl(hi, WordBits - s)
  IN  IF bitp < WordBits THEN shifted \cap 0..(bitp - 1) ELSE shifted

(* Chunk k of x: spacing bits from position spacing * k.                   *)
Chunk(x, spacing, k) == { i \in 0..(spacing - 1) : spacing * k + i \in x }
Place(chunk, i) == { i + j : j \in chunk }
(* ZIP interleaves chunks of 2^op2 bits of the two words, UNZIP separates  *)
(* them; op0 is the upper word.  With an op2 that is too large ZIP changes *)
(* nothing and UNZIP clears both words.                                    *)
ZIP(op0, op1, op2) ==
  LET sp == 2^op2
      pairs == WordBits \div sp
      zipped(k) == Place(Chunk(op0, sp, k), sp) \cup Chunk(op1, sp, k)
      at_(k) == 2 * sp * k
  IN  IF op2 >= LogBits THEN << op0, op1 >>
      ELSE << UNION { Place(zipped(k), at_(k) - WordBits) : k \in { j \in 0..(pairs - 1) : at_(j) >= WordBits } },
              UNION { Place(zipped(k), at_(k)) : k \in { j \in 0..(pairs - 1) : at_(j) < WordBits } } >>
UNZIP(op0, op1, op2) ==
  LET sp == 2^op2
      half == WordBits \div (2 * sp)
      pair(k) == IF k < half THEN Chunk(op1, 2 * sp, k) ELSE Chunk(op0, 2 * sp, k - half)
  IN  IF op2 >= LogBits THEN << {}, {} >>
      ELSE << UNION { Place(Chunk(pair(k), sp, 1), sp * k) : k \in 0..(2 * half - 1) },
              UNION { Place(Chunk(pair(k), sp, 0), sp * k) : k \in 0..(2 * half - 1) } >>

(* Mutant of CrcStep: the bit that is shifted out is tested after the      *)
(* shift.                                                                  *)
CrcStepLate(checksum, bit, poly) ==
  LET shifted == Shr(checksum, 1) \cup (IF bit THEN {WordBits - 1} ELSE {})
  IN  IF 0 \in shifted THEN Xor(shifted, poly) ELSE shifted
(* One bit of a checksum, and the checksum over the first n bits of data.  *)
CrcStep(checksum, bit, poly) ==
  LET shifted == Shr(checksum, 1) \cup (IF bit THEN {WordBits - 1} ELSE {})
  IN  IF 0 \in checksum THEN Xor(shifted, poly) ELSE shifted
Crc(checksum, data, n, poly) ==
  LET after[i \in 0..n] == IF i = 0 THEN checksum ELSE CrcStep(after[i - 1], (i - 1) \in data, poly)
  IN  after[n]
crc32(checksum, data, poly) == Crc(checksum, data, WordBits, poly)
CRC8(checksum, data, poly) == [crc |-> Crc(checksum, data, ByteBits, poly), data |-> Shr(data, ByteBits)]

-----------------------------------------------------------------------------
(* A checksum that a program computes byte by byte, beside the one that    *)
(* was computed over the whole word at once.                               *)
VARIABLES sum, rest, poly, whole, bytes
bitVars == << sum, rest, poly, whole, bytes >>

BitsInit ==
  /\ sum \in BitWord /\ rest \in BitWord /\ poly \in BitWord
  /\ whole = crc32(sum, rest, poly)
  /\ bytes = 0
NextByte ==
  /\ bytes < 4
  /\ LET r == CRC8(sum, rest, poly) IN sum' = r.crc /\ rest' = r.data
  /\ bytes' = bytes + 1
  /\ UNCHANGED << poly, whole >>
BitsDone == bytes = 4 /\ UNCHANGED bitVars
BitsNext == NextByte \/ BitsDone

BitMovesUndone ==
  LET x == sum
      y == rest
      double == y \cup { i + WordBits : i \in x }
  IN  /\ \A op2 \in 0..(LogBits - 1) :
           LET z == ZIP(x, y, op2)
               u == UNZIP(x, y, op2)
           IN  UNZIP(z[1], z[2], op2) = << x, y >> /\ ZIP(u[1], u[2], op2) = << x, y >>
      /\ bitReverse(bitReverse(x)) = x /\ bswap32(bswap32(x)) = x
      /\ x # {} => countLeadingZeros(bitReverse(x)) = Min(x)
      /\ \A s \in 0..WordBits, bitp \in 1..WordBits :
           LEXTRACT(x, y, s, bitp) = { i \in 0..(bitp - 1) : i + s \in double }
      /\ Xor4(x, y, x, y) = {} /\ AndNot(x, y) = Xor(x, And(x, y)) /\ Or(x, y) = Xor(Xor(x, y), And(x, y))

(* The reference for crc32: the remainder of a division of polynomials,    *)
(* where position 0 of the checksum is the highest power.                  *)
Remainder(checksum, data, divisor) ==
  LET rem[i \in 0..WordBits] ==
        IF i = 0 THEN checksum \cup Place(data, WordBits)
        ELSE IF (i - 1) \in rem[i - 1] THEN Xor(rem[i - 1], Place(divisor, i)) ELSE rem[i - 1]
  IN  { j - WordBits : j \in { k \in rem[WordBits] : k >= WordBits } }

(* crc32 is the remainder of a polynomial division, and four crc8, each    *)
(* taking the data the one before left, give the same (CRC.h); ZIP and     *)
(* UNZIP undo each other for every spacing, so do the reversals; and       *)
(* LEXTRACT reads a double word at every position.                         *)
BitOperationsExact ==
  /\ bytes = 0 => whole = Remainder(sum, rest, poly)
  /\ bytes = 4 => sum = whole /\ rest = {}
  /\ bytes = 0 /\ poly = {} => BitMovesUndone
=============================================================================
