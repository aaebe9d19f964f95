------------------------------- MODULE Decode -------------------------------
(***************************************************************************)
(* Instruction decoding (Instruction.cpp).                                 *)
(*                                                                         *)
(* A halfword is the record of the bit fields the decoder looks at:        *)
(*   opc = bits 15:11, c = bits 10:6, b5 = bit 5, b4 = bit 4, n = bits 3:0 *)
(* A decoded instruction is its name, its format and its operands.  An     *)
(* encoding no case of the decoder matches leaves the caller's             *)
(* uninitialised opcode as it is: Unset.                                   *)
(***************************************************************************)
EXTENDS Integers, Sequences, FiniteSets

Node_Type == {"XS1_L", "XS2_A"}

Word == [opc : 0..31, c : 0..31, b5 : 0..1, b4 : 0..1, n : 0..15]

Inst(op, f, ops) == [op |-> op, f |-> f, ops |-> ops]
Unset == Inst("", "", <<>>)
ILLEGAL_PC == Inst("ILLEGAL_PC", "", <<>>)

On(t, type, i) == IF t = type THEN i ELSE Unset
NotOn(t, type, i) == IF t = type THEN Unset ELSE i

-----------------------------------------------------------------------------
(* The tests for a format.  The subtraction is unsigned: with bit 5 set    *)
(* the values 22..26 of bits 10:6 pass for 0..4.                           *)
Test3R(w) == w.c < 27
Combined(w) == w.c - 27 + w.b5 * 5

(* Mutant of Test2R: the bound of the combined field is one too large.     *)
Test2RWide(w) == Combined(w) \in 0..9
Test2R(w) == Combined(w) \in 0..8
Test1R(w) == w.c = 31 /\ w.b5 = 1 /\ w.n < 12
TestRU6(w) == w.c % 16 < 12
Bit10(w) == w.c \div 16
Long(h) == h.c = 31 /\ h.b5 = 1 /\ h.b4 = 0          \* bits 10:4 are 0x7e
TestL2R(h, w) == Test2R(w) /\ Long(h)
TestL3R(h, w) == Test3R(w) /\ Long(h)
TestL4R(h, w) == Test3R(w) /\ h.n < 12 /\ h.c = 31 /\ h.b5 = 1
TestL5R(h, w) == w.c =< 26 /\ Test2R(h)
TestL6R(h, w) == Test3R(w) /\ Test3R(h)

-----------------------------------------------------------------------------
(* The operands of a format.                                               *)
decode3ROperands(w) ==
  << 2 * w.b5 + w.b4 + 4 * (w.c % 3),
     (w.n \div 4) + 4 * ((w.c \div 3) % 3),
     (w.n % 4) + 4 * (w.c \div 9) >>
decode2ROperands(w) ==
  << (w.n \div 4) + 4 * (Combined(w) % 3), (w.n % 4) + 4 * (Combined(w) \div 3) >>
decodeRUSOperands(w) == decode2ROperands(w)
(* Mutant of Low6: the top bit of the immediate is lost.                   *)
Low6Short(w) == 16 * w.b4 + w.n
Low6(w) == 32 * w.b5 + 16 * w.b4 + w.n
Low10(w) == 64 * (w.c % 16) + Low6(w)
decodeRU6Operands(w) == << w.c % 16, Low6(w) >>
decodeLRU6Operands(h, w) == << h.c % 16, Low6(h) + 64 * Low10(w) >>
decodeU6Operands(w) == << Low6(w) >>
decodeLU6Operands(h, w) == << Low6(h) + 64 * Low10(w) >>
decodeU10Operands(w) == << Low10(w) >>
decodeLU10Operands(h, w) == << Low10(h) + 1024 * Low10(w) >>
decode1ROperands(w) == << w.n >>
decodeL4ROperands(h, w) == decode3ROperands(w) \o << h.n >>
decodeL5ROperands(h, w) == decode3ROperands(w) \o decode2ROperands(h)
decodeL6ROperands(h, w) == decode3ROperands(w) \o decode3ROperands(h)

(* What the DECODE_ macros assign.                                         *)
D3R(op, w) == Inst(op, "3r", decode3ROperands(w))
D2RUS(op, w) == Inst(op, "2rus", decode3ROperands(w))
D2R(op, w) == Inst(op, "2r", decode2ROperands(w))
DRUS(op, w) == Inst(op, "rus", decodeRUSOperands(w))
D1R(op, w) == Inst(op, "1r", decode1ROperands(w))
D0R(op) == Inst(op, "0r", <<>>)
DRU6(op, w) == Inst(op, "ru6", decodeRU6Operands(w))
DU6(op, w) == Inst(op, "u6", decodeU6Operands(w))
DU10(op, w) == Inst(op, "u10", decodeU10Operands(w))
DLRU6(op, h, w) == Inst(op, "lru6", decodeLRU6Operands(h, w))
DLU6(op, h, w) == Inst(op, "lu6", decodeLU6Operands(h, w))
DLU10(op, h, w) == Inst(op, "lu10", decodeLU10Operands(h, w))
DL2R(op, w) == Inst(op, "l2r", decode2ROperands(w))
DL3R(op, w) == Inst(op, "l3r", decode3ROperands(w))
DL2RUS(op, w) == Inst(op, "l2rus", decode3ROperands(w))
DL3RUS(op, h, w) == Inst(op, "l3rus", decodeL4ROperands(h, w))
DL4R(op, h, w) == Inst(op, "l4r", decodeL4ROperands(h, w))
DL5R(op, h, w) == Inst(op, "l5r", decodeL5ROperands(h, w))
DL4RUS(op, h, w) == Inst(op, "l4rus", decodeL5ROperands(h, w))
DL6R(op, h, w) == Inst(op, "l6r", decodeL6ROperands(h, w))

(* The bit position an index of a short immediate stands for; the function *)
(* asserts that the index is below 12.                                     *)
bitpValue == [i \in 0..11 |-> <<32, 1, 2, 3, 4, 5, 6, 7, 8, 16, 24, 32>>[i + 1]]
BitP(i) == [i EXCEPT !.ops[Len(i.ops)] = bitpValue[@]]

-----------------------------------------------------------------------------
(* The shape most cases share: a three operand instruction, else one of    *)
(* two by bit 4 with two operands, else one of two with one operand, else, *)
(* in three of the cases, one of eight without operands.                   *)
Neither == <<Unset, Unset>>
By4(w, pair) == pair[w.b4 + 1]
By10(w, pair) == pair[Bit10(w) + 1]
ByRegisters(w, three, two, one) ==
  CASE Test3R(w) -> three
    [] ~Test3R(w) /\ Test2R(w) -> By4(w, two)
    [] ~Test3R(w) /\ ~Test2R(w) /\ Test1R(w) -> By4(w, one)
    [] OTHER -> Unset
ZeroR(w) == ~Test3R(w) /\ w.c = 31 /\ w.b5 = 1 /\ w.n >= 12
Eight(w, zero) == zero[4 * w.b4 + w.n - 11]

Case00(w, t) ==
  IF ZeroR(w)
  THEN Eight(w, << D0R("WAITEU"), D0R("CLRE"), D0R("SSYNC"), D0R("FREET"), D0R("DCALL"),
                   NotOn(t, "XS2_A", D0R("KRET")), NotOn(t, "XS2_A", D0R("DRET")), D0R("SETKEP") >>)
  ELSE ByRegisters(w, D2RUS("STW", w),
             << D2R(IF t = "XS2_A" THEN "BYTEREV" ELSE "TINITPC", w), D2R("GETST", w) >>,
             << D1R("EDU", w), D1R("EEU", w) >>)
Case01(w, t) ==
  IF ZeroR(w)
  THEN Eight(w, << D0R("LDSPC"), D0R("STSPC"), D0R("LDSSR"), D0R("STSSR"),
                   D0R("STSED"), D0R("STET"), D0R("GETED"), D0R("GETET") >>)
  ELSE ByRegisters(w, D2RUS("LDW", w),
             << D2R(IF t = "XS2_A" THEN "CLZ" ELSE "TINITDP", w), D2R("OUTT", w) >>,
             << D1R("WAITET", w), D1R("WAITEF", w) >>)
Case02(w, t) ==
  IF ZeroR(w)
  THEN Eight(w, << NotOn(t, "XS2_A", D0R("DENTSP")), NotOn(t, "XS2_A", D0R("DRESTSP")),
                   D0R("GETID"), D0R("GETKEP"), D0R("GETKSP"), D0R("LDSED"), D0R("LDET"),
                   On(t, "XS2_A", D0R("NOP")) >>)
  ELSE ByRegisters(w, D3R("ADD", w),
             << D2R(IF t = "XS2_A" THEN "BITREV" ELSE "TINITSP", w), D2R("SETD", w) >>,
             << D1R("FREER", w), D1R("MJOIN", w) >>)
Case03(w, t) ==
  ByRegisters(w, D3R("SUB", w), << NotOn(t, "XS2_A", D2R("TINITCP", w)), NotOn(t, "XS2_A", D2R("TSETMR", w)) >>,
        << D1R("TSTART", w), D1R("MSYNC", w) >>)
Case04(w) == ByRegisters(w, D3R("SHL", w), << Unset, D2R("EET", w) >>, << D1R("BLA", w), D1R("BAU", w) >>)
Case05(w) == ByRegisters(w, D3R("SHR", w), << D2R("ANDNOT", w), D2R("EEF", w) >>, << D1R("BRU", w), D1R("SETSP", w) >>)
Case06(w) == ByRegisters(w, D3R("EQ", w), << D2R("SEXT", w), BitP(DRUS("SEXT", w)) >>, << D1R("SETDP", w), D1R("SETCP", w) >>)
Case07(w) == ByRegisters(w, D3R("AND", w), << D2R("GETTS", w), D2R("SETPT", w) >>, << D1R("DGETREG", w), D1R("SETEV", w) >>)
Case08(w) == ByRegisters(w, D3R("OR", w), << D2R("ZEXT", w), BitP(DRUS("ZEXT", w)) >>, << D1R("KCALL", w), D1R("SETV", w) >>)
Case09(w) == ByRegisters(w, D3R("LDW", w), << D2R("OUTCT", w), DRUS("OUTCT", w) >>, << D1R("ECALLF", w), D1R("ECALLT", w) >>)
Case10(w) == ByRegisters(w, D3R("LD16S", w), << DRUS("GETR", w), D2R("INCT", w) >>, << D1R("CLRPT", w), D1R("SYNCR", w) >>)
Case11(w, t) == ByRegisters(w, D3R("LD8U", w), << D2R("NOT", w), D2R("INT", w) >>,
                      << On(t, "XS2_A", D1R("GETTIME", w)), On(t, "XS2_A", D1R("ELATE", w)) >>)
Case12(w) == ByRegisters(w, D2RUS("ADD", w), << D2R("NEG", w), D2R("ENDIN", w) >>, Neither)
Case13(w) == ByRegisters(w, D2RUS("SUB", w), Neither, Neither)
Case14(w) == ByRegisters(w, BitP(D2RUS("SHL", w)), << D2R("MKMSK", w), BitP(DRUS("MKMSK", w)) >>, Neither)
Case15(w) == ByRegisters(w, BitP(D2RUS("SHR", w)), << D2R("OUT", w), D2R("OUTSHR", w) >>, Neither)
Case16(w) == ByRegisters(w, D2RUS("EQ", w), << D2R("IN", w), D2R("INSHR", w) >>, Neither)
Case17(w, t) ==
  CASE Test3R(w) /\ t # "XS2_A" -> D3R("TSETR", w)
    [] ~(Test3R(w) /\ t # "XS2_A") /\ Test2R(w) -> By4(w, << D2R("PEEK", w), D2R("TESTCT", w) >>)
    [] OTHER -> Unset
Case18(w) == ByRegisters(w, D3R("LSS", w), << D2R("SETPSC", w), D2R("TESTWCT", w) >>, Neither)
Case19(w) == ByRegisters(w, D3R("LSU", w), << D2R("CHKCT", w), DRUS("CHKCT", w) >>, Neither)

(* Six bit immediates.  The first four have no test of the register: these *)
(* reach cp, dp, sp and lr.                                                *)
Case0a(w) == By10(w, << DRU6("STWDP", w), DRU6("STWSP", w) >>)
Case0b(w) == By10(w, << DRU6("LDWDP", w), DRU6("LDWSP", w) >>)
Case0c(w) == By10(w, << DRU6("LDAWDP", w), DRU6("LDAWSP", w) >>)
Case0d(w) == By10(w, << DRU6("LDC", w), DRU6("LDWCP", w) >>)
U6Index(w) == 4 * Bit10(w) + (w.c % 4) + 1
Case0e(w, t) ==
  IF TestRU6(w) THEN By10(w, << DRU6("BRFT", w), DRU6("BRBT", w) >>)
  ELSE DU6(<<"BRFU", "BLAT", "EXTDP", "KCALL", "BRBU", "ENTSP", "EXTSP",
             IF t = "XS2_A" THEN "RETSP_xs2a" ELSE "RETSP">>[U6Index(w)], w)
Case0f(w, t) ==
  IF TestRU6(w) THEN By10(w, << DRU6("BRFF", w), DRU6("BRBF", w) >>)
  ELSE << DU6("CLRSR", w), DU6("SETSR", w), DU6("KENTSP", w), NotOn(t, "XS2_A", DU6("KRESTSP", w)),
          DU6("GETSR", w), DU6("LDAWCP", w), On(t, "XS2_A", DU6("DUALENTSP", w)), Unset >>[U6Index(w)]
Case1a(w) == By10(w, << DU10("BLRF", w), DU10("BLRB", w) >>)
Case1b(w) == By10(w, << DU10("LDAPF", w), DU10("LDAPB", w) >>)
Case1c(w) == By10(w, << DU10("BLACP", w), DU10("LDWCPL", w) >>)
Case1d(w) == IF TestRU6(w) /\ Bit10(w) = 0 THEN DRU6("SETC", w) ELSE Unset

-----------------------------------------------------------------------------
(* A prefix word extends the immediate of the word that follows it.        *)
PfixRU6(h, w) ==
  LET pair == CASE h.opc = 10 -> <<"STWDP", "STWSP">>  [] h.opc = 11 -> <<"LDWDP", "LDWSP">>
                [] h.opc = 12 -> <<"LDAWDP", "LDAWSP">> [] h.opc = 13 -> <<"LDC", "LDWCP">>
  IN  DLRU6(By10(h, pair), h, w)
PfixBranch(h, w, t) ==
  IF TestRU6(h) THEN DLRU6(By10(h, <<"BRFT", "BRBT">>), h, w)
  ELSE DLU6(<<"BRFU", "BLAT", "EXTDP", "KCALL", "BRBU", "ENTSP", "EXTSP",
              IF t = "XS2_A" THEN "RETSP_xs2a" ELSE "RETSP">>[U6Index(h)], h, w)
PfixStatus(h, w, t) ==
  IF TestRU6(h) THEN DLRU6(By10(h, <<"BRFF", "BRBF">>), h, w)
  ELSE << DLU6("CLRSR", h, w), DLU6("SETSR", h, w), DLU6("KENTSP", h, w), DLU6("KRESTSP", h, w),
          DLU6("GETSR", h, w), DLU6("LDAWCP", h, w), On(t, "XS2_A", DLU6("DUALENTSP", h, w)), Unset >>[U6Index(h)]
PfixU10(h, w) ==
  LET pair == CASE h.opc = 26 -> <<"BLRF", "BLRB">> [] h.opc = 27 -> <<"LDAPF", "LDAPB">>
                [] h.opc = 28 -> <<"BLACP", "LDWCPL">>
  IN  DLU10(By10(h, pair), h, w)
PfixSetC(h, w) == IF TestRU6(h) /\ Bit10(h) = 0 THEN DLRU6("SETC", h, w) ELSE Unset
CasePFIX(w, h, highValid, t) ==
  CASE ~highValid -> ILLEGAL_PC
    [] highValid /\ h.opc \in 10..13 -> PfixRU6(h, w)
    [] highValid /\ h.opc = 14 -> PfixBranch(h, w, t)
    [] highValid /\ h.opc = 15 -> PfixStatus(h, w, t)
    [] highValid /\ h.opc \in 26..28 -> PfixU10(h, w)
    [] highValid /\ h.opc = 29 -> PfixSetC(h, w)
    [] OTHER -> Unset

(* The long formats: by the upper word's opcode and its last four bits.    *)
L3(h, w, i) == IF TestL3R(h, w) /\ h.n = 12 THEN i ELSE Unset
L2(h, w, pair) == IF TestL2R(h, w) /\ h.n = 12 THEN By4(w, pair) ELSE Unset
L32(h, w, i, pair) == IF TestL3R(h, w) THEN L3(h, w, i) ELSE L2(h, w, pair)
Eopr00(h, w, t) ==
  CASE TestL6R(h, w) -> DL6R("LMUL", h, w)
    [] ~TestL6R(h, w) /\ TestL5R(h, w) -> By4(h, << DL5R("LDIVU", h, w), DL5R("LADD", h, w) >>)
    [] ~TestL5R(h, w) /\ TestL4R(h, w) -> By4(h, << DL4R("CRC8", h, w), DL4R("MACCU", h, w) >>)
    [] ~TestL4R(h, w) /\ (TestL3R(h, w) \/ TestL2R(h, w)) ->
         L32(h, w, DL3R("STW", w),
             IF t = "XS2_A" THEN << DL2R("TINITSP", w), DL2R("TINITPC", w) >>
             ELSE << DL2R("BITREV", w), DL2R("BYTEREV", w) >>)
    [] OTHER -> Inst("KRET", "l0r", <<>>)
(* The five and the four register formats of this row are not alternatives *)
(* in the code (an else is missing), but no word passes both tests.        *)
Eopr01(h, w, t) ==
  CASE TestL4R(h, w) -> By4(h, << DL4R("MACCS", h, w), On(t, "XS2_A", DL4R("CRCN", h, w)) >>)
    [] TestL5R(h, w) -> By4(h, << DL5R("LSUB", h, w), On(t, "XS2_A", DL5R("XOR4", h, w)) >>)
    [] OTHER -> L32(h, w, DL3R("XOR", w), << NotOn(t, "XS2_A", DL2R("CLZ", w)), DL2R("SETCLK", w) >>)
Eopr02(h, w, t) ==
  IF TestL4R(h, w) THEN On(t, "XS2_A", By4(h, << DL4R("STD", h, w), DL3RUS("STD", h, w) >>))
  ELSE L32(h, w, DL3R("ASHR", w), << DL2R("TINITLR", w), DL2R("GETPS", w) >>)
Eopr03(h, w, t) ==
  IF TestL5R(h, w) /\ t = "XS2_A" THEN By4(h, << DL4RUS("LEXTRACT", h, w), Unset >>)
  ELSE L32(h, w, DL3R("LDAWF", w), << DL2R("SETPS", w), DL2R("GETD", w) >>)
Eopr04(h, w, t) ==
  IF TestL4R(h, w) /\ t = "XS2_A" THEN By4(h, << DL4R("LDD", h, w), DL3RUS("LDD", h, w) >>)
  ELSE L32(h, w, DL3R("LDAWB", w), << DL2R("TESTLCL", w), DL2R("SETTW", w) >>)
Eopr05(h, w) == L32(h, w, DL3R("LDA16F", w), << DL2R("SETRDY", w), DL2R("SETC", w) >>)
Eopr06(h, w) == L32(h, w, DL3R("LDA16B", w), << DL2R("SETN", w), DL2R("GETN", w) >>)
Eopr12(h, w) ==
  IF TestL3R(h, w) /\ h.n \in 12..14
  THEN BitP(DL2RUS(<<"ASHR", "OUTPW", "INPW">>[h.n - 11], w)) ELSE Unset
Eopr13(h, w, t) ==
  IF TestL3R(h, w) /\ h.n \in 12..14
  THEN << DL2RUS("LDAWF", w), On(t, "XS2_A", DL2RUS("UNZIP", w)), On(t, "XS2_A", DL2RUS("ZIP", w)) >>[h.n - 11]
  ELSE Unset
Eopr16(w, t) == On(t, "XS2_A", DL3R("TSETR", w))
EoprArith(h, w) ==
  CASE h.opc = 7 -> L3(h, w, DL3R("MUL", w))   [] h.opc = 8 -> L3(h, w, DL3R("DIVS", w))
    [] h.opc = 9 -> L3(h, w, DL3R("DIVU", w))  [] h.opc = 16 -> L3(h, w, DL3R("ST16", w))
    [] h.opc = 17 -> L3(h, w, DL3R("ST8", w))  [] h.opc = 20 -> L3(h, w, DL2RUS("LDAWB", w))
    [] h.opc = 21 -> L3(h, w, DL3R("CRC", w))  [] h.opc = 24 -> L3(h, w, DL3R("REMS", w))
    [] h.opc = 25 -> L3(h, w, DL3R("REMU", w))
EoprStack(h, w) ==
  IF TestL3R(h, w) THEN << DL3R("LSATS", w), DL2RUS("LDDSP", w), DL2RUS("STDSP", w) >>[h.opc - 27] ELSE Unset
CaseEOPR(w, h, highValid, t) ==
  CASE ~highValid -> ILLEGAL_PC
    [] highValid /\ h.opc = 0 -> Eopr00(h, w, t)    [] highValid /\ h.opc = 1 -> Eopr01(h, w, t)
    [] highValid /\ h.opc = 2 -> Eopr02(h, w, t)    [] highValid /\ h.opc = 3 -> Eopr03(h, w, t)
    [] highValid /\ h.opc = 4 -> Eopr04(h, w, t)    [] highValid /\ h.opc = 5 -> Eopr05(h, w)
    [] highValid /\ h.opc = 6 -> Eopr06(h, w)       [] highValid /\ h.opc = 18 -> Eopr12(h, w)
    [] highValid /\ h.opc = 19 -> Eopr13(h, w, t)   [] highValid /\ h.opc = 22 -> Eopr16(w, t)
    [] highValid /\ h.opc \in {7, 8, 9, 16, 17, 20, 21, 24, 25} -> EoprArith(h, w)
    [] highValid /\ h.opc \in 28..30 -> EoprStack(h, w)
    [] OTHER -> Unset

(* A prefix with bit 10 set falls through to the long formats.             *)
instructionDecode(w, h, highValid, t) ==
  CASE w.opc = 0 -> Case00(w, t)  [] w.opc = 1 -> Case01(w, t)   [] w.opc = 2 -> Case02(w, t)
    [] w.opc = 3 -> Case03(w, t)  [] w.opc = 4 -> Case04(w)      [] w.opc = 5 -> Case05(w)
    [] w.opc = 6 -> Case06(w)     [] w.opc = 7 -> Case07(w)      [] w.opc = 8 -> Case08(w)
    [] w.opc = 9 -> Case09(w)     [] w.opc = 10 -> Case0a(w)     [] w.opc = 11 -> Case0b(w)
    [] w.opc = 12 -> Case0c(w)    [] w.opc = 13 -> Case0d(w)     [] w.opc = 14 -> Case0e(w, t)
    [] w.opc = 15 -> Case0f(w, t) [] w.opc = 16 -> Case10(w)     [] w.opc = 17 -> Case11(w, t)
    [] w.opc = 18 -> Case12(w)    [] w.opc = 19 -> Case13(w)     [] w.opc = 20 -> Case14(w)
    [] w.opc = 21 -> Case15(w)    [] w.opc = 22 -> Case16(w)     [] w.opc = 23 -> Case17(w, t)
    [] w.opc = 24 -> Case18(w)    [] w.opc = 25 -> Case19(w)     [] w.opc = 26 -> Case1a(w)
    [] w.opc = 27 -> Case1b(w)    [] w.opc = 28 -> Case1c(w)     [] w.opc = 29 -> Case1d(w)
    [] w.opc = 30 /\ Bit10(w) = 0 -> CasePFIX(w, h, highValid, t)
    [] OTHER -> CaseEOPR(w, h, highValid, t)

-----------------------------------------------------------------------------
(* What the instruction table says of a format: the size in bytes and the  *)
(* operands, "r" for a register and "i" for an immediate.                  *)
ShortFormats == [f \in {"3r", "2rus", "2r", "rus", "1r", "0r", "ru6", "u6", "u10"} |->
  CASE f = "3r" -> <<"r", "r", "r">> [] f = "2rus" -> <<"r", "r", "i">> [] f = "2r" -> <<"r", "r">>
    [] f = "rus" -> <<"r", "i">>     [] f = "1r" -> <<"r">>             [] f = "0r" -> <<>>
    [] f = "ru6" -> <<"r", "i">>     [] f \in {"u6", "u10"} -> <<"i">>]
LongFormats == [f \in {"l3r", "l2rus", "l3rus", "l4rus", "l4r", "l5r", "l6r", "l2r", "l0r", "lru6", "lu6", "lu10"} |->
  CASE f = "l3r" -> <<"r", "r", "r">>            [] f = "l2rus" -> <<"r", "r", "i">>
    [] f = "l3rus" -> <<"r", "r", "i", "r">>     [] f = "l4rus" -> <<"r", "r", "r", "r", "i">>
    [] f = "l4r" -> <<"r", "r", "r", "r">>       [] f = "l5r" -> <<"r", "r", "r", "r", "r">>
    [] f = "l6r" -> <<"r", "r", "r", "r", "r", "r">> [] f = "l2r" -> <<"r", "r">>
    [] f = "l0r" -> <<>>  [] f = "lru6" -> <<"r", "i">>  [] f \in {"lu6", "lu10"} -> <<"i">>]
InstSize(i) == IF i.f \in DOMAIN LongFormats THEN 4 ELSE 2
Operands(i) == IF InstSize(i) = 4 THEN LongFormats[i.f] ELSE ShortFormats[i.f]

-----------------------------------------------------------------------------
(* instructionTransform: operands are scaled, a zero or 32 immediate gets  *)
(* an opcode of its own, and a relative branch gets the index of its       *)
(* target in the decode cache.  A target outside the cache (pcs entries,   *)
(* unsigned) turns the instruction into its _illegal form.                 *)
ByWords2 == {<<"STW", "2rus">>, <<"LDW", "2rus">>, <<"LDAWF", "l2rus">>, <<"LDAWB", "l2rus">>}
ByWords1 == {"STWDP", "STWSP", "LDWDP", "LDWSP", "LDAWDP", "LDAWSP", "LDWCP"} \X {"ru6", "lru6"}
ByWords0 == ({"EXTDP", "ENTSP", "DUALENTSP", "EXTSP", "RETSP", "RETSP_xs2a", "KENTSP", "KRESTSP", "LDAWCP"}
               \X {"u6", "lu6"}) \cup ({"LDWCPL"} \X {"u10", "lu10"})
ByIssue0 == {"LDAPB", "LDAPF"} \X {"u10", "lu10"}
Split32 == {<<"SHL", "2rus">>, <<"SHR", "2rus">>, <<"ASHR", "l2rus">>}
Forward == ({"BRFT", "BRFF"} \X {"ru6", "lru6"}) \cup ({"BRFU"} \X {"u6", "lu6"}) \cup ({"BLRF"} \X {"u10", "lu10"})
Backward == ({"BRBT", "BRBF"} \X {"ru6", "lru6"}) \cup ({"BRBU"} \X {"u6", "lu6"}) \cup ({"BLRB"} \X {"u10", "lu10"})
BranchInsts == Forward \cup Backward

isValidPc(pc, pcs) == pc \in 0..(pcs - 1)

makeMask(w) == IF w > 31 THEN -1 ELSE 2^w - 1             \* -1 is the word of 32 ones

BranchTransform(i, k, target, pcs) ==
  [i EXCEPT !.ops[k] = target, !.op = IF isValidPc(target, pcs) THEN @ ELSE @ \o "_illegal"]

instructionTransform(i, pc, pcs, width) ==
  LET key == << i.op, i.f >>
      k == Len(i.ops)
      next == pc + InstSize(i) \div 2
  IN  CASE key = <<"ADD", "2rus">> -> [i EXCEPT !.op = IF i.ops[3] = 0 THEN "ADD_mov" ELSE @]
        [] key \in ByWords2 \cup ByWords1 \cup ByWords0 -> [i EXCEPT !.ops[k] = 4 * @]
        [] key \in ByIssue0 -> [i EXCEPT !.ops[1] = @ * 2^width]
        [] key \in Split32 -> [i EXCEPT !.op = IF i.ops[3] = 32 THEN @ \o "_32" ELSE @]
        [] key \in Forward -> BranchTransform(i, k, next + i.ops[k] * width, pcs)
        [] key \in Backward -> BranchTransform(i, k, next - i.ops[k] * width, pcs)
        [] key = <<"MKMSK", "rus">> -> [i EXCEPT !.ops[2] = makeMask(@)]
        [] OTHER -> i

-----------------------------------------------------------------------------
(* The decoder goes through memory that holds every first halfword.  A     *)
(* state is the first eleven bits of the halfword (opc and c) and the type *)
(* of node; a property of a state is about all words with these bits.      *)
VARIABLE fetch
decodeVars == << fetch >>

DecodeInit == fetch \in [opc : 0..31, c : {0}, t : Node_Type]
NothingFetched == [opc |-> 32, c |-> 0, t |-> "XS1_L"]
DecodeNext == fetch' = [fetch EXCEPT !.c = (@ + 1) % 32]

IsLong == fetch.opc \in {30, 31}
LowWords ==
  IF fetch = NothingFetched THEN {}
  ELSE { [opc |-> fetch.opc, c |-> fetch.c, b5 |-> x, b4 |-> y, n |-> z] :
           x \in 0..1, y \in 0..1, z \in 0..15 }
(* For long instructions: the second halfwords around every boundary of    *)
(* the tests, and two first halfwords of each group.                       *)
HighWords == { [opc |-> o, c |-> d, b5 |-> x, b4 |-> y, n |-> z] :
                 o \in 0..31, d \in {0, 12, 22, 27, 31}, x \in 0..1, y \in 0..1, z \in {0, 12, 14} }
ZeroWord == [opc |-> 0, c |-> 0, b5 |-> 0, b4 |-> 0, n |-> 0]
Fetched ==
  IF IsLong THEN { << w, h >> : w \in { v \in LowWords : v.b4 = 0 /\ v.n = 6 }, h \in HighWords }
  ELSE LowWords \X { ZeroWord }

Register == 0..15                \* r0 to r11, cp, dp, sp, lr
General == 0..11

(* What the decoder puts into the decode cache can be executed without     *)
(* further checks: the operands are the ones the instruction table         *)
(* declares for the format, a register operand is a register (a general    *)
(* one, apart from loads, stores and constants with a six bit immediate    *)
(* and from TSETR on XS2); and a branch that is executed without a check   *)
(* of its target stays in the cache, whatever the pc, the size of the      *)
(* cache and the issue width of the thread that filled the entry.          *)
DecodedIsExecutable ==
  \A p \in Fetched :
    LET i == instructionDecode(p[1], p[2], TRUE, fetch.t)
    IN  /\ i # Unset =>
             /\ Len(i.ops) = Len(Operands(i))
             /\ \A k \in DOMAIN i.ops : Operands(i)[k] = "r" =>
                  i.ops[k] \in IF i.f \in {"ru6", "lru6"} \/ i.op = "TSETR" THEN Register ELSE General
             /\ InstSize(i) = 4 <=> IsLong
        /\ << i.op, i.f >> \in BranchInsts =>
             \A pcs \in {1, 3, 70}, pc \in {0, 2, 69}, width \in {1, 2} :
               LET j == instructionTransform(i, pc, pcs, width)
               IN  pc < pcs /\ j.op = i.op => j.ops[Len(j.ops)] \in 0..(pcs - 1)

(* Two different halfwords are two different instructions: what the        *)
(* disassembly of a trace shows determines the program.  (Instructions     *)
(* with a bit position are left out, their indices 0 and 11 both mean 32;  *)
(* so are the nodes of type XS2_A, whose row 0x17 accepts the halfwords    *)
(* that the unsigned subtraction lets pass.)                               *)
EncodingsDistinct ==
  ~IsLong /\ fetch.t = "XS1_L" =>
    LET decoded == { w \in LowWords : instructionDecode(w, ZeroWord, TRUE, fetch.t) # Unset }
        insts == { instructionDecode(w, ZeroWord, TRUE, fetch.t) : w \in decoded }
        bitp == {<<"SEXT", "rus">>, <<"ZEXT", "rus">>, <<"MKMSK", "rus">>, <<"SHL", "2rus">>, <<"SHR", "2rus">>}
    IN  (\A i \in insts : << i.op, i.f >> \notin bitp) => Cardinality(insts) = Cardinality(decoded)
=============================================================================
