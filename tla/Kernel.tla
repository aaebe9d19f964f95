------------------------------- MODULE Kernel -------------------------------
(***************************************************************************)
(* Calls, traps and the stack: the registers of one thread, the issue mode *)
(* of an XS2 with its buffer of pending register writes, exception(), and  *)
(* the instructions that enter and leave functions and handlers            *)
(* (src/lib/Thread.cpp, src/lib/InstructionHelpers.cpp and                 *)
(* src/utils/instgen/InstructionGen.cpp).                                  *)
(*                                                                         *)
(* The program is any sequence of calls, returns and traps that follows    *)
(* the calling convention: a function enters with entsp n and leaves with  *)
(* retsp n; a handler saves spc, ssr, sed and et before it may trap again. *)
(* In dual issue mode no instruction uses, in the second slot of a pair,   *)
(* what the first slot writes.  Addresses are bytes; there is no ROM, and  *)
(* r0 stands for the general registers.                                    *)
(***************************************************************************)
EXTENDS Integers, Sequences, TLC

CONSTANTS RamWords,
          StackTop, KernelTop,   \* words the two stacks start at
          StartPc,
          KCallEntry,            \* offset of the kcall entry from kep: 64
          Targets,               \* addresses called or branched to, bad ones too
          FrameSizes,            \* operands of entsp
          MaxMoves               \* calls, branches and traps

VARIABLES cpu,     \* the thread: pc, registers, pending writes, issue mode, sr
          ram,
          nest,    \* history: the calls and traps not yet returned from
          moves,   \* calls, branches and traps so far
          due      \* history: what the last return should have brought back
kernelVars == << cpu, ram, nest, moves, due >>

EEBLE   == 0
IEBLE   == 1
INK     == 4
WAITING == 6

ET_ILLEGAL_PC == 2
ET_LOAD_STORE == 5
ET_ECALL      == 8
ET_KCALL      == 15

HandlerWords == 5                 \* the saved registers, and sp at the top
KCallOperand == 3
RamBytes     == 4 * RamWords
Plus(a, n)   == (a + n) % (2 * RamBytes)
fromPc(p)    == 2 * p
toPc(a)      == a \div 2
SrOf(v)      == { b \in 0..8 : (v \div 2^b) % 2 = 1 }

CHECK_ADDR_RAM_WORD(a) == a % 4 = 0 /\ a < RamBytes

-----------------------------------------------------------------------------
(* Registers and the issue mode.  The buffer is not read unless writes are *)
(* pending.                                                                *)
Nothing == << >>      \* no registers written
Visible(t) == IF t.pending THEN t.buffer ELSE t.regs

(* What the first slots wrote becomes visible at the next pair, or at a    *)
(* 32-bit instruction.                                                     *)
regWritePending(t, size) ==
  IF t.pending /\ (size = 2 \/ t.pc % 2 = 0)
  THEN [t EXCEPT !.regs = t.buffer, !.buffer = Nothing, !.pending = FALSE, !.took = FALSE]
  ELSE [t EXCEPT !.took = FALSE]

(* Mutant of setDualIssue: pending writes stay pending when the thread     *)
(* leaves dual issue mode, the fault the comment in the function tells of. *)
setDualIssueKeeps(t, di) == [t EXCEPT !.dual = di]

setDualIssue(t, di) ==
  IF t.dual /\ ~di /\ t.pending
  THEN [t EXCEPT !.regs = t.buffer, !.buffer = Nothing, !.pending = FALSE, !.dual = di]
  ELSE [t EXCEPT !.dual = di]

regWriteBack(t, size, writes, nextPc) ==
  IF t.dual /\ size = 1 /\ DOMAIN writes # {}
  THEN [t EXCEPT !.buffer = writes @@ Visible(t), !.pending = TRUE, !.pc = nextPc]
  ELSE [t EXCEPT !.regs = writes @@ @, !.pc = nextPc]

-----------------------------------------------------------------------------
(* Exceptions.  Nothing the instruction computed is written back; ssr gets *)
(* the value saved in sed.                                                 *)
exception(t, et, ed) ==
  [t EXCEPT !.regs = [@ EXCEPT !.ssr = t.regs.ed, !.spc = fromPc(t.pc), !.sed = t.regs.ed,
                               !.et = et, !.ed = ed],
            !.sr = (@ \cup {INK}) \ {EEBLE, IEBLE},
            !.took = TRUE,
            !.pc = toPc(IF et = ET_KCALL THEN KCallEntry ELSE 0)]

load(t, a, then) == IF CHECK_ADDR_RAM_WORD(a) THEN then ELSE exception(t, ET_LOAD_STORE, a)

writePc(t, size, writes, a) ==
  IF a % 2 = 1 \/ a >= RamBytes
  THEN exception(t, ET_ILLEGAL_PC, a)
  ELSE regWriteBack(t, size, writes, toPc(a))

(* The RAM after a store, which does nothing when it traps.                *)
Stored(a, v) == IF CHECK_ADDR_RAM_WORD(a) THEN [ram EXCEPT ![a \div 4] = v] ELSE ram
Word4(a)     == ram[a \div 4]

-----------------------------------------------------------------------------
(* Instructions.  t is the thread with its pending writes done, size the   *)
(* halfwords of the encoding.                                              *)
ENTSP(t, size, n, di) ==
  LET sp == t.regs.sp
  IN  IF n > 0 /\ ~CHECK_ADDR_RAM_WORD(sp)
      THEN exception(t, ET_LOAD_STORE, sp)
      ELSE regWriteBack(setDualIssue(t, di), size, "sp" :> Plus(sp, -4 * n), t.pc + size)

RETSP(t, size, n) ==
  LET a  == Plus(t.regs.sp, 4 * n)
      lr == IF n > 0 THEN Word4(a) ELSE t.regs.lr
  IN  IF n > 0 THEN load(t, a, writePc(t, size, [sp |-> a, lr |-> lr], lr))
      ELSE writePc(t, size, [sp |-> t.regs.sp, lr |-> lr], lr)

(* lr is not written, and its bit 0 is the issue mode to return to.        *)
RETSP_xs2a(t, size, n) ==
  LET a    == Plus(t.regs.sp, 4 * n)
      lr   == IF n > 0 THEN Word4(a) ELSE t.regs.lr
      back == writePc(setDualIssue(t, lr % 2 = 1), size, "sp" :> a, lr - (lr % 2))
  IN  IF n > 0 THEN load(t, a, back) ELSE back

BL(t, size, a) ==
  regWriteBack(t, size, "lr" :> (fromPc(t.pc + size) + (IF t.dual THEN 1 ELSE 0)), toPc(a))

BL_illegal(t, a) == exception(t, ET_ILLEGAL_PC, fromPc(toPc(a)))

BLA(t, a) == writePc(t, 1, "lr" :> (fromPc(t.pc + 1) + (IF t.dual THEN 1 ELSE 0)), a)

(* Through a table in memory, whose entry is a.  The issue mode is not put *)
(* into lr.                                                                *)
BLACP(t, size, a) == writePc(t, size, "lr" :> fromPc(t.pc + size), a)
BLAT(t, size, a)  == writePc(t, size, "lr" :> fromPc(t.pc + size), a)

BAU(t, a) == writePc(t, 1, Nothing, a)

NOP(t) == regWriteBack(t, 1, Nothing, t.pc + 1)

BU(t, a)         == regWriteBack(t, 1, Nothing, toPc(a))
BU_illegal(t, a) == exception(t, ET_ILLEGAL_PC, fromPc(toPc(a)))

Relative(t, a) == IF a < RamBytes THEN BU(t, a) ELSE BU_illegal(t, a)
BT(t, a) == IF t.regs.r0 # 0 THEN Relative(t, a) ELSE NOP(t)
BF(t, a) == IF t.regs.r0 = 0 THEN Relative(t, a) ELSE NOP(t)

EXTSP(t, n) == regWriteBack(t, 1, "sp" :> Plus(t.regs.sp, -4 * n), t.pc + 1)
SETSP(t, v) == regWriteBack(t, 1, "sp" :> v, t.pc + 1)
LDC(t, v)    == regWriteBack(t, 1, "r0" :> v, t.pc + 1)
LDAWSP(t, n) == Plus(t.regs.sp, 4 * n)

LDWSP(t, n) == LET a == Plus(t.regs.sp, 4 * n) IN load(t, a, regWriteBack(t, 1, Nothing, t.pc + 1))

STWSP(t, n) ==
  LET a == Plus(t.regs.sp, 4 * n)
  IN  IF CHECK_ADDR_RAM_WORD(a) THEN regWriteBack(t, 1, Nothing, t.pc + 1)
      ELSE exception(t, ET_LOAD_STORE, a)

KCALL(t)  == exception(t, ET_KCALL, KCallOperand)
ECALLT(t) == IF t.regs.r0 # 0 THEN exception(t, ET_ECALL, 0) ELSE NOP(t)
ECALLF(t) == IF t.regs.r0 = 0 THEN exception(t, ET_ECALL, 0) ELSE NOP(t)
GETET(t)  == t.regs.et

KENTSP(t, n) ==
  IF CHECK_ADDR_RAM_WORD(t.regs.ksp)
  THEN regWriteBack(t, 1, "sp" :> Plus(t.regs.ksp, -4 * n), t.pc + 1)
  ELSE exception(t, ET_LOAD_STORE, t.regs.ksp)

KRESTSP(t, n) ==
  LET a == Plus(t.regs.sp, 4 * n)
  IN  load(t, a, regWriteBack(t, 1, [sp |-> Word4(a), ksp |-> a], t.pc + 1))

(* stw/ldw of spc, ssr, sed, et: words 1 to 4 of the frame.                *)
Saved == << "spc", "ssr", "sed", "et" >>

LDSaved(t, i) ==
  LET a == Plus(t.regs.sp, 4 * i)
  IN  load(t, a, regWriteBack(t, 1, Saved[i] :> Word4(a), t.pc + 1))

STSaved(t, i) == STWSP(t, i)

KRET(t) ==
  LET u == writePc(t, 1, "ed" :> t.regs.sed, t.regs.spc)
  IN  IF u.took THEN u ELSE [u EXCEPT !.sr = SrOf(t.regs.ssr) \ {WAITING}]

-----------------------------------------------------------------------------
(* The program.  nest holds, innermost last, the calls (n is the operand   *)
(* of entsp, -1 before it) and traps (n likewise for kentsp or extsp).     *)
NotEntered == -1

CallFrame(back, t) ==
  [kind |-> "call", n |-> NotEntered, sp |-> t.regs.sp, back |-> back, local |-> NotEntered]

TrapFrame(t) ==
  [kind |-> "trap", n |-> NotEntered, saved |-> 0, loaded |-> 0, skip |-> 0,
   was |-> [pc |-> t.pc, sp |-> t.regs.sp, lr |-> t.regs.lr, r0 |-> t.regs.r0,
            ed |-> t.regs.ed, ksp |-> t.regs.ksp, dual |-> t.dual]]

Top     == nest[Len(nest)]
Popped == SubSeq(nest, 1, Len(nest) - 1)
SetTop(f) == [nest EXCEPT ![Len(nest)] = f]

InFunction == moves >= 0 /\ (nest # << >> => (Top.kind = "call" /\ Top.n # NotEntered))
Entering(kind) == nest # << >> /\ Top.kind = kind /\ Top.n = NotEntered
InHandler == nest # << >> /\ Top.kind = "trap" /\ Top.n # NotEntered
MayTrap   == InFunction \/ (InHandler /\ Top.saved = Len(Saved) /\ Top.loaded = 0)

(* An instruction in the second slot of a pair does not depend on what the *)
(* first slot wrote, and does not trap: exception() writes regs, and the   *)
(* exchange at the handler's first instruction would undo it.              *)
Settled == cpu.pending => cpu.pc % 2 = 0
Ready   == ~Settled => \A x \in DOMAIN cpu.regs \ {"r0"} : cpu.buffer[x] = cpu.regs[x]
Begun(size) == regWritePending(cpu, size)

(* The instruction leaves the thread as t, and nest as n unless it traps.  *)
Move(size, t, n, back, cost) ==
  /\ cpu' = t
  /\ nest' = IF t.took THEN Append(nest, TrapFrame(Begun(size))) ELSE n
  /\ moves' = moves + (IF t.took THEN 1 ELSE cost)
  /\ moves' =< MaxMoves
  /\ t.took => Settled
  /\ due' = IF t.took THEN Nothing ELSE back
Do(size, t, n, back) == Move(size, t, n, back, 0)

(* bl, bla, bla cp[] or blat.                                              *)
Calls(size, a) ==
  LET t == Begun(size)
  IN  { << IF a < RamBytes THEN BL(t, size, a) ELSE BL_illegal(t, a), t.dual >>,
        << BLACP(t, size, a), FALSE >>, << BLAT(t, size, a), FALSE >> }
        \cup IF size = 1 THEN { << BLA(t, a), t.dual >> } ELSE {}

Call ==
  /\ InFunction /\ Ready
  /\ nest # << >> => Top.n # 0
  /\ \E size \in {1, 2}, a \in Targets : \E c \in Calls(size, a) :
       LET back == fromPc(cpu.pc + size) + (IF c[2] THEN 1 ELSE 0)
       IN  Move(size, c[1], Append(nest, CallFrame(back, Begun(size))), Nothing, 1)
  /\ UNCHANGED ram

Enter ==
  /\ Entering("call") /\ Ready
  /\ \E size \in {1, 2}, n \in FrameSizes, di \in (IF cpu.xs2 THEN BOOLEAN ELSE {FALSE}) :
       LET t == Begun(size)
       IN  /\ Do(size, ENTSP(t, size, n, di), SetTop([Top EXCEPT !.n = n]), Nothing)
           /\ ram' = IF n > 0 THEN Stored(t.regs.sp, t.regs.lr) ELSE ram

Leave ==
  /\ nest # << >> /\ Top.kind = "call" /\ Top.n # NotEntered /\ Ready
  /\ \E size \in {1, 2} :
       LET t == Begun(size)
       IN  Do(size, IF t.xs2 THEN RETSP_xs2a(t, size, Top.n) ELSE RETSP(t, size, Top.n), Popped,
              [pc |-> toPc(Top.back), sp |-> Top.sp, dual |-> Top.back % 2 = 1,
               r0 |-> Visible(cpu).r0])
  /\ UNCHANGED ram

SetLocal ==
  /\ InFunction /\ nest # << >> /\ Ready
  /\ Top.n > 1 /\ Top.local = NotEntered
  /\ LET t == Begun(1)
     IN  /\ Do(1, STWSP(t, 1), SetTop([Top EXCEPT !.local = KCallOperand]), Nothing)
         /\ ram' = Stored(Plus(t.regs.sp, 4), KCallOperand)

Compute ==
  /\ InFunction /\ nest # << >> /\ Ready /\ cpu.regs.r0 = 0
  /\ Do(1, LDC(Begun(1), KCallOperand), nest, Nothing)
  /\ UNCHANGED ram

Branch ==
  /\ InFunction /\ nest = << >> /\ Ready
  /\ \E a \in Targets :
       \E t \in { BAU(Begun(1), a), Relative(Begun(1), a), BT(Begun(1), a), BF(Begun(1), a) } :
          Move(1, t, nest, Nothing, 1)
  /\ UNCHANGED ram

Trap ==
  /\ MayTrap /\ Ready
  /\ \E t \in { KCALL(Begun(1)), ECALLT(Begun(1)), ECALLF(Begun(1)), LDWSP(Begun(1), RamWords) } :
       t.took /\ Do(1, t, nest, Nothing)
  /\ UNCHANGED ram

(* The second slot of a pair whose first slot wrote a register.            *)
Fill ==
  /\ ~Ready
  /\ Do(1, NOP(Begun(1)), nest, Nothing)
  /\ UNCHANGED ram

(* The outermost handler switches to the kernel stack; a nested one is on  *)
(* it already.                                                             *)
Nested == \E i \in 1 .. (Len(nest) - 1) : nest[i].kind = "trap"

EnterHandler ==
  /\ Entering("trap") /\ Ready
  /\ LET t == Begun(1)
         f == SetTop([Top EXCEPT !.n = HandlerWords])
     IN  IF Nested
         THEN Do(1, EXTSP(t, HandlerWords), f, Nothing) /\ UNCHANGED ram
         ELSE Do(1, KENTSP(t, HandlerWords), f, Nothing) /\ ram' = Stored(t.regs.ksp, t.regs.sp)

Save ==
  /\ InHandler /\ Ready /\ Top.saved < Len(Saved)
  /\ LET t == Begun(1)
         i == Top.saved + 1
     IN  /\ Do(1, STSaved(t, i), SetTop([Top EXCEPT !.saved = i]), Nothing)
         /\ ram' = Stored(Plus(t.regs.sp, 4 * i), t.regs[Saved[i]])

(* A handler that has dealt with a kcall or ecall returns behind it.       *)
Skip ==
  /\ InHandler /\ Ready /\ Top.saved = Len(Saved) /\ Top.loaded = 0 /\ Top.skip = 0
  /\ LET t == Begun(1)
         a == Plus(t.regs.sp, 4)
     IN  /\ GETET(t) \in {ET_KCALL, ET_ECALL}
         /\ Do(1, STWSP(t, 1), SetTop([Top EXCEPT !.skip = 1]), Nothing)
         /\ ram' = Stored(a, Word4(a) + 2)

Reload ==
  /\ InHandler /\ Ready /\ Top.saved = Len(Saved) /\ Top.loaded < Len(Saved)
  /\ Do(1, LDSaved(Begun(1), Top.loaded + 1), SetTop([Top EXCEPT !.loaded = @ + 1]), Nothing)
  /\ UNCHANGED ram

Unwind ==
  /\ InHandler /\ Ready /\ Top.loaded = Len(Saved) /\ Top.n > 0
  /\ LET t == Begun(1)
     IN  Do(1, IF Nested THEN SETSP(t, LDAWSP(t, Top.n)) ELSE KRESTSP(t, Top.n),
            SetTop([Top EXCEPT !.n = 0]), Nothing)
  /\ UNCHANGED ram

LeaveHandler ==
  /\ InHandler /\ Ready /\ Top.n = 0
  /\ Do(1, KRET(Begun(1)), Popped, [Top.was EXCEPT !.pc = @ + Top.skip])
  /\ UNCHANGED ram

(* Thread 0 after its construction: no register written, and the empty     *)
(* buffer is exchanged for the registers at the first instruction.  The    *)
(* start-up code then sets ksp and sp.                                     *)
NewThread(xs2) ==
  LET zero == [x \in {"sp", "lr", "r0", "ksp", "spc", "ssr", "sed", "et", "ed"} |-> 0]
  IN  [pc |-> StartPc, regs |-> zero, buffer |-> zero, pending |-> TRUE,
       dual |-> FALSE, sr |-> {}, took |-> FALSE, xs2 |-> xs2]

StartUp ==
  /\ moves < 0
  /\ LET t == Begun(1)
     IN  Move(1, CASE moves = -3 -> SETSP(t, 4 * KernelTop)
                   [] moves = -2 -> KRESTSP(t, 0)
                   [] moves = -1 -> SETSP(t, 4 * StackTop), nest, Nothing, 1)
  /\ UNCHANGED ram

KernelInit ==
  /\ cpu \in { NewThread(x) : x \in BOOLEAN }
  /\ ram = [w \in 0 .. (RamWords - 1) |-> 0]
  /\ nest = << >> /\ due = Nothing /\ moves = -3

KernelNext ==
  \/ StartUp \/ Call \/ Enter \/ Leave \/ SetLocal \/ Compute \/ Branch \/ Trap \/ Fill
  \/ EnterHandler \/ Save \/ Skip \/ Reload \/ Unwind \/ LeaveHandler

-----------------------------------------------------------------------------
Now(x) == IF x = "pc" THEN cpu.pc ELSE IF x = "dual" THEN cpu.dual ELSE Visible(cpu)[x]

FrameKept(f) ==
  f.kind = "call" =>
    /\ f.n > 0 => Word4(f.sp) = f.back
    /\ f.local # NotEntered => Word4(Plus(f.sp, 4 - 4 * f.n)) = f.local

(* Calls and traps nest: retsp (InstructionGen.cpp, ENTSP, RETSP) returns  *)
(* behind the call with the caller's stack pointer and issue mode; kret    *)
(* out of a handler that saved and restored what exception() overwrites    *)
(* returns to the trapped instruction, or behind it, with the trapped      *)
(* code's sp, lr, r0, ed, ksp and mode, also when the handler trapped;     *)
(* and meanwhile no return address or local on the stack is lost.  sr is   *)
(* not claimed: exception() stores sed in ssr.                             *)
CallsAndTrapsReturn ==
  /\ \A x \in DOMAIN due : Now(x) = due[x]
  /\ \A i \in DOMAIN nest : FrameKept(nest[i])
=============================================================================
