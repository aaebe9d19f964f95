------------------------------ MODULE CodeCache ------------------------------
(* The decode cache of a core's RAM, the invalidation table that keeps it     *)
(* true to memory, and the functions the JIT installs in it                   *)
(* (DecodeCache.cpp, Core.cpp, Core.h, Thread.cpp, JIT.cpp).                  *)
(*                                                                            *)
(* A pc is the number of a halfword.  A halfword's value is told apart only   *)
(* by what fetching an instruction there asks: is it the first half of a four *)
(* byte instruction (Wide), may it branch (Branching), has it no JIT function *)
(* (Custom).  The execution counters are left out: a pc that branches reach   *)
(* (Hot) crosses the threshold at some moment, and that moment is RunJIT.     *)
EXTENDS Integers, FiniteSets

CONSTANTS Size, Values, Wide, Branching, Custom, Target, Hot, Programs, MaxEdits

ASSUME CacheAssumption ==
  /\ Size \in Nat \ {0} /\ Size % 2 = 0
  /\ Wide \subseteq Values /\ Branching \subseteq Values /\ Custom \subseteq Values
  /\ Target \in 0..(Size - 1) /\ Hot \subseteq 0..(Size - 1)
  /\ Programs \subseteq [0..(Size - 1) -> Values]
  /\ MaxEdits \in Nat

VARIABLES
  mem,           \* the RAM
  breakpoints,   \* Core::breakpoints
  opcode,        \* DecodeCache::State::opcode, with the code each entry was made from
  info,          \* DecodeCache::State::invalidationInfo
  fn,            \* JITCoreInfo::functionMap
  unreachable,   \* JITCoreInfo::unreachableFunctions
  tracing,       \* DecodeCache::State::tracingEnabled, the negation of Core::jitEnabled
  watching,      \* WatchpointManager is not empty
  busy,          \* the loop of compileBlock or of invalidateRange in progress
  edits          \* edits so far (bound)

cacheVars == <<mem, breakpoints, opcode, info, fn, unreachable, tracing, watching,
               busy, edits>>

Pcs == 0..(Size - 1)
NONE == "none"
CURRENT == "current"
BOTH == "current and previous"

Cell(p) == <<mem[p], p \in breakpoints>>
Code(p, stop) == [i \in p..(stop - 1) |-> Cell(i)]
NoCode == [i \in {} |-> 0]

Entry(kind, t, code) == [kind |-> kind, tracing |-> t, code |-> code]
NotDecoded(t) == Entry("decode", t, NoCode)
Idle == [doing |-> "idle", at |-> 0, end |-> 0]
Compiling(p) == [doing |-> "compile", at |-> p, end |-> 0]
ByteRange(b, e) == [doing |-> "range", at |-> b, end |-> e]
NoFunction == [known |-> FALSE, fast |-> NoCode, jumps |-> {}]

CacheInit ==
  /\ mem \in Programs
  /\ breakpoints = {}
  /\ opcode = [p \in Pcs |-> NotDecoded(FALSE)]
  /\ info = [p \in Pcs |-> NONE]
  /\ fn = [p \in 0..Size |-> NoFunction]
  /\ unreachable = {}
  /\ tracing = FALSE
  /\ watching = FALSE
  /\ busy = Idle
  /\ edits = 0

(* Mutant of setOpcode: only the first halfword is marked. *)
setOpcodeFirst(p, e, stop) ==
  /\ opcode' = [opcode EXCEPT ![p] = e]
  /\ info' = [i \in Pcs |-> IF i = p /\ info[i] = NONE THEN CURRENT ELSE info[i]]

setOpcode(p, e, stop) ==
  /\ opcode' = [opcode EXCEPT ![p] = e]
  /\ info' = [i \in Pcs |->
       IF i = p /\ info[i] = NONE THEN CURRENT
       ELSE IF i \in (p + 1)..(stop - 1) THEN BOTH ELSE info[i]]

(* The halfwords that the loop of invalidateSlowPath, started at h, resets.   *)
Walk(h) == {i \in 0..h : \A j \in (i + 1)..h : info[j] = BOTH}

InvalidatedByShort(h) == IF info[h] = NONE THEN {} ELSE Walk(h)

InvalidatedByWord(h) ==
  IF info[h + 1] # NONE THEN Walk(h) \cup {h + 1} ELSE InvalidatedByShort(h)

(* The body of the loop of invalidateSlowPath for every halfword of S.        *)
invalidateSlowPath(S, t) ==
  /\ opcode' = [p \in Pcs |-> IF p \in S THEN NotDecoded(t) ELSE opcode[p]]
  /\ info' = [p \in Pcs |-> IF p \in S THEN NONE ELSE info[p]]
  /\ unreachable' = unreachable \cup {p \in S : fn[p].known}

(* A halfword store, or a store of one of its bytes.                          *)
StoreShort ==
  \E h \in Pcs, v \in Values :
    /\ busy = Idle /\ edits < MaxEdits
    /\ mem' = [mem EXCEPT ![h] = v]
    /\ invalidateSlowPath(InvalidatedByShort(h), tracing)
    /\ edits' = edits + 1
    /\ UNCHANGED <<breakpoints, fn, tracing, watching, busy>>

StoreWord ==
  \E h \in {p \in Pcs : p % 2 = 0}, v, w \in Values :
    /\ busy = Idle /\ edits < MaxEdits
    /\ mem' = [mem EXCEPT ![h] = v, ![h + 1] = w]
    /\ invalidateSlowPath(InvalidatedByWord(h), tracing)
    /\ edits' = edits + 1
    /\ UNCHANGED <<breakpoints, fn, tracing, watching, busy>>

(* The debugger or the loader writes the halfwords b..e-1 (the first and last *)
(* possibly only in part); then the loop of invalidateRange runs.             *)
writeMemory ==
  \E b \in Pcs : \E e \in (b + 1)..Size : \E new \in [b..(e - 1) -> Values] :
    /\ busy = Idle /\ edits < MaxEdits
    /\ mem' = [i \in Pcs |-> IF i \in b..(e - 1) THEN new[i] ELSE mem[i]]
    /\ busy' = ByteRange(b, e)
    /\ edits' = edits + 1
    /\ UNCHANGED <<breakpoints, opcode, info, fn, unreachable, tracing, watching>>

RangeDone(n) == IF n < busy.end THEN [busy EXCEPT !.at = n] ELSE Idle

(* One round of invalidateRange: by bytes where the word is not wholly in the *)
(* range, else by the word.                                                   *)
RangeByte ==
  /\ busy.doing = "range"
  /\ invalidateSlowPath(InvalidatedByShort(busy.at), tracing)
  /\ busy' = RangeDone(busy.at + 1)
  /\ UNCHANGED <<mem, breakpoints, fn, tracing, watching, edits>>

RangeWord ==
  /\ busy.doing \in {"range", "reset"}
  /\ busy.at % 2 = 0 /\ busy.at + 2 <= busy.end
  /\ invalidateSlowPath(InvalidatedByWord(busy.at), tracing)
  /\ busy' = RangeDone(busy.at + 2)
  /\ UNCHANGED <<mem, breakpoints, fn, tracing, watching, edits>>

(* Mutant of setBreakpoint: the cached entries are not invalidated. *)
setBreakpointOnly(h) ==
  /\ busy = Idle /\ h \notin breakpoints /\ edits < MaxEdits
  /\ edits' = edits + 1
  /\ breakpoints' = breakpoints \cup {h}
  /\ UNCHANGED <<mem, opcode, info, fn, unreachable, tracing, watching, busy>>

setBreakpoint(h) ==
  /\ busy = Idle /\ h \notin breakpoints /\ edits < MaxEdits
  /\ edits' = edits + 1
  /\ breakpoints' = breakpoints \cup {h}
  /\ invalidateSlowPath(InvalidatedByShort(h), tracing)
  /\ UNCHANGED <<mem, fn, tracing, watching, busy>>

unsetBreakpoint(h) ==
  /\ busy = Idle /\ h \in breakpoints /\ edits < MaxEdits
  /\ edits' = edits + 1
  /\ breakpoints' = breakpoints \ {h}
  /\ invalidateSlowPath(InvalidatedByShort(h), tracing)
  /\ UNCHANGED <<mem, fn, tracing, watching, busy>>

SetBreakpoint == \E h \in Pcs : setBreakpoint(h)
UnsetBreakpoint == \E h \in Pcs : unsetBreakpoint(h)

(* resetCaches is the loop of RangeWord over the whole RAM.                   *)
resetCaches == busy' = [doing |-> "reset", at |-> 0, end |-> Size]

setWatchpoint ==
  /\ busy = Idle /\ edits < MaxEdits
  /\ edits' = edits + 1
  /\ watching' = TRUE
  /\ tracing' = TRUE
  /\ IF tracing THEN busy' = Idle ELSE resetCaches
  /\ UNCHANGED <<mem, breakpoints, opcode, info, fn, unreachable>>

unsetWatchpoint ==
  /\ busy = Idle /\ watching /\ edits < MaxEdits
  /\ edits' = edits + 1
  /\ watching' = FALSE
  /\ tracing' = FALSE
  /\ resetCaches
  /\ UNCHANGED <<mem, breakpoints, opcode, info, fn, unreachable>>

setRamBaseMultiple ==
  /\ busy = Idle /\ edits < MaxEdits
  /\ edits' = edits + 1
  /\ resetCaches
  /\ UNCHANGED <<mem, breakpoints, opcode, info, fn, unreachable, tracing, watching>>

(* The end of the instruction decoded at p; the last halfword of the RAM has  *)
(* no second half and decodes to ILLEGAL_PC.                                  *)
InstructionEnd(p) ==
  IF p \notin breakpoints /\ mem[p] \in Wide /\ p + 1 < Size THEN p + 2 ELSE p + 1

(* A thread runs into an entry that is not decoded.  Which instruction        *)
(* functions are used, tracing or not, depends on that entry.                 *)
Instruction_DECODE ==
  \E p \in Pcs :
    /\ busy = Idle /\ opcode[p].kind = "decode"
    /\ setOpcode(p, Entry("inst", opcode[p].tracing, Code(p, InstructionEnd(p))),
                 InstructionEnd(p))
    /\ UNCHANGED <<mem, breakpoints, fn, unreachable, tracing, watching, busy, edits>>

Branches(p) ==
  /\ opcode[p].kind # "decode" /\ ~opcode[p].tracing
  /\ opcode[p].kind = "jit" \/ mem[p] \in Branching

reclaimUnreachableFunctions ==
  /\ fn' = [p \in 0..Size |->
       IF p \in unreachable THEN [fn[p] EXCEPT !.fast = NoCode, !.jumps = {}] ELSE fn[p]]
  /\ unreachable' = {}

(* A pc reached by branches of instructions that count them becomes hot.      *)
RunJIT ==
  \E p \in Hot :
    /\ busy = Idle
    /\ \E b \in Pcs : Branches(b)
    /\ reclaimUnreachableFunctions
    /\ busy' = Compiling(p)
    /\ UNCHANGED <<mem, breakpoints, opcode, info, tracing, watching, edits>>

(* getFragmentToCompile from p: where the fragment stops, why, and where the  *)
(* next one starts.                                                           *)
Fragment[p \in 0..Size] ==
  IF p = Size THEN [stop |-> p, why |-> "end", next |-> p]
  ELSE IF p \in breakpoints \/ mem[p] \in Custom
    THEN [stop |-> p, why |-> "custom", next |-> InstructionEnd(p)]
  ELSE IF mem[p] \in Branching
    THEN [stop |-> InstructionEnd(p), why |-> "branch", next |-> InstructionEnd(p)]
  ELSE Fragment[InstructionEnd(p)]

AfterFragment(why, next) == IF why = "custom" THEN Compiling(next) ELSE Idle

(* One call of compileOneFragment from the loop of compileBlock.              *)
compileOneFragment ==
  /\ busy.doing = "compile"
  /\ \E stop, next \in busy.at..Size, why \in {"end", "custom", "branch"} :
       LET p == busy.at
           jumps == IF why = "branch" THEN {Target, stop} ELSE {}
       IN /\ Fragment[p] = [stop |-> stop, why |-> why, next |-> next]
          /\ IF fn[p].fast # NoCode
             THEN busy' = Idle /\ UNCHANGED <<opcode, info, fn>>
             ELSE IF stop = p
             THEN busy' = AfterFragment(why, next) /\ UNCHANGED <<opcode, info, fn>>
             ELSE /\ fn' = [q \in 0..Size |->
                       [known |-> fn[q].known \/ q \in jumps \cup {p},
                        fast |-> IF q = p THEN Code(p, stop) ELSE fn[q].fast,
                        jumps |-> IF q = p THEN jumps ELSE fn[q].jumps]]
                  /\ setOpcode(p, Entry("jit", FALSE, Code(p, stop)), stop)
                  /\ busy' = AfterFragment(why, next)
  /\ UNCHANGED <<mem, breakpoints, unreachable, tracing, watching, edits>>

CacheNext ==
  \/ StoreShort \/ StoreWord \/ writeMemory \/ RangeByte \/ RangeWord
  \/ SetBreakpoint \/ UnsetBreakpoint
  \/ setWatchpoint \/ unsetWatchpoint \/ setRamBaseMultiple
  \/ Instruction_DECODE \/ RunJIT \/ compileOneFragment

CacheSpec == CacheInit /\ [][CacheNext]_cacheVars

-----------------------------------------------------------------------------
Pending(i) == busy.doing = "range" /\ busy.at <= i /\ i < busy.end

(* Whatever the order of stores, debugger writes, breakpoints, decoding and   *)
(* compilation, every instruction or compiled function in the decode cache    *)
(* was made from what memory and the breakpoints say now, in each of its      *)
(* halfwords (those the loop of invalidateRange has yet to reach excepted).   *)
CodeCurrent ==
  \A p \in Pcs : \A i \in DOMAIN opcode[p].code :
    opcode[p].code[i] = Cell(i) \/ Pending(i)

(* The invalidation table covers the cache: an entry's first halfword is      *)
(* marked and every further one leads back to it, so that invalidateSlowPath  *)
(* finds it from any of its halfwords and never walks below the RAM.          *)
Covered ==
  /\ info[0] # BOTH
  /\ \A p \in Pcs : opcode[p].kind # "decode" =>
       /\ info[p] # NONE
       /\ \A i \in DOMAIN opcode[p].code : i # p => info[i] = BOTH
=============================================================================
