------------------------------- MODULE MCCore -------------------------------
(***************************************************************************)
(* The parts of a core that do not interact with one another, or only      *)
(* through programs that are left open: each initial state selects one     *)
(* part, and the others stay as they start.                                *)
(***************************************************************************)
EXTENDS Decode, AluArith, AluBits, CodeCache, Timers, Kernel, RingBuffer

VARIABLE part

Parts == {"decode", "arith", "bits", "cache", "timers", "kernel", "ring"}

(* The part selected starts in any of its initial states, the others in    *)
(* one of theirs.                                                          *)
CoreInit ==
  /\ part \in Parts
  /\ IF part = "decode" THEN DecodeInit ELSE fetch = NothingFetched
  /\ AluInit /\ (part # "arith" => arg = 0)
  /\ CacheInit
  /\ TimersInit /\ (part # "timers" => build = "wraps" /\ style = "event")
  /\ KernelInit /\ (part # "kernel" => cpu.xs2)
  /\ RingInit /\ (part # "ring" => \A i \in DOMAIN ring : ring[i] = (CHOOSE k \in Kinds : TRUE))
  /\ BitsInit /\ (part # "bits" => sum = {} /\ rest = {} /\ poly = {0})

CoreNext ==
  /\ part' = part
  /\ IF part = "decode" THEN DecodeNext ELSE UNCHANGED decodeVars
  /\ IF part = "arith" THEN AluNext ELSE UNCHANGED aluVars
  /\ IF part = "bits" THEN BitsNext ELSE UNCHANGED bitVars
  /\ IF part = "cache" THEN CacheNext ELSE UNCHANGED cacheVars
  /\ IF part = "timers" THEN TimersNext ELSE UNCHANGED timerVars
  /\ IF part = "kernel" THEN KernelNext ELSE UNCHANGED kernelVars
  /\ IF part = "ring" THEN RingNext ELSE UNCHANGED ringVars

coreVars == << part, decodeVars, aluVars, bitVars,
               cacheVars, timerVars, kernelVars, ringVars >>
CoreSpec == CoreInit /\ [][CoreNext]_coreVars

-----------------------------------------------------------------------------
(* Values of the constants.                                                *)
CONSTANTS wide, branch       \* halfwords of a program

MCPrograms == { [i \in Pcs |-> IF i = Size - 1 THEN branch ELSE wide] }
=============================================================================
