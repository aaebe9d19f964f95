-------------------------------- MODULE Boot --------------------------------
(***************************************************************************)
(* The boot sequencer (lib/BootSequencer.cpp): the sectors of an XE file   *)
(* become steps that load an ELF into a core, schedule a core, or run the  *)
(* system until enough cores have called done.  An XE file is a sequence   *)
(* of images; an image uses a set of cores, with an ELF sector and then a  *)
(* call sector for each, or a goto sector in the last image, in any order. *)
(***************************************************************************)
EXTENDS SyscallHandler, Sequences, SequencesExt

CONSTANTS XEs              \* [images: cores of each image, sectors]

VARIABLES xe, spi,         \* the file, and whether --boot-spi was given
          steps, step, running,   \* the boot steps, the one executed, in its run?
          image,           \* image whose ELF was loaded last, per core
          entry,           \* where thread 0 of a core was scheduled last
          trapped,         \* cores whose system calls stop the simulation
          status,          \* what execute() returned, or Running
          doneNow          \* history: cores that called done in this run
bootVars == << syscallVars, xe, spi, steps, step, running, image, entry, trapped, status, doneNow >>

Running == -1
Cores   == UNION { UNION Range(x.images) : x \in XEs }

Elf(c, im)  == [type |-> "ELF", core |-> c, image |-> im, useElfEntryPoint |-> TRUE, loadImage |-> TRUE]
Schedule(c) == [type |-> "SCHEDULE", core |-> c]
Run(n)      == [type |-> "RUN", done |-> n]

(* populateFromXE: one sector after the other, with the cores that have    *)
(* been called and the cores that have been gone to since the last run.    *)
AddRun(p) == [p EXCEPT !.steps = Append(@, Run(Cardinality(p.calls))), !.calls = {}]

(* Mutant of AddSector: an ELF for a core that was called does not first   *)
(* run the image before it.                                                *)
AddSectorNoRun(p, s) ==
  CASE s.type = "ELF" ->
         IF s.core \in p.gotos THEN p
         ELSE [p EXCEPT !.steps = Append(@, Elf(s.core, s.image))]
    [] s.type = "CALL" ->
         IF p.gotos # {} THEN p
         ELSE LET q == IF s.core \in p.calls THEN AddRun(p) ELSE p IN [q EXCEPT !.calls = @ \cup {s.core}]
    [] s.type = "GOTO" ->
         LET q == IF p.calls # {} THEN AddRun(p) ELSE p IN [q EXCEPT !.gotos = @ \cup {s.core}]

AddSector(p, s) ==
  CASE s.type = "ELF" ->
         IF s.core \in p.gotos THEN p
         ELSE LET q == IF s.core \in p.calls THEN AddRun(p) ELSE p
              IN  [q EXCEPT !.steps = Append(@, Elf(s.core, s.image))]
    [] s.type = "CALL" ->
         IF p.gotos # {} THEN p
         ELSE LET q == IF s.core \in p.calls THEN AddRun(p) ELSE p IN [q EXCEPT !.calls = @ \cup {s.core}]
    [] s.type = "GOTO" ->
         LET q == IF p.calls # {} THEN AddRun(p) ELSE p IN [q EXCEPT !.gotos = @ \cup {s.core}]

populateFromXE(sectors) ==
  LET p == FoldLeft(AddSector, [steps |-> << >>, calls |-> {}, gotos |-> {}], sectors)
  IN  IF p.gotos # {} THEN Append(p.steps, Run(Cardinality(p.gotos)))
      ELSE IF p.calls # {} THEN AddRun(p).steps ELSE p.steps

(* The steps from the last but one run on: eraseAllButLastImage keeps that *)
(* run itself.  getPenultimateRunStep is a set: empty for the code's end.  *)
RunsFrom(ss, i) == { j \in i..Len(ss) : ss[j].type = "RUN" }
getPenultimateRunStep(ss) ==
  { i \in 1..Len(ss) : ss[i].type = "RUN" /\ Cardinality(RunsFrom(ss, i)) = 2 }
eraseAllButLastImage(ss) ==
  LET penultimate == getPenultimateRunStep(ss)
  IN  IF penultimate = {} THEN ss ELSE SubSeq(ss, Min(penultimate), Len(ss))
setEntryPointToRom(ss) ==
  FlattenSeq([i \in 1..Len(ss) |->
    IF ss[i].type = "ELF" THEN << [ss[i] EXCEPT !.useElfEntryPoint = FALSE], Schedule(ss[i].core) >>
    ELSE << ss[i] >>])
setLoadImages(ss, value) ==
  [i \in 1..Len(ss) |-> IF ss[i].type = "ELF" THEN [ss[i] EXCEPT !.loadImage = value] ELSE ss[i]]
adjustForSPIBoot(ss) == setLoadImages(setEntryPointToRom(eraseAllButLastImage(ss)), FALSE)

BootInit ==
  /\ SyscallInit
  /\ xe \in XEs /\ spi \in BOOLEAN
  /\ steps = (IF spi THEN adjustForSPIBoot(populateFromXE(xe.sectors)) ELSE populateFromXE(xe.sectors))
  /\ step = 1 /\ running = FALSE /\ trapped = {} /\ status = Running /\ doneNow = {}
  /\ image = [c \in Cores |-> 0] /\ entry = [c \in Cores |-> "none"]

-----------------------------------------------------------------------------
(* BootSequenceStep::execute.                                              *)
Doing(type) == status = Running /\ step <= Len(steps) /\ steps[step].type = type

ExecuteElf ==
  /\ Doing("ELF")
  /\ LET s == steps[step]
     IN  /\ image' = IF s.loadImage THEN [image EXCEPT ![s.core] = s.image] ELSE image
         /\ entry' = IF s.useElfEntryPoint THEN [entry EXCEPT ![s.core] = "elf"] ELSE entry
         /\ trapped' = trapped \cup {s.core}
  /\ step' = step + 1
  /\ UNCHANGED << syscallVars, xe, spi, steps, running, status, doneNow >>

ExecuteSchedule ==
  /\ Doing("SCHEDULE")
  /\ entry' = [entry EXCEPT ![steps[step].core] = "rom"]
  /\ step' = step + 1
  /\ UNCHANGED << syscallVars, xe, spi, steps, running, image, trapped, status, doneNow >>

(* BootSequenceStepRun: the system runs until a system call or exception   *)
(* stops it, nothing is left to run, or the time is up.                    *)
BeginRun ==
  /\ Doing("RUN") /\ ~running
  /\ doneSyscallsRequired' = steps[step].done
  /\ running' = TRUE
  /\ UNCHANGED << fileVars, doneSyscallsSeen, xe, spi, steps, step, image, entry, trapped, status, doneNow >>

EndRun(result) ==
  /\ trapped' = {} /\ doneNow' = {} /\ running' = FALSE
  /\ status' = IF result # 0 THEN result ELSE status
  /\ step' = step + 1
  /\ UNCHANGED << xe, spi, steps, image, entry >>

Started(c) == entry[c] # "none" /\ c \in trapped

CallDone ==
  /\ running
  /\ \E c \in Cores :
       /\ Started(c)
       /\ doOsCallDone(c)
       /\ IF LastDone(c) THEN EndRun(0)
          ELSE doneNow' = doneNow \cup {c} /\
               UNCHANGED << xe, spi, steps, step, running, image, entry, trapped, status >>

(* exit with 0 is left to the last image: after it execute() goes on to    *)
(* the next step with the done calls of this one still counted.            *)
CallExit ==
  /\ running
  /\ \E c \in Cores, result \in {0, 1} :
       /\ Started(c)
       /\ result = 0 => step = Len(steps)
       /\ EndRun(result)
  /\ UNCHANGED syscallVars

CallFile ==
  /\ running
  /\ \E c \in Cores : Started(c)
  /\ FileCall
  /\ UNCHANGED << xe, spi, steps, step, running, image, entry, trapped, status, doneNow >>

(* An exception, no runnable thread, or a timeout.                         *)
StopRun ==
  /\ running
  /\ EndRun(1)
  /\ UNCHANGED syscallVars

Finish ==
  /\ status = Running /\ step > Len(steps)
  /\ status' = 0
  /\ UNCHANGED << syscallVars, xe, spi, steps, step, running, image, entry, trapped, doneNow >>

BootNext == ExecuteElf \/ ExecuteSchedule \/ BeginRun \/ CallDone \/ CallExit \/ CallFile \/ StopRun \/ Finish

-----------------------------------------------------------------------------
RunsBefore == Cardinality({ i \in 1..(step - 1) : steps[i].type = "RUN" })

(* Without --boot-spi the images run one after the other, each on the      *)
(* cores it is for, loaded with it and started where its ELF says, and     *)
(* with every one of their system calls trapped; a run waits for each of   *)
(* these cores, and for no call of an earlier run, to call done; and       *)
(* success is reported only after the last image.                          *)
(* (BootSequencer::populateFromXE, execute.)                               *)
ImagesRunInOrder ==
  ~spi =>
    /\ running => LET n     == RunsBefore + 1
                      cores == xe.images[n]
                  IN  /\ \A c \in cores : image[c] = n /\ entry[c] = "elf" /\ c \in trapped
                      /\ trapped = cores /\ doneNow = doneSyscallsSeen
                      /\ doneSyscallsRequired = Cardinality(cores \ doneNow)
                      /\ doneSyscallsRequired > 0
    /\ status = 0 => RunsBefore = Len(xe.images)
=============================================================================
