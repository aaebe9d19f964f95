--------------------------- MODULE SyscallHandler ---------------------------
(***************************************************************************)
(* The system calls (lib/SyscallHandler.cpp): the table from the program's *)
(* file numbers to the host's, and the count of "done" calls that ends a   *)
(* run.  The host gives out its lowest free number, as POSIX does.  What   *)
(* files, paths and buffers hold and what a call returns is left out;      *)
(* whether an argument is valid and whether the host call succeeds is a    *)
(* choice.  The calls that concern no file change nothing here.            *)
(***************************************************************************)
EXTENDS Integers, FiniteSets, FiniteSetsExt

CONSTANTS MaxFds,          \* MAX_FDS
          MaxOpens         \* bound: successful opens

(* The constructor fills 0..5.                                             *)
ASSUME MaxFdsAssumption == MaxFds \in Nat /\ MaxFds >= 6

VARIABLES fds,             \* host number of each program file number, or -1
          hostOpen,        \* host numbers in use
          doneSyscallsSeen, doneSyscallsRequired,
          mine, touched, opens  \* history: files the program has open, the one
                                \* the host was last used for
fileVars    == << fds, hostOpen, mine, touched, opens >>
syscallVars == << fileVars, doneSyscallsSeen, doneSyscallsRequired >>

Fds   == 0..(MaxFds - 1)
Fail  == -1
None  == -1
Free(host) == Min((0..(Cardinality(host) + 1)) \ host)

(* 0..2 are duplicates of the standard files, 3..5 stand for the host's 0. *)
SyscallInit ==
  /\ fds = [i \in Fds |-> CASE i < 3 -> i + 3 [] i \in 3..5 -> 0 [] OTHER -> None]
  /\ hostOpen = 0..5
  /\ doneSyscallsSeen = {} /\ doneSyscallsRequired = 1
  /\ mine = {0, 1, 2} /\ touched = None /\ opens = 0

isValidFd(fd) == fd \in Fds /\ fds[fd] # None

getNewFd == IF \E i \in Fds : fds[i] = None THEN Min({ i \in Fds : fds[i] = None }) ELSE Fail

doOsCallOpen(validPath, hostFails) ==
  /\ IF ~validPath \/ getNewFd = Fail \/ hostFails
     THEN UNCHANGED << fds, hostOpen, mine, opens >>
     ELSE /\ opens < MaxOpens
          /\ fds' = [fds EXCEPT ![getNewFd] = Free(hostOpen)]
          /\ hostOpen' = hostOpen \cup {Free(hostOpen)}
          /\ mine' = mine \cup {getNewFd} /\ opens' = opens + 1
  /\ touched' = None

(* Mutant of doOsCallClose: the table keeps the number of a closed file.   *)
doOsCallCloseKeeps(fd, hostFails) ==
  /\ IF ~isValidFd(fd) \/ hostFails
     THEN UNCHANGED << hostOpen, mine >>
     ELSE hostOpen' = hostOpen \ {fds[fd]} /\ mine' = mine \ {fd}
  /\ touched' = None
  /\ UNCHANGED << fds, opens >>

doOsCallClose(fd, hostFails) ==
  /\ IF ~isValidFd(fd) \/ hostFails
     THEN UNCHANGED << fds, hostOpen, mine >>
     ELSE /\ fds' = [fds EXCEPT ![fd] = None]
          /\ hostOpen' = hostOpen \ {fds[fd]}
          /\ mine' = mine \ {fd}
  /\ touched' = None
  /\ UNCHANGED opens

(* read, write and lseek: an invalid file, buffer or whence is refused.    *)
doOsCallFile(fd, validArgument) ==
  /\ touched' = IF isValidFd(fd) /\ validArgument THEN fd ELSE None
  /\ UNCHANGED << fds, hostOpen, mine, opens >>

FileCall ==
  /\ \/ \E valid, ok \in BOOLEAN : doOsCallOpen(valid, ~ok)
     \/ \E fd \in mine, ok \in BOOLEAN : doOsCallClose(fd, ~ok)
     \/ \E fd \in Fds \cup {MaxFds}, valid \in BOOLEAN : doOsCallFile(fd, valid)
  /\ UNCHANGED << doneSyscallsSeen, doneSyscallsRequired >>

(* Mutant of CountsDone: a core that calls done twice counts twice.        *)
CountsDoneTwice(core) == TRUE

CountsDone(core) == core \notin doneSyscallsSeen

(* doOsCallDone: the run ends (over) when enough cores have called.        *)
LastDone(core) == CountsDone(core) /\ doneSyscallsRequired = 1
doOsCallDone(core) ==
  /\ doneSyscallsRequired' = IF CountsDone(core) THEN doneSyscallsRequired - 1 ELSE doneSyscallsRequired
  /\ doneSyscallsSeen' = IF LastDone(core) THEN {} ELSE doneSyscallsSeen \cup {core}
  /\ UNCHANGED fileVars

(* As long as a program closes only what it opened, two of its files never *)
(* share a host file, the host number behind each is still open, and a     *)
(* call reaches the host only for a file that the program has open, or for *)
(* the numbers that stand for the host's standard input.                   *)
(* (SyscallHandler::getNewFd, doOsCallOpen, doOsCallClose.)                *)
FilesDistinct ==
  /\ \A i, j \in mine : fds[i] \in hostOpen /\ (i # j => fds[i] # fds[j])
  /\ touched \in mine \cup {None} \cup 3..5
=============================================================================
