---------------------------- MODULE PS2Keyboard -----------------------------
(***************************************************************************)
(* The PS/2 keyboard (lib/PS2Keyboard.cpp): key events, delivered by the   *)
(* SDL poller between any two steps of the simulation, queue bytes that    *)
(* the device shifts out bit by bit, one frame after the other.  A byte is *)
(* a sequence of ByteWidth bits, least significant first.                  *)
(***************************************************************************)
EXTENDS Integers, Sequences, SequencesExt

CONSTANTS ByteWidth,
          E0, F0,          \* the prefix bytes 0xe0 and 0xf0
          Plain, Extended, \* the last code bytes of plain and of e0 keys
          Grave,           \* the byte 0x0e, the code of the grave key
          PauseCode, PrintScreenCode, PrintScreenUp,
          MaxEvents        \* bound: key events

VARIABLES initialized, pendingBytes,
          shift,           \* data: the bitsRemaining bits still to be sent
          kbdScheduled,    \* run() is in the scheduler
          wire, typed, events    \* history: bits on DATA, bytes queued
kbdVars == << initialized, pendingBytes, shift, kbdScheduled, wire, typed, events >>

KbdInit ==
  /\ initialized = FALSE /\ pendingBytes = << >> /\ shift = << >> /\ kbdScheduled = TRUE
  /\ wire = << >> /\ typed = << >> /\ events = 0

(* scanCodeMap: the bytes of a key, by the kind of key.                    *)
scanCodes ==
  { << k >> : k \in Plain \cup { Grave } } \cup { << E0, k >> : k \in Extended }
    \cup { PauseCode, PrintScreenCode }

(* What a key going up sends: nothing for pause, a code of its own for     *)
(* print screen, else F0 and the code.  F0 comes second only for a code    *)
(* that begins with 0xe, not with the prefix 0xe0.                         *)
breakCode(code) ==
  CASE code = PauseCode       -> << >>
    [] code = PrintScreenCode -> PrintScreenUp
    [] code = << Grave >>     -> << Grave, F0 >>
    [] OTHER                  -> << F0 >> \o code

Parity(b) == FoldSeq(LAMBDA bit, p : (bit + p) % 2, 0, b)

Framed(b) == << 0 >> \o b \o << Parity(b), 1 >>

(* getMoreData and startTransmittingByte on the queue q.                   *)
tryToTransmitNextByte(q) ==
  IF q = << >> THEN pendingBytes' = q /\ shift' = << >> /\ kbdScheduled' = FALSE
  ELSE pendingBytes' = Tail(q) /\ shift' = Framed(Head(q)) /\ kbdScheduled' = TRUE

(* Mutant of notifyDataAvailable: a key pressed while a byte is being sent *)
(* starts the next byte at once.                                           *)
notifyDataAvailableAtOnce(q) ==
  IF ~initialized THEN pendingBytes' = q /\ UNCHANGED << shift, kbdScheduled >>
  ELSE tryToTransmitNextByte(q)

notifyDataAvailable(q) ==
  IF ~initialized \/ shift # << >> THEN pendingBytes' = q /\ UNCHANGED << shift, kbdScheduled >>
  ELSE tryToTransmitNextByte(q)

eventCallback ==
  /\ events < MaxEvents
  /\ \E code \in scanCodes, up \in BOOLEAN :
       LET bytes == IF up THEN breakCode(code) ELSE code
       IN  /\ bytes # << >>
           /\ notifyDataAvailable(pendingBytes \o bytes)
           /\ typed' = typed \o bytes
  /\ events' = events + 1
  /\ UNCHANGED << initialized, wire >>

(* run(), first to start the clock, then once per bit.                     *)
KbdStart ==
  /\ kbdScheduled /\ ~initialized
  /\ initialized' = TRUE
  /\ tryToTransmitNextByte(pendingBytes)
  /\ UNCHANGED << wire, typed, events >>
KbdBit ==
  /\ kbdScheduled /\ initialized
  /\ wire' = Append(wire, Head(shift))
  /\ IF Len(shift) > 1
     THEN shift' = Tail(shift) /\ UNCHANGED << pendingBytes, kbdScheduled >>
     ELSE tryToTransmitNextByte(pendingBytes)
  /\ UNCHANGED << initialized, typed, events >>

KbdNext == eventCallback \/ KbdStart \/ KbdBit

FrameLen == ByteWidth + 3

(* The frames on the wire, with what is still to be sent of the current    *)
(* one, carry the bytes the keys queued, in order and each with its start, *)
(* parity and stop bit; the rest is still queued; and while anything is to *)
(* be sent the device is scheduled, so that no byte waits for the next key.*)
(* (PS2Keyboard::eventCallback, PS2Device::notifyDataAvailable, run.)      *)
KeyboardKeepsBytes ==
  LET bits == wire \o shift
      n    == Len(bits) \div FrameLen
  IN  /\ Len(bits) % FrameLen = 0
      /\ bits = FlattenSeq([i \in 1..n |-> Framed(typed[i])])
      /\ typed = SubSeq(typed, 1, n) \o pendingBytes
      /\ shift # << >> \/ pendingBytes # << >> => kbdScheduled
=============================================================================
