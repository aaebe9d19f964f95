------------------------------- MODULE UartRx -------------------------------
(***************************************************************************)
(* The UART receiver (lib/UartRx.cpp): woken by changes of its pin and,    *)
(* through the scheduler, half a bit after a start edge and then once per  *)
(* bit.  The other end of the wire is a transmitter that the code does not *)
(* control: it sends frames whose bit time may differ from the receiver's, *)
(* short glitches, and breaks.  Times are relative to the present.         *)
(* The constructor sets parity to NONE, so CHECK_PARITY is never entered.  *)
(***************************************************************************)
EXTENDS Integers, Sequences

CONSTANTS BitTime,      \* the receiver's bitTime, in ticks
          TxBitTimes,   \* the bit times of the transmitters it is wired to
          DataBits,     \* numDataBits
          MaxFrames     \* bound: frames, glitches and breaks on the wire

VARIABLES uartState, pin, byte, stops, wake,   \* the receiver
          line, left, txTime,                  \* levels still to send, ticks left
          sent, received, frames
uartVars == << uartState, pin, byte, stops, wake, line, left, txTime, sent, received, frames >>

Asleep   == -1
StopBits == 1

UartInit ==
  /\ uartState = "WAIT_FOR_HIGH" /\ pin = 0 /\ byte = << >> /\ stops = 0 /\ wake = Asleep
  /\ line = << >> /\ left = 0 /\ txTime = BitTime
  /\ sent = << >> /\ received = << >> /\ frames = 0

(* A change of the pin to value.                                           *)
seePinsChange(value) ==
  /\ pin' = value
  /\ uartState' = CASE uartState = "WAIT_FOR_HIGH" /\ value = 1 -> "WAIT_FOR_START"
                    [] uartState = "WAIT_FOR_START" /\ value = 0 -> "CHECK_START"
                    [] OTHER -> uartState
  /\ wake' = IF uartState = "WAIT_FOR_START" /\ value = 0 THEN BitTime \div 2 ELSE wake
  /\ UNCHANGED << byte, stops >>

(* Mutant of CheckStart: the first bit is sampled one bit after the start  *)
(* edge, not one bit after its middle.                                     *)
CheckStartEarly ==
  /\ uartState = "CHECK_START"
  /\ uartState' = IF pin = 0 THEN "RECEIVE" ELSE "WAIT_FOR_START"
  /\ byte' = IF pin = 0 THEN << >> ELSE byte
  /\ UNCHANGED stops
  /\ wake' = IF pin = 0 THEN BitTime \div 2 ELSE Asleep

(* run(), in each of the states in which it is scheduled.                  *)
CheckStart ==
  /\ uartState = "CHECK_START"
  /\ uartState' = IF pin = 0 THEN "RECEIVE" ELSE "WAIT_FOR_START"
  /\ byte' = IF pin = 0 THEN << >> ELSE byte
  /\ UNCHANGED stops
  /\ wake' = IF pin = 0 THEN BitTime ELSE Asleep
Receive ==
  /\ uartState = "RECEIVE"
  /\ byte' = Append(byte, pin)
  /\ uartState' = IF Len(byte') = DataBits THEN "CHECK_STOP" ELSE uartState
  /\ stops' = IF Len(byte') = DataBits THEN 0 ELSE stops
  /\ wake' = BitTime
  /\ UNCHANGED received
CheckStop ==
  /\ uartState = "CHECK_STOP"
  /\ stops' = IF pin = 1 THEN stops + 1 ELSE stops
  /\ uartState' = IF pin = 0 THEN "WAIT_FOR_HIGH"
                  ELSE IF stops' = StopBits THEN "WAIT_FOR_START" ELSE uartState
  /\ received' = IF pin = 1 /\ stops' = StopBits THEN Append(received, byte) ELSE received
  /\ wake' = IF pin = 1 /\ stops' # StopBits THEN BitTime ELSE Asleep
  /\ UNCHANGED byte
UartRun ==
  /\ wake = 0
  /\ \/ CheckStart /\ UNCHANGED received
     \/ Receive
     \/ CheckStop
  /\ UNCHANGED << pin, line, left, txTime, sent, frames >>

-----------------------------------------------------------------------------
(* The transmitter.  Levels are held for txTime ticks each.                *)
DriveNext ==
  /\ line # << >> /\ left = 0
  /\ IF Head(line) = pin THEN UNCHANGED << uartState, pin, byte, stops, wake >>
     ELSE seePinsChange(Head(line))
  /\ line' = Tail(line) /\ left' = txTime
  /\ UNCHANGED << txTime, sent, received, frames >>

Quiet == line = << >> /\ left = 0 /\ frames < MaxFrames

SendByte ==
  /\ Quiet /\ pin = 1
  /\ \E bits \in [1..DataBits -> {0, 1}], t \in TxBitTimes :
       /\ line' = << 0 >> \o bits \o << 1 >>
       /\ txTime' = t
       /\ sent' = Append(sent, bits)
  /\ frames' = frames + 1
  /\ UNCHANGED << uartState, pin, byte, stops, wake, left, received >>

(* The line falls for less than half a bit and is high for a bit after.    *)
Glitch ==
  /\ Quiet /\ pin = 1
  /\ txTime' = BitTime \div 2 - 1
  /\ line' = << 0, 1, 1, 1 >>
  /\ frames' = frames + 1
  /\ UNCHANGED << uartState, pin, byte, stops, wake, left, sent, received >>

(* The line is low for longer than a frame; also the wire at power up.     *)
Break ==
  /\ Quiet
  /\ txTime' = BitTime
  /\ line' = [i \in 1..(DataBits + 3) |-> 0] \o << 1 >>
  /\ frames' = frames + 1
  /\ UNCHANGED << uartState, pin, byte, stops, wake, left, sent, received >>

Tick ==
  /\ wake # 0
  /\ left > 0 \/ (line = << >> /\ wake # Asleep)
  /\ wake' = IF wake = Asleep THEN Asleep ELSE wake - 1
  /\ left' = IF left = 0 THEN 0 ELSE left - 1
  /\ UNCHANGED << uartState, pin, byte, stops, line, txTime, sent, received, frames >>

UartNext == UartRun \/ DriveNext \/ SendByte \/ Glitch \/ Break \/ Tick

(* The bytes written are the bytes sent, in order, whatever glitches and   *)
(* breaks surround them and however far the two bit times are apart within *)
(* TxBitTimes; none is missing when wire and receiver are at rest.         *)
(* (UartRx::seePinsChange, run.)                                           *)
UartReceives ==
  /\ Len(received) <= Len(sent) /\ received = SubSeq(sent, 1, Len(received))
  /\ line = << >> /\ left = 0 /\ wake = Asleep => received = sent
=============================================================================
