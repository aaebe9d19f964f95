------------------------------ MODULE SPIFlash ------------------------------
(***************************************************************************)
(* The SPI flash (lib/SPIFlash.cpp), driven by an arbitrary master: the    *)
(* select, clock and data pins change in any order.  Bytes are sequences   *)
(* of ByteLen bits, most significant bit first; an address has AddrBytes   *)
(* of them.                                                                *)
(***************************************************************************)
EXTENDS Integers, Sequences

CONSTANTS ByteLen, AddrBytes, Image,   \* Image: the file, a sequence of bytes
          ReadCmd,                     \* the byte 0x3
          MaxEdges                     \* bound: clock edges since the last select

ASSUME ImageAssumption == Len(Image) > 0

VARIABLES flashState, MISOValue, SCLKValue, SSValue, MOSIValue,
          receiveReg, receivedAddressBytes, readAddress, sendReg, edges,
          heard, shown     \* history: bits clocked in, bits put out since select
flashRegs == << flashState, receiveReg, receivedAddressBytes, readAddress, sendReg >>
flashVars == << flashRegs, MISOValue, SCLKValue, SSValue, MOSIValue, edges, heard, shown >>

(* The number a sequence of bits stands for.                               *)
Number(bits) ==
  LET value[i \in 0..Len(bits)] == IF i = 0 THEN 0 ELSE 2 * value[i - 1] + bits[i]
  IN value[Len(bits)]

flashReset ==
  /\ flashState' = "WAIT_FOR_CMD" /\ receiveReg' = << >> /\ receivedAddressBytes' = 0
  /\ readAddress' = 0 /\ sendReg' = << >>

FlashInit ==
  /\ flashState = "WAIT_FOR_CMD" /\ receiveReg = << >> /\ receivedAddressBytes = 0
  /\ readAddress = 0 /\ sendReg = << >>
  /\ MISOValue = 0 /\ SCLKValue = 0 /\ SSValue = 0 /\ MOSIValue = 0
  /\ edges = 0 /\ heard = << >> /\ shown = << >>

(* What a complete byte does.                                              *)
ReceiveByte(b) ==
  /\ readAddress' = IF flashState = "WAIT_FOR_ADDRESS"
                    THEN readAddress * 2^ByteLen + Number(b) ELSE readAddress
  /\ receivedAddressBytes' = IF flashState = "WAIT_FOR_ADDRESS"
                             THEN receivedAddressBytes + 1 ELSE receivedAddressBytes
  /\ flashState' =
       CASE flashState = "WAIT_FOR_CMD" -> IF b = ReadCmd THEN "WAIT_FOR_ADDRESS" ELSE "UNKNOWN_CMD"
         [] flashState = "WAIT_FOR_ADDRESS" /\ receivedAddressBytes' = AddrBytes -> "READ"
         [] OTHER -> flashState

RisingEdge ==
  /\ LET b == Append(receiveReg, MOSIValue) IN
       IF Len(b) = ByteLen THEN ReceiveByte(b) /\ receiveReg' = << >>
       ELSE receiveReg' = b /\ UNCHANGED << flashState, receivedAddressBytes, readAddress >>
  /\ heard' = Append(heard, MOSIValue)
  /\ UNCHANGED << sendReg, MISOValue, shown >>

(* sendReg holds the sendBitsRemaining bits still to be put out.           *)
FallingEdge ==
  /\ IF flashState = "READ"
     THEN LET load == sendReg = << >>
              reg  == IF load THEN Image[(readAddress % Len(Image)) + 1] ELSE sendReg
          IN  /\ readAddress' = IF load THEN readAddress + 1 ELSE readAddress
              /\ MISOValue' = Head(reg)
              /\ sendReg' = Tail(reg)
              /\ shown' = Append(shown, Head(reg))
     ELSE UNCHANGED << readAddress, MISOValue, sendReg, shown >>
  /\ UNCHANGED << flashState, receiveReg, receivedAddressBytes, heard >>

seeSCLKChange ==
  /\ edges < MaxEdges
  /\ SCLKValue' = 1 - SCLKValue
  /\ edges' = IF SSValue = 0 THEN edges + 1 ELSE edges
  /\ CASE SSValue # 0    -> UNCHANGED << flashRegs, MISOValue, heard, shown >>
       [] SCLKValue' = 1 -> RisingEdge
       [] OTHER          -> FallingEdge
  /\ UNCHANGED << SSValue, MOSIValue >>

(* Mutant of seeSSChange: deselecting leaves the bits of a broken off byte *)
(* behind.                                                                 *)
seeSSChangeKeeps ==
  /\ SSValue' = 1 - SSValue
  /\ IF SSValue' = 1
     THEN flashState' = "WAIT_FOR_CMD" /\ UNCHANGED << receiveReg, receivedAddressBytes, readAddress, sendReg >>
     ELSE UNCHANGED flashRegs
  /\ edges' = 0 /\ heard' = << >> /\ shown' = << >>
  /\ UNCHANGED << MISOValue, SCLKValue, MOSIValue >>

seeSSChange ==
  /\ SSValue' = 1 - SSValue
  /\ IF SSValue' = 1 THEN flashReset ELSE UNCHANGED flashRegs
  /\ edges' = 0 /\ heard' = << >> /\ shown' = << >>
  /\ UNCHANGED << MISOValue, SCLKValue, MOSIValue >>

MOSIChange ==
  /\ MOSIValue' = 1 - MOSIValue
  /\ UNCHANGED << flashRegs, MISOValue, SCLKValue, SSValue, edges, heard, shown >>

FlashNext == seeSCLKChange \/ seeSSChange \/ MOSIChange

(* What a master that read the data sheet expects: the bits heard since    *)
(* select decide the state, and once a read command and its address are in *)
(* the bits of the file follow from that address, wrapping at its end.     *)
FlashByte(i) == SubSeq(heard, (i - 1) * ByteLen + 1, i * ByteLen)
Address      == Number(SubSeq(heard, ByteLen + 1, (1 + AddrBytes) * ByteLen))
FileBit(i)   == Image[((Address + (i - 1) \div ByteLen) % Len(Image)) + 1][((i - 1) % ByteLen) + 1]

(* Whatever the pins did before, a selected flash answers as the bits      *)
(* heard since it was selected say: nothing of a broken off transaction    *)
(* survives deselection, and the pin shows the file bit by bit.            *)
(* (SPIFlash::seeSCLKChange, seeSSChange.)                                 *)
FlashFollowsProtocol ==
  LET whole == Len(heard) \div ByteLen
  IN  /\ flashState = CASE whole = 0                  -> "WAIT_FOR_CMD"
                        [] whole > 0 /\ FlashByte(1) # ReadCmd -> "UNKNOWN_CMD"
                        [] whole \in 1..AddrBytes     -> "WAIT_FOR_ADDRESS"
                        [] OTHER                      -> "READ"
      /\ \A i \in 1..Len(shown) : shown[i] = FileBit(i)
      /\ shown # << >> => MISOValue = shown[Len(shown)]
=============================================================================
