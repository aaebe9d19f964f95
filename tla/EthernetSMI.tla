----------------------------- MODULE EthernetSMI -----------------------------
(***************************************************************************)
(* The management interface of the Ethernet PHY (EthernetPhySMI and        *)
(* EthernetPhyRegisters, lib/EthernetPhy.cpp) and a master that sends it   *)
(* frames: ones for a preamble, two start bits, two of operation, the      *)
(* address of a PHY and of a register, two turnaround bits, then the data. *)
(* The master changes MDIO before a rising edge of MDC.                    *)
(***************************************************************************)
EXTENDS Integers, Sequences

CONSTANTS ShiftBits,     \* width of shiftReg, and of the preamble (32)
          AddrBits,      \* width of the two addresses (5)
          RegBits       \* width of a register (16)

VARIABLES smiState, outputMode, shiftReg, shiftCount, regNum,
          phyAddress,    \* never assigned by the constructor
          MDIO,          \* the level the PHY drives
          written,       \* the last call of EthernetPhyRegisters::write, if any
          edge,          \* the next edge of MDC
          bitsSent, ones, accepted   \* the master: its frame so far, the ones before it
smiVars == << smiState, outputMode, shiftReg, shiftCount, regNum, phyAddress, MDIO, written,
              edge, bitsSent, ones, accepted >>

Header   == 2 + 2 + AddrBits + AddrBits
MgmtLen == Header + 2 + RegBits
AllOnes  == 2^ShiftBits - 1
extractBits(v, shift, size) == (v \div 2^shift) % 2^size
NoWrite  == << >>

SmiInit ==
  /\ smiState = "WAIT_FOR_PREAMBLE" /\ outputMode = FALSE /\ shiftReg = 0
  /\ shiftCount = 0 /\ regNum = 0
  /\ phyAddress \in 0..(2^AddrBits - 1)
  /\ MDIO = 0 /\ written = NoWrite
  /\ edge = "rising" /\ bitsSent = << >> /\ ones = 0 /\ accepted = FALSE

STATUS == 1
LINK_STATUS == 4
readRegister(reg) == IF reg = STATUS THEN LINK_STATUS ELSE 0

-----------------------------------------------------------------------------
(* seeMDCChange on a rising edge, by state; r is shiftReg with the sampled *)
(* bit shifted in.                                                         *)
WaitForPreamble(r) ==
  /\ smiState = "WAIT_FOR_PREAMBLE"
  /\ smiState' = IF r = AllOnes THEN "WAIT_FOR_FRAME_START" ELSE smiState
  /\ UNCHANGED << outputMode, shiftCount, regNum, written >>
WaitForFrameStart(r) ==
  /\ smiState = "WAIT_FOR_FRAME_START"
  /\ IF r % 2 = 0 THEN shiftCount' = 1 /\ smiState' = "FRAME_START"
     ELSE UNCHANGED << shiftCount, smiState >>
  /\ UNCHANGED << outputMode, regNum, written >>
FrameStart(r) ==
  LET phy == extractBits(r, AddrBits, AddrBits)
      operation == extractBits(r, 2 * AddrBits, 2)
      startOfFrame == extractBits(r, 2 * AddrBits + 2, 2)
      ours == startOfFrame = 1 /\ phy \in {0, phyAddress}
  IN  /\ smiState = "FRAME_START"
      /\ IF shiftCount + 1 < Header
         THEN shiftCount' = shiftCount + 1 /\ UNCHANGED << regNum, smiState >>
         ELSE /\ regNum' = extractBits(r, 0, AddrBits)
              /\ smiState' = IF ours /\ operation = 1 THEN "WRITE"
                             ELSE IF ours /\ operation = 2 THEN "READ1" ELSE "WAIT_FOR_PREAMBLE"
              /\ shiftCount' = IF ours /\ operation = 1 THEN 0 ELSE shiftCount + 1
      /\ UNCHANGED << outputMode, written >>

(* Mutant of Write: the turnaround bits are taken for data.                *)
WriteNoTurnaround(r) ==
  /\ smiState = "WRITE"
  /\ shiftCount' = shiftCount + 1
  /\ IF shiftCount' = RegBits
     THEN written' = << regNum, extractBits(r, 0, RegBits) >> /\ smiState' = "WAIT_FOR_PREAMBLE"
     ELSE UNCHANGED << written, smiState >>
  /\ UNCHANGED << outputMode, regNum >>

Write(r) ==
  /\ smiState = "WRITE"
  /\ shiftCount' = shiftCount + 1
  /\ IF shiftCount' = RegBits + 2
     THEN written' = << regNum, extractBits(r, 0, RegBits) >> /\ smiState' = "WAIT_FOR_PREAMBLE"
     ELSE UNCHANGED << written, smiState >>
  /\ UNCHANGED << outputMode, regNum >>
Read1(r) ==
  /\ smiState = "READ1"
  /\ outputMode' = TRUE /\ smiState' = "READ2"
  /\ UNCHANGED << shiftCount, regNum, written >>

seeRising(bit) ==
  IF outputMode THEN UNCHANGED << smiState, outputMode, shiftReg, shiftCount, regNum, written >>
  ELSE LET r == (2 * shiftReg + bit) % 2^ShiftBits
       IN  /\ shiftReg' = r
           /\ \/ WaitForPreamble(r) \/ WaitForFrameStart(r) \/ FrameStart(r)
              \/ Write(r) \/ Read1(r)

(* seeMDCChange on a falling edge, by state.                               *)
Read2 ==
  /\ smiState = "READ2"
  /\ MDIO' = 0 /\ shiftReg' = readRegister(regNum) /\ shiftCount' = 0 /\ smiState' = "READ3"
  /\ UNCHANGED outputMode
Read3 ==
  LET done == shiftCount = RegBits
      r == IF done THEN 0 ELSE shiftReg
  IN  /\ smiState = "READ3"
      /\ outputMode' = ~done /\ smiState' = IF done THEN "WAIT_FOR_PREAMBLE" ELSE smiState
      /\ MDIO' = extractBits(r, RegBits, 1) /\ shiftReg' = (2 * r) % 2^ShiftBits
      /\ shiftCount' = shiftCount + 1
seeFalling ==
  IF outputMode THEN Read2 \/ Read3
  ELSE UNCHANGED << smiState, outputMode, MDIO, shiftReg, shiftCount >>

-----------------------------------------------------------------------------
(* The master: idle ones, then frames whose turnaround bits are 1 and 0.   *)
Sending(bit) ==
  LET idle == Len(bitsSent) \in {0, MgmtLen}
  IN  /\ Len(bitsSent) \in {Header, Header + 1} => bit = Header + 1 - Len(bitsSent)
      /\ bitsSent' = IF ~idle THEN Append(bitsSent, bit) ELSE IF bit = 0 THEN << 0 >> ELSE << >>
      /\ accepted' = IF idle /\ bit = 0 THEN ones = ShiftBits ELSE accepted
      /\ ones' = IF bit = 0 \/ outputMode THEN 0
                 ELSE IF ones < ShiftBits THEN ones + 1 ELSE ones
MDCRises ==
  /\ edge = "rising" /\ edge' = "falling"
  /\ \E bit \in {0, 1} : Sending(bit) /\ seeRising(bit)
  /\ UNCHANGED << phyAddress, MDIO >>
MDCFalls ==
  /\ edge = "falling" /\ edge' = "rising"
  /\ seeFalling
  /\ written' = NoWrite
  /\ UNCHANGED << regNum, phyAddress, bitsSent, ones, accepted >>
SmiNext == MDCRises \/ MDCFalls

-----------------------------------------------------------------------------
Field(first, size) ==
  LET upto[i \in 0..size] == IF i = 0 THEN 0 ELSE 2 * upto[i - 1] + bitsSent[first + i - 1]
  IN  upto[size]
(* The frame carries operation op for this PHY.                            *)
IsFor(op) ==
  /\ accepted /\ Len(bitsSent) >= Header
  /\ Field(1, 2) = 1 /\ Field(3, 2) = op /\ Field(5, AddrBits) \in {0, phyAddress}

(* Whatever frames, good or malformed, for this PHY or another, follow one *)
(* another on MDIO, with whole preambles or short ones: seeMDCChange stays *)
(* in step with the master.  It drives MDIO exactly from the turnaround to *)
(* the last data bit of a read meant for it, writes a register exactly at  *)
(* the last bit of a write meant for it, with that frame's register and    *)
(* data, and after every frame waits for a preamble again.                 *)
SmiInStep ==
  /\ edge = "rising" =>
       /\ outputMode <=> IsFor(2) /\ Len(bitsSent) \in (Header + 1)..(MgmtLen - 1)
       /\ Len(bitsSent) = MgmtLen => smiState = "WAIT_FOR_PREAMBLE"
  /\ edge = "falling" =>
       written = IF IsFor(1) /\ Len(bitsSent) = MgmtLen
                 THEN << Field(5 + AddrBits, AddrBits), Field(Header + 3, RegBits) >> ELSE NoWrite
=============================================================================
