---------------------------- MODULE EthernetPhy -----------------------------
(***************************************************************************)
(* The Ethernet PHY (lib/EthernetPhy.cpp) with its receive pins wired back *)
(* to its transmit pins: EthernetPhyRx drives frames from the network on   *)
(* the falling edges of the clock, EthernetPhyTx samples them on the       *)
(* rising edges and hands them back to the network.  A byte has two        *)
(* nibbles of NibbleBits bits; the four CRC bytes are one byte here.  The  *)
(* mask of the code lets the whole byte out on RXD with its low nibble.    *)
(* EthernetPhySMI, the management interface, is in EthernetSMI.            *)
(***************************************************************************)
EXTENDS Integers, Sequences, SequencesExt
LOCAL INSTANCE Bitwise

CONSTANTS Frames,          \* frames the network may deliver
          MinFrameSize,    \* minFrameSize, with CRC
          InterframeGap,   \* in clock periods
          NibbleBits,      \* 4
          SFD1, SFD2,      \* the nibbles 5 and d
          MaxNetFrames, MaxErrors    \* bounds

VARIABLES rxState, rxFrame, nibblesReceived, RXDValue, RX_DV, gap,   \* EthernetPhyRx
          inFrame, hadError, txFrame, txNibbles, txScheduled,        \* EthernetPhyTx
          phase, delivered, transmitted, errors
rxVars  == << rxState, rxFrame, nibblesReceived, RXDValue, RX_DV, gap >>
txVars  == << inFrame, hadError, txFrame, txNibbles, txScheduled >>
phyVars == << rxVars, txVars, phase, delivered, transmitted, errors >>

ByteMod == 2^(2 * NibbleBits)

(* A checksum byte that tells the bytes and their places apart.            *)
FrameCheck(bytes) == FoldLeft(LAMBDA c, b : (3 * c + b + 1) % ByteMod, 0, bytes)

Padded(bytes) ==
  bytes \o [i \in 1..(IF Len(bytes) < MinFrameSize - 1 THEN MinFrameSize - 1 - Len(bytes) ELSE 0) |-> 0]

PhyInit ==
  /\ rxState = "IDLE" /\ rxFrame = << >> /\ nibblesReceived = 0 /\ RXDValue = 0 /\ RX_DV = 0 /\ gap = 0
  /\ inFrame = FALSE /\ hadError = FALSE /\ txFrame = << >> /\ txNibbles = << >>
  /\ txScheduled = FALSE
  /\ phase = "falling" /\ delivered = << >> /\ transmitted = << >> /\ errors = 0

-----------------------------------------------------------------------------
(* The wire between the two, and seeTXDChange and seeTX_ENChange, which    *)
(* the receiver's changes of RXD and RX_DV reach in this order.            *)
possibleSFD(txd, en) == en = 1 /\ txd = SFD2

Wire(rxd, dv) ==
  /\ RXDValue' = rxd /\ RX_DV' = dv
  /\ txScheduled' = (txScheduled \/ (~inFrame /\ \/ rxd # RXDValue /\ possibleSFD(rxd, RX_DV)
                                                 \/ dv # RX_DV /\ possibleSFD(rxd, dv)))

(* EthernetPhyRx::run, in each of its states, on a falling edge.           *)
RxIdle ==
  /\ rxState = "IDLE"
  /\ \/ /\ Len(delivered) < MaxNetFrames
        /\ \E f \in Frames :
             /\ rxFrame' = Padded(f) \o << FrameCheck(Padded(f)) >>
             /\ delivered' = Append(delivered, [frame |-> Padded(f), bad |-> FALSE])
        /\ Wire(SFD1, 1)
        /\ rxState' = "TX_SFD2"
     \/ UNCHANGED << rxFrame, delivered, RXDValue, RX_DV, txScheduled, rxState >>
  /\ UNCHANGED << nibblesReceived, gap >>
RxSFD2 ==
  /\ rxState = "TX_SFD2"
  /\ Wire(SFD2, RX_DV)
  /\ nibblesReceived' = 0
  /\ rxState' = "TX_FRAME"
  /\ UNCHANGED << rxFrame, gap, delivered >>
RxFrame ==
  /\ rxState = "TX_FRAME"
  /\ Wire(rxFrame[(nibblesReceived \div 2) + 1] \div 2^(NibbleBits * (nibblesReceived % 2)), RX_DV)
  /\ nibblesReceived' = nibblesReceived + 1
  /\ rxState' = IF nibblesReceived' = 2 * Len(rxFrame) THEN "TX_EFD" ELSE rxState
  /\ UNCHANGED << rxFrame, gap, delivered >>
RxEFD ==
  /\ rxState = "TX_EFD"
  /\ Wire(0, 0)
  /\ rxState' = "IDLE"
  /\ gap' = InterframeGap - 1
  /\ UNCHANGED << rxFrame, nibblesReceived, delivered >>
RxRun ==
  /\ phase = "falling" /\ gap = 0
  /\ RxIdle \/ RxSFD2 \/ RxFrame \/ RxEFD
  /\ phase' = "rising"
  /\ UNCHANGED << inFrame, hadError, txFrame, txNibbles, transmitted, errors >>
RxWaits ==
  /\ phase = "falling" /\ gap > 0
  /\ gap' = gap - 1 /\ phase' = "rising"
  /\ UNCHANGED << rxState, rxFrame, nibblesReceived, RXDValue, RX_DV, txVars, delivered, transmitted, errors >>

-----------------------------------------------------------------------------
(* transmitFrame: too short frames and frames with a bad CRC are dropped.  *)
TransmitFrame(f) ==
  IF Len(f) < MinFrameSize \/ FrameCheck(Front(f)) # Last(f) THEN transmitted
  ELSE Append(transmitted, Front(f))

(* Mutant of TxEnd: the nibble kept for the next byte survives the frame.  *)
TxEndKeepsNibble ==
  /\ inFrame /\ RX_DV = 0
  /\ transmitted' = IF hadError THEN transmitted ELSE TransmitFrame(txFrame)
  /\ inFrame' = FALSE /\ hadError' = FALSE /\ txFrame' = << >>
  /\ UNCHANGED txNibbles

(* EthernetPhyTx::run, on a rising edge, er being the TX_ER pin.           *)
TxEnd ==
  /\ inFrame /\ RX_DV = 0
  /\ transmitted' = IF hadError THEN transmitted ELSE TransmitFrame(txFrame)
  /\ inFrame' = FALSE /\ hadError' = FALSE /\ txFrame' = << >> /\ txNibbles' = << >>
TxData(er) ==
  /\ inFrame /\ RX_DV = 1
  /\ hadError' = (hadError \/ er)
  /\ IF er THEN UNCHANGED << txFrame, txNibbles >>
     ELSE IF txNibbles = << >> THEN txNibbles' = << RXDValue >> /\ UNCHANGED txFrame
     ELSE /\ txFrame' = Append(txFrame, ((RXDValue * 2^NibbleBits) | Head(txNibbles)) % ByteMod)
          /\ txNibbles' = << >>
  /\ UNCHANGED << inFrame, transmitted >>
TxSFD(er) ==
  /\ ~inFrame
  /\ inFrame' = (RX_DV = 1 /\ RXDValue = SFD2)
  /\ hadError' = IF inFrame' THEN er ELSE hadError
  /\ UNCHANGED << txFrame, txNibbles, transmitted >>
TxRun ==
  /\ phase = "rising" /\ txScheduled
  /\ \E er \in BOOLEAN :
       /\ er => errors < MaxErrors /\ RX_DV = 1
       /\ TxEnd \/ TxData(er) \/ TxSFD(er)
       /\ errors' = IF er THEN errors + 1 ELSE errors
       /\ delivered' = IF er THEN [delivered EXCEPT ![Len(delivered)].bad = TRUE] ELSE delivered
  /\ txScheduled' = (RX_DV = 1)
  /\ phase' = "falling"
  /\ UNCHANGED rxVars
TxSleeps ==
  /\ phase = "rising" /\ ~txScheduled
  /\ phase' = "falling"
  /\ UNCHANGED << rxVars, txVars, delivered, transmitted, errors >>

PhyNext == RxRun \/ RxWaits \/ TxRun \/ TxSleeps

Good(fs) == SelectSeq(fs, LAMBDA f : ~f.bad)

(* Every frame the network delivers comes back to it once, whole and in    *)
(* order, padded to the minimum size, unless an error was signalled while  *)
(* it was on the wire; an errored frame never spoils the one after it.     *)
(* (EthernetPhyRx::run, EthernetPhyTx::run.)                               *)
LoopbackDelivers ==
  LET good == [i \in 1..Len(Good(delivered)) |-> Good(delivered)[i].frame]
  IN  /\ Len(transmitted) <= Len(good)
      /\ transmitted = SubSeq(good, 1, Len(transmitted))
      /\ rxState = "IDLE" /\ phase = "falling" => transmitted = good /\ ~inFrame
=============================================================================
