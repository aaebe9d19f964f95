----------------------------- MODULE MCDevices ------------------------------
(***************************************************************************)
(* What is around the cores: peripherals, wires, switches and the boot     *)
(* sequencer.  They interact only through pins, links and programs, which  *)
(* are left open: each initial state selects one of them, and the others   *)
(* stay as they start.                                                     *)
(***************************************************************************)
EXTENDS UartRx, SPIFlash, SDRAM, PS2Keyboard, LCDScreen, EthernetPhy, EthernetSMI,
        SSwitch, Boot, Plumbing

VARIABLE part

Parts == {"uart", "flash", "sdram", "kbd", "lcd", "phy", "smi", "switch", "boot", "wires"}

(* The part selected starts in any of its initial states, the others in    *)
(* one of theirs.                                                          *)
DevicesInit ==
  /\ part \in Parts
  /\ UartInit /\ FlashInit /\ SdramInit /\ KbdInit
  /\ LcdInit /\ (part # "lcd" => blank = CHOOSE b \in VerticalBlank : TRUE)
  /\ PhyInit
  /\ SmiInit /\ (part # "smi" => phyAddress = 0)
  /\ SwitchInit
  /\ BootInit /\ (part # "boot" => xe = (CHOOSE f \in XEs : TRUE) /\ ~spi)
  /\ PlumbInit /\ (part # "wires" => wires = CHOOSE w \in WireOrders : TRUE)

DevicesNext ==
  /\ part' = part
  /\ IF part = "uart" THEN UartNext ELSE UNCHANGED uartVars
  /\ IF part = "flash" THEN FlashNext ELSE UNCHANGED flashVars
  /\ IF part = "sdram" THEN SdramNext ELSE UNCHANGED sdramVars
  /\ IF part = "kbd" THEN KbdNext ELSE UNCHANGED kbdVars
  /\ IF part = "lcd" THEN LcdNext ELSE UNCHANGED lcdVars
  /\ IF part = "phy" THEN PhyNext ELSE UNCHANGED phyVars
  /\ IF part = "smi" THEN SmiNext ELSE UNCHANGED smiVars
  /\ IF part = "switch" THEN SwitchNext ELSE UNCHANGED switchVars
  /\ IF part = "boot" THEN BootNext ELSE UNCHANGED bootVars
  /\ IF part = "wires" THEN PlumbNext ELSE UNCHANGED plumbVars

deviceVars == << part, uartVars, flashVars, sdramVars, kbdVars, lcdVars,
                 phyVars, smiVars, switchVars, bootVars, plumbVars >>
DevicesSpec == DevicesInit /\ [][DevicesNext]_deviceVars

-----------------------------------------------------------------------------
(* Values of the constants.                                                *)
MCImage == << <<0, 1>>, <<1, 0>>, <<1, 1>> >>
MCReadCmd == <<1, 0>>
MCE0 == <<0, 1>>
MCF0 == <<1, 1>>
MCPlain == { <<1, 0>> }
MCExtended == { <<0, 0>> }
MCGrave == <<0, 0>>
MCPauseCode == << <<0, 0>>, <<1, 0>>, <<1, 1>> >>
MCPrintScreenCode == << <<0, 0>>, <<0, 1>>, <<1, 0>> >>
MCPrintScreenUp == << <<0, 1>>, <<1, 1>>, <<1, 0>> >>
MCFrames == { <<13>>, <<15, 6, 12>>, <<14, 3>> }
(* A ring: link 0 of a node leads to link 1 of the next.                   *)
MCCable == [e \in Nodes \X Links |-> IF e[2] = 0 THEN << (e[1] % 3) + 1, 1 >>
                                     ELSE << ((e[1] + 1) % 3) + 1, 0 >>]
MCStartIDs == { <<0, 1, 3>> }

MCPortWidth == [f |-> 2, g |-> 1, h |-> 1, b |-> 4, c |-> 1, d |-> 1]
(* Ports f, g and h drive b; f also drives c, and g drives d.              *)
WireTo(f, b, e, t, a) == [from |-> f, begin |-> b, end |-> e, to |-> t, at |-> a]
WiresF == << WireTo("f", 0, 2, "b", 0), WireTo("f", 1, 2, "c", 0) >>
WiresG == << WireTo("g", 0, 1, "b", 2), WireTo("g", 0, 1, "d", 0) >>
WiresH == << WireTo("h", 0, 1, "b", 3) >>
MCWireOrders == { v \o w \o WiresH : v \in {WiresF, Reverse(WiresF)}, w \in {WiresG, Reverse(WiresG)} }

(* XE files: the ELF sectors of an image in any order, then the calls, or  *)
(* in the last image the gotos, in any order.                              *)
Orders(S) == { o \in [1 .. Cardinality(S) -> S] : IsInjective(o) }
SectorsOf(S, n, last) ==
  { [k \in DOMAIN e |-> [type |-> "ELF", core |-> e[k], image |-> n]]
      \o [k \in DOMAIN c |-> [type |-> IF last THEN "GOTO" ELSE "CALL", core |-> c[k], image |-> n]]
    : e \in Orders(S), c \in Orders(S) }
Files(images) ==
  LET upto[n \in 0 .. Len(images)] ==
        IF n = 0 THEN { << >> }
        ELSE { s \o t : s \in upto[n - 1], t \in SectorsOf(images[n], n, n = Len(images)) }
  IN  { [images |-> images, sectors |-> s] : s \in upto[Len(images)] }
MCXEs == UNION { Files(i) : i \in { << {1, 2}, {2} >>, << {1}, {1}, {1} >> } }
=============================================================================
