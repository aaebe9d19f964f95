------------------------------ MODULE Network -------------------------------
(***************************************************************************)
(* The nodes, their links and how a packet finds its way (lib/Node.cpp,    *)
(* PeripheralNode.cpp, ProcessorNode.cpp), and the switch's control        *)
(* registers that programs set them up with (lib/SSwitchCtrlRegs.cpp).     *)
(* A node holds one core, so a node number is all of a node ID; node       *)
(* numbers have NodeBits bits, a direction is 0 or 1.                      *)
(***************************************************************************)
EXTENDS Integers, FiniteSets, FiniteSetsExt

CONSTANTS Nodes, Links,   \* processor nodes; link numbers of a node
          Cable,          \* from <<node, link>> to the link at the other end
          NodeBits, LeapCount,
          StartIDs        \* the IDs the nodes may be given: functions on Nodes

VARIABLE nodes            \* ID, directions and links of each node

NodeIDs    == 0..(2^NodeBits - 1)
Directions == {0, 1}
BitOf(v, i) == (v \div 2^i) % 2

(* The state a node is in when the simulation starts, given its ID.        *)
NewNode(id) ==
  [id |-> id, directions |-> [i \in 0..(NodeBits - 1) |-> 0],
   links |-> [l \in Links |-> [enabled |-> TRUE, fiveWire |-> 0, direction |-> l % 2]]]

NetworkInit == \E ids \in StartIDs : nodes = [n \in Nodes |-> NewNode(ids[n])]

-----------------------------------------------------------------------------
(* XLink::isConnected: both ends are enabled with the same wires.          *)
isConnected(ns, n, l) ==
  /\ ns[n].links[l].enabled
  /\ << n, l >> \in DOMAIN Cable
  /\ LET far == Cable[<< n, l >>]
     IN  /\ ns[far[1]].links[far[2]].enabled
         /\ ns[far[1]].links[far[2]].fiveWire = ns[n].links[l].fiveWire

(* The node a packet for ID d goes to from n, or Lost.  The first enabled  *)
(* link of the direction is used even if it leads nowhere.                 *)
Lost == 0
DifferingBits(a, b) == { i \in 0..(NodeBits - 1) : BitOf(a, i) # BitOf(b, i) }
NextHop(ns, n, d) ==
  LET direction == ns[n].directions[Max(DifferingBits(ns[n].id, d))]
      links     == { l \in Links : ns[n].links[l].enabled /\ ns[n].links[l].direction = direction }
  IN  IF links = {} \/ ~isConnected(ns, n, Min(links)) THEN Lost
      ELSE Cable[<< n, Min(links) >>][1]

(* Mutant of Hop: the tortoise stays at the start, so that a cycle the     *)
(* packet enters further on is never noticed.                              *)
HopNoLeap(ns, d, w) ==
  IF w.over \/ ns[w.at].id = d THEN [w EXCEPT !.over = TRUE]
  ELSE LET next == NextHop(ns, w.at, d)
       IN  IF next = Lost \/ next = w.tortoise THEN [w EXCEPT !.at = Lost, !.over = TRUE]
           ELSE [w EXCEPT !.at = next, !.hops = @ + 1]

(* One turn of the loop of getIncomingChanendDest: Brent's algorithm.      *)
Hop(ns, d, w) ==
  IF w.over \/ ns[w.at].id = d THEN [w EXCEPT !.over = TRUE]
  ELSE LET next == NextHop(ns, w.at, d)
           leap == w.hops + 1 = w.leapCount
       IN  IF next = Lost \/ next = w.tortoise THEN [w EXCEPT !.at = Lost, !.over = TRUE]
           ELSE [w EXCEPT !.at = next, !.hops = @ + 1,
                          !.leapCount = IF leap THEN 2 * @ ELSE @,
                          !.tortoise = IF leap THEN next ELSE @]

MaxTurns == 2 * (Cardinality(Nodes) + LeapCount)
getIncomingChanendDest(ns, n, d) ==
  LET walk[k \in 0..MaxTurns] ==
        IF k = 0 THEN [at |-> n, tortoise |-> n, hops |-> 0, leapCount |-> LeapCount, over |-> FALSE]
        ELSE Hop(ns, d, walk[k - 1])
  IN walk[MaxTurns]

(* The reference: a packet that has not arrived after visiting as many     *)
(* nodes as there are never will.                                          *)
Route(ns, n, d) ==
  LET at[k \in 0..Cardinality(Nodes)] ==
        IF k = 0 THEN n
        ELSE IF at[k - 1] = Lost \/ ns[at[k - 1]].id = d THEN at[k - 1]
        ELSE NextHop(ns, at[k - 1], d)
      last == at[Cardinality(Nodes)]
  IN  IF last # Lost /\ ns[last].id = d THEN last ELSE Lost

-----------------------------------------------------------------------------
(* The control registers.  A register number stands for the registers the  *)
(* code addresses; SLink and XLink have one for each link.                 *)
NODE_ID     == 0
DIRECTION_0 == 1
CLK_DIVIDER == 2
DEVICE_ID3  == 3           \* of the other type of node only
SLINK(l)    == 10 + l
XLINK(l)    == 20 + l
SLinks      == { SLINK(l) : l \in Links }
XLinks      == { XLINK(l) : l \in Links }
Registers   == {NODE_ID, DIRECTION_0, CLK_DIVIDER} \cup SLinks \cup XLinks   \* initRegisters
Readable    == {NODE_ID, DIRECTION_0} \cup XLinks     \* of these, read returns a value

writeXLinkStateReg(node, l, v) ==
  [node EXCEPT !.links[l].fiveWire = BitOf(v, 0), !.links[l].enabled = (BitOf(v, 1) = 1)]
writeXLinkDirectionReg(node, l, v) == [node EXCEPT !.links[l].direction = v % 2]
writeDirectionReg(node, v) == [node EXCEPT !.directions = [i \in DOMAIN @ |-> BitOf(v, i)]]

WriteReg(node, num, v) ==
  CASE num \in SLinks     -> writeXLinkDirectionReg(node, num - 10, v)
    [] num \in XLinks     -> writeXLinkStateReg(node, num - 20, v)
    [] num = DIRECTION_0  -> writeDirectionReg(node, v)
    [] num = NODE_ID      -> [node EXCEPT !.id = v]
    [] OTHER              -> node

readXLinkStateReg(link) == link.fiveWire + 2 * (IF link.enabled THEN 1 ELSE 0)
readDirectionReg(node) == FoldSet(LAMBDA i, v : v + 2^i * node.directions[i], 0, 0..(NodeBits - 1))
ReadReg(node, num) ==
  CASE num \in XLinks     -> readXLinkStateReg(node.links[num - 20])
    [] num = DIRECTION_0  -> readDirectionReg(node)
    [] num = NODE_ID      -> node.id
=============================================================================
