------------------------------ MODULE SSwitch -------------------------------
(***************************************************************************)
(* The system switch (lib/SSwitch.cpp): a channel end that assembles       *)
(* requests token by token, carries them out on the control registers and  *)
(* answers.  Node numbers, channel end numbers, register numbers and data  *)
(* are one token each.  A sender sends the packets of a program: requests, *)
(* whole, cut short, too long, with a control token inside, split by a     *)
(* PAUSE, or with two tokens sent at once.  The channel end an answer goes *)
(* to is free and empty: the code asserts that it is.                      *)
(***************************************************************************)
EXTENDS Network, Sequences

CONSTANTS RegValues,          \* data a program writes to registers
          MaxPackets       \* bound: packets sent

VARIABLES target,          \* the node whose switch is being sent to
          toSend,          \* tokens of the packet still to be sent
          buf, junkIncomingTokens,      \* of that switch
          before, said, answer,        \* history of the last packet
          packets
switchVars == << nodes, target, toSend, buf, junkIncomingTokens, before, said, answer, packets >>

Data(v) == [ctrl |-> FALSE, v |-> v]
Ctrl(v) == [ctrl |-> TRUE, v |-> v]
READC  == Ctrl(0)
WRITEC == Ctrl(1)
END    == Ctrl(2)
PAUSE  == Ctrl(3)
STRAY  == Ctrl(4)
readRequestLength  == 4
writeRequestLength == 5
NoAnswer == [to |-> Lost, kind |-> "none", value |-> 0]

SwitchInit ==
  /\ NetworkInit
  /\ target = Lost /\ toSend = << >> /\ buf = << >> /\ junkIncomingTokens = FALSE
  /\ before = nodes /\ said = << >> /\ answer = NoAnswer /\ packets = 0

-----------------------------------------------------------------------------
IsRequest(b) ==
  /\ b # << >>
  /\ \/ b[1] = READC /\ Len(b) = readRequestLength
     \/ b[1] = WRITEC /\ Len(b) = writeRequestLength
  /\ \A i \in 2..Len(b) : ~b[i].ctrl
parseRequest(b) ==
  [write |-> b[1] = WRITEC, returnNode |-> b[2].v, returnNum |-> b[3].v, regNum |-> b[4].v,
   data |-> IF b[1] = WRITEC THEN b[5].v ELSE 0]

(* A request that names another node than this one as the one to answer is *)
(* acknowledged without being carried out.                                 *)
handleRequest(n, r) ==
  LET mine  == nodes[n].id = r.returnNode
      ack   == ~mine \/ r.regNum \in Registers
      after == IF mine /\ r.write /\ ack THEN [nodes EXCEPT ![n] = WriteReg(@, r.regNum, r.data)] ELSE nodes
      dest  == getIncomingChanendDest(after, n, r.returnNode).at
      value == IF mine /\ ~r.write /\ ack THEN ReadReg(nodes[n], r.regNum) ELSE 0
  IN  /\ nodes' = after
      /\ answer' = IF dest = Lost THEN NoAnswer
                   ELSE [to |-> dest, kind |-> IF ack THEN "ACK" ELSE "NACK", value |-> value]

(* receiveDataToken, receiveDataTokens and the control tokens that are     *)
(* kept.                                                                   *)
Keep(tokens) ==
  /\ LET full == Len(buf) + Len(tokens) > writeRequestLength
     IN  /\ junkIncomingTokens' = (junkIncomingTokens \/ full)
         /\ buf' = IF junkIncomingTokens \/ full THEN buf ELSE buf \o tokens
  /\ said' = said \o tokens
  /\ UNCHANGED << nodes, answer >>

(* Mutant of ReceiveEnd: the junk mark survives the packet it was for.     *)
ReceiveEndKeepsJunk ==
  /\ IF ~junkIncomingTokens /\ IsRequest(buf) THEN handleRequest(target, parseRequest(buf))
     ELSE UNCHANGED nodes /\ answer' = NoAnswer
  /\ buf' = << >> /\ UNCHANGED << said, junkIncomingTokens >>

ReceiveEnd ==
  /\ IF ~junkIncomingTokens /\ IsRequest(buf) THEN handleRequest(target, parseRequest(buf))
     ELSE UNCHANGED nodes /\ answer' = NoAnswer
  /\ buf' = << >> /\ junkIncomingTokens' = FALSE /\ UNCHANGED said

SendToken ==
  /\ toSend # << >>
  /\ CASE Head(toSend) = END   -> ReceiveEnd
       [] Head(toSend) = PAUSE -> UNCHANGED << nodes, buf, junkIncomingTokens, said, answer >>
       [] OTHER                -> Keep(<< Head(toSend) >>)
  /\ toSend' = Tail(toSend)
  /\ UNCHANGED << target, before, packets >>

SendTwo ==
  /\ Len(toSend) > 2 /\ ~toSend[1].ctrl /\ ~toSend[2].ctrl
  /\ Keep(SubSeq(toSend, 1, 2))
  /\ toSend' = SubSeq(toSend, 3, Len(toSend))
  /\ UNCHANGED << target, before, packets >>

-----------------------------------------------------------------------------
(* The packets of programs.                                                *)
Writes(ret) == { << WRITEC, Data(ret), Data(1), Data(r), Data(v) >> : r \in Registers \cup {DEVICE_ID3}, v \in RegValues }
Reads(ret)  == { << READC, Data(ret), Data(1), Data(r) >> : r \in Readable \cup {DEVICE_ID3} }
Spoilt(p)   == { Tail(p), p \o << Data(0) >>, p \o << Data(0), Data(0) >>, << STRAY >> \o p,
                 SubSeq(p, 1, 3) \o << STRAY >> \o SubSeq(p, 4, Len(p)),
                 SubSeq(p, 1, 2) \o << PAUSE >> \o SubSeq(p, 3, Len(p)) }

StartPacket ==
  /\ toSend = << >> /\ packets < MaxPackets
  /\ \E n \in Nodes :
       /\ target' = n
       /\ LET own   == nodes[n].id
              other == (own + 1) % 2^NodeBits
              write == << WRITEC, Data(own), Data(1), Data(NODE_ID), Data(0) >>
          IN  \E p \in Writes(own) \cup Reads(own) \cup Spoilt(write) \cup
                       {[write EXCEPT ![2] = Data(other)], << READC, Data(other), Data(1), Data(NODE_ID) >>} :
                toSend' = p \o << END >>
  /\ before' = nodes /\ said' = << >> /\ answer' = NoAnswer
  /\ packets' = packets + 1
  /\ UNCHANGED << nodes, buf, junkIncomingTokens >>

SwitchNext == StartPacket \/ SendToken \/ SendTwo

(* However programs set up the switches, the search for a packet's         *)
(* destination ends, finds the destination if the links lead there, and    *)
(* drops the packet exactly if they do not or lead it in a circle.         *)
(* (Node::getIncomingChanendDest.)                                         *)
RoutesSound ==
  toSend = << >> /\ packets > 0 => \A n \in Nodes, d \in NodeIDs :
    LET w == getIncomingChanendDest(nodes, n, d) IN w.over /\ w.at = Route(nodes, n, d)

(* A packet that is a request, however its tokens arrived, is answered     *)
(* once, to the channel end it names as the network is after the request,  *)
(* and only requests from the switch's own node change its registers; any  *)
(* other packet changes and answers nothing, and spoils no later packet.   *)
(* (SSwitch::receiveDataToken, receiveCtrlToken, handleRequest.)           *)
SwitchAnswers ==
  toSend = << >> /\ packets > 0 =>
    LET request == IsRequest(said)
        r       == parseRequest(said)
        mine    == before[target].id = r.returnNode
        known   == r.regNum \in Registers
        dest    == Route(nodes, target, r.returnNode)
    IN  IF ~request THEN nodes = before /\ answer = NoAnswer
        ELSE /\ nodes = IF mine /\ r.write /\ known
                        THEN [before EXCEPT ![target] = WriteReg(@, r.regNum, r.data)] ELSE before
             /\ answer.to = dest
             /\ dest # Lost => answer.kind = IF ~mine \/ known THEN "ACK" ELSE "NACK"
             /\ dest # Lost /\ mine /\ known /\ ~r.write => answer.value = ReadReg(nodes[target], r.regNum)
=============================================================================
