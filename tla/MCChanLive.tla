----------------------------- MODULE MCChanLive -----------------------------
(* Three senders share one destination; its reader waits for events.       *)
EXTENDS ChanLive, TLC

CONSTANTS s1, s2, s3, rd, c1, c2, c3, dst

I(op, c) == [op |-> op, chan |-> c]

Sender(c) == <<I("getr", c), I("setd", c),
               I("out", c), I("outt", c), I("outct_end", c)>>

Reader == <<I("getr", dst), I("eeu", dst),
            I("waiteu", NULL), I("in", dst), I("int", dst), I("chkct_end", dst)>>

Programs == s1 :> Sender(c1) @@ s2 :> Sender(c2) @@ s3 :> Sender(c3) @@ rd :> Reader
Loops == [t \in Thread |-> 3]
Peers == [t \in Thread |-> dst]
=============================================================================
