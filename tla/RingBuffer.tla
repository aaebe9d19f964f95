----------------------------- MODULE RingBuffer -----------------------------
(***************************************************************************)
(* ring_buffer<Kind, BufSize> (src/lib/ring_buffer.h), which holds the     *)
(* tokens a channel end has received.  Chanend asks remaining() and size() *)
(* before it pushes and pops.                                              *)
(***************************************************************************)
EXTENDS Integers, Sequences

CONSTANTS BufSize, Kinds,
          UnsignedMod      \* 2^32: what the indices are computed modulo
ASSUME BufSizeAssumption == BufSize \in Nat \ {0} /\ UnsignedMod \in Nat \ {0}

VARIABLES ring, writeIdx, readIdx, numEntries,
          content          \* history: the queue the buffer stands for
ringVars == << ring, writeIdx, readIdx, numEntries, content >>

size      == numEntries
remaining == BufSize - size
full      == numEntries = BufSize
empty     == numEntries = 0
front     == ring[readIdx]
back      == ring[((writeIdx - 1) % UnsignedMod) % BufSize]
At(idx)   == ring[((readIdx + idx) % UnsignedMod) % BufSize]

RingInit ==
  /\ ring \in [0 .. (BufSize - 1) -> Kinds]
  /\ writeIdx = 0 /\ readIdx = 0 /\ numEntries = 0
  /\ content = << >>

push_back(t) ==
  /\ remaining > 0
  /\ ring' = [ring EXCEPT ![writeIdx] = t]
  /\ writeIdx' = (writeIdx + 1) % BufSize
  /\ numEntries' = numEntries + 1
  /\ content' = Append(content, t)
  /\ UNCHANGED readIdx

pop_front ==
  /\ ~empty
  /\ readIdx' = (readIdx + 1) % BufSize
  /\ numEntries' = numEntries - 1
  /\ content' = Tail(content)
  /\ UNCHANGED << ring, writeIdx >>

pop_front_num(num) ==
  /\ num =< size
  /\ readIdx' = (readIdx + num) % BufSize
  /\ numEntries' = numEntries - num
  /\ content' = SubSeq(content, num + 1, Len(content))
  /\ UNCHANGED << ring, writeIdx >>

(* Mutant of clear: the read index stays behind.                           *)
clearStays ==
  /\ numEntries' = 0 /\ content' = << >>
  /\ UNCHANGED << ring, writeIdx, readIdx >>

clear ==
  /\ readIdx' = writeIdx
  /\ numEntries' = 0 /\ content' = << >>
  /\ UNCHANGED << ring, writeIdx >>

RingNext ==
  \/ \E t \in Kinds : push_back(t)
  \/ pop_front
  \/ \E num \in 0 .. BufSize : pop_front_num(num)
  \/ clear

-----------------------------------------------------------------------------
(* Whatever was pushed, popped and cleared, and wherever the indices       *)
(* wrapped, the buffer holds the tokens not yet read in order: size(),     *)
(* full(), front(), back() and operator[] (ring_buffer.h) agree with the   *)
(* queue.                                                                  *)
(* back() rests on 2^32 being a multiple of BufSize, as the index below 0  *)
(* wraps before it is reduced.                                             *)
RingIsQueue ==
  /\ size = Len(content) /\ full = (Len(content) = BufSize)
  /\ \A i \in 1 .. Len(content) : At(i - 1) = content[i]
  /\ ~empty => front = Head(content) /\ back = content[Len(content)]
=============================================================================
