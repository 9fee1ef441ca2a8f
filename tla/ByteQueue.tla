----------------------------- MODULE ByteQueue -----------------------------
(***************************************************************************)
(* What a dvb_ringbuffer promises its two users: a bounded FIFO of bytes.  *)
(* Bytes are the successive numbers of the stream.                         *)
(***************************************************************************)
EXTENDS Naturals, Sequences

CONSTANT Capacity

VARIABLES queue, next

Init == queue = << >> /\ next = 0

(* The producer appends the next n bytes of the stream, all at once.       *)
Put ==
  \E n \in 1 .. Capacity - Len(queue) :
    /\ queue' = queue \o [k \in 1 .. n |-> next + k - 1]
    /\ next' = next + n

(* The consumer removes bytes from the front, and only from the front.     *)
Take ==
  \E n \in 1 .. Len(queue) :
    /\ queue' = SubSeq(queue, n + 1, Len(queue))
    /\ UNCHANGED next

Next == Put \/ Take

Spec == Init /\ [][Next]_<<queue, next>>
=============================================================================
