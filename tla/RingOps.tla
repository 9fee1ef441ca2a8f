------------------------------ MODULE RingOps ------------------------------
(***************************************************************************)
(* The arithmetic of struct dvb_ringbuffer (dvb-core/dvb_ringbuffer.[ch]): *)
(* two indices into an array of Size bytes.  One slot always stays empty,  *)
(* so that pread = pwrite means "empty" and never "full".                  *)
(***************************************************************************)
EXTENDS Integers

CONSTANT Size               \* rbuf->size

(* Every caller passes a positive length to dvb_ringbuffer_init; with one  *)
(* byte nothing fits.                                                      *)
ASSUME SizeAssumption == Size \in Nat /\ Size > 1

Index == 0 .. Size - 1

(* dvb_ringbuffer_empty *)
RbEmpty(pr, pw) == pr = pw

(* The mutated forms: "free" counting the slot that must stay empty, and a *)
(* "free" whose wrap-around test misses the empty buffer.                  *)
RbFreeNoGap(pr, pw) == IF pr - pw <= 0 THEN pr - pw + Size ELSE pr - pw

(* dvb_ringbuffer_free *)
RbFree(pr, pw) ==
  (IF pr - pw <= 0 THEN pr - pw + Size ELSE pr - pw) - 1

(* dvb_ringbuffer_avail *)
RbAvail(pr, pw) == IF pw - pr < 0 THEN pw - pr + Size ELSE pw - pr

(* An unconditional wrap at the end of the array, as a wrong ">=" gives.   *)
RbSplitAlways(p, len) == Size - p

(* The first of the two copies a transfer of len bytes at index p is split *)
(* into, 0 when it does not cross the end of the array.                    *)
RbSplit(p, len) == IF p + len > Size THEN Size - p ELSE 0

(* DVB_RINGBUFFER_SKIP, and the last line of read and write.               *)
RbAdvance(p, n) == (p + n) % Size
=============================================================================
