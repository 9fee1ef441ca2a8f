--------------------------- MODULE DvbRingbuffer ---------------------------
(***************************************************************************)
(* dvb_ringbuffer_read, _write and _flush under the discipline note (2) of *)
(* dvb_ringbuffer.h asks for: one writer and one reader, on two CPUs,      *)
(* without a lock.  memcpy and copy_to_user are modelled byte by byte, so  *)
(* every interleaving of a copy with the other side's pointer updates is a *)
(* behaviour.                                                              *)
(*                                                                         *)
(* A byte of the stream is represented by its position in the stream: the  *)
(* n-th byte the producer hands to dvb_ringbuffer_write is the number n.   *)
(***************************************************************************)
EXTENDS RingOps, Sequences

CONSTANTS
  MaxLen,        \* bound: longest single write and longest single read
  MaxStream      \* bound: bytes the producer ever writes

ASSUME BoundsAssumption == MaxLen \in Nat \ {0} /\ MaxStream \in Nat

VARIABLES
  data,          \* rbuf->data
  pread,         \* rbuf->pread
  pwrite,        \* rbuf->pwrite
  wr,            \* the writer's locals, see Idle
  rd,            \* the reader's locals
  produced,      \* ghost: bytes made visible by moving pwrite
  consumed,      \* ghost: bytes given up by moving pread
  ubuf           \* the caller's buffer of the current or last read

ringvars == <<data, pread, pwrite, wr, rd, produced, consumed, ubuf>>

Junk == -1       \* what vmalloc left in the array

(* Locals of a transfer: "split" while the part up to the end of the array *)
(* is copied, "rest" for the part that ends with the pointer update; split *)
(* and todo as in the code, i the bytes of the current part copied so far. *)
Idle == [pc |-> "idle", split |-> 0, todo |-> 0, i |-> 0]

Transfer == [pc : {"idle", "split", "rest"}, split : Nat, todo : Nat, i : Nat]

Begun(p, len) ==
  LET split == RbSplit(p, len) IN
  [pc    |-> IF split > 0 THEN "split" ELSE "rest",
   split |-> split, todo |-> len, i |-> 0]

Wrapped(t) == [t EXCEPT !.pc = "rest", !.todo = @ - t.split, !.split = 0, !.i = 0]

Part(t) == IF t.pc = "split" THEN t.split ELSE t.todo

Init ==
  /\ data = [x \in Index |-> Junk]
  /\ pread = 0 /\ pwrite = 0
  /\ wr = Idle /\ rd = Idle
  /\ produced = 0 /\ consumed = 0
  /\ ubuf = << >>

-----------------------------------------------------------------------------
(* The writer: check dvb_ringbuffer_free, then dvb_ringbuffer_write.       *)

WriteBegin(len) ==
  /\ wr.pc = "idle"
  /\ produced + len <= MaxStream
  /\ len <= RbFree(pread, pwrite)
  /\ wr' = Begun(pwrite, len)
  /\ UNCHANGED <<data, pread, pwrite, rd, produced, consumed, ubuf>>

(* One byte of either memcpy.                                              *)
WriteByte ==
  /\ wr.pc # "idle" /\ wr.i < Part(wr)
  /\ data' = [data EXCEPT ![pwrite + wr.i] = produced + wr.i]
  /\ wr' = [wr EXCEPT !.i = @ + 1]
  /\ UNCHANGED <<pread, pwrite, rd, produced, consumed, ubuf>>

(* "rbuf->pwrite = 0" between the two copies.                              *)
WriteWrap ==
  /\ wr.pc = "split" /\ wr.i = wr.split
  /\ pwrite' = 0
  /\ produced' = produced + wr.split
  /\ wr' = Wrapped(wr)
  /\ UNCHANGED <<data, pread, rd, consumed, ubuf>>

(* Publishing before the second copy is complete: the two statements of    *)
(* the write swapped.                                                      *)
WriteEndEarly ==
  /\ wr.pc = "rest"
  /\ pwrite' = RbAdvance(pwrite, wr.todo)
  /\ produced' = produced + wr.todo
  /\ wr' = Idle
  /\ UNCHANGED <<data, pread, rd, consumed, ubuf>>

(* "rbuf->pwrite = (rbuf->pwrite + todo) % rbuf->size".                    *)
WriteEnd ==
  /\ wr.pc = "rest" /\ wr.i = wr.todo
  /\ pwrite' = RbAdvance(pwrite, wr.todo)
  /\ produced' = produced + wr.todo
  /\ wr' = Idle
  /\ UNCHANGED <<data, pread, rd, consumed, ubuf>>

-----------------------------------------------------------------------------
(* The reader: take at most what dvb_ringbuffer_avail reports, then        *)
(* dvb_ringbuffer_read.                                                    *)

ReadBegin(len) ==
  /\ rd.pc = "idle"
  /\ len <= RbAvail(pread, pwrite)
  /\ rd' = Begun(pread, len)
  /\ ubuf' = << >>
  /\ UNCHANGED <<data, pread, pwrite, wr, produced, consumed>>

(* One byte of either memcpy / copy_to_user.                               *)
ReadByte ==
  /\ rd.pc # "idle" /\ rd.i < Part(rd)
  /\ ubuf' = Append(ubuf, data[pread + rd.i])
  /\ rd' = [rd EXCEPT !.i = @ + 1]
  /\ UNCHANGED <<data, pread, pwrite, wr, produced, consumed>>

(* "rbuf->pread = 0" between the two copies.                               *)
ReadWrap ==
  /\ rd.pc = "split" /\ rd.i = rd.split
  /\ pread' = 0
  /\ consumed' = consumed + rd.split
  /\ rd' = Wrapped(rd)
  /\ UNCHANGED <<data, pwrite, wr, produced, ubuf>>

(* copy_to_user fails half way and the call returns -EFAULT.  What the     *)
(* first copy took is gone: pread has already moved past it.               *)
ReadFault ==
  /\ rd.pc # "idle"
  /\ rd' = Idle /\ ubuf' = << >>
  /\ UNCHANGED <<data, pread, pwrite, wr, produced, consumed>>

(* "rbuf->pread = (rbuf->pread + todo) % rbuf->size".                      *)
ReadEnd ==
  /\ rd.pc = "rest" /\ rd.i = rd.todo
  /\ pread' = RbAdvance(pread, rd.todo)
  /\ consumed' = consumed + rd.todo
  /\ rd' = Idle
  /\ UNCHANGED <<data, pwrite, wr, produced, ubuf>>

(* dvb_ringbuffer_flush: "Flushing the buffer counts as a read operation". *)
Flush ==
  /\ rd.pc = "idle"
  /\ pread' = pwrite
  /\ consumed' = produced
  /\ UNCHANGED <<data, pwrite, wr, rd, produced, ubuf>>

Writer ==
  \/ \E len \in 1 .. MaxLen : WriteBegin(len)
  \/ WriteByte \/ WriteWrap \/ WriteEnd

Reader ==
  \/ \E len \in 1 .. MaxLen : ReadBegin(len)
  \/ ReadByte \/ ReadWrap \/ ReadFault \/ ReadEnd
  \/ Flush

Next == Writer \/ Reader

Spec == Init /\ [][Next]_ringvars

-----------------------------------------------------------------------------
(* pread and pwrite stay inside the array, also in the middle of a         *)
(* transfer that wraps (dvb_ringbuffer_read and _write index data by them).*)
TypeOK ==
  /\ data \in [Index -> Int]
  /\ pread \in Index /\ pwrite \in Index
  /\ wr \in Transfer /\ rd \in Transfer
  /\ produced \in Nat /\ consumed \in Nat
  /\ ubuf \in Seq(Int)

(* Where the byte k places behind pread sits.                              *)
At(k) == IF pread + k < Size THEN pread + k ELSE pread + k - Size

(* The two indices account for exactly the bytes that are between the      *)
(* writer and the reader: nothing is lost, nothing is counted twice, and   *)
(* the buffer never looks empty when it is full (dvb_ringbuffer_avail      *)
(* against dvb_ringbuffer_write).                                          *)
Accounting == produced - consumed = RbAvail(pread, pwrite)

(* Every byte between pread and pwrite is the byte of the stream that      *)
(* belongs there, whatever the writer is copying at the moment: the writer *)
(* neither publishes a byte before it is stored nor stores over one that   *)
(* is still unread.                                                        *)
Contents ==
  \A k \in 0 .. RbAvail(pread, pwrite) - 1 : data[At(k)] = consumed + k

(* A read hands out consecutive bytes of the stream, in order, even when   *)
(* the transfer wraps and the writer runs in the middle of the copy.       *)
ReadsStream ==
  \A a, b \in 1 .. Len(ubuf) : ubuf[b] - ubuf[a] = b - a

-----------------------------------------------------------------------------
(* The inductive invariant.  While a transfer is under way its space or its *)
(* bytes stay reserved for it, because only the other side can move the     *)
(* other index and it can only move it away.                                *)

WriterInv ==
  /\ wr.pc = "split" => /\ wr.split = Size - pwrite
                        /\ wr.split < wr.todo
                        /\ wr.i <= wr.split
  /\ wr.pc = "rest" => pwrite + wr.todo <= Size /\ wr.i <= wr.todo
  /\ wr.pc # "idle" =>
       /\ wr.todo <= RbFree(pread, pwrite)
       /\ \A k \in 0 .. wr.i - 1 : data[pwrite + k] = produced + k

ReaderInv ==
  /\ rd.pc = "split" => /\ rd.split = Size - pread
                        /\ rd.split < rd.todo
                        /\ rd.i <= rd.split
  /\ rd.pc = "rest" => pread + rd.todo <= Size /\ rd.i <= rd.todo
  /\ rd.pc # "idle" =>
       /\ rd.todo <= RbAvail(pread, pwrite)
       /\ \A k \in 1 .. Len(ubuf) :
            ubuf[k] = consumed + rd.i - Len(ubuf) + k - 1

RingInv ==
  TypeOK /\ Accounting /\ Contents /\ WriterInv /\ ReaderInv /\ ReadsStream

-----------------------------------------------------------------------------
(* The refinement mapping: the queue is read out of the array itself.      *)
Stored == [k \in 1 .. RbAvail(pread, pwrite) |-> data[At(k - 1)]]

Queue == INSTANCE ByteQueue WITH Capacity <- Size - 1, next <- produced, queue <- Stored

(* The lock-free ring buffer implements a bounded FIFO of Size - 1 bytes:  *)
(* the bytes between pread and pwrite only ever change at the two ends.    *)
IsByteQueue == Queue!Spec
=============================================================================
