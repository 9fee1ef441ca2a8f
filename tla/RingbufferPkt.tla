--------------------------- MODULE RingbufferPkt ---------------------------
(***************************************************************************)
(* The packet calls of dvb_ringbuffer.c, as the CA layer uses them for the *)
(* rx_buffer of a slot: the kernel thread writes with                      *)
(* dvb_ringbuffer_pkt_write, a user process walks the packets with         *)
(* pkt_next, reads them with pkt_read and gives back any of them, in any   *)
(* order, with pkt_dispose.                                                *)
(*                                                                         *)
(* A cell of the array is a pair kind, value: a packet is two length cells *)
(* (high byte 0: the model's packets are short), a status cell and the     *)
(* payload.  Payload cell k of packet n is <<"payload", <<n, k>>>>.        *)
(*                                                                         *)
(* Neither side takes a lock, so the reader runs in the middle of a write  *)
(* as well.  A call of the reader is one step: the writer only ever moves  *)
(* pwrite forward and does not touch what is published, so that pkt_next   *)
(* finds what it would find at its last look at pwrite, and pkt_dispose    *)
(* skips the same packets wherever pwrite has got to.  This holds until    *)
(* the reader is astray; the model does not follow it any further.         *)
(***************************************************************************)
EXTENDS RingOps, Sequences, FiniteSetsExt

CONSTANTS
  Word,          \* 2^32 or 2^64: idx - pread is computed as an unsigned word
  MinLen, MaxLen,\* payload lengths; dvb_ca_en50221_read_data sends 2 or more
  MaxPackets     \* bound: packets written

ASSUME PktConstants ==
  /\ Word \in Nat /\ Word >= Size
  /\ MinLen \in Nat /\ MaxLen \in Nat /\ MinLen <= MaxLen /\ MaxLen + 3 < Size
  /\ Word % Size < MinLen /\ MaxPackets \in Nat

VARIABLES
  data, pread, pwrite,
  wr,            \* the writer: packet n of len bytes, done cells written
  cur,           \* the reader's idx, or -1
  live,          \* ghost: the packets written and not disposed of
  where,         \* ghost: the index at which a packet was written
  astray         \* history: pkt_next took the end of the ring for a packet,
                 \*   or a packet was given back while it was being written

pktvars == <<data, pread, pwrite, wr, cur, live, where, astray>>

PKTHDRSIZE == 3

Junk == <<"junk", 0>>
Ready == <<"status", "ready">>
Disposed == <<"status", "disposed">>

PktInit ==
  /\ data = [x \in Index |-> Junk] /\ pread = 0 /\ pwrite = 0
  /\ wr = [n |-> 0, len |-> 0, done |-> 0, busy |-> FALSE]
  /\ cur = -1 /\ live = {} /\ where = << >> /\ astray = FALSE

-----------------------------------------------------------------------------
(* dvb_ringbuffer_pkt_write                                                *)

(* read_data has checked the space before it talked to the CAM.            *)
PktWrite(len) ==
  /\ ~wr.busy /\ wr.n < MaxPackets
  /\ RbFree(pread, pwrite) >= MaxLen + PKTHDRSIZE
  /\ wr' = [n |-> wr.n + 1, len |-> len, done |-> 0, busy |-> TRUE]
  /\ where' = Append(where, pwrite)
  /\ UNCHANGED <<data, pread, pwrite, cur, live, astray>>

(* DVB_RINGBUFFER_WRITE_BYTE, three times.                                 *)
PktWriteHeader ==
  /\ wr.busy /\ wr.done < PKTHDRSIZE
  /\ data' = [data EXCEPT ![pwrite] = CASE wr.done = 0 -> <<"len", 0>>
                                        [] wr.done = 1 -> <<"len", wr.len>>
                                        [] wr.done = 2 -> Ready]
  /\ pwrite' = RbAdvance(pwrite, 1)
  /\ wr' = [wr EXCEPT !.done = @ + 1]
  /\ UNCHANGED <<pread, cur, live, where, astray>>

(* dvb_ringbuffer_write: the part up to the end of the array and the       *)
(* update pwrite = 0 first, then the rest.                                 *)
PktWriteBody ==
  /\ wr.busy /\ wr.done >= PKTHDRSIZE
  /\ LET from  == wr.done - PKTHDRSIZE
         todo  == wr.len - from
         split == RbSplit(pwrite, todo)
         n     == IF split > 0 THEN split ELSE todo
     IN /\ data' = [x \in Index |-> IF x >= pwrite /\ x < pwrite + n
                                    THEN <<"payload", <<wr.n, from + x - pwrite + 1>> >>
                                    ELSE data[x]]
        /\ pwrite' = RbAdvance(pwrite, n)
        /\ wr' = [wr EXCEPT !.done = @ + n, !.busy = (n < todo)]
        /\ live' = IF n = todo THEN live \union {wr.n} ELSE live
  /\ UNCHANGED <<pread, cur, where, astray>>

-----------------------------------------------------------------------------
(* The reader.                                                             *)

PktLen(d, idx) ==
  LET c == d[(idx + 1) % Size] IN IF c[1] = "len" THEN c[2] ELSE 0

Status(d, idx) == d[(idx + 2) % Size]

After(d, idx) == (idx + PktLen(d, idx) + PKTHDRSIZE) % Size

(* The distance computed without the modulus of the buffer.                *)
ConsumedUnreduced(idx, pr) == IF idx >= pr THEN idx - pr ELSE 0

(* "consumed = (idx - rbuf->pread) % rbuf->size", idx being unsigned.      *)
Consumed(idx, pr) == (IF idx >= pr THEN idx - pr ELSE Word + idx - pr) % Size

(* dvb_ringbuffer_pkt_next: the first packet from idx on that is ready.    *)
Search(idx) ==
  LET avail == RbAvail(pread, pwrite)
      found[q \in Index \X Nat] ==       \* q is idx, consumed
        IF avail - q[2] <= PKTHDRSIZE THEN -1
        ELSE IF Status(data, q[1]) = Ready THEN q[1]
        ELSE found[<<After(data, q[1]), q[2] + PktLen(data, q[1]) + PKTHDRSIZE>>]
  IN found[<<idx, Consumed(idx, pread)>>]

PktNext(idx) == Search(IF idx = -1 THEN pread ELSE After(data, idx))

(* When the ring is so full that the error in consumed carries it over the *)
(* size, the end of the ring looks like its beginning.                     *)
Strays(idx) ==
  idx # -1 /\ Consumed(After(data, idx), pread) < RbAvail(pread, After(data, idx))

(* SKIP by the payload alone.                                              *)
SkipDisposedShort(d, pr) ==
  IF Status(d, pr) = Disposed THEN (pr + PktLen(d, pr)) % Size ELSE pr

(* The clean-up of dvb_ringbuffer_pkt_dispose: skip disposed packets.      *)
SkipDisposed(d, pr) ==
  LET first[p \in Index] ==
        IF RbAvail(p, pwrite) > PKTHDRSIZE /\ Status(d, p) = Disposed
        THEN first[After(d, p)] ELSE p
  IN first[pr]

(* The packet being written, when pkt_next takes it for one: its header is *)
(* complete and a part of the payload, up to the end of the array, is      *)
(* published.                                                              *)
Arriving == IF wr.busy /\ wr.done > PKTHDRSIZE THEN {wr.n} ELSE {}

PktFirst ==
  /\ ~astray /\ cur = -1
  /\ cur' = PktNext(-1) /\ cur' # -1
  /\ UNCHANGED <<data, pread, pwrite, wr, live, where, astray>>

(* Leave the packet where it is.                                           *)
PassBy ==
  /\ ~astray /\ cur # -1
  /\ cur' = PktNext(cur) /\ astray' = Strays(cur)
  /\ UNCHANGED <<data, pread, pwrite, wr, live, where>>

(* dvb_ringbuffer_pkt_dispose: mark the packet, then give the space of the *)
(* leading disposed packets back.                                          *)
Marked == [data EXCEPT ![(cur + 2) % Size] = Disposed]
DisposeCurrent == data' = Marked /\ pread' = SkipDisposed(Marked, pread)

(* Read the packet and dispose of it; the next one is looked up before, as *)
(* in dvb_ca_en50221_io_read.                                              *)
PktTake ==
  /\ ~astray /\ cur # -1 /\ \A n \in Arriving : where[n] # cur
  /\ cur' = PktNext(cur) /\ astray' = Strays(cur)
  /\ DisposeCurrent
  /\ live' = {n \in live : where[n] # cur}
  /\ UNCHANGED <<pwrite, wr, where>>

(* The same with a packet that is being written.  If the clean-up gets to  *)
(* it, it skips beyond pwrite and goes on over old cells, maybe for ever:  *)
(* it is not followed.                                                     *)
PktTakeEarly ==
  /\ ~astray /\ \E n \in Arriving : where[n] = cur
  /\ data' = Marked /\ astray' = TRUE
  /\ UNCHANGED <<pread, pwrite, wr, cur, live, where>>

PktStep ==
  \/ \E len \in MinLen .. MaxLen : PktWrite(len)
  \/ PktWriteHeader \/ PktWriteBody
  \/ PktFirst \/ PassBy \/ PktTake \/ PktTakeEarly

PktSpec == PktInit /\ [][PktStep]_pktvars

-----------------------------------------------------------------------------
(* What pkt_read copies out at idx.                                        *)
PktRead(idx) ==
  [k \in 1 .. PktLen(data, idx) |-> data[(idx + PKTHDRSIZE + k - 1) % Size]]

(* Note (2) of dvb_ringbuffer.h, "If there is exactly one reader and one   *)
(* writer, there is no need to lock read or write operations": what        *)
(* pkt_next returned is a packet that was written completely and has not   *)
(* been given back.  The code does not keep this: the status cell says     *)
(* PKT_READY before the payload is there (dvb_ringbuffer.c:164).           *)
PacketWhole ==
  cur # -1 /\ ~astray =>
    \E n \in live :
      /\ where[n] = cur
      /\ PktRead(cur) = [k \in 1 .. PktLen(data, cur) |-> <<"payload", <<n, k>> >>]
      /\ PktLen(data, cur) >= MinLen

(* How much of the payload of a packet is there.                           *)
Stored(n) == IF n \in live THEN PktLen(data, where[n]) ELSE wr.done - PKTHDRSIZE

(* What pkt_next returned without a lock is never old data: it is a packet *)
(* that has not been given back, whole, or the one that is being written,  *)
(* with its final length and the part of its payload that is published.    *)
PacketMet ==
  cur # -1 /\ ~astray =>
    \E n \in live \union Arriving :
      /\ where[n] = cur
      /\ PktLen(data, cur) \in MinLen .. MaxLen /\ Stored(n) <= PktLen(data, cur)
      /\ \A k \in 1 .. Stored(n) : PktRead(cur)[k] = <<"payload", <<n, k>> >>

(* Where a walk may stop that has these packets still before it: at the    *)
(* oldest; if there is none, at the packet that is being written or not at *)
(* all.                                                                    *)
FirstOf(packets) ==
  IF packets = {} THEN {-1} \union {where[n] : n \in Arriving} ELSE {where[Min(packets)]}

(* A walk over the buffer, also in the middle of a write, finds every      *)
(* packet that was written and not disposed of, oldest first, whichever    *)
(* were disposed of before and although "consumed" is off by Word % Size   *)
(* whenever idx has wrapped and pread has not: unless less than that is    *)
(* free.                                                                   *)
WalkFindsAll ==
  ~astray /\ RbFree(pread, pwrite) >= Word % Size =>
    /\ PktNext(-1) \in FirstOf(live)
    /\ \A n \in live : PktNext(where[n]) \in FirstOf({m \in live : m > n})

(* The walk meets every packet, in order, and no other.                    *)
WalkRight == PacketMet /\ WalkFindsAll

(* The space of disposed packets comes back, also while another packet is  *)
(* being written: pread stands at the oldest packet that is still live, or *)
(* at the one that is being written, or at the end.                        *)
SpaceReclaimed ==
  ~astray =>
    pread = IF live # {} THEN where[Min(live)] ELSE IF wr.busy THEN where[wr.n] ELSE pwrite

-----------------------------------------------------------------------------
(* The inductive invariant.                                                *)

Cells ==
  {Junk, Ready, Disposed} \union {<<"len", k>> : k \in Nat}
    \union {<<"payload", p>> : p \in Nat \X Nat}

PktTypes ==
  /\ data \in [Index -> Cells] /\ pread \in Index /\ pwrite \in Index
  /\ wr \in [n : Nat, len : Nat, done : Nat, busy : BOOLEAN]
  /\ where \in Seq(Index) /\ Len(where) = wr.n
  /\ cur \in Index \union {-1} /\ live \subseteq 1 .. wr.n

(* The packets in the ring are Base .. Top - 1, one behind the other from  *)
(* pread on; Top is the one being written, or the next one.                *)
Top == IF wr.busy THEN wr.n ELSE wr.n + 1
Base == IF live = {} THEN Top ELSE Min(live)
Pos(n) == IF n = Top /\ ~wr.busy THEN pwrite ELSE where[n]
Off(n) == RbAvail(pread, Pos(n))
PktEnd(n) == Off(n) + PKTHDRSIZE + PktLen(data, where[n])

PktWhole(n) ==
  /\ PktLen(data, where[n]) \in MinLen .. MaxLen
  /\ Status(data, where[n]) = IF n \in live THEN Ready ELSE Disposed
  /\ \A k \in 1 .. PktLen(data, where[n]) :
       data[(where[n] + PKTHDRSIZE + k - 1) % Size] = <<"payload", <<n, k>> >>

LayoutInv ==
  /\ live \subseteq Base .. Top - 1 /\ Pos(Base) = pread
  /\ \A n \in Base .. Top - 1 : PktWhole(n) /\ Off(n + 1) = PktEnd(n)
  /\ \A m, n \in Base .. Top : m < n => PktEnd(m) <= Off(n)

(* What has been written of the packet Top.                                *)
PartInv ==
  wr.busy =>
    /\ wr.n > 0 /\ wr.len \in MinLen .. MaxLen /\ wr.done <= wr.len + PKTHDRSIZE
    /\ Off(Top) + wr.len + PKTHDRSIZE < Size
    /\ RbAvail(pread, pwrite) = Off(Top) + wr.done
    /\ wr.done >= 2 => PktLen(data, where[Top]) = wr.len
    /\ wr.done >= 3 => Status(data, where[Top]) = Ready
    /\ \A k \in 1 .. wr.len : k <= wr.done - PKTHDRSIZE =>
         data[(where[Top] + PKTHDRSIZE + k - 1) % Size] = <<"payload", <<Top, k>> >>

CurInv == cur # -1 => \E n \in live \union Arriving : cur = where[n]

PktInv == ~astray => PktTypes /\ LayoutInv /\ PartInv /\ CurInv
=============================================================================
