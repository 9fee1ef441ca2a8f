---------------------------- MODULE SectionDemux ----------------------------
(***************************************************************************)
(* The software section demultiplexer of dvb-core/dvb_demux.c: a           *)
(* multiplexer packs sections into transport packets, the feed of one PID  *)
(* puts them together again in secbuf_base.                                *)
(*                                                                         *)
(* Byte k of section s is <<s, k, len>>, stuffing is Stuff; the            *)
(* sizes (184 payload bytes, sections of 4096, 16 continuity counter       *)
(* values) are parameters.  The feed has one filter, which accepts all     *)
(* sections, and its callback does not fail.                               *)
(***************************************************************************)
EXTENDS Integers, Sequences, SequencesExt

CONSTANTS
  MaxCount,        \* payload bytes of a packet without adaptation field
  MaxSectionSize,  \* DMX_MAX_SECTION_SIZE
  CcMod,           \* values of the continuity counter
  Counts,          \* payload sizes the multiplexer uses
  Lengths,         \* section lengths the multiplexer sends
  Garbles,         \* lengths that payload bytes read as a header can spell
  ResetsPusiSeen,  \* whether the card's start_feed hook clears pusi_seen
  Disturbances,    \* what may happen in a behaviour: a set of subsets of
                   \* {"loss", "dup", "empty", "dci", "restart"}
  MaxStarts,       \* bound: sections that begin in one packet
  MaxSections,     \* bound: sections sent
  MaxDelivered     \* bound: deliveries after which dup and empty packets end

(* section_length is at least 3, whatever its 12 bits are.                 *)
ASSUME SectionConstants ==
  /\ MaxCount \in Nat /\ MaxSectionSize \in Nat /\ MaxSectionSize >= 3
  /\ CcMod \in Nat /\ CcMod > 1
  /\ Counts \subseteq 1 .. MaxCount
  /\ Lengths \subseteq 3 .. MaxSectionSize
  /\ Garbles \subseteq Nat /\ \A g \in Garbles : g >= 3
  /\ ResetsPusiSeen \in BOOLEAN
  /\ MaxStarts \in Nat /\ MaxSections \in Nat /\ MaxDelivered \in Nat

VARIABLES
  mux,        \* multiplexer: n sections begun, len and sent of the last one,
              \* cc of the last packet
  air,        \* the last packet sent, kept only if it can be repeated
  missed,     \* packets lost in a row
  feed,       \* struct dvb_demux_feed: base = secbuf_base[0 .. tsfeedp-1],
              \* secbufp, pusi_seen, cc, is_filtering
  garble,     \* what a misread header spells in this behaviour
  delivered,  \* sections handed to the callback: their number, 0 for garbage
  owed,       \* ghost: first section since the feed has its bearings, or 0
  events      \* the disturbances of this behaviour

vars == <<mux, air, missed, feed, garble, delivered, owed, events>>

Stuff == <<0, 0, 0>>

SecFeedSize == MaxSectionSize + MaxCount + 4     \* DMX_MAX_SECFEED_SIZE

SectionBytes(s, len) == [k \in 1 .. len |-> <<s, k, len>>]

-----------------------------------------------------------------------------
(* The multiplexer (ISO 13818-1, the other end of the air): a packet in    *)
(* which a section begins has payload_unit_start_indicator set and starts  *)
(* with the pointer to it; after a section only stuffing or another        *)
(* section follows.                                                        *)

Remaining == mux.len - mux.sent

Completed == IF Remaining = 0 THEN mux.n ELSE mux.n - 1

RestOfSection == SubSeq(SectionBytes(mux.n, mux.len), mux.sent + 1, mux.len)

Padded(bytes, n) ==
  [k \in 1 .. n |-> IF k <= Len(bytes) THEN bytes[k] ELSE Stuff]

(* A discontinuity indicator needs an adaptation field: a shorter payload. *)
Indicated(dci, count) == dci => "dci" \in events /\ count < MaxCount

Header(dci, pusi, pointer, bytes) ==
  [cc |-> (mux.cc + 1) % CcMod, dci |-> dci, pusi |-> pusi,
   pointer |-> pointer, bytes |-> bytes]

(* No section starts in the packet.                                        *)
Continuation(count, dci) ==
  [mux |-> [mux EXCEPT !.sent = IF Remaining > count THEN @ + count ELSE mux.len,
                       !.cc = (@ + 1) % CcMod],
   pkt |-> Header(dci, FALSE, 0, Padded(RestOfSection, count))]

LengthSeqs == UNION {[1 .. n -> Lengths] : n \in 1 .. MaxStarts}

(* Sections of the lengths ls begin behind what remains of the old one.    *)
Laid(ls) == FlattenSeq([i \in 1 .. Len(ls) |-> SectionBytes(mux.n + i, ls[i])])

Fits(count, ls) ==
  /\ count - 1 - Remaining > Len(Laid(ls)) - Last(ls)
  /\ mux.n + Len(ls) <= MaxSections

Start(count, ls, dci) ==
  LET room == count - 1 - Remaining
      new  == Laid(ls)
      cut  == Len(new) - Last(ls)
  IN [mux |-> [n |-> mux.n + Len(ls), len |-> Last(ls),
               sent |-> IF Len(new) <= room THEN Last(ls) ELSE room - cut,
               cc |-> (mux.cc + 1) % CcMod],
      pkt |-> Header(dci, TRUE, Remaining, RestOfSection \o Padded(new, room))]

(* The packets that can follow, each with the multiplexer's next state.    *)
Sendable ==
  { Continuation(c[1], c[2]) :
      c \in {d \in Counts \X BOOLEAN : Indicated(d[2], d[1])} }
  \union
  { Start(c[1], c[2], c[3]) :
      c \in {d \in Counts \X LengthSeqs \X BOOLEAN :
                Fits(d[1], d[2]) /\ Indicated(d[3], d[1])} }

Send(x) ==
  /\ mux' = x.mux
  /\ air' = IF "dup" \in events THEN <<x.pkt>> ELSE << >>

-----------------------------------------------------------------------------
(* The feed.                                                               *)

(* The first three bytes of a section, from index p of secbuf_base on.     *)
HeaderAt(base, p) ==
  /\ base[p + 1] # Stuff
  /\ SubSeq(base, p + 1, p + 3) = SubSeq(SectionBytes(base[p + 1][1], base[p + 1][3]), 1, 3)

(* section_length of the bytes at index p of secbuf_base.                  *)
SectionLength(base, p) ==
  CASE base[p + 2] = Stuff /\ base[p + 3] = Stuff -> MaxSectionSize + 2
    [] HeaderAt(base, p) -> base[p + 1][3]
    [] OTHER -> garble

(* dvb_dmx_swfilter_section_new *)
SectionNew(f) == [f EXCEPT !.base = << >>, !.secbufp = 0]

(* The loop of copy_dump: the start of every section that is complete in   *)
(* base from index p on, and where the loop stops.                         *)
SectionsFrom(base, p) ==
  LET limit == Len(base)
      whole(q) == LET l == SectionLength(base, q) IN
                  l <= MaxSectionSize /\ l + q <= limit
      starts[q \in 0 .. limit] ==
        IF q + 2 < limit /\ whole(q)
        THEN <<q>> \o starts[q + SectionLength(base, q)]
        ELSE << >>
  IN starts[p]

(* What the callback receives: a section of the stream, or garbage (0).    *)
SectionAt(base, q) ==
  LET l == SectionLength(base, q)
      s == base[q + 1][1]
  IN IF s > 0 /\ SubSeq(base, q + 1, q + l) = SectionBytes(s, base[q + 1][3])
     THEN s ELSE 0

(* "sec->secbufp += seclen" forgotten at the end of the loop.              *)
CopyDumpStays(fd, bytes) ==
  LET base  == fd[1].base \o bytes
      found == SectionsFrom(base, fd[1].secbufp)
  IN IF Len(base) > SecFeedSize \/ bytes = << >> THEN fd
     ELSE << [fd[1] EXCEPT !.base = base],
             IF fd[1].pusi_seen
             THEN fd[2] \o [i \in 1 .. Len(found) |-> SectionAt(base, found[i])]
             ELSE fd[2] >>

(* The clipping to DMX_MAX_SECFEED_SIZE left out.                          *)
CopyDumpUnclipped(fd, bytes) ==
  IF Len(fd[1].base) >= SecFeedSize \/ bytes = << >> THEN fd
  ELSE <<[fd[1] EXCEPT !.base = @ \o bytes], fd[2]>>

(* dvb_dmx_swfilter_section_copy_dump: append, then dump every section     *)
(* that is complete, if pusi_seen.  fd is the pair feed, deliveries.        *)
CopyDump(fd, bytes) ==
  LET f     == fd[1]
      room  == SecFeedSize - Len(f.base)
      base  == f.base \o SubSeq(bytes, 1, IF Len(bytes) > room THEN room ELSE Len(bytes))
      found == SectionsFrom(base, f.secbufp)
      stop  == IF found = << >> THEN f.secbufp
               ELSE Last(found) + SectionLength(base, Last(found))
  IN IF room <= 0 \/ bytes = << >> THEN fd
     ELSE << [f EXCEPT !.base = base, !.secbufp = stop],
             IF f.pusi_seen
             THEN fd[2] \o [i \in 1 .. Len(found) |-> SectionAt(base, found[i])]
             ELSE fd[2] >>

(* The check of the continuity counter left out, as in dvb_dmx_swfilter_payload. *)
ContinuityIgnored(f, pkt) == [f EXCEPT !.cc = pkt.cc]

(* A jump of the continuity counter, or the discontinuity indicator.       *)
Continuity(f, pkt) ==
  LET g == [f EXCEPT !.cc = pkt.cc] IN
  IF (f.cc + 1) % CcMod # pkt.cc \/ pkt.dci
  THEN SectionNew([g EXCEPT !.pusi_seen = FALSE])
  ELSE g

(* "count > 1 && buf[p] < count", count being the pointer and the bytes    *)
(* behind it.                                                              *)
PointerOK(pkt) == Len(pkt.bytes) > 0 /\ pkt.pointer <= Len(pkt.bytes)

(* The part before the pointer dropped instead of completing its section.  *)
SectionPacketDropsBefore(f, pkt) ==
  LET g == Continuity(f, pkt)
      after == SubSeq(pkt.bytes, pkt.pointer + 1, Len(pkt.bytes))
  IN IF pkt.pusi
     THEN CopyDump(<<SectionNew([g EXCEPT !.pusi_seen = TRUE]), << >> >>, after)
     ELSE CopyDump(<<g, << >> >>, pkt.bytes)

(* dvb_dmx_swfilter_section_packet, for a packet with payload.  One whose  *)
(* pointer is out of range counts for the continuity only.                 *)
SectionPacket(f, pkt) ==
  LET g      == Continuity(f, pkt)
      before == SubSeq(pkt.bytes, 1, pkt.pointer)
      after  == SubSeq(pkt.bytes, pkt.pointer + 1, Len(pkt.bytes))
      done   == CopyDump(<<g, << >> >>, before)
      fresh  == SectionNew([done[1] EXCEPT !.pusi_seen = TRUE])
  IN CASE ~pkt.pusi -> CopyDump(<<g, << >> >>, pkt.bytes)
       [] pkt.pusi /\ PointerOK(pkt) -> CopyDump(<<fresh, done[2]>>, after)
       [] pkt.pusi /\ ~PointerOK(pkt) -> <<g, << >> >>

Deliver(pkt) ==
  LET r == SectionPacket(feed, pkt) IN
  /\ feed' = IF feed.is_filtering THEN r[1] ELSE feed
  /\ delivered' = IF feed.is_filtering THEN delivered \o r[2] ELSE delivered

-----------------------------------------------------------------------------
Init ==
  /\ mux = [n |-> 0, len |-> 0, sent |-> 0, cc |-> 0]
  /\ air = << >> /\ missed = 0
  \* dvb_dmx_init takes the feeds from vmalloc and does not clear them
  /\ \E cc \in 0 .. CcMod - 1, seen \in IF ResetsPusiSeen THEN {FALSE} ELSE BOOLEAN :
       feed = [base |-> << >>, secbufp |-> 0, pusi_seen |-> seen, cc |-> cc,
               is_filtering |-> TRUE]
  /\ garble \in Garbles
  /\ delivered = << >> /\ owed = 0
  /\ events \in Disturbances

(* A packet arrives.                                                       *)
Packet(x) ==
  /\ Send(x)
  /\ Deliver(x.pkt)
  /\ missed' = 0
  /\ owed' = IF ~feed.is_filtering THEN 0
             ELSE IF owed > 0 /\ ~x.pkt.dci THEN owed
             ELSE IF x.pkt.pusi THEN mux.n + 1 ELSE 0
  /\ UNCHANGED <<garble, events>>

(* A packet is lost, but never so many in a row that the counter returns.  *)
Lose(x) ==
  /\ "loss" \in events /\ missed + 1 < CcMod
  /\ Send(x)
  /\ missed' = missed + 1 /\ owed' = 0
  /\ UNCHANGED <<feed, garble, delivered, events>>

(* The last packet arrives a second time, as the standard allows.          *)
Duplicate ==
  /\ "dup" \in events /\ Len(delivered) < MaxDelivered
  /\ air # << >> /\ missed = 0
  /\ Deliver(air[1])
  /\ owed' = 0
  /\ UNCHANGED <<mux, air, missed, garble, events>>

(* A packet without payload: section_packet returns -1 and packet_type     *)
(* clears secbufp, but not tsfeedp.                                        *)
Empty ==
  /\ "empty" \in events /\ Len(delivered) < MaxDelivered
  /\ feed.is_filtering
  /\ feed' = [feed EXCEPT !.secbufp = 0]
  /\ UNCHANGED <<mux, air, missed, garble, delivered, owed, events>>

(* dmx_section_feed_stop_filtering *)
StopFiltering ==
  /\ "restart" \in events
  /\ feed.is_filtering
  /\ feed' = [feed EXCEPT !.is_filtering = FALSE]
  /\ owed' = 0
  /\ UNCHANGED <<mux, air, missed, garble, delivered, events>>

(* dmx_section_feed_start_filtering, with the card's start_feed hook.      *)
StartFiltering ==
  /\ ~feed.is_filtering
  /\ feed' = [SectionNew(feed) EXCEPT
                !.is_filtering = TRUE,
                !.pusi_seen = IF ResetsPusiSeen THEN FALSE ELSE @]
  /\ UNCHANGED <<mux, air, missed, garble, delivered, owed, events>>

Next ==
  \/ \E x \in Sendable : Packet(x) \/ Lose(x)
  \/ Duplicate \/ Empty \/ StopFiltering \/ StartFiltering

Spec == Init /\ [][Next]_vars

-----------------------------------------------------------------------------
(* tsfeedp stays inside secbuf_base and secbufp behind it: the case the    *)
(* code calls "internal error should never happen".                        *)
BufferOK ==
  /\ feed.secbufp <= Len(feed.base)
  /\ Len(feed.base) <= SecFeedSize
  /\ feed.cc \in 0 .. CcMod - 1

(* No garbage reaches the callback: whatever packets are lost, repeated or *)
(* empty, and wherever in a section the feed is started, what copy_dump    *)
(* hands out is one whole section of the stream.                           *)
NoGarbage == \A i \in 1 .. Len(delivered) : delivered[i] # 0

(* Sections are delivered in the order of the stream and never twice,      *)
(* whatever is lost and wherever the feed is restarted.  (A packet that is *)
(* repeated repeats its sections, and one without payload all sections of  *)
(* secbuf_base.)                                                           *)
InOrder ==
  {"dup", "empty"} \intersect events = {} =>
    \A i, j \in 1 .. Len(delivered) : i < j => delivered[i] < delivered[j]

(* What is handed out are whole sections of the stream in their order.     *)
SectionsRight == NoGarbage /\ InOrder

(* The "losless section demux": from the first section start the feed sees *)
(* after a disturbance, every section that has been sent completely has    *)
(* been delivered.                                                         *)
Lossless ==
  owed > 0 => \A s \in owed .. Completed : \E i \in 1 .. Len(delivered) : delivered[i] = s
=============================================================================
