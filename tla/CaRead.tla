------------------------------- MODULE CaRead -------------------------------
(***************************************************************************)
(* The receive path of the CI driver (dvb-core/dvb_ca_en50221.c).  A CAM   *)
(* sends messages in fragments, those of several connections interleaved;  *)
(* the thread (dvb_ca_en50221_read_data) puts them as packets into the     *)
(* rx_buffer of the slot, and dvb_ca_en50221_io_read takes the fragments   *)
(* of one connection out again, up to the last one.                        *)
(*                                                                         *)
(* The process that has the device open (there can be one) reads, polls,   *)
(* resets the slots, closes the device and opens it again, which flushes   *)
(* the rx_buffer; slots go down when a CAM is changed, reset or in error   *)
(* and come back with the rx_buffer as it was.                             *)
(*                                                                         *)
(* A packet is conn, msg (of which message of its connection, modulo 2),   *)
(* k (which fragment), last, and cut: between it and the packet before it  *)
(* of the same connection something is missing.  The rx_buffer is the      *)
(* sequence of packets that RingbufferPkt shows it to be.  The user's      *)
(* buffer is large enough.                                                 *)
(***************************************************************************)
EXTENDS Naturals, Sequences, SequencesExt

CONSTANT
  Setups         \* the interfaces to check, records with the fields
                 \*   conns: per slot (from 1) the connection ids its CAM uses
                 \*   frags: bound on the fragments of a message
                 \*   cap: packets for which the rx_buffer has space
                 \*   polls: the process polls as well
                 \*   downs, closes: bounds on slots going down, on closing

ASSUME SetupsAssumption ==
  \A x \in Setups :
    /\ x.frags \in Nat \ {0} /\ x.cap \in Nat \ {0}
    /\ x.conns \in Seq(SUBSET (Nat \ {0})) /\ Len(x.conns) > 0
    /\ x.polls \in BOOLEAN /\ x.downs \in Nat /\ x.closes \in Nat

MaxSlots == Max({Len(x.conns) : x \in Setups})

VARIABLES
  setup,
  cam,             \* per slot and connection: the message in progress, its
                   \* fragments sent, whether the next one will be cut
  up,              \* the slots that are RUNNING
  open,            \* ca->open
  th,              \* the thread: pc, slot, pkt (in buf of read_data)
  rx,              \* per slot: the packets in rx_buffer, oldest first
  asleep,          \* the process is on wait_queue and not woken
  next_read_slot,
  rd,              \* the process: pc, call, queued, slot, seen (slots looked
                   \* at), conn (0 for none), idx (0 for none), got
  ret,             \* what the call has returned
  past             \* what has happened: downs, closes, promised (poll said
                   \* POLLIN and nothing happened to it since), left (slots
                   \* that came up with packets in rx_buffer)

vars == <<setup, cam, up, open, th, rx, asleep, next_read_slot, rd, ret, past>>

SlotCount == Len(setup.conns)

Slots == 0 .. SlotCount - 1

Conns(s) == setup.conns[s + 1]

NoPacket == [conn |-> 0, msg |-> 0, k |-> 0, last |-> FALSE, cut |-> FALSE]

ThreadIdle == [pc |-> "idle", slot |-> 0, pkt |-> NoPacket]

Idle == [pc |-> "idle", call |-> "none", queued |-> FALSE, slot |-> 0, seen |-> 0,
         conn |-> 0, idx |-> 0, got |-> << >>]

Nothing == [status |-> "none", slot |-> 0, got |-> << >>]

Init ==
  /\ setup \in Setups
  /\ cam = [s \in Slots |-> [c \in Conns(s) |-> [msg |-> 0, k |-> 0, cut |-> FALSE]]]
  /\ up = Slots /\ open = TRUE /\ th = ThreadIdle
  /\ rx = [s \in Slots |-> << >>]
  /\ asleep = FALSE /\ next_read_slot = 0
  /\ rd = Idle /\ ret = Nothing
  /\ past = [downs |-> 0, closes |-> 0, promised |-> FALSE, left |-> {}]

-----------------------------------------------------------------------------
(* dvb_ca_en50221_read_data.  The space is checked before the CAM is       *)
(* asked; then the fragment is fetched.                                    *)
ReadData(s, c, last) ==
  /\ th.pc = "idle" /\ open /\ s \in up /\ Len(rx[s]) < setup.cap
  /\ LET m == cam[s][c] IN
     /\ last \/ m.k + 1 < setup.frags
     /\ th' = [pc |-> "fetched", slot |-> s,
               pkt |-> [conn |-> c, msg |-> m.msg, k |-> m.k + 1, last |-> last, cut |-> m.cut]]
     /\ cam' = [cam EXCEPT ![s][c] = IF last THEN [msg |-> 1 - m.msg, k |-> 0, cut |-> FALSE]
                                     ELSE [m EXCEPT !.k = @ + 1, !.cut = FALSE]]
  /\ UNCHANGED <<setup, up, open, rx, asleep, next_read_slot, rd, ret, past>>

Store ==
  /\ th.pc = "fetched"
  /\ rx' = [rx EXCEPT ![th.slot] = Append(@, th.pkt)]
  /\ th' = IF th.pkt.last THEN [th EXCEPT !.pc = "waking"] ELSE ThreadIdle
  /\ UNCHANGED <<setup, cam, up, open, asleep, next_read_slot, rd, ret, past>>

(* The CAM reports an error: the fragment is dropped, the link begins      *)
(* anew.  What the slot has of the message stays in rx_buffer.             *)
ReadFails ==
  /\ th.pc = "fetched" /\ past.downs < setup.downs
  /\ cam' = [cam EXCEPT ![th.slot][th.pkt.conn].cut = @ \/ th.pkt.k > 1 \/ th.pkt.cut]
  /\ up' = up \ {th.slot} /\ th' = ThreadIdle
  /\ past' = [past EXCEPT !.downs = @ + 1, !.promised = FALSE]
  /\ UNCHANGED <<setup, open, rx, asleep, next_read_slot, rd, ret>>

(* The readers woken by the first fragment instead of the last.            *)
WakeFirst ==
  /\ th.pc = "waking"
  /\ asleep' = (asleep /\ th.pkt.k > 1)
  /\ th' = ThreadIdle /\ past' = [past EXCEPT !.left = {}]
  /\ UNCHANGED <<setup, cam, up, open, rx, next_read_slot, rd, ret>>

(* "wake up readers when a last_fragment is received"                      *)
Wake ==
  /\ th.pc = "waking"
  /\ asleep' = FALSE
  /\ th' = ThreadIdle /\ past' = [past EXCEPT !.left = {}]
  /\ UNCHANGED <<setup, cam, up, open, rx, next_read_slot, rd, ret>>

-----------------------------------------------------------------------------
(* The CAM of a slot is removed: slot_shutdown, which wakes everybody.     *)
Shutdown(s) ==
  /\ th.pc = "idle" /\ s \in up /\ past.downs < setup.downs
  /\ up' = up \ {s} /\ asleep' = FALSE
  /\ past' = [past EXCEPT !.downs = @ + 1, !.promised = FALSE]
  /\ UNCHANGED <<setup, cam, open, th, rx, next_read_slot, rd, ret>>

(* A CAM, the same one or another, is initialised: the rx_buffer is only   *)
(* set up if there is none, so that an unfinished message stays.           *)
LinkInit(s) ==
  /\ th.pc = "idle" /\ s \notin up
  /\ up' = up \cup {s}
  /\ cam' = [cam EXCEPT ![s] = [c \in Conns(s) |->
                [msg |-> 0, k |-> 0, cut |-> @[c].k > 0 \/ @[c].cut]]]
  /\ past' = IF rx[s] = << >> THEN past ELSE [past EXCEPT !.left = @ \cup {s}]
  /\ UNCHANGED <<setup, open, th, rx, asleep, next_read_slot, rd, ret>>

(* CA_RESET, while the thread may be reading.                              *)
Reset ==
  /\ open /\ rd.pc = "idle" /\ past.downs < setup.downs
  /\ up' = {} /\ asleep' = FALSE /\ next_read_slot' = 0
  /\ past' = [past EXCEPT !.downs = @ + 1, !.promised = FALSE]
  /\ UNCHANGED <<setup, cam, open, th, rx, rd, ret>>

Close ==
  /\ open /\ rd.pc = "idle" /\ past.closes < setup.closes
  /\ open' = FALSE
  /\ past' = [past EXCEPT !.closes = @ + 1, !.promised = FALSE]
  /\ UNCHANGED <<setup, cam, up, th, rx, asleep, next_read_slot, rd, ret>>

(* The fragment of connection c that comes next does not begin a message.  *)
InMidMessage(s, c) ==
  IF th.pc = "fetched" /\ th.slot = s /\ th.pkt.conn = c THEN th.pkt.k > 1 ELSE cam[s][c].k > 0

(* "it is safe to call this here without locks because ca->open == 0.      *)
(* Data is not read in this case": the thread may still be storing, and    *)
(* the CAM may be in the middle of a message.                              *)
Open ==
  /\ ~open
  /\ open' = TRUE
  /\ rx' = [s \in Slots |-> IF s \in up THEN << >> ELSE rx[s]]
  /\ LET inFlight(s, c) == th.pc = "fetched" /\ th.slot = s /\ th.pkt.conn = c
         torn(s, c) == s \in up /\ InMidMessage(s, c)
     IN /\ cam' = [s \in Slots |-> [c \in Conns(s) |->
                     [cam[s][c] EXCEPT !.cut = @ \/ (torn(s, c) /\ ~inFlight(s, c))]]]
        /\ th' = IF \E s \in Slots : \E c \in Conns(s) : inFlight(s, c) /\ torn(s, c)
                 THEN [th EXCEPT !.pkt.cut = TRUE] ELSE th
  /\ past' = [past EXCEPT !.left = {}]
  /\ UNCHANGED <<setup, up, asleep, next_read_slot, rd, ret>>

-----------------------------------------------------------------------------
(* dvb_ca_en50221_io_read_condition, one slot at a time.                   *)

StartCondition(call, queued) ==
  rd' = [Idle EXCEPT !.pc = "cond", !.call = call, !.queued = queued, !.slot = next_read_slot]

Call ==
  /\ open /\ rd.pc = "idle"
  /\ StartCondition("read", FALSE) /\ ret' = Nothing
  /\ UNCHANGED <<setup, cam, up, open, th, rx, asleep, next_read_slot, past>>

Poll ==
  /\ open /\ rd.pc = "idle" /\ setup.polls
  /\ StartCondition("poll", FALSE) /\ ret' = Nothing
  /\ past' = [past EXCEPT !.promised = FALSE]
  /\ UNCHANGED <<setup, cam, up, open, th, rx, asleep, next_read_slot>>

(* connection_id: of the first packet met, in whichever slot it was.       *)
CondConn ==
  IF rd.conn = 0 /\ rd.slot \in up /\ rx[rd.slot] # << >> THEN rx[rd.slot][1].conn ELSE rd.conn

(* Any last fragment will do.                                              *)
FoundAny == rd.slot \in up /\ \E i \in 1 .. Len(rx[rd.slot]) : rx[rd.slot][i].last

Found ==
  /\ rd.slot \in up
  /\ \E i \in 1 .. Len(rx[rd.slot]) : rx[rd.slot][i].conn = CondConn /\ rx[rd.slot][i].last

NextSlot == (rd.slot + 1) % SlotCount

(* One slot is forgotten.                                                  *)
LookedAtMost == rd.seen = Max({1, SlotCount - 1})

LookedAtAll == rd.seen = SlotCount

ConditionFound ==
  /\ rd.pc = "cond" /\ ~LookedAtAll /\ Found
  /\ next_read_slot' = NextSlot
  /\ asleep' = FALSE
  /\ past' = [past EXCEPT !.promised = rd.call = "poll"]
  /\ \/ /\ rd.call = "read"
        /\ rd' = [rd EXCEPT !.pc = "first", !.conn = 0]
        /\ UNCHANGED ret
     \/ /\ rd.call = "poll"
        /\ rd' = Idle /\ ret' = [Nothing EXCEPT !.status = "POLLIN"]
  /\ UNCHANGED <<setup, cam, up, open, th, rx>>

ConditionNextSlot ==
  /\ rd.pc = "cond" /\ ~LookedAtAll /\ ~Found
  /\ rd' = [rd EXCEPT !.slot = NextSlot, !.seen = @ + 1, !.conn = CondConn]
  /\ UNCHANGED <<setup, cam, up, open, th, rx, asleep, next_read_slot, ret, past>>

(* No slot: a nonblocking read returns; else the process goes onto the     *)
(* queue, looks again and sleeps.                                          *)
ConditionNone ==
  /\ rd.pc = "cond" /\ LookedAtAll
  /\ next_read_slot' = rd.slot
  /\ \/ /\ ~rd.queued /\ rd.call = "read"
        /\ rd' = Idle /\ ret' = [Nothing EXCEPT !.status = "EWOULDBLOCK"]
        /\ UNCHANGED asleep
     \/ /\ ~rd.queued
        /\ asleep' = TRUE
        /\ rd' = [rd EXCEPT !.queued = TRUE, !.seen = 0, !.conn = 0]
        /\ UNCHANGED ret
     \/ /\ rd.queued
        /\ rd' = [rd EXCEPT !.pc = "sleep"]
        /\ UNCHANGED <<asleep, ret>>
  /\ UNCHANGED <<setup, cam, up, open, th, rx, past>>

Woken ==
  /\ rd.pc = "sleep" /\ ~asleep
  /\ asleep' = TRUE
  /\ StartCondition(rd.call, TRUE)
  /\ UNCHANGED <<setup, cam, up, open, th, rx, next_read_slot, ret, past>>

(* A signal, or the end of poll's timeout.                                 *)
Interrupted ==
  /\ rd.pc = "sleep" /\ asleep
  /\ asleep' = FALSE /\ rd' = Idle
  /\ UNCHANGED <<setup, cam, up, open, th, rx, next_read_slot, ret, past>>

-----------------------------------------------------------------------------
(* The loop of dvb_ca_en50221_io_read.                                     *)

First ==
  /\ rd.pc = "first"
  /\ rd' = [rd EXCEPT !.pc = "walk", !.idx = IF rx[rd.slot] = << >> THEN 0 ELSE 1]
  /\ UNCHANGED <<setup, cam, up, open, th, rx, asleep, next_read_slot, ret, past>>

(* The fragments of all connections taken together.                        *)
OursAny(p) == TRUE

Ours(p) == rd.conn \in {0, p.conn}

(* pkt_next is called before pkt_dispose.                                  *)
Take ==
  /\ rd.pc = "walk" /\ rd.idx # 0
  /\ LET p    == rx[rd.slot][rd.idx]
         more == rd.idx < Len(rx[rd.slot])
     IN IF Ours(p)
        THEN /\ rx' = [rx EXCEPT ![rd.slot] = RemoveAt(@, rd.idx)]
             /\ rd' = [rd EXCEPT !.conn = p.conn, !.got = Append(@, p),
                                 !.idx = IF more THEN @ ELSE 0,
                                 !.pc = IF p.last THEN "done" ELSE "walk"]
        ELSE /\ rd' = [rd EXCEPT !.idx = IF more THEN @ + 1 ELSE 0]
             /\ UNCHANGED rx
  /\ UNCHANGED <<setup, cam, up, open, th, asleep, next_read_slot, ret, past>>

Done ==
  /\ rd.pc = "done"
  /\ ret' = [status |-> "ok", slot |-> rd.slot, got |-> rd.got]
  /\ rd' = Idle
  /\ UNCHANGED <<setup, cam, up, open, th, rx, asleep, next_read_slot, past>>

(* "BUG: read packet ended before last_fragment encountered"               *)
Bug ==
  /\ rd.pc = "walk" /\ rd.idx = 0
  /\ ret' = [Nothing EXCEPT !.status = "EIO"]
  /\ rd' = Idle
  /\ UNCHANGED <<setup, cam, up, open, th, rx, asleep, next_read_slot, past>>

Reader ==
  \/ ConditionFound \/ ConditionNextSlot \/ ConditionNone \/ Woken
  \/ First \/ Take \/ Done \/ Bug

Next ==
  \/ \E s \in Slots, last \in BOOLEAN : \E c \in Conns(s) : ReadData(s, c, last)
  \/ Store \/ ReadFails \/ Wake
  \/ \E s \in Slots : Shutdown(s) \/ LinkInit(s)
  \/ Reset \/ Close \/ Open \/ Call \/ Poll \/ Interrupted \/ Reader

(* The thread finishes what it has begun; the process, which reads again   *)
(* and again between its other calls, is scheduled.                        *)
Spec ==
  Init /\ [][Next]_vars /\ WF_vars(Store \/ Wake) /\ SF_vars(Call) /\ WF_vars(Reader)

-----------------------------------------------------------------------------
(* A read never mixes connections, and it ends with the first last         *)
(* fragment there is: at most one message ends in what it returns.         *)
OneConnection ==
  ret.status = "ok" =>
    /\ ret.got # << >> /\ Last(ret.got).last
    /\ \A i \in 1 .. Len(ret.got) :
         /\ ret.got[i].conn = ret.got[1].conn
         /\ ret.got[i].last => i = Len(ret.got)

(* All slots use one and the same connection id, or there is one slot: the *)
(* case the read condition, with its one connection_id, is right for.      *)
Alike == SlotCount = 1 \/ \E c \in Conns(0) : \A s \in Slots : Conns(s) = {c}

(* A read returns a whole message, from its first fragment to its last,    *)
(* unless something is missing before one of the fragments it returns: a   *)
(* CAM was changed in mid-message or the device was opened again.  The     *)
(* damage ends with that message, whatever the order of resets, closes,    *)
(* errors and changes.                                                     *)
MessageWhole ==
  /\ OneConnection
  /\ (Alike /\ ret.status = "ok" /\ \A i \in 1 .. Len(ret.got) : ~ret.got[i].cut) =>
       \A i \in 1 .. Len(ret.got) : ret.got[i].k = i /\ ret.got[i].msg = ret.got[1].msg

(* What the read condition promises, the read finds: the message           *)
(* dvb_ca_en50221_io_read has for the opposite case calls it a BUG.        *)
NeverEndsEarly == ret.status # "EIO"

(* The part of this that holds: with slots that are alike.                 *)
PromiseKept == Alike => NeverEndsEarly

(* After dvb_ca_en50221_io_poll has said POLLIN, and while no slot goes    *)
(* down, a nonblocking read finds a message, although the two begin their  *)
(* search at different slots.                                              *)
PollKept == (Alike /\ past.promised) => ret.status # "EWOULDBLOCK"

(* The read condition tells the truth, to io_read and to io_poll.          *)
ConditionTrue == PromiseKept /\ PollKept

(* The oldest packet of slot s begins a message that is there completely.  *)
HeadComplete(s) ==
  /\ rx[s] # << >>
  /\ \E i \in 1 .. Len(rx[s]) : rx[s][i].conn = rx[s][1].conn /\ rx[s][i].last

(* A slot whose first message is complete is served while it is up: the    *)
(* reader is woken for it, and no other slot keeps it waiting for ever.    *)
(* With two slots this is claimed of a process that does not poll, because *)
(* each poll moves next_read_slot on.  Nobody is woken for what is left    *)
(* from before the slot went down, until the next message.                 *)
SlotServed ==
  \A s \in 0 .. MaxSlots - 1 :
    (/\ Alike /\ s \in Slots /\ (SlotCount = 1 \/ ~setup.polls)
     /\ open /\ s \in up \ past.left /\ HeadComplete(s))
      ~> (rd.pc = "walk" /\ rd.slot = s) \/ ~open \/ s \notin up
-----------------------------------------------------------------------------
(* The inductive invariant.                                                *)

Packets(conns) ==
  [conn : conns, msg : {0, 1}, k : Nat \ {0}, last : BOOLEAN, cut : BOOLEAN]

CamStates == [msg : {0, 1}, k : Nat, cut : BOOLEAN]

Threads ==
  [pc : {"idle", "fetched", "waking"}, slot : Slots, pkt : Packets(Nat) \cup {NoPacket}]

Readers ==
  [pc : {"idle", "cond", "sleep", "first", "walk", "done"}, call : {"none", "read", "poll"},
   queued : BOOLEAN, slot : Slots, seen : Nat, conn : Nat, idx : Nat, got : Seq(Packets(Nat))]

Returns ==
  [status : {"none", "POLLIN", "EWOULDBLOCK", "EIO", "ok"}, slot : Slots, got : Seq(Packets(Nat))]

Pasts == [downs : Nat, closes : Nat, promised : BOOLEAN, left : SUBSET Slots]

TypeOK ==
  /\ setup \in Setups
  /\ DOMAIN cam = Slots /\ \A s \in Slots : cam[s] \in [Conns(s) -> CamStates]
  /\ up \subseteq Slots /\ open \in BOOLEAN /\ asleep \in BOOLEAN /\ next_read_slot \in Slots
  /\ DOMAIN rx = Slots /\ \A s \in Slots : rx[s] \in Seq(Packets(Conns(s)))
  /\ th \in Threads /\ (th.pc # "idle" => th.pkt \in Packets(Conns(th.slot)))
  /\ rd \in Readers /\ ret \in Returns /\ past \in Pasts

(* The slots this evaluation of the condition has been through.            *)
Seen == {(next_read_slot + j) % SlotCount : j \in 0 .. rd.seen - 1}

(* In the condition: where the search is, and that connection_id is only   *)
(* set by what was seen.                                                   *)
CondInv ==
  rd.pc = "cond" =>
    /\ rd.seen <= SlotCount /\ rd.slot = (next_read_slot + rd.seen) % SlotCount
    /\ rd.seen = 0 => rd.conn = 0
    /\ rd.conn \in {0} \cup UNION {Conns(s) : s \in Slots}

(* The fragments taken so far: of one connection, and only the one that    *)
(* ends the walk is a last one.                                            *)
GotInv ==
  /\ rd.pc \notin {"walk", "done"} => rd.got = << >>
  /\ rd.pc = "first" => rd.conn = 0
  /\ rd.pc \in {"walk", "done"} => (rd.conn = 0 <=> rd.got = << >>)
  /\ rd.pc = "done" => rd.got # << >> /\ rd.got[Len(rd.got)].last
  /\ \A i \in 1 .. Len(rd.got) :
       /\ rd.got[i].conn = rd.conn
       /\ rd.got[i].last => rd.pc = "done" /\ i = Len(rd.got)

(* In the walk: nothing of the connection was passed over.                 *)
WalkInv ==
  rd.pc = "walk" =>
    /\ rd.idx <= Len(rx[rd.slot])
    /\ rd.conn = 0 => rd.idx \in {0, 1}
    /\ \A i \in 1 .. rd.idx - 1 : rx[rd.slot][i].conn # rd.conn

(* With slots that are alike, the last fragment that the condition has     *)
(* seen is still ahead.                                                    *)
AheadInv ==
  Alike =>
    /\ rd.pc = "first" => HeadComplete(rd.slot)
    /\ rd.pc = "walk" =>
         /\ rd.idx # 0
         /\ \E i \in rd.idx .. Len(rx[rd.slot]) :
              /\ rx[rd.slot][i].last
              /\ rx[rd.slot][i].conn = IF rd.conn = 0 THEN rx[rd.slot][1].conn ELSE rd.conn

(* A promise of poll stands for a slot that is up, that has a complete     *)
(* message at its head, and that no search has passed since.               *)
PromiseInv ==
  past.promised =>
    /\ open
    /\ Alike =>
         /\ rd.pc \in {"idle", "cond"}
         /\ \E t \in up : HeadComplete(t) /\ (rd.pc = "cond" => t \notin Seen)

(* What the thread has for slot s and what is in its rx_buffer.            *)
Line(s) == IF th.pc = "fetched" /\ th.slot = s THEN Append(rx[s], th.pkt) ELSE rx[s]

(* The packet that comes next from the CAM.                                *)
Coming(s, c) ==
  LET m == cam[s][c]
  IN IF s \in up THEN [msg |-> m.msg, k |-> m.k + 1, cut |-> m.cut]
     ELSE [msg |-> 0, k |-> 1, cut |-> m.k > 0 \/ m.cut]

(* q is what comes after p: the next fragment or the next message; or      *)
(* something is missing before q.                                          *)
Joins(p, q) ==
  q.cut \/ IF p.last THEN q.k = 1 ELSE q.k = p.k + 1 /\ q.msg = p.msg

Begins(q) == q.cut \/ q.k = 1

(* q is what comes after all that was read of connection c of slot s.      *)
AfterRead(s, c, q) ==
  IF rd.got # << >> /\ rd.slot = s /\ rd.conn = c
  THEN Joins(rd.got[Len(rd.got)], q) ELSE Begins(q)

(* Of connection c, what is in the line before position n.                 *)
NoneBefore(L, c, n) == \A j \in 1 .. n - 1 : L[j].conn # c

InLine(L, c, n, q) ==
  \A i \in 1 .. n - 1 :
    (L[i].conn = c /\ \A j \in i + 1 .. n - 1 : L[j].conn # c) => Joins(L[i], q)

(* At position n of the line of s, q comes after what is there of c.       *)
Fits(s, c, n, q) ==
  InLine(Line(s), c, n, q) /\ (NoneBefore(Line(s), c, n) => AfterRead(s, c, q))

(* From what was read to what the CAM will send, each packet comes after   *)
(* the one before it of its connection.                                    *)
Chained(s) ==
  /\ \A n \in 1 .. Len(Line(s)) : Fits(s, Line(s)[n].conn, n, Line(s)[n])
  /\ \A c \in Conns(s) : Fits(s, c, Len(Line(s)) + 1, Coming(s, c))

ChainInv == Alike => \A s \in Slots : Chained(s)

(* got is the beginning of a message, if nothing is missing.               *)
Whole(got) ==
  (\A i \in 1 .. Len(got) : ~got[i].cut) =>
    \A i \in 1 .. Len(got) : got[i].k = i /\ got[i].msg = got[1].msg

(* What keeps the promises, and what makes a message whole.                *)
ReaderInv ==
  /\ rd.pc # "idle" => open
  /\ CondInv /\ GotInv /\ WalkInv /\ AheadInv /\ PromiseInv /\ OneConnection /\ ConditionTrue

WholeInv ==
  /\ ChainInv
  /\ Alike => Whole(rd.got) /\ (ret.status = "ok" => Whole(ret.got))

ReadInv == TypeOK /\ ReaderInv /\ WholeInv
=============================================================================
