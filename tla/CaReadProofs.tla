---------------------------- MODULE CaReadProofs ----------------------------
(***************************************************************************)
(* Proofs about the receive path of the CI driver: what a read returns and *)
(* what the read condition promises, for every number of slots and         *)
(* connections, every length of messages and every size of the rx_buffer.  *)
(* Then the same for the ring the packets are kept in: dvb_ringbuffer's    *)
(* pkt_write, pkt_next and pkt_dispose for every size of the ring and of   *)
(* the packets.                                                            *)
(***************************************************************************)
EXTENDS CaRead, RingbufferPkt, SequenceTheorems, WellFoundedInduction, TLAPS

-----------------------------------------------------------------------------
(* Types.                                                                  *)

(* The slots are numbered from 0, and 0 is no connection.                  *)
LEMMA SlotFacts ==
  ASSUME setup \in Setups
  PROVE  /\ SlotCount \in Nat /\ SlotCount > 0 /\ 0 \in Slots
         /\ \A s \in Slots : s \in Nat /\ s < SlotCount /\ Conns(s) \subseteq Nat \ {0}
<1>1. /\ setup.conns \in Seq(SUBSET (Nat \ {0})) /\ Len(setup.conns) > 0
  BY SetupsAssumption
<1>2. SlotCount \in Nat /\ SlotCount > 0 /\ 0 \in Slots
  BY <1>1 DEF SlotCount, Slots
<1>3. ASSUME NEW s \in Slots
      PROVE  s \in Nat /\ s < SlotCount /\ Conns(s) \subseteq Nat \ {0}
  <2>1. s \in Nat /\ s < SlotCount /\ s + 1 \in 1 .. Len(setup.conns)
    BY <1>2, <1>1 DEF SlotCount, Slots
  <2>2. setup.conns[s + 1] \in SUBSET (Nat \ {0})
    BY <1>1, <2>1
  <2> QED
    BY <2>1, <2>2 DEF Conns
<1> QED
  BY <1>2, <1>3

(* A packet of some connections is a packet.                               *)
LEMMA PacketIn ==
  ASSUME NEW C, C \subseteq Nat, NEW p \in Packets(C)
  PROVE  /\ p \in Packets(Nat) /\ p.conn \in C /\ p.k \in Nat /\ p.k > 0
         /\ p.msg \in {0, 1} /\ p.last \in BOOLEAN /\ p.cut \in BOOLEAN
<1>1. p.conn \in C /\ p.k \in Nat \ {0} /\ p.msg \in {0, 1} /\ p.last \in BOOLEAN /\ p.cut \in BOOLEAN
  BY Zenon DEF Packets
<1>2. p.k \in Nat /\ p.k > 0
  BY <1>1
<1>3. p = [conn |-> p.conn, msg |-> p.msg, k |-> p.k, last |-> p.last, cut |-> p.cut]
  BY DEF Packets
<1>4. p \in Packets(Nat)
  BY <1>1, <1>3, Zenon DEF Packets
<1> QED
  BY <1>1, <1>2, <1>4

(* What the fields of the records are.                                     *)
LEMMA Fields ==
  ASSUME TypeOK
  PROVE  /\ th.pc \in {"idle", "fetched", "waking"} /\ th.slot \in Slots
         /\ rd.pc \in {"idle", "cond", "sleep", "first", "walk", "done"}
         /\ rd.call \in {"none", "read", "poll"} /\ rd.queued \in BOOLEAN
         /\ rd.slot \in Slots /\ rd.seen \in Nat /\ rd.conn \in Nat /\ rd.idx \in Nat
         /\ rd.got \in Seq(Packets(Nat))
         /\ past.downs \in Nat /\ past.closes \in Nat /\ past.promised \in BOOLEAN
         /\ past.left \in SUBSET Slots
         /\ ret.got \in Seq(Packets(Nat)) /\ ret.slot \in Slots
         /\ ret.status \in {"none", "POLLIN", "EWOULDBLOCK", "EIO", "ok"}
BY DEF TypeOK, Threads, Readers, Returns, Pasts

(* The initial records are of their types.                                 *)
LEMMA Initials ==
  ASSUME 0 \in Slots
  PROVE  ThreadIdle \in Threads /\ Idle \in Readers /\ Nothing \in Returns
<1>1. << >> \in Seq(Packets(Nat))
  BY EmptySeq
<1> QED
  BY <1>1 DEF ThreadIdle, Threads, Idle, Readers, Nothing, Returns

(* The sets of records depend on setup alone.                              *)
LEMMA SameSets ==
  ASSUME setup' = setup
  PROVE  /\ SlotCount' = SlotCount /\ Slots' = Slots /\ \A s : Conns(s)' = Conns(s)
         /\ Threads' = Threads /\ Readers' = Readers /\ Returns' = Returns /\ Pasts' = Pasts
         /\ Alike' = Alike
BY DEF SlotCount, Slots, Conns, Threads, Readers, Returns, Pasts, Alike

(* A slot goes down, and takes the promise of poll with it.                *)
LEMMA PastDown ==
  ASSUME past \in Pasts
  PROVE  /\ [past EXCEPT !.downs = @ + 1, !.promised = FALSE] \in Pasts
         /\ [past EXCEPT !.closes = @ + 1, !.promised = FALSE] \in Pasts
         /\ [past EXCEPT !.left = {}] \in Pasts /\ [past EXCEPT !.promised = FALSE] \in Pasts
<1>1. past.downs + 1 \in Nat /\ past.closes + 1 \in Nat
  BY DEF Pasts
<1>2. [past EXCEPT !.downs = @ + 1, !.promised = FALSE] \in Pasts
  BY <1>1, Zenon DEF Pasts
<1>3. [past EXCEPT !.closes = @ + 1, !.promised = FALSE] \in Pasts
  BY <1>1, Zenon DEF Pasts
<1>4. [past EXCEPT !.left = {}] \in Pasts /\ [past EXCEPT !.promised = FALSE] \in Pasts
  BY Zenon DEF Pasts
<1> QED
  BY <1>2, <1>3, <1>4

(* A packet is taken out of a sequence of packets.                         *)
LEMMA Removed ==
  ASSUME NEW S, NEW L \in Seq(S), NEW x \in 1 .. Len(L)
  PROVE  /\ RemoveAt(L, x) \in Seq(S) /\ Len(RemoveAt(L, x)) = Len(L) - 1
         /\ \A i \in 1 .. Len(L) - 1 : RemoveAt(L, x)[i] = L[IF i < x THEN i ELSE i + 1]
<1> DEFINE A == SubSeq(L, 1, x - 1)
           B == SubSeq(L, x + 1, Len(L))
<1>0. Len(L) \in Nat /\ x \in Nat /\ x > 0 /\ x <= Len(L)
  BY LenProperties
<1>a. /\ A \in Seq(S) /\ Len(A) = x - 1
      /\ \A i \in 1 .. x - 1 : A[i] = L[i]
  BY <1>0, SubSeqProperties
<1>b. /\ B \in Seq(S) /\ Len(B) = Len(L) - x
      /\ \A i \in 1 .. Len(L) - x : B[i] = L[x + i]
  BY <1>0, SubSeqProperties
<1>c. /\ A \o B \in Seq(S) /\ Len(A \o B) = Len(A) + Len(B)
      /\ \A i \in 1 .. Len(A) + Len(B) :
           (A \o B)[i] = IF i <= Len(A) THEN A[i] ELSE B[i - Len(A)]
  BY <1>a, <1>b, ConcatProperties
<1> HIDE DEF A, B
<1>1. RemoveAt(L, x) = A \o B
  BY DEF RemoveAt, A, B
<1>2. A \o B \in Seq(S) /\ Len(A \o B) = Len(L) - 1
  BY <1>0, <1>a, <1>b, <1>c
<1>3. ASSUME NEW i \in 1 .. Len(L) - 1
      PROVE  (A \o B)[i] = L[IF i < x THEN i ELSE i + 1]
  <2>0. i \in Nat /\ i > 0 /\ i <= Len(L) - 1
    BY <1>0
  <2>1. (A \o B)[i] = IF i <= x - 1 THEN A[i] ELSE B[i - (x - 1)]
    BY <1>0, <1>a, <1>b, <1>c
  <2>2. CASE i < x
    BY <2>0, <2>1, <2>2, <1>0, <1>a
  <2>3. CASE ~(i < x)
    <3>1. i - (x - 1) \in 1 .. Len(L) - x /\ x + (i - (x - 1)) = i + 1
      BY <2>0, <2>3, <1>0
    <3> QED
      BY <2>0, <2>1, <2>3, <3>1, <1>0, <1>b
  <2> QED
    BY <2>2, <2>3
<1> QED
  BY <1>1, <1>2, <1>3

(* The invariant holds of the initial state: its types.                    *)
LEMMA TypeInit == Init => TypeOK
<1> SUFFICES ASSUME Init PROVE TypeOK
  OBVIOUS
<1> USE DEF Init
<1>1. SlotCount \in Nat /\ 0 \in Slots
  BY SlotFacts
<1>2. ThreadIdle \in Threads /\ Idle \in Readers /\ Nothing \in Returns
  BY <1>1, Initials
<1>3. \A s \in Slots : cam[s] \in [Conns(s) -> CamStates]
  BY DEF CamStates
<1>4. \A s \in Slots : rx[s] \in Seq(Packets(Conns(s)))
  BY EmptySeq
<1>5. past \in Pasts
  BY DEF Pasts
<1>6. th.pc = "idle"
  BY DEF ThreadIdle
<1> QED
  BY <1>1, <1>2, <1>3, <1>4, <1>5, <1>6 DEF TypeOK

(* The steps of the thread keep the types.                                 *)
LEMMA TypeThread ==
  ASSUME TypeOK, setup' = setup,
         \/ \E s \in Slots, last \in BOOLEAN : \E c \in Conns(s) : ReadData(s, c, last)
         \/ Store \/ ReadFails \/ Wake
  PROVE  TypeOK'
<1> USE SameSets, SlotFacts, Fields
<1>0. setup \in Setups /\ past \in Pasts /\ th \in Threads /\ up \subseteq Slots
  BY DEF TypeOK
<1>i. ThreadIdle \in Threads /\ ThreadIdle.pc = "idle"
  BY <1>0, Initials DEF ThreadIdle
<1>1. ASSUME NEW s \in Slots, NEW last \in BOOLEAN, NEW c \in Conns(s), ReadData(s, c, last)
      PROVE  TypeOK'
  <2> DEFINE m == cam[s][c]
             q == [conn |-> c, msg |-> m.msg, k |-> m.k + 1, last |-> last, cut |-> m.cut]
             n == IF last THEN [msg |-> 1 - m.msg, k |-> 0, cut |-> FALSE]
                  ELSE [m EXCEPT !.k = @ + 1, !.cut = FALSE]
  <2>1. m \in CamStates /\ cam[s] \in [Conns(s) -> CamStates]
    BY DEF TypeOK
  <2>2. m.msg \in {0, 1} /\ m.k \in Nat /\ m.cut \in BOOLEAN
    BY <2>1 DEF CamStates
  <2>3. m.k + 1 \in Nat \ {0} /\ 1 - m.msg \in {0, 1}
    BY <2>2
  <2>4. q \in Packets(Conns(s)) /\ q \in Packets(Nat)
    <3>1. c \in Nat
      BY <1>0
    <3> HIDE DEF m
    <3> QED
      BY <2>2, <2>3, <3>1, Zenon DEF Packets
  <2>5. n \in CamStates
    <3> HIDE DEF m
    <3> QED
      BY <2>1, <2>2, <2>3 DEF CamStates
  <2>6. cam' = [cam EXCEPT ![s][c] = n] /\ th' = [pc |-> "fetched", slot |-> s, pkt |-> q]
    BY <1>1 DEF ReadData
  <2> HIDE DEF m, q, n
  <2>7. DOMAIN cam' = Slots /\ \A t \in Slots : cam'[t] \in [Conns(t) -> CamStates]
    <3>1. DOMAIN cam' = Slots
      BY <2>6 DEF TypeOK
    <3>2. ASSUME NEW t \in Slots PROVE cam'[t] \in [Conns(t) -> CamStates]
      <4>1. cam[t] \in [Conns(t) -> CamStates] /\ DOMAIN cam = Slots
        BY DEF TypeOK
      <4>2. CASE t = s
        BY <4>1, <4>2, <2>6, <2>5
      <4>3. CASE t # s
        BY <4>1, <4>3, <2>6
      <4> QED
        BY <4>2, <4>3
    <3> QED
      BY <3>1, <3>2
  <2>8. th' \in Threads /\ th'.pkt \in Packets(Conns(th'.slot))
    BY <2>4, <2>6 DEF Threads
  <2> QED
    BY <1>0, <1>1, <2>7, <2>8 DEF TypeOK, ReadData
<1>2. CASE Store
  <2>1. th.pkt \in Packets(Conns(th.slot)) /\ DOMAIN rx = Slots
    BY <1>2 DEF Store, TypeOK
  <2>2. ASSUME NEW s \in Slots PROVE rx'[s] \in Seq(Packets(Conns(s)))
    <3>1. rx[s] \in Seq(Packets(Conns(s)))
      BY DEF TypeOK
    <3>2. CASE s = th.slot
      <4>1. rx'[s] = Append(rx[s], th.pkt)
        BY <1>2, <2>1, <3>2 DEF Store
      <4> QED
        BY <4>1, <3>1, <2>1, <3>2, AppendProperties
    <3>3. CASE s # th.slot
      BY <1>2, <2>1, <3>1, <3>3 DEF Store
    <3> QED
      BY <3>2, <3>3
  <2>3. DOMAIN rx' = Slots
    BY <1>2, <2>1 DEF Store
  <2>4. (th' \in Threads /\ th'.pkt \in Packets(Conns(th'.slot))) \/ th' = ThreadIdle
    BY <1>2, <1>0, <2>1 DEF Store, Threads
  <2> QED
    BY <1>2, <1>0, <1>i, <2>2, <2>3, <2>4 DEF Store, TypeOK
<1>3. CASE ReadFails
  <2>1. th.pkt \in Packets(Conns(th.slot)) /\ th.pkt.conn \in Conns(th.slot) /\ th.pkt.k \in Nat /\ th.pkt.cut \in BOOLEAN
    BY <1>3, PacketIn, <1>0 DEF ReadFails, TypeOK
  <2>2. DOMAIN cam' = Slots /\ \A t \in Slots : cam'[t] \in [Conns(t) -> CamStates]
    <3>1. DOMAIN cam' = Slots
      BY <1>3 DEF TypeOK, ReadFails
    <3>2. ASSUME NEW t \in Slots PROVE cam'[t] \in [Conns(t) -> CamStates]
      <4>1. cam[t] \in [Conns(t) -> CamStates] /\ DOMAIN cam = Slots
        BY DEF TypeOK
      <4>2. CASE t = th.slot
        <5> DEFINE m == cam[t][th.pkt.conn]
        <5>1. m \in CamStates /\ m.cut \in BOOLEAN
          BY <4>1, <4>2, <2>1 DEF CamStates
        <5>2. PICK b \in BOOLEAN : b = (m.cut \/ th.pkt.k > 1 \/ th.pkt.cut)
          BY Zenon
        <5>3. cam'[t] = [cam[t] EXCEPT ![th.pkt.conn] = [m EXCEPT !.cut = b]]
          BY <1>3, <4>1, <4>2, <5>2, Zenon DEF ReadFails
        <5> HIDE DEF m
        <5>4. [m EXCEPT !.cut = b] \in CamStates
          BY <5>1 DEF CamStates
        <5> QED
          BY <5>3, <5>4, <4>1
      <4>3. CASE t # th.slot
        BY <1>3, <4>1, <4>3 DEF ReadFails
      <4> QED
        BY <4>2, <4>3
    <3> QED
      BY <3>1, <3>2
  <2>3. past' \in Pasts
    BY <1>3, <1>0, PastDown DEF ReadFails
  <2> QED
    BY <1>3, <1>0, <1>i, <2>2, <2>3 DEF ReadFails, TypeOK
<1>4. CASE Wake
  <2>1. past' \in Pasts
    BY <1>4, <1>0 DEF Pasts, Wake
  <2> QED
    BY <1>4, <1>0, <1>i, <2>1 DEF Wake, TypeOK
<1> QED
  BY <1>1, <1>2, <1>3, <1>4

(* The steps that take slots down and up, close and open, keep the types.  *)
LEMMA TypeSlots ==
  ASSUME TypeOK, setup' = setup,
         \/ \E s \in Slots : Shutdown(s) \/ LinkInit(s)
         \/ Reset \/ Close \/ Open
  PROVE  TypeOK'
<1> USE SameSets, SlotFacts, Fields
<1>0. setup \in Setups /\ past \in Pasts /\ th \in Threads /\ up \subseteq Slots
  BY DEF TypeOK
<1>1. CASE \E s \in Slots : Shutdown(s)
  BY <1>1, <1>0, PastDown DEF Shutdown, TypeOK
<1>2. ASSUME NEW s \in Slots, LinkInit(s)
      PROVE  TypeOK'
  <2>1. DOMAIN cam' = Slots /\ \A t \in Slots : cam'[t] \in [Conns(t) -> CamStates]
    <3>1. DOMAIN cam' = Slots
      BY <1>2 DEF TypeOK, LinkInit
    <3>2. ASSUME NEW t \in Slots PROVE cam'[t] \in [Conns(t) -> CamStates]
      <4>1. cam[t] \in [Conns(t) -> CamStates] /\ DOMAIN cam = Slots
        BY DEF TypeOK
      <4>2. CASE t = s
        <5> DEFINE m(c) == [msg |-> 0, k |-> 0, cut |-> cam[s][c].k > 0 \/ cam[s][c].cut]
        <5>1. cam'[t] = [c \in Conns(s) |-> m(c)]
          BY <1>2, <4>1, <4>2 DEF LinkInit
        <5>2. \A c \in Conns(s) : m(c) \in CamStates
          <6>1. \A b \in BOOLEAN : [msg |-> 0, k |-> 0, cut |-> b] \in CamStates
            BY DEF CamStates
          <6> QED
            BY <6>1, Zenon
        <5> HIDE DEF m
        <5> QED
          BY <5>1, <5>2, <4>2
      <4>3. CASE t # s
        BY <1>2, <4>1, <4>3 DEF LinkInit
      <4> QED
        BY <4>2, <4>3
    <3> QED
      BY <3>1, <3>2
  <2>2. past' \in Pasts
    BY <1>2, <1>0 DEF Pasts, LinkInit
  <2>3. up' \subseteq Slots
    BY <1>2, <1>0 DEF LinkInit
  <2> QED
    BY <1>2, <1>0, <2>1, <2>2, <2>3 DEF LinkInit, TypeOK
<1>3. CASE Reset
  BY <1>3, <1>0, PastDown DEF Reset, TypeOK
<1>4. CASE Close
  BY <1>4, <1>0, PastDown DEF Close, TypeOK
<1>5. CASE Open
  <2>1. ASSUME NEW s \in Slots PROVE rx'[s] \in Seq(Packets(Conns(s)))
    <3>1. rx'[s] = IF s \in up THEN << >> ELSE rx[s]
      BY <1>5 DEF Open
    <3> QED
      BY <3>1, EmptySeq DEF TypeOK
  <2>2. DOMAIN rx' = Slots /\ DOMAIN cam' = Slots
    BY <1>5 DEF Open
  <2>3. ASSUME NEW s \in Slots PROVE cam'[s] \in [Conns(s) -> CamStates]
    <3> DEFINE inFlight(c) == th.pc = "fetched" /\ th.slot = s /\ th.pkt.conn = c
               torn(c) == s \in up /\ InMidMessage(s, c)
    <3>1. ASSUME NEW c \in Conns(s)
          PROVE  [cam[s][c] EXCEPT !.cut = @ \/ (torn(c) /\ ~inFlight(c))] \in CamStates
      <4>1. cam[s][c] \in CamStates
        BY DEF TypeOK
      <4>2. PICK b \in BOOLEAN : b = (cam[s][c].cut \/ (torn(c) /\ ~inFlight(c)))
        BY Zenon
      <4>3. [cam[s][c] EXCEPT !.cut = b] \in CamStates
        BY <4>1 DEF CamStates
      <4> QED
        BY <4>2, <4>3, Zenon
    <3>2. cam'[s] = [c \in Conns(s) |-> [cam[s][c] EXCEPT !.cut = @ \/ (torn(c) /\ ~inFlight(c))]]
      BY <1>5, Zenon DEF Open
    <3> HIDE DEF inFlight, torn
    <3> QED
      BY <3>1, <3>2, Zenon
  <2>4. th' \in Threads /\ (th'.pc # "idle" => th'.pkt \in Packets(Conns(th'.slot)))
    <3>1. CASE th' = th
      BY <3>1, <1>0, Zenon DEF TypeOK
    <3>2. CASE /\ th' = [th EXCEPT !.pkt.cut = TRUE] /\ th.pc = "fetched"
      <4>1. th.pkt \in Packets(Conns(th.slot))
        BY <3>2 DEF TypeOK
      <4>2. [th.pkt EXCEPT !.cut = TRUE] \in Packets(Conns(th.slot))
        BY <4>1 DEF Packets
      <4>3. Conns(th.slot) \subseteq Nat
        BY <1>0
      <4>4. [th.pkt EXCEPT !.cut = TRUE] \in Packets(Nat)
        BY <4>2, <4>3, PacketIn
      <4>5. th' = [th EXCEPT !.pkt = [th.pkt EXCEPT !.cut = TRUE]]
        BY <3>2, <1>0 DEF Threads
      <4> QED
        BY <4>2, <4>4, <4>5, <1>0 DEF Threads
    <3>3. th' = th \/ (th' = [th EXCEPT !.pkt.cut = TRUE] /\ th.pc = "fetched")
      BY <1>5, Zenon DEF Open
    <3> QED
      BY <3>1, <3>2, <3>3
  <2>5. past' \in Pasts
    BY <1>5, <1>0, PastDown DEF Open
  <2> QED
    BY <1>5, <1>0, <2>1, <2>2, <2>3, <2>4, <2>5 DEF Open, TypeOK
<1> QED
  BY <1>1, <1>2, <1>3, <1>4, <1>5

(* The steps of the process keep the types.                                *)
LEMMA TypeProcess ==
  ASSUME TypeOK, WalkInv, setup' = setup, Call \/ Poll \/ Interrupted \/ Reader
  PROVE  TypeOK'
<1> USE SameSets, SlotFacts, Fields
<1>0. setup \in Setups /\ past \in Pasts /\ up \subseteq Slots /\ next_read_slot \in Slots
      /\ rd \in Readers /\ ret \in Returns
  BY DEF TypeOK
<1>i. Idle \in Readers /\ Nothing \in Returns
  BY <1>0, Initials
<1>e. \A x \in {"none", "POLLIN", "EWOULDBLOCK", "EIO", "ok"} : [Nothing EXCEPT !.status = x] \in Returns
  BY <1>i DEF Returns
<1>n. NextSlot \in Slots
  <2>1. SlotCount \in Nat /\ SlotCount > 0 /\ rd.slot \in Nat
    BY <1>0
  <2>2. \A y \in Nat, N \in Nat : N > 0 => y % N \in 0 .. N - 1
    OBVIOUS
  <2>3. rd.slot + 1 \in Nat
    BY <2>1
  <2> QED
    BY <2>1, <2>2, <2>3 DEF NextSlot, Slots
<1>c. ASSUME NEW call \in {"read", "poll"}, NEW queued \in BOOLEAN, StartCondition(call, queued)
      PROVE  rd' \in Readers
  BY <1>c, <1>i, <1>0 DEF StartCondition, Readers
<1>1. CASE Call
  BY <1>1, <1>0, <1>i, <1>c DEF Call, TypeOK
<1>2. CASE Poll
  BY <1>2, <1>0, <1>i, <1>c, PastDown DEF Poll, TypeOK
<1>3. CASE Interrupted
  BY <1>3, <1>0, <1>i DEF Interrupted, TypeOK
<1>4. CASE ConditionFound
  <2>1. rd' \in Readers
    BY <1>4, <1>0, <1>i DEF ConditionFound, Readers
  <2>2. past' \in Pasts
    <3>1. PICK b \in BOOLEAN : b = (rd.call = "poll")
      BY Zenon
    <3>2. past' = [past EXCEPT !.promised = b]
      BY <1>4, <3>1, Zenon DEF ConditionFound
    <3> QED
      BY <3>2, <1>0 DEF Pasts
  <2>3. ret' \in Returns
    BY <1>4, <1>0, <1>e DEF ConditionFound
  <2> QED
    BY <1>4, <1>0, <1>n, <2>1, <2>2, <2>3 DEF ConditionFound, TypeOK
<1>5. CASE ConditionNextSlot
  <2>1. CondConn \in Nat
    <3>1. CASE rd.slot \in up /\ rx[rd.slot] # << >>
      <4>1. rx[rd.slot] \in Seq(Packets(Conns(rd.slot))) /\ Conns(rd.slot) \subseteq Nat
        BY <1>0 DEF TypeOK
      <4>2. rx[rd.slot][1] \in Packets(Conns(rd.slot))
        BY <4>1, <3>1
      <4>3. rx[rd.slot][1].conn \in Nat
        BY <4>1, <4>2, PacketIn
      <4> QED
        BY <4>3 DEF CondConn
    <3>2. CASE ~(rd.slot \in up /\ rx[rd.slot] # << >>)
      BY <3>2 DEF CondConn
    <3> QED
      BY <3>1, <3>2
  <2>2. rd' \in Readers
    <3>1. PICK n \in Nat : n = rd.seen + 1
      OBVIOUS
    <3>2. rd' = [rd EXCEPT !.slot = NextSlot, !.seen = n, !.conn = CondConn]
      BY <1>5, <3>1 DEF ConditionNextSlot
    <3> QED
      BY <3>2, <1>0, <1>n, <2>1 DEF Readers
  <2> QED
    BY <1>5, <1>0, <2>2 DEF ConditionNextSlot, TypeOK
<1>6. CASE ConditionNone
  <2>1. rd' \in Readers
    BY <1>6, <1>0, <1>i DEF ConditionNone, Readers
  <2>2. ret' \in Returns /\ asleep' \in BOOLEAN
    BY <1>6, <1>0, <1>e DEF ConditionNone, TypeOK
  <2> QED
    BY <1>6, <1>0, <2>1, <2>2 DEF ConditionNone, TypeOK
<1>7. CASE Woken
  <2>1. rd' \in Readers
    BY <1>7, <1>0, <1>i DEF Woken, StartCondition, Readers
  <2> QED
    BY <1>7, <1>0, <2>1 DEF Woken, TypeOK
<1>8. CASE First
  <2>1. rd' \in Readers
    BY <1>8, <1>0 DEF First, Readers
  <2> QED
    BY <1>8, <1>0, <2>1 DEF First, TypeOK
<1>9. CASE Take
  <2> DEFINE L == rx[rd.slot]
             p == L[rd.idx]
  <2>1. L \in Seq(Packets(Conns(rd.slot))) /\ Conns(rd.slot) \subseteq Nat /\ rd.idx \in 1 .. Len(L)
    BY <1>9, <1>0 DEF TypeOK, WalkInv, Take
  <2>2. p \in Packets(Nat) /\ p.conn \in Nat
    <3>1. p \in Packets(Conns(rd.slot))
      BY <2>1
    <3> QED
      BY <2>1, <3>1, PacketIn
  <2>3. RemoveAt(L, rd.idx) \in Seq(Packets(Conns(rd.slot)))
    BY <2>1, Removed
  <2>4. Append(rd.got, p) \in Seq(Packets(Nat))
    BY <2>2, AppendProperties
  <2>5. DOMAIN rx' = Slots /\ \A s \in Slots : rx'[s] \in Seq(Packets(Conns(s)))
    BY <1>9, <2>3 DEF Take, TypeOK
  <2>6. rd' \in Readers
    <3>1. CASE Ours(p)
      <4>1. rd' = [rd EXCEPT !.conn = p.conn, !.got = Append(@, p),
                                 !.idx = IF rd.idx < Len(L) THEN @ ELSE 0,
                                 !.pc = IF p.last THEN "done" ELSE "walk"]
        BY <1>9, <3>1 DEF Take
      <4>2. PICK j \in Nat, pc \in {"done", "walk"} :
               rd' = [rd EXCEPT !.conn = p.conn, !.got = Append(rd.got, p), !.idx = j, !.pc = pc]
        BY <4>1
      <4> HIDE DEF p
      <4> QED
        BY <4>2, <1>0, <2>2, <2>4 DEF Readers
    <3>2. CASE ~Ours(p)
      <4>1. rd' = [rd EXCEPT !.idx = IF rd.idx < Len(L) THEN @ + 1 ELSE 0]
        BY <1>9, <3>2 DEF Take
      <4>2. PICK j \in Nat : j = IF rd.idx < Len(L) THEN rd.idx + 1 ELSE 0
        OBVIOUS
      <4>3. rd' = [rd EXCEPT !.idx = j]
        BY <4>1, <4>2
      <4> QED
        BY <4>3, <1>0 DEF Readers
    <3> QED
      BY <3>1, <3>2
  <2> QED
    BY <1>9, <1>0, <2>5, <2>6 DEF Take, TypeOK
<1>10. CASE Done
  <2>1. ret' \in Returns
    BY <1>10, <1>0 DEF Done, Returns
  <2> QED
    BY <1>10, <1>0, <1>i, <2>1 DEF Done, TypeOK
<1>11. CASE Bug
  BY <1>11, <1>0, <1>i, <1>e DEF Bug, TypeOK
<1> QED
  BY <1>1, <1>2, <1>3, <1>4, <1>5, <1>6, <1>7, <1>8, <1>9, <1>10, <1>11 DEF Reader

-----------------------------------------------------------------------------
(* The reader.                                                             *)

(* No packet leaves an rx_buffer in this step.                             *)
Grows ==
  \A s \in Slots :
    /\ Len(rx'[s]) \in Nat /\ Len(rx[s]) <= Len(rx'[s])
    /\ \A i \in 1 .. Len(rx[s]) : rx'[s][i] = rx[s][i]

(* A message at the head of an rx_buffer that grows stays there.           *)
LEMMA HeadKept ==
  ASSUME TypeOK, Grows, NEW s \in Slots, HeadComplete(s), rx'[s] \in Seq(Packets(Nat))
  PROVE  HeadComplete(s)'
<1>0. rx[s] \in Seq(Packets(Conns(s))) /\ Len(rx[s]) \in Nat
  BY DEF TypeOK
<1>1. PICK i \in 1 .. Len(rx[s]) : rx[s][i].conn = rx[s][1].conn /\ rx[s][i].last
  BY DEF HeadComplete
<1>2. i \in 1 .. Len(rx'[s]) /\ rx'[s][i] = rx[s][i] /\ rx'[s][1] = rx[s][1]
  BY <1>0, <1>1 DEF Grows
<1>3. rx'[s] # << >>
  BY <1>2
<1> QED
  BY <1>1, <1>2, <1>3 DEF HeadComplete

(* The steps of the thread and of the slots, while the process may be      *)
(* anywhere in its call.                                                   *)
LEMMA ReaderKept ==
  ASSUME TypeOK, TypeOK', ReaderInv, setup' = setup, Grows, rd' = rd, ret' = ret, open' = open,
         next_read_slot' = next_read_slot,
         past'.promised => past.promised /\ up \subseteq up'
  PROVE  ReaderInv'
<1> USE SameSets
<1>0. rd.slot \in Slots /\ rd.idx \in Nat /\ up \subseteq Slots
      /\ \A s \in Slots : rx[s] \in Seq(Packets(Conns(s))) /\ Len(rx[s]) \in Nat
  BY Fields DEF TypeOK
<1>h. \A s \in Slots : HeadComplete(s) => HeadComplete(s)'
  <2>1. ASSUME NEW s \in Slots PROVE rx'[s] \in Seq(Packets(Nat))
    <3>1. rx'[s] \in Seq(Packets(Conns(s))) /\ Conns(s) \subseteq Nat
      BY SlotFacts DEF TypeOK
    <3>2. Packets(Conns(s)) \subseteq Packets(Nat)
      BY <3>1, PacketIn
    <3> QED
      BY <3>1, <3>2, SeqMonotonic
  <2> QED
    BY <2>1, HeadKept
<1>1. (rd.pc # "idle" => open)' /\ CondInv' /\ GotInv' /\ OneConnection'
  BY DEF ReaderInv, CondInv, GotInv, OneConnection
<1>2. WalkInv'
  <2>1. /\ rd.pc = "walk" => rd.idx <= Len(rx[rd.slot])
        /\ rd.pc = "walk" => \A i \in 1 .. rd.idx - 1 : rx[rd.slot][i].conn # rd.conn
        /\ rd.pc = "walk" => (rd.conn = 0 => rd.idx \in {0, 1})
    BY DEF ReaderInv, WalkInv
  <2>2. rd.pc = "walk" => rd.idx <= Len(rx'[rd.slot])
    BY <1>0, <2>1 DEF Grows
  <2>3. ASSUME rd.pc = "walk", NEW i \in 1 .. rd.idx - 1 PROVE rx'[rd.slot][i].conn # rd.conn
    <3>1. i \in 1 .. Len(rx[rd.slot])
      BY <1>0, <2>1, <2>3
    <3> QED
      BY <1>0, <2>1, <2>3, <3>1 DEF Grows
  <2> QED
    BY <2>1, <2>2, <2>3 DEF WalkInv
<1>3. AheadInv'
  <2>1. Alike => (rd.pc = "first" => HeadComplete(rd.slot)')
    BY <1>0, <1>h DEF ReaderInv, AheadInv
  <2>2. ASSUME Alike, rd.pc = "walk"
        PROVE  /\ rd.idx # 0
               /\ \E i \in rd.idx .. Len(rx'[rd.slot]) :
                    /\ rx'[rd.slot][i].last
                    /\ rx'[rd.slot][i].conn = IF rd.conn = 0 THEN rx'[rd.slot][1].conn ELSE rd.conn
    <3>1. PICK i \in rd.idx .. Len(rx[rd.slot]) :
              /\ rd.idx # 0 /\ rx[rd.slot][i].last
              /\ rx[rd.slot][i].conn = IF rd.conn = 0 THEN rx[rd.slot][1].conn ELSE rd.conn
      BY <2>2 DEF ReaderInv, AheadInv
    <3>2. i \in 1 .. Len(rx[rd.slot]) /\ i \in rd.idx .. Len(rx'[rd.slot]) /\ 1 \in 1 .. Len(rx[rd.slot])
      BY <1>0, <3>1 DEF Grows
    <3>3. rx'[rd.slot][i] = rx[rd.slot][i] /\ rx'[rd.slot][1] = rx[rd.slot][1]
      BY <1>0, <3>2 DEF Grows
    <3> QED
      BY <3>1, <3>2, <3>3
  <2> QED
    BY <2>1, <2>2 DEF AheadInv
<1>4. PromiseInv'
  <2>1. Seen' = Seen
    BY DEF Seen
  <2> QED
    BY <1>0, <1>h, <2>1 DEF PromiseInv, ReaderInv
<1>5. ConditionTrue'
  BY DEF ConditionTrue, PromiseKept, PollKept, NeverEndsEarly, ReaderInv
<1> QED
  BY <1>1, <1>2, <1>3, <1>4, <1>5 DEF ReaderInv

(* The steps that take the promise away while the process is in no call.   *)
LEMMA ReaderIdle ==
  ASSUME TypeOK, ReaderInv, setup' = setup, rd' = rd, ret' = ret, rd.pc = "idle", ~past'.promised
  PROVE  ReaderInv'
<1> USE SameSets
<1>1. (rd.pc # "idle" => open)' /\ CondInv' /\ GotInv' /\ OneConnection'
  BY DEF ReaderInv, CondInv, GotInv, OneConnection
<1>2. WalkInv' /\ AheadInv' /\ PromiseInv'
  BY DEF WalkInv, AheadInv, PromiseInv
<1>5. ConditionTrue'
  BY DEF ConditionTrue, PromiseKept, PollKept, NeverEndsEarly, ReaderInv
<1> QED
  BY <1>1, <1>2, <1>5 DEF ReaderInv

(* The steps of the thread and of the slots keep what is known of the      *)
(* reader.                                                                 *)
LEMMA ReaderOthers ==
  ASSUME TypeOK, TypeOK', ReaderInv, setup' = setup,
         \/ \E s \in Slots, last \in BOOLEAN : \E c \in Conns(s) : ReadData(s, c, last)
         \/ Store \/ ReadFails \/ Wake
         \/ \E s \in Slots : Shutdown(s) \/ LinkInit(s)
         \/ Reset \/ Close \/ Open
  PROVE  ReaderInv'
<1>0. past \in Pasts
  BY DEF TypeOK
<1>g. ASSUME rx' = rx PROVE Grows
  BY <1>g DEF TypeOK, Grows
<1>1. ASSUME NEW s \in Slots, NEW last \in BOOLEAN, NEW c \in Conns(s), ReadData(s, c, last)
      PROVE  ReaderInv'
  BY <1>1, <1>g, ReaderKept DEF ReadData
<1>2. CASE Store
  <2>1. Grows
    <3> SUFFICES ASSUME NEW s \in Slots
                 PROVE  /\ Len(rx'[s]) \in Nat /\ Len(rx[s]) <= Len(rx'[s])
                        /\ \A i \in 1 .. Len(rx[s]) : rx'[s][i] = rx[s][i]
      BY DEF Grows
    <3>0. rx[s] \in Seq(Packets(Conns(s))) /\ DOMAIN rx = Slots
      BY DEF TypeOK
    <3>1. CASE s = th.slot
      <4>1. th.pkt \in Packets(Conns(s)) /\ rx'[s] = Append(rx[s], th.pkt)
        BY <1>2, <3>0, <3>1 DEF Store, TypeOK
      <4> QED
        BY <3>0, <4>1, AppendProperties
    <3>2. CASE s # th.slot
      BY <1>2, <3>0, <3>2 DEF Store
    <3> QED
      BY <3>1, <3>2
  <2> QED
    BY <1>2, <2>1, ReaderKept DEF Store
<1>3. CASE ReadFails
  <2>1. ~past'.promised
    BY <1>3, <1>0 DEF ReadFails, Pasts
  <2> QED
    BY <1>3, <2>1, <1>g, ReaderKept DEF ReadFails
<1>4. CASE Wake
  <2>1. past'.promised = past.promised
    BY <1>4, <1>0 DEF Wake, Pasts
  <2> QED
    BY <1>4, <2>1, <1>g, ReaderKept DEF Wake
<1>5. CASE \E s \in Slots : Shutdown(s)
  <2>1. ~past'.promised
    BY <1>5, <1>0 DEF Shutdown, Pasts
  <2> QED
    BY <1>5, <2>1, <1>g, ReaderKept DEF Shutdown
<1>6. CASE \E s \in Slots : LinkInit(s)
  <2>1. past'.promised = past.promised
    BY <1>6, <1>0 DEF LinkInit, Pasts
  <2> QED
    BY <1>6, <2>1, <1>g, ReaderKept DEF LinkInit
<1>7. CASE Reset
  <2>1. ~past'.promised
    BY <1>7, <1>0 DEF Reset, Pasts
  <2> QED
    BY <1>7, <2>1, ReaderIdle DEF Reset
<1>8. CASE Close
  <2>1. ~past'.promised
    BY <1>8, <1>0 DEF Close, Pasts
  <2> QED
    BY <1>8, <2>1, ReaderIdle DEF Close
<1>9. CASE Open
  <2>1. ~past'.promised /\ rd.pc = "idle"
    BY <1>9, <1>0 DEF Open, Pasts, ReaderInv, PromiseInv
  <2> QED
    BY <1>9, <2>1, ReaderIdle DEF Open
<1> QED
  BY <1>1, <1>2, <1>3, <1>4, <1>5, <1>6, <1>7, <1>8, <1>9

(* A packet in an rx_buffer is of a connection of its slot.                *)
LEMMA PacketAt ==
  ASSUME TypeOK, NEW s \in Slots, NEW i \in 1 .. Len(rx[s])
  PROVE  /\ rx[s][i] \in Packets(Conns(s)) /\ rx[s][i] \in Packets(Nat)
         /\ rx[s][i].conn \in Conns(s) /\ rx[s][i].conn \in Nat /\ rx[s][i].conn # 0
         /\ rx[s][i].last \in BOOLEAN
<1>1. rx[s] \in Seq(Packets(Conns(s))) /\ Conns(s) \subseteq Nat \ {0}
  BY SlotFacts DEF TypeOK
<1>2. rx[s][i] \in Packets(Conns(s))
  BY <1>1
<1> QED
  BY <1>1, <1>2, PacketIn

(* With slots that are alike, what the condition finds is at the head.     *)
LEMMA FoundHead ==
  ASSUME TypeOK, CondInv, Alike, rd.pc = "cond", ~LookedAtAll, rd.slot \in up
  PROVE  Found <=> HeadComplete(rd.slot)
<1>0. SlotCount \in Nat /\ SlotCount > 0 /\ rd.slot \in Slots /\ rd.seen \in Nat
      /\ rx[rd.slot] \in Seq(Packets(Conns(rd.slot)))
  BY SlotFacts, Fields DEF TypeOK
<1>1. \A i \in 1 .. Len(rx[rd.slot]) : rx[rd.slot] # << >> /\ 1 \in 1 .. Len(rx[rd.slot])
  BY <1>0
<1>2. ASSUME rx[rd.slot] # << >> PROVE CondConn = rx[rd.slot][1].conn
  <2>1. CASE rd.conn = 0
    BY <2>1, <1>2 DEF CondConn
  <2>2. CASE rd.conn # 0
    <3>1. SlotCount # 1
      BY <2>2, <1>0 DEF CondInv, LookedAtAll
    <3>2. PICK c \in Conns(0) : \A s \in Slots : Conns(s) = {c}
      BY <3>1 DEF Alike
    <3>3. rd.conn = c
      BY <2>2, <3>2 DEF CondInv
    <3>4. 1 \in 1 .. Len(rx[rd.slot])
      BY <1>2, <1>0
    <3>5. rx[rd.slot][1].conn = c
      BY <1>0, <3>2, <3>4, PacketAt
    <3> QED
      BY <2>2, <3>3, <3>5 DEF CondConn
  <2> QED
    BY <2>1, <2>2
<1> QED
  BY <1>1, <1>2 DEF Found, HeadComplete

(* The search goes round.                                                  *)
LEMMA GoesRound ==
  ASSUME NEW N \in Nat, N > 0, NEW x \in 0 .. N - 1, NEW n \in 0 .. N - 1
  PROVE  /\ (((x + n) % N) + 1) % N = (x + (n + 1)) % N
         /\ (x + 0) % N = x
         /\ \A t \in 0 .. N - 1 : \E j \in 0 .. N - 1 : t = (x + j) % N
<1>m. \A y \in 0 .. N - 1 : y % N = y /\ (y + N) % N = y
  OBVIOUS
<1>0. x \in Nat /\ n \in Nat /\ x < N /\ n < N
  OBVIOUS
<1>1. (((x + n) % N) + 1) % N = (x + (n + 1)) % N
  <2>1. CASE x + n < N - 1
    <3>1. PICK y \in 0 .. N - 1 : y = x + n
      BY <1>0, <2>1
    <3>2. PICK z \in 0 .. N - 1 : z = y + 1
      BY <1>0, <2>1, <3>1
    <3>3. x + (n + 1) = z
      BY <1>0, <3>1, <3>2
    <3> QED
      BY <3>1, <3>2, <3>3, <1>m
  <2>2. CASE x + n = N - 1
    <3>1. PICK y \in 0 .. N - 1 : y = x + n /\ y + 1 = 0 + N
      BY <1>0, <2>2
    <3>2. x + (n + 1) = 0 + N /\ 0 \in 0 .. N - 1
      BY <1>0, <2>2
    <3> QED
      BY <3>1, <3>2, <1>m
  <2>3. CASE x + n > N - 1
    <3>1. PICK y \in 0 .. N - 1 : x + n = y + N
      BY <1>0, <2>3
    <3>2. PICK z \in 0 .. N - 1 : z = y + 1 /\ x + (n + 1) = z + N
      BY <1>0, <3>1
    <3>3. (x + n) % N = y
      BY <3>1, <1>m
    <3>4. (x + (n + 1)) % N = z /\ z % N = z
      BY <3>2, <1>m
    <3> QED
      BY <3>2, <3>3, <3>4
  <2> QED
    BY <1>0, <2>1, <2>2, <2>3
<1>2. (x + 0) % N = x
  <2>1. x + 0 = x
    BY <1>0
  <2> QED
    BY <2>1, <1>m
<1>3. ASSUME NEW t \in 0 .. N - 1 PROVE \E j \in 0 .. N - 1 : t = (x + j) % N
  <2>1. CASE t >= x
    <3>1. PICK j \in 0 .. N - 1 : x + j = t
      BY <1>0, <2>1
    <3> QED
      BY <3>1, <1>m
  <2>2. CASE t < x
    <3>1. PICK j \in 0 .. N - 1 : x + j = t + N
      BY <1>0, <2>2
    <3> QED
      BY <3>1, <1>m
  <2> QED
    BY <1>0, <2>1, <2>2
<1> QED
  BY <1>1, <1>2, <1>3

(* Where the search stands, seen from the slots.                           *)
LEMMA SearchFacts ==
  ASSUME TypeOK, CondInv, rd.pc = "cond", ~LookedAtAll
  PROVE  NextSlot = (next_read_slot + (rd.seen + 1)) % SlotCount /\ rd.seen + 1 <= SlotCount
<1>0. SlotCount \in Nat /\ SlotCount > 0 /\ rd.seen \in Nat /\ next_read_slot \in Slots
  BY SlotFacts, Fields DEF TypeOK
<1>1. rd.seen \in 0 .. SlotCount - 1 /\ next_read_slot \in 0 .. SlotCount - 1
  BY <1>0 DEF CondInv, LookedAtAll, Slots
<1>2. rd.slot = (next_read_slot + rd.seen) % SlotCount
  BY DEF CondInv
<1>3. NextSlot = (((next_read_slot + rd.seen) % SlotCount) + 1) % SlotCount
  BY <1>2 DEF NextSlot
<1>4. rd.seen + 1 <= SlotCount
  BY <1>0, <1>1
<1>5. (((next_read_slot + rd.seen) % SlotCount) + 1) % SlotCount = (next_read_slot + (rd.seen + 1)) % SlotCount
  BY <1>0, <1>1, GoesRound
<1> QED
  BY <1>3, <1>4, <1>5

(* When all slots were looked at, all were seen.                           *)
LEMMA SeenAll ==
  ASSUME TypeOK, rd.pc = "cond", LookedAtAll, NEW t \in Slots
  PROVE  t \in Seen
<1>0. SlotCount \in Nat /\ SlotCount > 0 /\ rd.seen \in Nat /\ next_read_slot \in Slots
  BY SlotFacts, Fields DEF TypeOK
<1>1. next_read_slot \in 0 .. SlotCount - 1 /\ t \in 0 .. SlotCount - 1 /\ 0 \in 0 .. SlotCount - 1
  BY <1>0 DEF Slots
<1>2. PICK j \in 0 .. SlotCount - 1 : t = (next_read_slot + j) % SlotCount
  BY <1>0, <1>1, GoesRound
<1> QED
  BY <1>2 DEF Seen, LookedAtAll

(* A search begins.                                                        *)
LEMMA SearchBegins ==
  ASSUME TypeOK, setup' = setup, next_read_slot' = next_read_slot, NEW call \in {"read", "poll", "none"}, NEW queued,
         StartCondition(call, queued)
  PROVE  /\ rd'.pc = "cond" /\ rd'.got = << >> /\ rd'.seen = 0 /\ rd'.conn = 0
         /\ CondInv' /\ GotInv' /\ WalkInv' /\ AheadInv' /\ Seen' = {}
<1> USE SameSets
<1>0. SlotCount \in Nat /\ SlotCount > 0 /\ next_read_slot \in 0 .. SlotCount - 1 /\ 0 \in 0 .. SlotCount - 1
  BY SlotFacts, Fields DEF TypeOK, Slots
<1>1. rd'.pc = "cond" /\ rd'.got = << >> /\ rd'.seen = 0 /\ rd'.conn = 0 /\ rd'.slot = next_read_slot
  BY DEF StartCondition, Idle
<1>2. (next_read_slot + 0) % SlotCount = next_read_slot
  BY <1>0, GoesRound
<1>3. CondInv'
  BY <1>0, <1>1, <1>2 DEF CondInv
<1>4. GotInv' /\ WalkInv' /\ AheadInv'
  BY <1>1 DEF GotInv, WalkInv, AheadInv
<1>5. Seen' = {}
  BY <1>1 DEF Seen
<1> QED
  BY <1>1, <1>3, <1>4, <1>5

(* The process returns from its call.                                      *)
LEMMA BackToIdle ==
  ASSUME rd' = Idle
  PROVE  rd'.pc = "idle" /\ CondInv' /\ GotInv' /\ WalkInv' /\ AheadInv'
<1>1. rd'.pc = "idle" /\ rd'.got = << >>
  BY DEF Idle
<1> QED
  BY <1>1 DEF CondInv, GotInv, WalkInv, AheadInv

(* The condition, and what is around it.                                   *)
LEMMA ReaderCondition ==
  ASSUME TypeOK, TypeOK', ReaderInv, setup' = setup,
         \/ Call \/ Poll \/ Interrupted \/ ConditionFound \/ ConditionNextSlot
         \/ ConditionNone \/ Woken
  PROVE  ReaderInv'
<1> USE SameSets
<1>0. /\ past \in Pasts /\ up \subseteq Slots /\ rd \in Readers /\ rd.slot \in Slots
      /\ rd.call \in {"none", "read", "poll"} /\ rd.seen \in Nat
  BY Fields DEF TypeOK
<1>i. /\ CondInv /\ GotInv /\ WalkInv /\ AheadInv /\ PromiseInv /\ OneConnection /\ ConditionTrue
      /\ (rd.pc # "idle" => open)
  BY DEF ReaderInv
<1>h. ASSUME rx' = rx PROVE \A s : HeadComplete(s)' <=> HeadComplete(s)
  BY <1>h DEF HeadComplete
<1>s. ASSUME NEW x \in {"none", "POLLIN", "EWOULDBLOCK", "EIO", "ok"}
      PROVE  [Nothing EXCEPT !.status = x].status = x /\ Nothing.status = "none"
  BY DEF Nothing
<1>1. CASE Call
  <2>1. /\ rd'.pc = "cond" /\ CondInv' /\ GotInv' /\ WalkInv' /\ AheadInv' /\ Seen' = {}
    BY <1>1, SearchBegins DEF Call
  <2>2. PromiseInv'
    <3>1. past' = past /\ up' = up /\ open' = open /\ open /\ rx' = rx
      BY <1>1 DEF Call
    <3> QED
      BY <2>1, <3>1, <1>h, <1>i DEF PromiseInv
  <2>3. OneConnection' /\ ConditionTrue'
    BY <1>1, <1>s DEF Call, OneConnection, ConditionTrue, PromiseKept, PollKept, NeverEndsEarly
  <2> QED
    BY <1>1, <2>1, <2>2, <2>3 DEF ReaderInv, Call
<1>2. CASE Poll
  <2>1. /\ rd'.pc = "cond" /\ CondInv' /\ GotInv' /\ WalkInv' /\ AheadInv'
    BY <1>2, SearchBegins DEF Poll
  <2>2. PromiseInv'
    BY <1>2, <1>0 DEF PromiseInv, Poll, Pasts
  <2>3. OneConnection' /\ ConditionTrue'
    BY <1>2, <1>s DEF Poll, OneConnection, ConditionTrue, PromiseKept, PollKept, NeverEndsEarly
  <2> QED
    BY <1>2, <2>1, <2>2, <2>3 DEF ReaderInv, Poll
<1>3. CASE Interrupted
  <2>1. rd'.pc = "idle" /\ CondInv' /\ GotInv' /\ WalkInv' /\ AheadInv'
    BY <1>3, BackToIdle DEF Interrupted
  <2>2. PromiseInv'
    BY <1>3, <1>i DEF Interrupted, PromiseInv
  <2>3. OneConnection' /\ ConditionTrue'
    BY <1>3, <1>i DEF Interrupted, OneConnection, ConditionTrue, PromiseKept, PollKept, NeverEndsEarly
  <2> QED
    BY <2>1, <2>2, <2>3 DEF ReaderInv
<1>4. CASE ConditionFound
  <2>1. Alike => HeadComplete(rd.slot)
    BY <1>4, <1>i, FoundHead DEF ConditionFound, Found
  <2>2. past'.promised = (rd.call = "poll") /\ rx' = rx /\ up' = up /\ open' = open /\ open /\ rd.slot \in up
    BY <1>4, <1>0, <1>i DEF ConditionFound, Found, Pasts
  <2>3. CASE rd.call = "read"
    <3>1. rd'.pc = "first" /\ rd'.conn = 0 /\ rd'.got = << >> /\ rd'.slot = rd.slot /\ ret' = ret
      BY <1>4, <2>3, <1>0, <1>i DEF ConditionFound, Readers, GotInv
    <3>2. CondInv' /\ GotInv' /\ WalkInv' /\ AheadInv'
      BY <3>1, <2>1, <2>2, <1>h DEF CondInv, GotInv, WalkInv, AheadInv
    <3>3. PromiseInv' /\ OneConnection' /\ ConditionTrue'
      <4>1. ~past'.promised
        BY <2>2, <2>3
      <4>2. PromiseInv' /\ PollKept'
        BY <4>1 DEF PromiseInv, PollKept
      <4>3. OneConnection' /\ PromiseKept'
        BY <3>1, <1>i DEF OneConnection, ConditionTrue, PromiseKept, NeverEndsEarly
      <4> QED
        BY <4>2, <4>3 DEF ConditionTrue
    <3> QED
      BY <2>2, <3>2, <3>3 DEF ReaderInv
  <2>4. CASE rd.call = "poll"
    <3>1. rd' = Idle /\ ret' = [Nothing EXCEPT !.status = "POLLIN"]
      BY <1>4, <2>4 DEF ConditionFound
    <3>2. rd'.pc = "idle" /\ CondInv' /\ GotInv' /\ WalkInv' /\ AheadInv'
      BY <3>1, BackToIdle
    <3>3. PromiseInv'
      BY <2>1, <2>2, <3>2, <1>h DEF PromiseInv
    <3>4. ret'.status = "POLLIN"
      BY <3>1, <1>s
    <3>5. OneConnection' /\ ConditionTrue'
      BY <3>4 DEF OneConnection, ConditionTrue, PromiseKept, PollKept, NeverEndsEarly
    <3> QED
      BY <3>2, <3>3, <3>5 DEF ReaderInv
  <2> QED
    BY <1>4, <2>3, <2>4 DEF ConditionFound
<1>5. CASE ConditionNextSlot
  <2>0. rd.pc = "cond" /\ ~LookedAtAll /\ ~Found /\ rx' = rx /\ up' = up /\ open' = open /\ ret' = ret
        /\ past' = past /\ next_read_slot' = next_read_slot
    BY <1>5 DEF ConditionNextSlot
  <2>1. rd'.pc = "cond" /\ rd'.slot = NextSlot /\ rd'.seen = rd.seen + 1 /\ rd'.conn = CondConn /\ rd'.got = rd.got
    BY <1>5, <1>0 DEF ConditionNextSlot, Readers
  <2>2. CondConn \in {0} \cup UNION {Conns(s) : s \in Slots}
    <3>1. CASE rd.conn = 0 /\ rd.slot \in up /\ rx[rd.slot] # << >>
      <4>1. 1 \in 1 .. Len(rx[rd.slot])
        BY <3>1, <1>0 DEF TypeOK
      <4>2. rx[rd.slot][1].conn \in Conns(rd.slot)
        BY <4>1, <1>0, PacketAt
      <4> QED
        BY <3>1, <4>2, <1>0 DEF CondConn
    <3>2. CASE ~(rd.conn = 0 /\ rd.slot \in up /\ rx[rd.slot] # << >>)
      BY <3>2, <2>0, <1>i DEF CondConn, CondInv
    <3> QED
      BY <3>1, <3>2
  <2>3. CondInv'
    <3>1. NextSlot = (next_read_slot + (rd.seen + 1)) % SlotCount /\ rd.seen + 1 <= SlotCount
      BY <2>0, <1>i, SearchFacts
    <3>2. rd.seen + 1 # 0
      BY <1>0
    <3> QED
      BY <2>0, <2>1, <2>2, <3>1, <3>2 DEF CondInv
  <2>4. GotInv' /\ WalkInv' /\ AheadInv'
    BY <2>0, <2>1, <1>i DEF GotInv, WalkInv, AheadInv
  <2>5. PromiseInv'
    <3>1. ASSUME past.promised, Alike
          PROVE  \E t \in up' : HeadComplete(t)' /\ t \notin Seen'
      <4>1. PICK t \in up : HeadComplete(t) /\ t \notin Seen
        BY <2>0, <3>1, <1>i DEF PromiseInv
      <4>2. t # rd.slot
        BY <4>1, <2>0, <1>i, <3>1, FoundHead
      <4>3. ASSUME t \in Seen' PROVE FALSE
        <5>1. PICK j \in 0 .. (rd.seen + 1) - 1 : t = (next_read_slot + j) % SlotCount
          BY <2>0, <2>1, <4>3 DEF Seen
        <5>2. CASE j = rd.seen
          BY <5>1, <5>2, <4>2, <2>0, <1>i DEF CondInv
        <5>3. CASE j # rd.seen
          <6>1. j \in 0 .. rd.seen - 1
            BY <5>1, <5>3, <1>0
          <6> QED
            BY <6>1, <5>1, <4>1 DEF Seen
        <5> QED
          BY <5>2, <5>3
      <4> QED
        BY <4>1, <4>3, <2>0, <1>h
    <3> QED
      BY <2>0, <2>1, <3>1, <1>i DEF PromiseInv
  <2>6. OneConnection' /\ ConditionTrue'
    BY <2>0, <1>i DEF OneConnection, ConditionTrue, PromiseKept, PollKept, NeverEndsEarly
  <2> QED
    BY <2>0, <2>3, <2>4, <2>5, <2>6, <1>i DEF ReaderInv
<1>6. CASE ConditionNone
  <2>0. rd.pc = "cond" /\ LookedAtAll /\ rx' = rx /\ up' = up /\ open' = open
        /\ past' = past /\ next_read_slot' = rd.slot
    BY <1>6 DEF ConditionNone
  <2>1. ~(past.promised /\ Alike)
    BY <2>0, <1>0, <1>i, SeenAll DEF PromiseInv
  <2>2. PromiseInv'
    BY <2>0, <2>1, <1>i DEF PromiseInv
  <2>3. OneConnection' /\ ConditionTrue'
    <3>1. CASE ret' = ret
      BY <3>1, <2>0, <1>i DEF OneConnection, ConditionTrue, PromiseKept, PollKept, NeverEndsEarly
    <3>2. CASE ret' = [Nothing EXCEPT !.status = "EWOULDBLOCK"]
      <4>1. ret'.status = "EWOULDBLOCK"
        BY <3>2, <1>s
      <4> QED
        BY <4>1, <2>0, <2>1 DEF OneConnection, ConditionTrue, PromiseKept, PollKept, NeverEndsEarly
    <3> QED
      BY <1>6, <3>1, <3>2 DEF ConditionNone
  <2>4. CondInv' /\ GotInv' /\ WalkInv' /\ AheadInv'
    <3>1. CASE rd' = Idle
      BY <3>1, BackToIdle
    <3>2. CASE rd' = [rd EXCEPT !.queued = TRUE, !.seen = 0, !.conn = 0]
      <4>1. rd'.pc = "cond" /\ rd'.seen = 0 /\ rd'.conn = 0 /\ rd'.slot = rd.slot /\ rd'.got = << >>
        BY <3>2, <2>0, <1>0, <1>i DEF Readers, GotInv
      <4>2. SlotCount \in Nat /\ SlotCount > 0 /\ rd.slot \in 0 .. SlotCount - 1 /\ 0 \in 0 .. SlotCount - 1
        BY SlotFacts, <1>0 DEF TypeOK, Slots
      <4>3. (rd.slot + 0) % SlotCount = rd.slot
        BY <4>2, GoesRound
      <4>4. CondInv'
        BY <2>0, <4>1, <4>2, <4>3 DEF CondInv
      <4>5. GotInv' /\ WalkInv' /\ AheadInv'
        BY <4>1 DEF GotInv, WalkInv, AheadInv
      <4> QED
        BY <4>4, <4>5
    <3>3. CASE rd' = [rd EXCEPT !.pc = "sleep"]
      <4>1. rd'.pc = "sleep" /\ rd'.got = << >>
        BY <3>3, <2>0, <1>0, <1>i DEF Readers, GotInv
      <4> QED
        BY <4>1 DEF CondInv, GotInv, WalkInv, AheadInv
    <3> QED
      BY <1>6, <3>1, <3>2, <3>3 DEF ConditionNone
  <2> QED
    BY <2>0, <2>2, <2>3, <2>4, <1>i DEF ReaderInv
<1>7. CASE Woken
  <2>1. /\ rd'.pc = "cond" /\ CondInv' /\ GotInv' /\ WalkInv' /\ AheadInv'
    BY <1>7, <1>0, SearchBegins DEF Woken
  <2>2. PromiseInv'
    BY <1>7, <1>i DEF Woken, PromiseInv
  <2>3. OneConnection' /\ ConditionTrue'
    BY <1>7, <1>i DEF Woken, OneConnection, ConditionTrue, PromiseKept, PollKept, NeverEndsEarly
  <2> QED
    BY <1>7, <2>1, <2>2, <2>3, <1>i DEF ReaderInv, Woken
<1> QED
  BY <1>1, <1>2, <1>3, <1>4, <1>5, <1>6, <1>7

(* The walk through the rx_buffer.                                         *)
LEMMA ReaderWalk ==
  ASSUME TypeOK, TypeOK', ReaderInv, setup' = setup, First \/ Take \/ Done \/ Bug
  PROVE  ReaderInv'
<1> USE SameSets
<1>0. /\ past \in Pasts /\ rd \in Readers /\ rd.slot \in Slots /\ rd.idx \in Nat /\ rd.conn \in Nat
      /\ rx[rd.slot] \in Seq(Packets(Conns(rd.slot))) /\ Len(rx[rd.slot]) \in Nat
      /\ rd.got \in Seq(Packets(Nat)) /\ Len(rd.got) \in Nat /\ DOMAIN rx = Slots
  BY Fields DEF TypeOK
<1>i. /\ CondInv /\ GotInv /\ WalkInv /\ AheadInv /\ PromiseInv /\ OneConnection /\ ConditionTrue
      /\ (rd.pc # "idle" => open)
  BY DEF ReaderInv
<1>p. ASSUME rd.pc \in {"first", "walk", "done"}, past' = past, open' = open
      PROVE  PromiseInv' /\ ~(Alike /\ past.promised)
  BY <1>p, <1>i DEF PromiseInv
<1>1. CASE First
  <2>0. rd.pc = "first" /\ rx' = rx /\ ret' = ret /\ past' = past /\ open' = open
    BY <1>1 DEF First
  <2>1. rd'.pc = "walk" /\ rd'.slot = rd.slot /\ rd'.conn = 0 /\ rd'.got = << >>
        /\ rd'.idx = IF rx[rd.slot] = << >> THEN 0 ELSE 1
    BY <1>1, <1>0, <1>i DEF First, Readers, GotInv
  <2>2. CondInv' /\ GotInv'
    BY <2>1 DEF CondInv, GotInv
  <2>3. WalkInv'
    <3>1. rd'.idx \in {0, 1} /\ rd'.idx <= Len(rx[rd.slot])
      BY <2>1, <1>0
    <3> QED
      BY <2>0, <2>1, <3>1 DEF WalkInv
  <2>4. AheadInv'
    <3> SUFFICES ASSUME Alike PROVE AheadInv'
      BY DEF AheadInv
    <3>1. HeadComplete(rd.slot)
      BY <2>0, <1>i DEF AheadInv
    <3>2. rd'.idx = 1
      BY <3>1, <2>1 DEF HeadComplete
    <3>3. PICK i \in 1 .. Len(rx[rd.slot]) : rx[rd.slot][i].conn = rx[rd.slot][1].conn /\ rx[rd.slot][i].last
      BY <3>1 DEF HeadComplete
    <3> QED
      BY <2>0, <2>1, <3>2, <3>3 DEF AheadInv
  <2>5. OneConnection' /\ ConditionTrue'
    BY <2>0, <1>i DEF OneConnection, ConditionTrue, PromiseKept, PollKept, NeverEndsEarly
  <2> QED
    BY <2>0, <2>2, <2>3, <2>4, <2>5, <1>p, <1>i DEF ReaderInv
<1>2. CASE Take
  <2> DEFINE L == rx[rd.slot]
             p == L[rd.idx]
  <2>0. rd.pc = "walk" /\ ret' = ret /\ past' = past /\ open' = open /\ open
    BY <1>2, <1>i DEF Take
  <2>x. rd.idx \in 1 .. Len(L)
    BY <1>2, <1>0, <1>i DEF Take, WalkInv
  <2>p. p \in Packets(Nat) /\ p.conn \in Nat /\ p.conn # 0 /\ p.last \in BOOLEAN
    BY <2>x, <1>0, PacketAt
  <2>5. OneConnection' /\ ConditionTrue' /\ CondInv'
    <3>1. rd'.pc # "cond"
      BY <1>2, <1>0, <2>0 DEF Take, Readers
    <3> QED
      BY <2>0, <1>i, <3>1 DEF CondInv, OneConnection, ConditionTrue, PromiseKept, PollKept, NeverEndsEarly
  <2>a. ASSUME Alike
        PROVE  \E i \in rd.idx .. Len(L) :
                 L[i].last /\ L[i].conn = IF rd.conn = 0 THEN L[1].conn ELSE rd.conn
    BY <2>a, <2>0, <1>i DEF AheadInv
  <2>6. CASE Ours(p)
    <3>1. /\ rx'[rd.slot] = RemoveAt(L, rd.idx) /\ rd'.slot = rd.slot /\ rd'.conn = p.conn
          /\ rd'.got = Append(rd.got, p) /\ rd'.idx = IF rd.idx < Len(L) THEN rd.idx ELSE 0
          /\ rd'.pc = IF p.last THEN "done" ELSE "walk"
      <4>1. rx' = [rx EXCEPT ![rd.slot] = RemoveAt(L, rd.idx)]
        BY <1>2, <2>6, Zenon DEF Take
      <4>2. rd' = [rd EXCEPT !.conn = p.conn, !.got = Append(@, p),
                                 !.idx = IF rd.idx < Len(L) THEN @ ELSE 0,
                                 !.pc = IF p.last THEN "done" ELSE "walk"]
        BY <1>2, <2>6, Zenon DEF Take
      <4> HIDE DEF p, L
      <4> QED
        BY <4>1, <4>2, <1>0 DEF Readers
    <3>2. /\ Len(RemoveAt(L, rd.idx)) = Len(L) - 1
          /\ \A i \in 1 .. Len(L) - 1 : RemoveAt(L, rd.idx)[i] = L[IF i < rd.idx THEN i ELSE i + 1]
      BY <2>x, <1>0, Removed
    <3>3. /\ Len(rd'.got) = Len(rd.got) + 1 /\ rd'.got[Len(rd.got) + 1] = p
          /\ \A i \in 1 .. Len(rd.got) : rd'.got[i] = rd.got[i]
      BY <3>1, <1>0, <2>p, AppendProperties
    <3>c. rd.got # << >> => rd.conn = p.conn
      BY <2>6, <2>0, <1>i DEF Ours, GotInv
    <3>4. GotInv'
      <4>0. Len(rd.got) = 0 => rd.got = << >>
        BY <1>0
      <4>1. rd'.got # << >>
        BY <3>3, <1>0
      <4>2. ASSUME NEW i \in 1 .. Len(rd.got) PROVE rd'.got[i].conn = p.conn /\ ~rd'.got[i].last
        BY <3>3, <3>c, <2>0, <1>i, <1>0 DEF GotInv
      <4>3. ASSUME NEW i \in 1 .. Len(rd'.got)
            PROVE rd'.got[i].conn = p.conn /\ (rd'.got[i].last => rd'.pc = "done" /\ i = Len(rd'.got))
        <5>1. CASE i = Len(rd.got) + 1
          BY <5>1, <3>1, <3>3
        <5>2. CASE i # Len(rd.got) + 1
          <6>1. i \in 1 .. Len(rd.got)
            BY <5>2, <3>3, <1>0
          <6> QED
            BY <6>1, <4>2
        <5> QED
          BY <5>1, <5>2
      <4>4. rd'.pc = "done" => rd'.got[Len(rd'.got)].last
        BY <3>1, <3>3
      <4>5. rd'.pc \in {"walk", "done"} /\ rd'.conn # 0
        BY <3>1, <2>p
      <4> HIDE DEF p
      <4> QED
        BY <3>1, <4>1, <4>3, <4>4, <4>5 DEF GotInv
    <3>5. WalkInv'
      <4>1. rd'.idx <= Len(rx'[rd.slot])
        BY <3>1, <3>2, <2>x, <1>0
      <4>2. rd'.conn # 0
        BY <3>1, <2>p
      <4>3. ASSUME NEW i \in 1 .. rd'.idx - 1 PROVE rx'[rd.slot][i].conn # p.conn
        <5>1. i \in 1 .. rd.idx - 1 /\ i \in 1 .. Len(L) - 1 /\ i < rd.idx
          BY <3>1, <2>x, <1>0
        <5>2. rx'[rd.slot][i] = L[i]
          BY <3>1, <3>2, <5>1
        <5>3. rd.conn # 0
          BY <5>1, <2>0, <1>0, <1>i DEF WalkInv
        <5>4. rd.conn = p.conn
          BY <5>3, <2>6 DEF Ours
        <5> QED
          BY <5>1, <5>2, <5>4, <2>0, <1>i DEF WalkInv
      <4> HIDE DEF p, L
      <4> QED
        BY <3>1, <4>1, <4>2, <4>3 DEF WalkInv
    <3>6. AheadInv'
      <4> SUFFICES ASSUME Alike, rd'.pc = "walk"
                   PROVE  /\ rd'.idx # 0
                          /\ \E i \in rd'.idx .. Len(rx'[rd.slot]) :
                               rx'[rd.slot][i].last /\ rx'[rd.slot][i].conn = p.conn
        BY <3>1, <2>p DEF AheadInv
      <4>1. PICK i \in rd.idx .. Len(L) :
                 L[i].last /\ L[i].conn = IF rd.conn = 0 THEN L[1].conn ELSE rd.conn
        BY <2>a
      <4>2. ~p.last
        BY <3>1
      <4>3. i # rd.idx
        BY <4>1, <4>2
      <4>4. L[i].conn = p.conn
        <5>1. CASE rd.conn = 0
          <6>1. rd.idx = 1
            BY <5>1, <2>x, <2>0, <1>i DEF WalkInv
          <6> QED
            BY <6>1, <5>1, <4>1
        <5>2. CASE rd.conn # 0
          BY <5>2, <4>1, <2>6 DEF Ours
        <5> QED
          BY <5>1, <5>2
      <4>5. PICK j \in Nat : j + 1 = i /\ j \in rd.idx .. Len(L) - 1 /\ j \in 1 .. Len(L) - 1 /\ ~(j < rd.idx)
        BY <4>1, <4>3, <2>x, <1>0
      <4>6. rx'[rd.slot][j] = L[i]
        BY <4>5, <3>1, <3>2
      <4>7. rd'.idx = rd.idx /\ rd.idx # 0
        BY <4>5, <2>x, <3>1, <1>0
      <4>8. j \in rd'.idx .. Len(rx'[rd.slot])
        BY <4>5, <4>7, <3>1, <3>2
      <4> QED
        BY <4>1, <4>4, <4>6, <4>7, <4>8
    <3> QED
      BY <2>0, <2>5, <3>4, <3>5, <3>6, <1>p DEF ReaderInv
  <2>7. CASE ~Ours(p)
    <3>1. /\ rx' = rx /\ rd'.slot = rd.slot /\ rd'.conn = rd.conn /\ rd'.got = rd.got /\ rd'.pc = "walk"
          /\ rd'.idx = IF rd.idx < Len(L) THEN rd.idx + 1 ELSE 0
      <4>1. rx' = rx
        BY <1>2, <2>7, Zenon DEF Take
      <4>2. rd' = [rd EXCEPT !.idx = IF rd.idx < Len(L) THEN @ + 1 ELSE 0]
        BY <1>2, <2>7, Zenon DEF Take
      <4> HIDE DEF L
      <4> QED
        BY <4>1, <4>2, <1>0, <2>0 DEF Readers
    <3>2. rd.conn # 0 /\ p.conn # rd.conn
      BY <2>7 DEF Ours
    <3>3. GotInv'
      BY <3>1, <2>0, <1>i DEF GotInv
    <3>4. WalkInv'
      <4>1. rd'.idx <= Len(L)
        BY <3>1, <2>x, <1>0
      <4>2. ASSUME NEW i \in 1 .. rd'.idx - 1 PROVE L[i].conn # rd.conn
        <5>1. i \in 1 .. rd.idx
          BY <3>1, <2>x, <1>0
        <5>2. CASE i = rd.idx
          BY <5>2, <3>2
        <5>3. CASE i # rd.idx
          <6>1. i \in 1 .. rd.idx - 1
            BY <5>1, <5>3, <1>0
          <6> QED
            BY <6>1, <2>0, <1>i DEF WalkInv
        <5> QED
          BY <5>2, <5>3
      <4> QED
        BY <3>1, <3>2, <4>1, <4>2 DEF WalkInv
    <3>5. AheadInv'
      <4> SUFFICES ASSUME Alike
                   PROVE  /\ rd'.idx # 0
                          /\ \E i \in rd'.idx .. Len(L) : L[i].last /\ L[i].conn = rd.conn
        BY <3>1, <3>2 DEF AheadInv
      <4>1. PICK i \in rd.idx .. Len(L) : L[i].last /\ L[i].conn = rd.conn
        BY <2>a, <3>2
      <4>2. i # rd.idx
        BY <4>1, <3>2
      <4>3. rd.idx < Len(L) /\ i \in rd.idx + 1 .. Len(L) /\ rd.idx + 1 # 0
        BY <4>1, <4>2, <2>x, <1>0
      <4> QED
        BY <4>1, <4>3, <3>1
    <3> QED
      BY <2>0, <2>5, <3>3, <3>4, <3>5, <1>p DEF ReaderInv
  <2> QED
    BY <2>6, <2>7
<1>3. CASE Done
  <2>0. rd.pc = "done" /\ past' = past /\ open' = open
    BY <1>3 DEF Done
  <2>1. ret'.status = "ok" /\ ret'.got = rd.got
    BY <1>3 DEF Done
  <2>2. rd'.pc = "idle" /\ CondInv' /\ GotInv' /\ WalkInv' /\ AheadInv'
    BY <1>3, BackToIdle DEF Done
  <2>3. OneConnection'
    <3>1. rd.got # << >> /\ rd.got[Len(rd.got)].last
      BY <2>0, <1>i DEF GotInv
    <3>2. \A i \in 1 .. Len(rd.got) : rd.got[i].conn = rd.conn /\ (rd.got[i].last => i = Len(rd.got))
      BY <1>i DEF GotInv
    <3>3. 1 \in 1 .. Len(rd.got)
      BY <3>1, <1>0
    <3> QED
      BY <2>1, <3>1, <3>2, <3>3 DEF OneConnection, Last
  <2>4. ConditionTrue'
    BY <2>1 DEF ConditionTrue, PromiseKept, PollKept, NeverEndsEarly
  <2> QED
    BY <2>0, <2>2, <2>3, <2>4, <1>p DEF ReaderInv
<1>4. CASE Bug
  <2>0. rd.pc = "walk" /\ rd.idx = 0 /\ past' = past /\ open' = open
    BY <1>4 DEF Bug
  <2>1. ret'.status = "EIO" /\ ~Alike
    BY <1>4, <2>0, <1>i DEF Bug, Nothing, AheadInv
  <2>2. rd'.pc = "idle" /\ CondInv' /\ GotInv' /\ WalkInv' /\ AheadInv'
    BY <1>4, BackToIdle DEF Bug
  <2>3. OneConnection' /\ ConditionTrue'
    BY <2>1 DEF OneConnection, ConditionTrue, PromiseKept, PollKept, NeverEndsEarly
  <2> QED
    BY <2>0, <2>2, <2>3, <1>p DEF ReaderInv
<1> QED
  BY <1>1, <1>2, <1>3, <1>4

-----------------------------------------------------------------------------
(* The chain of packets.                                                   *)

(* Whatever q can come after, r can.                                       *)
Weakens(q, r) ==
  /\ \A p \in Packets(Nat) : Joins(p, q) => Joins(p, r)
  /\ Begins(q) => Begins(r)

(* The line of a slot is a sequence of packets of its connections.         *)
LEMMA LineType ==
  ASSUME TypeOK, NEW s \in Slots
  PROVE  /\ Line(s) \in Seq(Packets(Conns(s))) /\ Len(Line(s)) \in Nat
         /\ \A n \in 1 .. Len(Line(s)) :
              /\ Line(s)[n] \in Packets(Nat) /\ Line(s)[n] \in Packets(Conns(s))
              /\ Line(s)[n].conn \in Conns(s)
<1>1. rx[s] \in Seq(Packets(Conns(s))) /\ Conns(s) \subseteq Nat
  BY SlotFacts DEF TypeOK
<1>2. Line(s) \in Seq(Packets(Conns(s)))
  <2>1. CASE th.pc = "fetched" /\ th.slot = s
    <3>1. th.pkt \in Packets(Conns(s))
      BY <2>1 DEF TypeOK
    <3> QED
      BY <2>1, <3>1, <1>1, AppendProperties DEF Line
  <2>2. CASE ~(th.pc = "fetched" /\ th.slot = s)
    BY <2>2, <1>1 DEF Line
  <2> QED
    BY <2>1, <2>2
<1>3. ASSUME NEW n \in 1 .. Len(Line(s))
      PROVE  /\ Line(s)[n] \in Packets(Nat) /\ Line(s)[n] \in Packets(Conns(s))
             /\ Line(s)[n].conn \in Conns(s)
  <2>1. Line(s)[n] \in Packets(Conns(s))
    BY <1>2
  <2> QED
    BY <2>1, <1>1, PacketIn
<1> QED
  BY <1>2, <1>3

(* A packet that can come after more fits where the other did.             *)
LEMMA FitsWeaker ==
  ASSUME TypeOK, NEW s \in Slots, NEW c, NEW n \in 1 .. Len(Line(s)) + 1, NEW q, NEW r,
         Weakens(q, r), Fits(s, c, n, q)
  PROVE  Fits(s, c, n, r)
<1>0. Len(Line(s)) \in Nat /\ \A i \in 1 .. Len(Line(s)) : Line(s)[i] \in Packets(Nat)
  BY LineType
<1>1. InLine(Line(s), c, n, r)
  <2> SUFFICES ASSUME NEW i \in 1 .. n - 1, Line(s)[i].conn = c, \A j \in i + 1 .. n - 1 : Line(s)[j].conn # c
               PROVE  Joins(Line(s)[i], r)
    BY DEF InLine
  <2>1. Joins(Line(s)[i], q)
    BY DEF Fits, InLine
  <2>2. Line(s)[i] \in Packets(Nat)
    BY <1>0
  <2> QED
    BY <2>1, <2>2 DEF Weakens
<1>2. AfterRead(s, c, q) => AfterRead(s, c, r)
  <2>1. rd.got \in Seq(Packets(Nat))
    BY Fields
  <2>2. rd.got # << >> => rd.got[Len(rd.got)] \in Packets(Nat)
    BY <2>1
  <2> QED
    BY <2>2 DEF AfterRead, Weakens
<1> QED
  BY <1>1, <1>2 DEF Fits

(* The same place in the line, after a step.                               *)
LEMMA FitsKept ==
  ASSUME NEW s, NEW c, NEW n \in Nat, NEW q, Fits(s, c, n, q),
         \A i \in 1 .. n - 1 : Line(s)'[i] = Line(s)[i],
         AfterRead(s, c, q) => AfterRead(s, c, q)'
  PROVE  Fits(s, c, n, q)'
<1>1. InLine(Line(s)', c, n, q)
  <2>1. InLine(Line(s), c, n, q)
    BY DEF Fits
  <2> QED
    BY <2>1 DEF InLine
<1>2. NoneBefore(Line(s)', c, n) <=> NoneBefore(Line(s), c, n)
  BY DEF NoneBefore
<1> QED
  BY <1>1, <1>2 DEF Fits

(* The line does not change, and what comes next can come after more.      *)
LEMMA ChainKept ==
  ASSUME TypeOK, TypeOK', setup' = setup, NEW s \in Slots, Chained(s), Line(s)' = Line(s),
         \A c, q : AfterRead(s, c, q) => AfterRead(s, c, q)',
         \A c \in Conns(s) : Weakens(Coming(s, c), Coming(s, c)')
  PROVE  Chained(s)'
<1>0. Len(Line(s)) \in Nat /\ Conns(s)' = Conns(s)
  BY LineType, SameSets
<1>1. ASSUME NEW n \in 1 .. Len(Line(s)) PROVE Fits(s, Line(s)[n].conn, n, Line(s)[n])'
  <2>1. PICK q : q = Line(s)[n]
    OBVIOUS
  <2>2. Fits(s, q.conn, n, q)
    BY <2>1 DEF Chained
  <2>3. n \in Nat /\ Line(s)'[n] = q
    BY <2>1
  <2>4. Fits(s, q.conn, n, q)'
    BY <2>2, <2>3, FitsKept
  <2> QED
    BY <2>3, <2>4
<1>2. ASSUME NEW c \in Conns(s) PROVE Fits(s, c, Len(Line(s)) + 1, Coming(s, c))'
  <2>1. PICK q, r, n : q = Coming(s, c) /\ r = Coming(s, c)' /\ n = Len(Line(s)) + 1
    OBVIOUS
  <2>2. Fits(s, c, n, q) /\ Weakens(q, r) /\ n \in Nat /\ n \in 1 .. Len(Line(s)) + 1
    BY <2>1, <1>0 DEF Chained
  <2>3. Fits(s, c, n, r)
    BY <2>2, FitsWeaker
  <2>4. Fits(s, c, n, r)'
    BY <2>2, <2>3, FitsKept
  <2> QED
    BY <2>1, <2>4
<1> QED
  BY <1>0, <1>1, <1>2 DEF Chained

(* What comes next from a CAM that stays as it is, and from one that goes  *)
(* down or comes up again.                                                 *)
LEMMA ComingKept ==
  ASSUME TypeOK, NEW s \in Slots, NEW c \in Conns(s), cam'[s][c] = cam[s][c], s \in up' => s \in up
  PROVE  Weakens(Coming(s, c), Coming(s, c)')
<1> DEFINE m == cam[s][c]
<1>0. m.msg \in {0, 1} /\ m.k \in Nat /\ m.cut \in BOOLEAN
  <2>1. m \in CamStates
    BY DEF TypeOK
  <2> QED
    BY <2>1 DEF CamStates
<1>1. CASE s \in up <=> s \in up'
  <2>1. Coming(s, c)' = Coming(s, c)
    BY <1>1 DEF Coming
  <2> QED
    BY <2>1 DEF Weakens
<1>2. CASE s \in up /\ s \notin up'
  <2>1. Coming(s, c).k = m.k + 1 /\ Coming(s, c).msg = m.msg /\ (Coming(s, c).cut <=> m.cut)
    BY <1>2 DEF Coming
  <2>2. Coming(s, c)'.k = 1 /\ Coming(s, c)'.msg = 0 /\ (Coming(s, c)'.cut <=> m.k > 0 \/ m.cut)
    BY <1>2, Zenon DEF Coming
  <2> HIDE DEF m
  <2>3. ASSUME NEW p \in Packets(Nat), Joins(p, Coming(s, c)) PROVE Joins(p, Coming(s, c)')
    <3>1. p.k \in Nat /\ p.k > 0 /\ p.last \in BOOLEAN
      BY PacketIn
    <3> QED
      BY <3>1, <2>1, <2>2, <2>3, <1>0 DEF Joins
  <2>4. Begins(Coming(s, c)) => Begins(Coming(s, c)')
    BY <2>1, <2>2, <1>0 DEF Begins
  <2> QED
    BY <2>3, <2>4 DEF Weakens
<1> QED
  BY <1>1, <1>2

(* The CAM comes up: it begins with the message that was to come next.     *)
LEMMA ComingUp ==
  ASSUME TypeOK, setup' = setup, NEW s \in Slots, LinkInit(s), NEW t \in Slots, NEW c \in Conns(t)
  PROVE  Weakens(Coming(t, c), Coming(t, c)')
<1>0. DOMAIN cam = Slots /\ \A u \in Slots : cam[u] \in [Conns(u) -> CamStates]
  BY DEF TypeOK
<1>1. CASE t = s
  <2> DEFINE b == cam[s][c].k > 0 \/ cam[s][c].cut
  <2>1. cam'[s][c] = [msg |-> 0, k |-> 0, cut |-> b] /\ s \in up' /\ s \notin up
    BY <1>0, <1>1 DEF LinkInit
  <2>2. Coming(s, c) = [msg |-> 0, k |-> 1, cut |-> b]
    BY <2>1, Zenon DEF Coming
  <2> HIDE DEF b
  <2>3. cam'[s][c].msg = 0 /\ cam'[s][c].k = 0 /\ cam'[s][c].cut = b
    BY <2>1
  <2>4. cam'[s][c].k + 1 = 1
    BY <2>3
  <2>5. Coming(s, c)' = [msg |-> 0, k |-> 1, cut |-> b]
    BY <2>1, <2>3, <2>4, Zenon DEF Coming
  <2> QED
    BY <2>2, <2>5, <1>1, Zenon DEF Weakens
<1>2. CASE t # s
  BY <1>0, <1>2, ComingKept DEF LinkInit
<1> QED
  BY <1>1, <1>2

(* The steps that leave line and got alone.                                *)
LEMMA ChainSlots ==
  ASSUME TypeOK, TypeOK', setup' = setup, ChainInv, Store \/ Wake \/ Reset \/ Close
         \/ \E s \in Slots : Shutdown(s) \/ LinkInit(s)
  PROVE  ChainInv'
<1> USE SameSets
<1> SUFFICES ASSUME Alike, NEW t \in Slots PROVE Chained(t)'
  BY DEF ChainInv
<1>0. Chained(t)
  BY DEF ChainInv
<1>r. rd' = rd
  BY DEF Store, Wake, Reset, Close, Shutdown, LinkInit
<1>1. \A c, q : AfterRead(t, c, q) => AfterRead(t, c, q)'
  BY <1>r DEF AfterRead
<1>2. Line(t)' = Line(t)
  <2>1. CASE Store
    <3>1. th'.pc # "fetched" /\ DOMAIN rx = Slots /\ th.pc = "fetched"
      BY <2>1 DEF Store, ThreadIdle, TypeOK, Threads
    <3>2. rx'[t] = IF th.slot = t THEN Append(rx[t], th.pkt) ELSE rx[t]
      BY <2>1, <3>1 DEF Store
    <3> QED
      BY <3>1, <3>2 DEF Line
  <2>2. CASE Wake
    BY <2>2 DEF Wake, ThreadIdle, Line
  <2>3. CASE Reset \/ Close \/ \E s \in Slots : Shutdown(s) \/ LinkInit(s)
    BY <2>3 DEF Reset, Close, Shutdown, LinkInit, Line
  <2> QED
    BY <2>1, <2>2, <2>3
<1>3. \A c \in Conns(t) : Weakens(Coming(t, c), Coming(t, c)')
  <2>1. CASE Store \/ Wake \/ Reset \/ Close \/ \E s \in Slots : Shutdown(s)
    BY <2>1, ComingKept DEF Store, Wake, Reset, Close, Shutdown
  <2>2. CASE \E s \in Slots : LinkInit(s)
    BY <2>2, ComingUp
  <2> QED
    BY <2>1, <2>2
<1> QED
  BY <1>0, <1>1, <1>2, <1>3, ChainKept

(* The steps of the process other than taking a fragment.                  *)
LEMMA ChainProcess ==
  ASSUME TypeOK, TypeOK', setup' = setup, ChainInv, ReaderInv, ReaderInv', rx' = rx, th' = th, cam' = cam, up' = up,
         \/ rd'.got = rd.got /\ (rd.got = << >> \/ (rd'.slot = rd.slot /\ rd'.conn = rd.conn))
         \/ rd.pc = "done" /\ rd'.got = << >>
  PROVE  ChainInv'
<1> USE SameSets
<1> SUFFICES ASSUME Alike, NEW t \in Slots PROVE Chained(t)'
  BY DEF ChainInv
<1>0. Chained(t)
  BY DEF ChainInv
<1>1. ASSUME NEW c, NEW q, AfterRead(t, c, q) PROVE AfterRead(t, c, q)'
  <2>1. CASE rd'.got = rd.got /\ (rd.got = << >> \/ (rd'.slot = rd.slot /\ rd'.conn = rd.conn))
    BY <1>1, <2>1 DEF AfterRead
  <2>2. CASE rd.pc = "done" /\ rd'.got = << >>
    <3>1. rd.got # << >> /\ rd.got[Len(rd.got)].last
      BY <2>2 DEF ReaderInv, GotInv
    <3>2. Joins(rd.got[Len(rd.got)], q) => Begins(q)
      BY <3>1 DEF Joins, Begins
    <3> QED
      BY <1>1, <2>2, <3>2 DEF AfterRead
  <2> QED
    BY <2>1, <2>2
<1>2. Line(t)' = Line(t)
  BY DEF Line
<1>3. \A c \in Conns(t) : Weakens(Coming(t, c), Coming(t, c)')
  BY ComingKept
<1> QED
  BY <1>0, <1>1, <1>2, <1>3, ChainKept

(* The packet before position n + 1 is of another connection, ...          *)
LEMMA SkipOther ==
  ASSUME NEW L, NEW c, NEW n \in Nat, n > 0, NEW q, L[n].conn # c
  PROVE  /\ InLine(L, c, n + 1, q) <=> InLine(L, c, n, q)
         /\ NoneBefore(L, c, n + 1) <=> NoneBefore(L, c, n)
<1>1. (n + 1) - 1 = n
  OBVIOUS
<1>2. NoneBefore(L, c, n + 1) <=> NoneBefore(L, c, n)
  <2>1. \A j \in 1 .. n : j = n \/ j \in 1 .. n - 1
    OBVIOUS
  <2>2. 1 .. n - 1 \subseteq 1 .. n
    OBVIOUS
  <2> QED
    BY <1>1, <2>1, <2>2 DEF NoneBefore
<1>3. ASSUME InLine(L, c, n + 1, q) PROVE InLine(L, c, n, q)
  <2> SUFFICES ASSUME NEW i \in 1 .. n - 1, L[i].conn = c, \A j \in i + 1 .. n - 1 : L[j].conn # c
               PROVE  Joins(L[i], q)
    BY DEF InLine
  <2>1. i \in 1 .. (n + 1) - 1
    OBVIOUS
  <2>2. ASSUME NEW j \in i + 1 .. (n + 1) - 1 PROVE L[j].conn # c
    <3>1. j = n \/ j \in i + 1 .. n - 1
      OBVIOUS
    <3> QED
      BY <3>1
  <2> QED
    BY <1>3, <2>1, <2>2 DEF InLine
<1>4. ASSUME InLine(L, c, n, q) PROVE InLine(L, c, n + 1, q)
  <2> SUFFICES ASSUME NEW i \in 1 .. (n + 1) - 1, L[i].conn = c, \A j \in i + 1 .. (n + 1) - 1 : L[j].conn # c
               PROVE  Joins(L[i], q)
    BY DEF InLine
  <2>1. i # n
    OBVIOUS
  <2>2. i \in 1 .. n - 1 /\ \A j \in i + 1 .. n - 1 : j \in i + 1 .. (n + 1) - 1
    BY <2>1
  <2> QED
    BY <1>4, <2>2 DEF InLine
<1> QED
  BY <1>2, <1>3, <1>4

(* ... or of the same one.                                                 *)
LEMMA AfterSame ==
  ASSUME NEW L, NEW c, NEW n \in Nat, n > 0, NEW q, L[n].conn = c
  PROVE  /\ InLine(L, c, n + 1, q) <=> Joins(L[n], q)
         /\ ~NoneBefore(L, c, n + 1)
<1>1. n \in 1 .. (n + 1) - 1 /\ \A j \in n + 1 .. (n + 1) - 1 : FALSE
  OBVIOUS
<1>2. ~NoneBefore(L, c, n + 1)
  BY <1>1 DEF NoneBefore
<1>3. InLine(L, c, n + 1, q) => Joins(L[n], q)
  BY <1>1 DEF InLine
<1>4. ASSUME Joins(L[n], q) PROVE InLine(L, c, n + 1, q)
  <2> SUFFICES ASSUME NEW i \in 1 .. (n + 1) - 1, L[i].conn = c, \A j \in i + 1 .. (n + 1) - 1 : L[j].conn # c
               PROVE  Joins(L[i], q)
    BY DEF InLine
  <2>1. i = n \/ n \in i + 1 .. (n + 1) - 1
    OBVIOUS
  <2>2. i = n
    BY <2>1
  <2> QED
    BY <1>4, <2>2
<1> QED
  BY <1>2, <1>3, <1>4

(* The CAM sends a fragment: the line grows by what was to come.           *)
LEMMA ChainReadData ==
  ASSUME TypeOK, TypeOK', setup' = setup, ChainInv,
         NEW s \in Slots, NEW last \in BOOLEAN, NEW d \in Conns(s), ReadData(s, d, last)
  PROVE  ChainInv'
<1> USE SameSets
<1> SUFFICES ASSUME Alike, NEW t \in Slots PROVE Chained(t)'
  BY DEF ChainInv
<1>0. Chained(t)
  BY DEF ChainInv
<1>r. rd' = rd /\ up' = up /\ rx' = rx /\ th.pc = "idle" /\ s \in up
  BY DEF ReadData
<1>a. \A c, q : AfterRead(t, c, q) => AfterRead(t, c, q)'
  BY <1>r DEF AfterRead
<1>d. DOMAIN cam = Slots /\ cam[s] \in [Conns(s) -> CamStates]
  BY DEF TypeOK
<1> DEFINE m == cam[s][d]
           n == IF last THEN [msg |-> 1 - m.msg, k |-> 0, cut |-> FALSE]
                ELSE [m EXCEPT !.k = @ + 1, !.cut = FALSE]
<1>m. m \in CamStates /\ m.msg \in {0, 1} /\ m.k \in Nat /\ m.cut \in BOOLEAN
  BY <1>d DEF CamStates
<1>t. /\ th' = [pc |-> "fetched", slot |-> s,
                pkt |-> [conn |-> d, msg |-> m.msg, k |-> m.k + 1, last |-> last, cut |-> m.cut]]
      /\ cam' = [cam EXCEPT ![s][d] = n]
  BY DEF ReadData
<1>1. CASE t # s
  <2>1. Line(t)' = Line(t)
    BY <1>r, <1>t, <1>1 DEF Line
  <2>2. \A c \in Conns(t) : Weakens(Coming(t, c), Coming(t, c)')
    <3>1. cam'[t] = cam[t]
      BY <1>t, <1>1, <1>d
    <3> QED
      BY <3>1, <1>r, ComingKept
  <2> QED
    BY <1>0, <1>a, <2>1, <2>2, ChainKept
<1>2. CASE t = s
  <2>1. PICK q : q = [conn |-> d, msg |-> m.msg, k |-> m.k + 1, last |-> last, cut |-> m.cut]
    OBVIOUS
  <2>2. PICK L : L = Line(s)
    OBVIOUS
  <2>3. PICK N \in Nat : N = Len(L)
    BY <2>2, LineType
  <2>n. n.msg \in {0, 1} /\ n.k \in Nat /\ (n.cut <=> FALSE) /\ (last => n.k = 0) /\ (~last => n.k = m.k + 1 /\ n.msg = m.msg)
    <3> HIDE DEF m
    <3> QED
      BY <1>m DEF CamStates
  <2>q. q.conn = d /\ q.msg = m.msg /\ q.k = m.k + 1 /\ q.last = last /\ q.cut = m.cut
    BY <2>1
  <2>c. cam'[s][d] = n /\ \A c \in Conns(s) : c # d => cam'[s][c] = cam[s][c]
    BY <1>t, <1>d
  <2>p. th'.pkt = q /\ th'.slot = s /\ th'.pc = "fetched"
    BY <1>t, <2>1
  <2> HIDE DEF n, m
  <2>4. q \in Packets(Conns(s))
    BY <2>p DEF TypeOK
  <2>5. L \in Seq(Packets(Conns(s))) /\ Line(s)' = Append(L, q)
    BY <1>r, <2>2, <2>p, LineType DEF Line
  <2>6. /\ Len(Line(s)') = N + 1 /\ Line(s)'[N + 1] = q
        /\ \A i \in 1 .. N : Line(s)'[i] = L[i]
    BY <2>3, <2>4, <2>5, AppendProperties
  <2>w. Weakens(Coming(s, d), q)
    <3>1. Coming(s, d).k = m.k + 1 /\ Coming(s, d).msg = m.msg /\ Coming(s, d).cut = m.cut
      BY <1>r DEF Coming, m
    <3> QED
      BY <3>1, <2>q DEF Weakens, Joins, Begins
  <2>7. Fits(s, d, N + 1, q)'
    <3>1. PICK r : r = Coming(s, d)
      OBVIOUS
    <3>2. Fits(s, d, N + 1, r)
      BY <1>0, <1>2, <2>2, <2>3, <3>1 DEF Chained
    <3>3. Fits(s, d, N + 1, q)
      BY <3>1, <3>2, <2>w, <2>2, <2>3, FitsWeaker
    <3>4. \A i \in 1 .. (N + 1) - 1 : Line(s)'[i] = Line(s)[i]
      BY <2>2, <2>3, <2>6
    <3> QED
      BY <3>3, <3>4, <1>a, <1>2, FitsKept
  <2>8. ASSUME NEW i \in 1 .. Len(Line(s)') PROVE Fits(s, Line(s)[i].conn, i, Line(s)[i])'
    <3>1. CASE i = N + 1
      BY <3>1, <2>6, <2>7, <2>q
    <3>2. CASE i # N + 1
      <4>1. i \in 1 .. N /\ i \in Nat /\ \A j \in 1 .. i - 1 : j \in 1 .. N
        BY <3>2, <2>6, <2>3
      <4>2. PICK r : r = L[i]
        OBVIOUS
      <4>3. Fits(s, r.conn, i, r)
        BY <1>0, <1>2, <2>2, <2>3, <4>1, <4>2 DEF Chained
      <4>4. Fits(s, r.conn, i, r)'
        BY <4>1, <4>3, <2>2, <2>6, <1>a, <1>2, FitsKept
      <4> QED
        BY <4>1, <4>2, <4>4, <2>6
    <3> QED
      BY <3>1, <3>2
  <2>9. ASSUME NEW c \in Conns(s) PROVE Fits(s, c, Len(Line(s)) + 1, Coming(s, c))'
    <3>1. PICK r : r = Coming(s, c)'
      OBVIOUS
    <3>2. PICK M \in Nat : M = N + 1 /\ M > 0 /\ M \in 1 .. N + 1
      BY <2>3
    <3>3. CASE c = d
      <4>1. r.k = n.k + 1 /\ r.msg = n.msg /\ (r.cut <=> n.cut)
        BY <3>1, <3>3, <1>r, <2>c DEF Coming
      <4>2. Joins(q, r)
        BY <4>1, <2>n, <2>q, <1>m DEF Joins
      <4>3. InLine(Line(s)', c, M + 1, r) /\ ~NoneBefore(Line(s)', c, M + 1)
        BY <3>2, <3>3, <4>2, <2>6, <2>q, AfterSame
      <4> QED
        BY <3>1, <3>2, <4>3, <2>6 DEF Fits
    <3>4. CASE c # d
      <4>1. r = Coming(s, c)
        BY <3>1, <3>4, <1>r, <2>c DEF Coming
      <4>2. Fits(s, c, M, r)
        BY <1>0, <1>2, <2>2, <2>3, <3>2, <4>1 DEF Chained
      <4>3. Fits(s, c, M, r)'
        BY <3>2, <4>2, <2>2, <2>3, <2>6, <1>a, <1>2, FitsKept
      <4>4. /\ InLine(Line(s)', c, M + 1, r) <=> InLine(Line(s)', c, M, r)
            /\ NoneBefore(Line(s)', c, M + 1) <=> NoneBefore(Line(s)', c, M)
        BY <3>2, <3>4, <2>6, <2>q, SkipOther
      <4> QED
        BY <3>1, <3>2, <4>3, <4>4, <2>6 DEF Fits
    <3> QED
      BY <3>3, <3>4
  <2> QED
    BY <1>2, <2>8, <2>9 DEF Chained
<1> QED
  BY <1>1, <1>2

(* The fragment in flight is dropped: what the CAM will send after it has  *)
(* come up again is cut, if the fragment did not begin a message.          *)
LEMMA ChainReadFails ==
  ASSUME TypeOK, TypeOK', setup' = setup, ChainInv, ReadFails
  PROVE  ChainInv'
<1> USE SameSets
<1> SUFFICES ASSUME Alike, NEW t \in Slots PROVE Chained(t)'
  BY DEF ChainInv
<1>0. Chained(t)
  BY DEF ChainInv
<1>r. rd' = rd /\ up' = up \ {th.slot} /\ rx' = rx /\ th.pc = "fetched" /\ th'.pc = "idle" /\ th.slot \in Slots
  BY Fields DEF ReadFails, ThreadIdle
<1>a. \A c, q : AfterRead(t, c, q) => AfterRead(t, c, q)'
  BY <1>r DEF AfterRead
<1>p. /\ th.pkt \in Packets(Conns(th.slot)) /\ th.pkt.conn \in Conns(th.slot)
      /\ th.pkt.k \in Nat /\ th.pkt.cut \in BOOLEAN
  <2>1. th.pkt \in Packets(Conns(th.slot)) /\ Conns(th.slot) \subseteq Nat
    BY <1>r, SlotFacts DEF TypeOK
  <2> QED
    BY <2>1, PacketIn
<1>d. DOMAIN cam = Slots /\ \A u \in Slots : cam[u] \in [Conns(u) -> CamStates]
  BY DEF TypeOK
<1>1. CASE t # th.slot
  <2>1. Line(t)' = Line(t)
    BY <1>r, <1>1 DEF Line
  <2>2. \A c \in Conns(t) : Weakens(Coming(t, c), Coming(t, c)')
    <3>1. cam'[t] = cam[t]
      BY <1>1, <1>d DEF ReadFails
    <3> QED
      BY <3>1, <1>r, ComingKept
  <2> QED
    BY <1>0, <1>a, <2>1, <2>2, ChainKept
<1>2. CASE t = th.slot
  <2>1. PICK q, d : q = th.pkt /\ d = q.conn
    OBVIOUS
  <2>2. PICK R : R = rx[t]
    OBVIOUS
  <2>3. PICK N \in Nat : N = Len(R)
    BY <2>2 DEF TypeOK
  <2>4. Line(t) = Append(R, q) /\ Line(t)' = R /\ R \in Seq(Packets(Conns(t)))
    BY <1>r, <1>2, <2>1, <2>2 DEF Line, TypeOK
  <2>5. /\ Len(Line(t)) = N + 1 /\ Line(t)[N + 1] = q
        /\ \A i \in 1 .. N : Line(t)'[i] = Line(t)[i]
    BY <2>1, <2>3, <2>4, <1>p, <1>2, AppendProperties
  <2>8. ASSUME NEW i \in 1 .. Len(Line(t)') PROVE Fits(t, Line(t)[i].conn, i, Line(t)[i])'
    <3>1. i \in 1 .. N /\ i \in 1 .. N + 1 /\ i \in Nat /\ \A j \in 1 .. i - 1 : j \in 1 .. N
      BY <2>3, <2>4
    <3>2. PICK r : r = R[i]
      OBVIOUS
    <3>3. Line(t)[i] = r /\ Line(t)'[i] = r
      BY <3>1, <3>2, <2>4, <2>5
    <3>4. Fits(t, r.conn, i, r)
      BY <1>0, <3>1, <3>3, <2>5 DEF Chained
    <3>5. Fits(t, r.conn, i, r)'
      BY <3>1, <3>4, <2>5, <1>a, FitsKept
    <3> QED
      BY <3>3, <3>5
  <2>9. ASSUME NEW c \in Conns(t) PROVE Fits(t, c, Len(Line(t)) + 1, Coming(t, c))'
    <3>1. PICK r : r = Coming(t, c)'
      OBVIOUS
    <3>2. PICK M \in Nat : M = N + 1 /\ M > 0 /\ M \in 1 .. N + 1 /\ M \in 1 .. (N + 1) + 1 /\ M + 1 \in 1 .. (N + 1) + 1
      BY <2>3
    <3>3. CASE c = d
      <4> DEFINE m == cam[t][d]
      <4>0. m \in CamStates /\ m.k \in Nat /\ m.cut \in BOOLEAN
        BY <3>3, <1>d DEF CamStates
      <4>1. PICK b \in BOOLEAN : b = (m.cut \/ q.k > 1 \/ q.cut)
        BY Zenon
      <4>2. cam'[t][d] = [m EXCEPT !.cut = b]
        <5>1. cam' = [cam EXCEPT ![th.slot][th.pkt.conn].cut = b]
          BY <1>2, <4>1, <2>1, <1>d, Zenon DEF ReadFails
        <5> QED
          BY <5>1, <1>2, <2>1, <1>d, <1>p
      <4> HIDE DEF m
      <4>3. cam'[t][d].k = m.k /\ cam'[t][d].cut = b
        BY <4>0, <4>2 DEF CamStates
      <4>4. r.k = 1 /\ (b => r.cut)
        <5>1. r = [msg |-> 0, k |-> 1, cut |-> cam'[t][d].k > 0 \/ cam'[t][d].cut]
          BY <3>1, <3>3, <1>r, <1>2, Zenon DEF Coming
        <5>2. PICK x \in BOOLEAN : x = (cam'[t][d].k > 0 \/ cam'[t][d].cut)
          BY Zenon
        <5>3. r = [msg |-> 0, k |-> 1, cut |-> x]
          BY <5>1, <5>2, Zenon
        <5>4. b => x
          BY <5>2, <4>3
        <5> QED
          BY <5>3, <5>4
      <4>5. Weakens(q, r)
        <5>1. q.k \in Nat /\ q.cut \in BOOLEAN
          BY <2>1, <1>p
        <5>2. (q.cut => r.cut) /\ (q.k > 1 => r.cut) /\ r.k = 1
          BY <4>1, <4>4, <5>1
        <5>3. ASSUME NEW p \in Packets(Nat), Joins(p, q) PROVE Joins(p, r)
          <6>1. p.k \in Nat /\ p.k > 0
            BY PacketIn
          <6> QED
            BY <5>1, <5>2, <5>3, <6>1 DEF Joins
        <5>4. Begins(q) => Begins(r)
          BY <5>1, <5>2 DEF Begins
        <5> QED
          BY <5>3, <5>4 DEF Weakens
      <4>6. Fits(t, c, M, q)
        BY <1>0, <2>1, <2>5, <3>2, <3>3 DEF Chained
      <4>7. Fits(t, c, M, r)
        BY <4>5, <4>6, <3>2, <2>5, FitsWeaker
      <4>8. \A i \in 1 .. M - 1 : Line(t)'[i] = Line(t)[i]
        BY <2>5, <3>2
      <4>9. Fits(t, c, M, r)'
        BY <4>7, <4>8, <3>2, <1>a, FitsKept
      <4> QED
        BY <4>9, <3>1, <3>2, <2>3, <2>4
    <3>4. CASE c # d
      <4>1. cam'[t][c] = cam[t][c]
        BY <1>2, <3>4, <2>1, <1>d, <1>p DEF ReadFails
      <4>2. PICK o : o = Coming(t, c)
        OBVIOUS
      <4>3. Weakens(o, r)
        BY <3>1, <4>1, <4>2, <1>r, ComingKept
      <4>4. Fits(t, c, M + 1, o)
        BY <1>0, <2>5, <3>2, <4>2 DEF Chained
      <4>5. /\ InLine(Line(t), c, M + 1, o) <=> InLine(Line(t), c, M, o)
            /\ NoneBefore(Line(t), c, M + 1) <=> NoneBefore(Line(t), c, M)
        BY <3>2, <3>4, <2>1, <2>5, SkipOther
      <4>6. Fits(t, c, M, o)
        BY <4>4, <4>5 DEF Fits
      <4>7. Fits(t, c, M, r)
        BY <4>3, <4>6, <3>2, <2>5, FitsWeaker
      <4>8. \A i \in 1 .. M - 1 : Line(t)'[i] = Line(t)[i]
        BY <2>5, <3>2
      <4>9. Fits(t, c, M, r)'
        BY <4>7, <4>8, <3>2, <1>a, FitsKept
      <4> QED
        BY <4>9, <3>1, <3>2, <2>3, <2>4
    <3> QED
      BY <3>3, <3>4
  <2> QED
    BY <2>8, <2>9 DEF Chained
<1> QED
  BY <1>1, <1>2

(* The device is opened: what is next of a message that the flush has torn *)
(* is cut.                                                                 *)
LEMMA ChainOpen ==
  ASSUME TypeOK, TypeOK', setup' = setup, ChainInv, ReaderInv, Open
  PROVE  ChainInv'
<1> USE SameSets
<1> SUFFICES ASSUME Alike, NEW t \in Slots PROVE Chained(t)'
  BY DEF ChainInv
<1>0. Chained(t)
  BY DEF ChainInv
<1>r. rd' = rd /\ up' = up /\ rd.got = << >>
  BY DEF Open, ReaderInv, GotInv
<1>a. \A c, q : (AfterRead(t, c, q) <=> Begins(q)) /\ (AfterRead(t, c, q)' <=> Begins(q))
  BY <1>r DEF AfterRead
<1>d. \A u \in Slots : \A c \in Conns(u) : cam[u][c] \in CamStates
  BY DEF TypeOK
<1>p. th \in Threads /\ (th.pc = "fetched" => th.pkt \in Packets(Conns(th.slot)) /\ th.pkt.conn \in Conns(th.slot))
      /\ th.slot \in Slots /\ (th.pc = "fetched" => th.pkt.k \in Nat /\ th.pkt.k > 0)
  <2>1. th \in Threads /\ (th.pc = "fetched" => th.pkt \in Packets(Conns(th.slot))) /\ th.slot \in Slots
    BY Fields DEF TypeOK
  <2>2. Conns(th.slot) \subseteq Nat
    BY <2>1, SlotFacts DEF TypeOK
  <2> QED
    BY <2>1, <2>2, PacketIn
<1> DEFINE inFlight(s, c) == th.pc = "fetched" /\ th.slot = s /\ th.pkt.conn = c
           torn(s, c) == s \in up /\ InMidMessage(s, c)
<1>c. ASSUME NEW c \in Conns(t)
      PROVE  cam'[t][c] = [cam[t][c] EXCEPT !.cut = @ \/ (torn(t, c) /\ ~inFlight(t, c))]
  BY Zenon DEF Open
<1>t. th' = IF \E s \in Slots : \E c \in Conns(s) : inFlight(s, c) /\ torn(s, c)
            THEN [th EXCEPT !.pkt.cut = TRUE] ELSE th
  BY Zenon DEF Open
<1>x. rx'[t] = IF t \in up THEN << >> ELSE rx[t]
  BY DEF Open
<1>k. ASSUME NEW c \in Conns(t)
      PROVE  /\ cam'[t][c].k = cam[t][c].k /\ cam'[t][c].msg = cam[t][c].msg
             /\ cam'[t][c].cut <=> (cam[t][c].cut \/ (torn(t, c) /\ ~inFlight(t, c)))
             /\ cam[t][c].k \in Nat
             /\ ~(torn(t, c) /\ ~inFlight(t, c)) => cam'[t][c] = cam[t][c]
  <2>1. PICK b \in BOOLEAN : b = (cam[t][c].cut \/ (torn(t, c) /\ ~inFlight(t, c)))
    BY Zenon
  <2>2. cam'[t][c] = [cam[t][c] EXCEPT !.cut = b]
    BY <1>c, <2>1, Zenon
  <2>3. cam[t][c] \in CamStates
    BY <1>d
  <2>4. /\ cam'[t][c].k = cam[t][c].k /\ cam'[t][c].msg = cam[t][c].msg /\ cam'[t][c].cut = b
        /\ cam[t][c].k \in Nat
    BY <2>2, <2>3 DEF CamStates
  <2>5. cam[t][c].cut \in BOOLEAN /\ (b = cam[t][c].cut => cam'[t][c] = cam[t][c])
    BY <2>2, <2>3 DEF CamStates
  <2>6. ~(torn(t, c) /\ ~inFlight(t, c)) => b = cam[t][c].cut
    BY <2>1, <2>5, Zenon
  <2>7. cam'[t][c].cut <=> (cam[t][c].cut \/ (torn(t, c) /\ ~inFlight(t, c)))
    BY <2>1, <2>4, Zenon
  <2> QED
    BY <2>4, <2>5, <2>6, <2>7, Zenon
<1>1. CASE t \notin up
  <2>1. th.slot = t => th' = th
    <3>1. \A s, c : inFlight(s, c) /\ torn(s, c) => th.slot \in up
      BY Zenon
    <3> QED
      BY <3>1, <1>1, <1>t, Zenon
  <2>2. Line(t)' = Line(t)
    <3>1. th'.pc = th.pc /\ th'.slot = th.slot
      BY <1>t, <1>p DEF Threads
    <3> QED
      BY <3>1, <2>1, <1>x, <1>1, Zenon DEF Line
  <2>3. ASSUME NEW c \in Conns(t) PROVE Weakens(Coming(t, c), Coming(t, c)')
    <3>1. ~torn(t, c)
      BY <1>1
    <3>2. cam'[t][c] = cam[t][c]
      BY <1>k, <3>1, Zenon
    <3> QED
      BY <3>2, <1>r, ComingKept
  <2> QED
    BY <1>0, <1>a, <2>2, <2>3, ChainKept
<1>2. CASE t \in up
  <2>1. ASSUME NEW c \in Conns(t), ~inFlight(t, c) PROVE Begins(Coming(t, c)')
    <3>1. InMidMessage(t, c) <=> cam[t][c].k > 0
      BY <2>1, Zenon DEF InMidMessage
    <3>2. cam'[t][c].cut \/ cam'[t][c].k + 1 = 1
      <4>1. cam'[t][c].cut \/ ~(cam[t][c].k > 0)
        BY <1>k, <1>2, <2>1, <3>1, Zenon
      <4>2. cam[t][c].k \in Nat /\ cam'[t][c].k = cam[t][c].k
        BY <1>k, Zenon
      <4> QED
        BY <4>1, <4>2
    <3>3. Coming(t, c)' = [msg |-> cam'[t][c].msg, k |-> cam'[t][c].k + 1, cut |-> cam'[t][c].cut]
      BY <1>2, <1>r DEF Coming
    <3>4. Coming(t, c)'.k = cam'[t][c].k + 1 /\ Coming(t, c)'.cut = cam'[t][c].cut
      BY <3>3
    <3> QED
      BY <3>2, <3>4 DEF Begins
  <2>2. CASE ~(th.pc = "fetched" /\ th.slot = t)
    <3>1. Line(t)' = << >>
      <4>1. th'.pc = th.pc /\ th'.slot = th.slot
        BY <1>t, <1>p DEF Threads
      <4> QED
        BY <4>1, <2>2, <1>x, <1>2, Zenon DEF Line
    <3>2. Len(Line(t)') = 0
      BY <3>1
    <3>3. ASSUME NEW c \in Conns(t) PROVE Fits(t, c, 1, Coming(t, c))'
      <4>1. Begins(Coming(t, c)')
        BY <2>1, <2>2
      <4>2. InLine(Line(t)', c, 1, Coming(t, c)')
        BY DEF InLine
      <4> QED
        BY <4>1, <4>2, <1>a DEF Fits
    <3> QED
      BY <3>2, <3>3 DEF Chained
  <2>3. CASE th.pc = "fetched" /\ th.slot = t
    <3>1. PICK q, e : q = th.pkt /\ e = th'.pkt
      OBVIOUS
    <3>2. /\ th'.pc = "fetched" /\ th'.slot = t /\ e.conn = q.conn /\ e.k = q.k /\ e.msg = q.msg
          /\ e.last = q.last /\ (q.k > 1 => e.cut)
      <4>1. q \in Packets(Conns(t)) /\ q.conn \in Conns(t)
        BY <2>3, <3>1, <1>p
      <4>2. CASE q.k > 1
        <5>1. inFlight(t, q.conn) /\ torn(t, q.conn)
          BY <2>3, <3>1, <4>2, <1>2 DEF InMidMessage
        <5>2. th' = [th EXCEPT !.pkt.cut = TRUE]
          BY <5>1, <4>1, <1>t, Zenon
        <5>3. e = [q EXCEPT !.cut = TRUE] /\ th'.pc = th.pc /\ th'.slot = th.slot
          BY <5>2, <3>1, <1>p DEF Threads
        <5> QED
          BY <5>3, <4>1, <2>3 DEF Packets
      <4>3. CASE ~(q.k > 1)
        <5>1. CASE th' = th
          BY <5>1, <3>1, <2>3, <4>3
        <5>2. CASE th' = [th EXCEPT !.pkt.cut = TRUE]
          <6>1. e = [q EXCEPT !.cut = TRUE] /\ th'.pc = th.pc /\ th'.slot = th.slot
            BY <5>2, <3>1, <1>p DEF Threads
          <6> QED
            BY <6>1, <4>1, <2>3 DEF Packets
        <5> QED
          BY <5>1, <5>2, <1>t, Zenon
      <4> QED
        BY <4>2, <4>3
    <3>3. e \in Packets(Conns(t)) /\ q.k \in Nat /\ q.k > 0
      BY <3>1, <3>2, <2>3, <1>p DEF TypeOK
    <3>4. Line(t)' = Append(<< >>, e)
      BY <3>1, <3>2, <1>x, <1>2 DEF Line
    <3>5. Len(Line(t)') = 1 /\ Line(t)'[1] = e
      BY <3>3, <3>4, EmptySeq, AppendProperties
    <3>6. Fits(t, e.conn, 1, e)'
      <4>1. Begins(e)
        BY <3>2, <3>3 DEF Begins
      <4>2. InLine(Line(t)', e.conn, 1, e)
        BY DEF InLine
      <4> QED
        BY <4>1, <4>2, <1>a DEF Fits
    <3>7. ASSUME NEW c \in Conns(t) PROVE Fits(t, c, 2, Coming(t, c))'
      <4>0. PICK r : r = Coming(t, c)'
        OBVIOUS
      <4>1. CASE c = q.conn
        <5>1. inFlight(t, c)
          BY <4>1, <2>3, <3>1
        <5>2. r = Coming(t, c)
          <6>1. cam'[t][c] = cam[t][c]
            BY <1>k, <5>1, Zenon
          <6> QED
            BY <6>1, <4>0, <1>r DEF Coming
        <5>3. PICK N \in Nat : N = Len(rx[t])
          BY DEF TypeOK
        <5>4. Line(t) = Append(rx[t], q) /\ rx[t] \in Seq(Packets(Conns(t))) /\ q \in Packets(Conns(t))
          BY <2>3, <3>1, <1>p DEF Line, TypeOK
        <5>5. Len(Line(t)) = N + 1 /\ Line(t)[N + 1] = q
          BY <5>3, <5>4, AppendProperties
        <5>6. PICK M \in Nat : M = N + 1 /\ M > 0
          BY <5>3
        <5>7. InLine(Line(t), c, M + 1, r)
          BY <1>0, <5>2, <5>5, <5>6 DEF Chained, Fits
        <5>8. Joins(q, r)
          BY <5>5, <5>6, <5>7, <4>1, AfterSame
        <5>9. Joins(e, r)
          BY <5>8, <3>2 DEF Joins
        <5>10. InLine(Line(t)', c, 1 + 1, r) /\ ~NoneBefore(Line(t)', c, 1 + 1)
          BY <5>9, <4>1, <3>2, <3>5, AfterSame
        <5>11. 1 + 1 = 2
          OBVIOUS
        <5> QED
          BY <5>10, <5>11, <4>0 DEF Fits
      <4>2. CASE c # q.conn
        <5>1. Begins(r)
          BY <4>0, <4>2, <2>1, <3>1
        <5>2. InLine(Line(t)', c, 1, r)
          BY DEF InLine
        <5>3. InLine(Line(t)', c, 1 + 1, r)
          BY <5>2, <4>2, <3>2, <3>5, SkipOther
        <5>4. 1 + 1 = 2
          OBVIOUS
        <5> QED
          BY <5>1, <5>3, <5>4, <4>0, <1>a DEF Fits
      <4> QED
        BY <4>1, <4>2
    <3>8. \A i \in 1 .. Len(Line(t)') : i = 1
      BY <3>5
    <3> QED
      BY <3>5, <3>6, <3>7, <3>8 DEF Chained
  <2> QED
    BY <2>2, <2>3
<1> QED
  BY <1>1, <1>2

(* A packet is taken out of the line, the first of its connection.         *)
LEMMA RemovedFits ==
  ASSUME NEW L, NEW K, NEW N \in Nat, NEW x \in 1 .. N,
         \A i \in 1 .. N - 1 : K[i] = L[IF i < x THEN i ELSE i + 1],
         \A i \in 1 .. x - 1 : L[i].conn # L[x].conn,
         NEW c, NEW q, NEW n \in 1 .. N, NEW o \in Nat, o = IF n < x THEN n ELSE n + 1,
         InLine(L, c, o, q)
  PROVE  /\ InLine(K, c, n, q)
         /\ NoneBefore(K, c, n) /\ c # L[x].conn => NoneBefore(L, c, o)
         /\ NoneBefore(K, c, n) /\ c = L[x].conn /\ ~(n < x) => Joins(L[x], q)
<1>0. x \in Nat /\ n \in Nat /\ x > 0 /\ x <= N /\ n > 0 /\ n <= N
  OBVIOUS
(* Position j of L is position New(j) of K.                                *)
<1>1. ASSUME NEW j \in 1 .. o - 1, j # x
      PROVE  \E y \in 1 .. n - 1 : K[y] = L[j] /\ (j < x => y = j) /\ (j > x => y = j - 1)
  <2>1. j \in Nat /\ j > 0 /\ j < o
    OBVIOUS
  <2>2. CASE j < x
    <3>1. j \in 1 .. n - 1 /\ j \in 1 .. N - 1
      BY <1>0, <2>1, <2>2
    <3>2. K[j] = L[j]
      BY <3>1, <2>2
    <3> QED
      BY <3>1, <3>2, <2>1, <2>2, <1>0
  <2>3. CASE j > x
    <3>1. PICK y \in Nat : y + 1 = j /\ y \in 1 .. n - 1 /\ y \in 1 .. N - 1 /\ ~(y < x) /\ y = j - 1
      BY <1>0, <2>1, <2>3
    <3>2. K[y] = L[j]
      BY <3>1
    <3> QED
      BY <3>1, <3>2, <2>1, <2>3, <1>0
  <2> QED
    BY <1>0, <2>1, <2>2, <2>3, <1>1
<1>2. InLine(K, c, n, q)
  <2> SUFFICES ASSUME NEW i \in 1 .. n - 1, K[i].conn = c, \A j \in i + 1 .. n - 1 : K[j].conn # c
               PROVE  Joins(K[i], q)
    BY DEF InLine
  <2>1. PICK u \in Nat : u = (IF i < x THEN i ELSE i + 1) /\ u \in 1 .. o - 1 /\ u # x
    BY <1>0
  <2>2. K[i] = L[u]
    <3>1. i \in 1 .. N - 1
      BY <1>0
    <3> QED
      BY <3>1, <2>1
  <2>3. ASSUME NEW j \in u + 1 .. o - 1 PROVE L[j].conn # c
    <3>1. CASE j = x
      <4>1. u \in 1 .. x - 1
        BY <2>1, <2>3, <3>1, <1>0
      <4> QED
        BY <4>1, <3>1, <2>2
    <3>2. CASE j # x
      <4>1. j \in 1 .. o - 1 /\ j \in Nat /\ i \in Nat
        BY <2>1
      <4>2. PICK y \in 1 .. n - 1 : K[y] = L[j] /\ (j < x => y = j) /\ (j > x => y = j - 1)
        BY <1>1, <3>2, <4>1
      <4>3. y \in i + 1 .. n - 1
        BY <4>1, <4>2, <2>1, <2>3, <3>2, <1>0
      <4> QED
        BY <4>2, <4>3
    <3> QED
      BY <3>1, <3>2
  <2> QED
    BY <2>1, <2>2, <2>3 DEF InLine
<1>3. ASSUME NoneBefore(K, c, n), c # L[x].conn PROVE NoneBefore(L, c, o)
  <2> SUFFICES ASSUME NEW j \in 1 .. o - 1 PROVE L[j].conn # c
    BY DEF NoneBefore
  <2>1. CASE j = x
    BY <2>1, <1>3
  <2>2. CASE j # x
    <3>1. PICK y \in 1 .. n - 1 : K[y] = L[j]
      BY <1>1, <2>2
    <3> QED
      BY <3>1, <1>3 DEF NoneBefore
  <2> QED
    BY <2>1, <2>2
<1>4. ASSUME NoneBefore(K, c, n), c = L[x].conn, ~(n < x) PROVE Joins(L[x], q)
  <2>1. x \in 1 .. o - 1
    BY <1>0, <1>4
  <2>2. ASSUME NEW j \in x + 1 .. o - 1 PROVE L[j].conn # c
    <3>1. j \in 1 .. o - 1 /\ j # x
      BY <1>0
    <3>2. PICK y \in 1 .. n - 1 : K[y] = L[j]
      BY <1>1, <3>1
    <3> QED
      BY <3>2, <1>4 DEF NoneBefore
  <2> QED
    BY <2>1, <2>2, <1>4 DEF InLine
<1> QED
  BY <1>2, <1>3, <1>4

(* The line of a slot from which a packet is taken.                        *)
LEMMA LineTaken ==
  ASSUME TypeOK, NEW s \in Slots, NEW x \in 1 .. Len(rx[s]), rx'[s] = RemoveAt(rx[s], x), th' = th
  PROVE  /\ x \in 1 .. Len(Line(s)) /\ Len(Line(s)') = Len(Line(s)) - 1
         /\ \A i \in 1 .. Len(rx[s]) : Line(s)[i] = rx[s][i]
         /\ \A i \in 1 .. Len(Line(s)) - 1 : Line(s)'[i] = Line(s)[IF i < x THEN i ELSE i + 1]
<1>0. PICK R, Q : R = rx[s] /\ Q = rx'[s]
  OBVIOUS
<1>1. PICK N \in Nat : R = rx[s] /\ Q = rx'[s] /\ N = Len(R)
  BY <1>0 DEF TypeOK
<1>2. R \in Seq(Packets(Conns(s)))
  BY <1>1 DEF TypeOK
<1>3. /\ Q \in Seq(Packets(Conns(s))) /\ Len(Q) = N - 1
      /\ \A i \in 1 .. N - 1 : Q[i] = R[IF i < x THEN i ELSE i + 1]
  <2>1. PICK S : S = Packets(Conns(s))
    OBVIOUS
  <2>2. R \in Seq(S) /\ x \in 1 .. Len(R) /\ Q = RemoveAt(R, x)
    BY <1>1, <1>2, <2>1
  <2>3. /\ Q \in Seq(S) /\ Len(Q) = Len(R) - 1
        /\ \A i \in 1 .. Len(R) - 1 : Q[i] = R[IF i < x THEN i ELSE i + 1]
    BY <2>2, Removed
  <2> QED
    BY <2>1, <2>3, <1>1
<1>4. CASE ~(th.pc = "fetched" /\ th.slot = s)
  BY <1>4, <1>1, <1>3 DEF Line
<1>5. CASE th.pc = "fetched" /\ th.slot = s
  <2>1. PICK p : p = th.pkt
    OBVIOUS
  <2>2. p \in Packets(Conns(s)) /\ Line(s) = Append(R, p) /\ Line(s)' = Append(Q, p)
    BY <1>5, <1>1, <2>1 DEF Line, TypeOK
  <2>3. Len(Line(s)) = N + 1 /\ Line(s)[N + 1] = p /\ \A i \in 1 .. N : Line(s)[i] = R[i]
    BY <1>1, <1>2, <2>2, AppendProperties
  <2>4. Len(Line(s)') = N /\ Line(s)'[N] = p /\ \A i \in 1 .. N - 1 : Line(s)'[i] = Q[i]
    BY <1>1, <1>3, <2>2, AppendProperties
  <2>5. x \in Nat /\ x > 0 /\ x <= N
    BY <1>1
  <2>6. ASSUME NEW i \in 1 .. N PROVE Line(s)'[i] = Line(s)[IF i < x THEN i ELSE i + 1]
    <3>1. CASE i = N
      BY <3>1, <2>3, <2>4, <2>5
    <3>2. CASE i # N
      <4>1. i \in 1 .. N - 1 /\ i + 1 \in 1 .. N
        BY <3>2
      <4>2. Line(s)'[i] = R[IF i < x THEN i ELSE i + 1]
        BY <4>1, <2>4, <1>3
      <4> QED
        BY <4>1, <4>2, <2>3
    <3> QED
      BY <3>1, <3>2
  <2> QED
    BY <1>1, <2>3, <2>4, <2>5, <2>6
<1> QED
  BY <1>4, <1>5

(* A fragment is taken: it moves from the line to what was read.           *)
LEMMA ChainTake ==
  ASSUME TypeOK, TypeOK', setup' = setup, ChainInv, ReaderInv, ReaderInv', Take
  PROVE  ChainInv' /\ (Alike /\ Whole(rd.got) => Whole(rd.got)')
<1> USE SameSets
<1>0. /\ rd \in Readers /\ rd.slot \in Slots /\ rd.idx \in Nat /\ rd.conn \in Nat
      /\ rd.got \in Seq(Packets(Nat)) /\ Len(rd.got) \in Nat /\ DOMAIN rx = Slots
  BY Fields DEF TypeOK
<1>i. GotInv /\ WalkInv
  BY DEF ReaderInv
<1>r. rd.pc = "walk" /\ up' = up /\ cam' = cam /\ th' = th
  BY DEF Take
<1> DEFINE L == rx[rd.slot]
           p == L[rd.idx]
<1>x. rd.idx \in 1 .. Len(L)
  BY <1>0, <1>i, <1>r DEF Take, WalkInv, TypeOK
<1>1. CASE ~Ours(p)
  <2>1. rx' = rx /\ rd'.slot = rd.slot /\ rd'.conn = rd.conn /\ rd'.got = rd.got
    <3>1. rx' = rx
      BY <1>1, Zenon DEF Take
    <3>2. rd' = [rd EXCEPT !.idx = IF rd.idx < Len(L) THEN @ + 1 ELSE 0]
      BY <1>1, Zenon DEF Take
    <3> HIDE DEF L
    <3> QED
      BY <3>1, <3>2, <1>0 DEF Readers
  <2>2. ChainInv'
    BY <1>r, <2>1, ChainProcess
  <2> QED
    BY <2>1, <2>2 DEF Whole
<1>2. CASE Ours(p)
  <2>1. /\ rx' = [rx EXCEPT ![rd.slot] = RemoveAt(L, rd.idx)] /\ rd'.slot = rd.slot /\ rd'.conn = p.conn
        /\ rd'.got = Append(rd.got, p)
    <3>1. rx' = [rx EXCEPT ![rd.slot] = RemoveAt(L, rd.idx)]
      BY <1>2, Zenon DEF Take
    <3>2. rd' = [rd EXCEPT !.conn = p.conn, !.got = Append(@, p),
                               !.idx = IF rd.idx < Len(L) THEN @ ELSE 0,
                               !.pc = IF p.last THEN "done" ELSE "walk"]
      BY <1>2, Zenon DEF Take
    <3> HIDE DEF p, L
    <3> QED
      BY <3>1, <3>2, <1>0 DEF Readers
  <2>2. PICK e, s, x : e = p /\ s = rd.slot /\ x = rd.idx
    OBVIOUS
  <2>3. e \in Packets(Nat) /\ e.conn # 0 /\ e.k \in Nat
    <3>1. e \in Packets(Nat) /\ e.conn # 0
      BY <2>2, <1>x, <1>0, PacketAt
    <3> QED
      BY <3>1, PacketIn
  <2>4. /\ Len(rd'.got) = Len(rd.got) + 1 /\ rd'.got[Len(rd.got) + 1] = e
        /\ \A i \in 1 .. Len(rd.got) : rd'.got[i] = rd.got[i]
    BY <2>1, <2>2, <2>3, <1>0, AppendProperties
  <2>5. rd'.got # << >> /\ rd'.got[Len(rd'.got)] = e
    BY <2>4, <1>0
  <2>6. rd.got # << >> => rd.conn = e.conn
    BY <1>2, <1>i, <1>r, <2>2 DEF Ours, GotInv
  <2>7. \A i \in 1 .. x - 1 : rx[s][i].conn # e.conn
    <3>1. CASE rd.conn = 0
      BY <3>1, <1>i, <1>r, <2>2, <1>x DEF WalkInv
    <3>2. CASE rd.conn # 0
      BY <3>2, <1>2, <1>i, <1>r, <2>2 DEF Ours, WalkInv
    <3> QED
      BY <3>1, <3>2
  <2>8. s \in Slots /\ x \in 1 .. Len(rx[s]) /\ rx'[s] = RemoveAt(rx[s], x) /\ rx[s][x] = e
        /\ \A t \in Slots : t # s => rx'[t] = rx[t]
    BY <1>x, <1>0, <2>1, <2>2
  <2> HIDE DEF p, L
  <2>9. /\ x \in 1 .. Len(Line(s)) /\ Len(Line(s)') = Len(Line(s)) - 1
        /\ \A i \in 1 .. Len(rx[s]) : Line(s)[i] = rx[s][i]
        /\ \A i \in 1 .. Len(Line(s)) - 1 : Line(s)'[i] = Line(s)[IF i < x THEN i ELSE i + 1]
    BY <2>8, <1>r, LineTaken
  <2>10. PICK K : K = Line(s)
    OBVIOUS
  <2>11. PICK N \in Nat : N = Len(K)
    BY <2>8, <2>10, LineType
  <2>12. x \in 1 .. N /\ K[x] = e /\ \A i \in 1 .. x - 1 : K[i].conn # e.conn
    <3>1. x \in 1 .. N /\ K[x] = e
      BY <2>8, <2>9, <2>10, <2>11
    <3>2. ASSUME NEW i \in 1 .. x - 1 PROVE K[i].conn # e.conn
      <4>1. i \in 1 .. Len(rx[s])
        <5>1. Len(rx[s]) \in Nat
          BY <2>8 DEF TypeOK
        <5> QED
          BY <5>1, <2>8
      <4> QED
        BY <4>1, <2>7, <2>9, <2>10
    <3> QED
      BY <3>1, <3>2
  <2>13. Alike => Fits(s, e.conn, x, e)
    BY <2>8, <2>10, <2>11, <2>12 DEF ChainInv, Chained
  <2>14. ASSUME Alike, Whole(rd.got) PROVE Whole(rd.got)'
    <3>1. NoneBefore(Line(s), e.conn, x)
      BY <2>10, <2>12 DEF NoneBefore
    <3>2. AfterRead(s, e.conn, e)
      BY <2>13, <2>14, <3>1 DEF Fits
    <3> SUFFICES ASSUME \A i \in 1 .. Len(rd'.got) : ~rd'.got[i].cut, NEW i \in 1 .. Len(rd'.got)
                 PROVE  rd'.got[i].k = i /\ rd'.got[i].msg = rd'.got[1].msg
      BY DEF Whole
    <3>3. ~e.cut
      <4>1. Len(rd.got) + 1 \in 1 .. Len(rd'.got)
        BY <2>4, <1>0
      <4> QED
        BY <4>1, <2>4
    <3>4. \A j \in 1 .. Len(rd.got) : ~rd.got[j].cut
      <4>1. \A j \in 1 .. Len(rd.got) : j \in 1 .. Len(rd'.got)
        BY <2>4, <1>0
      <4> QED
        BY <4>1, <2>4
    <3>5. \A j \in 1 .. Len(rd.got) : rd.got[j].k = j /\ rd.got[j].msg = rd.got[1].msg
      BY <3>4, <2>14 DEF Whole
    <3>6. CASE rd.got = << >>
      <4>1. Begins(e)
        BY <3>2, <3>6 DEF AfterRead
      <4>2. Len(rd.got) = 0 /\ i = 1
        BY <3>6, <2>4
      <4> QED
        BY <4>1, <4>2, <3>3, <2>4 DEF Begins
    <3>7. CASE rd.got # << >>
      <4>0. Len(rd.got) \in 1 .. Len(rd.got) /\ 1 \in 1 .. Len(rd.got)
        BY <3>7, <1>0
      <4>1. Joins(rd.got[Len(rd.got)], e)
        BY <3>2, <3>7, <2>2, <2>6 DEF AfterRead
      <4>2. ~rd.got[Len(rd.got)].last
        BY <4>0, <1>i, <1>r DEF GotInv
      <4>3. e.k = Len(rd.got) + 1 /\ e.msg = rd.got[1].msg
        BY <4>0, <4>1, <4>2, <3>3, <3>5 DEF Joins
      <4>4. rd'.got[1] = rd.got[1]
        BY <4>0, <2>4
      <4>5. i = Len(rd.got) + 1 \/ i \in 1 .. Len(rd.got)
        BY <2>4, <1>0
      <4> QED
        BY <4>3, <4>4, <4>5, <3>5, <2>4
    <3> QED
      BY <3>6, <3>7
  <2>15. ASSUME Alike, NEW t \in Slots, t # s PROVE Chained(t)'
    <3>1. Chained(t)
      BY <2>15 DEF ChainInv
    <3>2. Line(t)' = Line(t)
      BY <2>8, <2>15, <1>r DEF Line
    <3>3. \A c, q : AfterRead(t, c, q) => AfterRead(t, c, q)'
      BY <2>1, <2>2, <2>15 DEF AfterRead
    <3>4. \A c \in Conns(t) : Weakens(Coming(t, c), Coming(t, c)')
      BY <1>r, ComingKept
    <3> QED
      BY <3>1, <3>2, <3>3, <3>4, ChainKept
  <2>16. ASSUME Alike, NEW c, NEW q, NEW n \in 1 .. N, NEW o \in Nat, o = IF n < x THEN n ELSE n + 1,
                c = e.conn => ~(n < x), Fits(s, c, o, q)
         PROVE  Fits(s, c, n, q)'
    <3>0. Len(Line(s)) = N /\ Line(s) = K
      BY <2>10, <2>11
    <3>1. /\ InLine(Line(s)', c, n, q)
          /\ NoneBefore(Line(s)', c, n) /\ c # e.conn => NoneBefore(Line(s), c, o)
          /\ NoneBefore(Line(s)', c, n) /\ c = e.conn /\ ~(n < x) => Joins(e, q)
      <4>1. PICK J : J = Line(s)'
        OBVIOUS
      <4>2. \A i \in 1 .. N - 1 : J[i] = K[IF i < x THEN i ELSE i + 1]
        BY <2>9, <3>0, <4>1
      <4>3. InLine(K, c, o, q)
        BY <2>16, <3>0 DEF Fits
      <4>4. \A i \in 1 .. x - 1 : K[i].conn # K[x].conn
        BY <2>12
      <4>5. /\ InLine(J, c, n, q)
            /\ NoneBefore(J, c, n) /\ c # K[x].conn => NoneBefore(K, c, o)
            /\ NoneBefore(J, c, n) /\ c = K[x].conn /\ ~(n < x) => Joins(K[x], q)
        BY <4>2, <4>3, <4>4, <2>12, <2>16, RemovedFits
      <4> QED
        BY <4>1, <4>5, <2>12, <3>0
    <3>2. c = e.conn => (AfterRead(s, c, q)' <=> Joins(e, q))
      BY <2>1, <2>2, <2>5 DEF AfterRead
    <3>3. c # e.conn => (AfterRead(s, c, q) => AfterRead(s, c, q)')
      BY <2>1, <2>2, <2>6 DEF AfterRead
    <3> QED
      BY <3>1, <3>2, <3>3, <2>16 DEF Fits
  <2>17. ASSUME Alike PROVE Chained(s)'
    <3>0. Chained(s) /\ Len(Line(s)) = N /\ Len(Line(s)') = N - 1 /\ Line(s) = K
      BY <2>17, <2>8, <2>9, <2>10, <2>11 DEF ChainInv
    <3>1. ASSUME NEW n \in 1 .. Len(Line(s)') PROVE Fits(s, Line(s)[n].conn, n, Line(s)[n])'
      <4>1. n \in 1 .. N /\ n \in 1 .. N - 1 /\ n \in Nat
        BY <3>0
      <4>2. PICK o \in Nat : o = (IF n < x THEN n ELSE n + 1) /\ o \in 1 .. N
        BY <4>1
      <4>3. PICK q : q = K[o] /\ q = Line(s)'[n]
        BY <4>1, <4>2, <3>0, <2>9
      <4>4. Fits(s, q.conn, o, q)
        BY <3>0, <4>2, <4>3 DEF Chained
      <4>5. q.conn = e.conn => ~(n < x)
        <5>1. n < x => n \in 1 .. x - 1
          BY <4>1, <2>12
        <5> QED
          BY <5>1, <4>2, <4>3, <2>12
      <4>6. Fits(s, q.conn, n, q)'
        BY <2>16, <2>17, <4>1, <4>2, <4>4, <4>5
      <4> QED
        BY <4>3, <4>6
    <3>2. ASSUME NEW c \in Conns(s) PROVE Fits(s, c, Len(Line(s)) + 1, Coming(s, c))'
      <4>1. PICK q : q = Coming(s, c)
        OBVIOUS
      <4>2. q = Coming(s, c)'
        BY <4>1, <1>r DEF Coming
      <4>3. PICK n, o \in Nat : n = N /\ o = N + 1
        OBVIOUS
      <4>4. n \in 1 .. N /\ ~(n < x) /\ o = IF n < x THEN n ELSE n + 1
        BY <4>3, <2>12
      <4>5. Fits(s, c, o, q)
        BY <3>0, <4>1, <4>3 DEF Chained
      <4>6. Fits(s, c, n, q)'
        BY <2>16, <2>17, <4>3, <4>4, <4>5
      <4>7. Len(Line(s)') + 1 = n
        BY <3>0, <4>3
      <4> QED
        BY <4>2, <4>6, <4>7
    <3> QED
      BY <3>1, <3>2 DEF Chained
  <2> QED
    BY <2>14, <2>15, <2>17 DEF ChainInv
<1> QED
  BY <1>1, <1>2

-----------------------------------------------------------------------------
(* The invariant and what follows from it.                                 *)

(* It holds of the initial state.                                          *)
LEMMA ReadInit == Init => ReadInv
<1> SUFFICES ASSUME Init PROVE ReadInv
  OBVIOUS
<1>1. TypeOK
  BY TypeInit
<1>2. rd.pc = "idle" /\ rd.got = << >> /\ ret.status = "none" /\ ~past.promised
  BY DEF Init, Idle, Nothing
<1>3. ReaderInv
  BY <1>2 DEF ReaderInv, CondInv, GotInv, WalkInv, AheadInv, PromiseInv, OneConnection, ConditionTrue,
              PromiseKept, PollKept, NeverEndsEarly
<1>4. ASSUME NEW s \in Slots PROVE Chained(s)
  <2>1. Line(s) = << >> /\ Len(Line(s)) = 0
    BY DEF Init, Line, ThreadIdle
  <2>2. ASSUME NEW c \in Conns(s) PROVE Fits(s, c, 1, Coming(s, c))
    <3>1. cam[s][c].k = 0
      BY DEF Init
    <3>2. Coming(s, c).k = 1
      BY <3>1 DEF Init, Coming
    <3>3. InLine(Line(s), c, 1, Coming(s, c))
      BY DEF InLine
    <3>4. AfterRead(s, c, Coming(s, c))
      BY <1>2, <3>2 DEF AfterRead, Begins
    <3> QED
      BY <3>3, <3>4 DEF Fits
  <2> QED
    BY <2>1, <2>2 DEF Chained
<1>5. WholeInv
  BY <1>2, <1>4 DEF WholeInv, ChainInv, Whole
<1> QED
  BY <1>1, <1>3, <1>5 DEF ReadInv

(* Every step keeps it.                                                    *)
LEMMA ReadStep == ReadInv /\ [Next]_vars => ReadInv'
<1> SUFFICES ASSUME ReadInv, [Next]_vars PROVE ReadInv'
  OBVIOUS
<1>0. TypeOK /\ ReaderInv /\ WalkInv /\ WholeInv /\ ChainInv
  BY DEF ReadInv, ReaderInv, WholeInv
<1>u. setup' = setup
  BY DEF Next, Reader, vars, ReadData, Store, ReadFails, Wake, Shutdown, LinkInit, Reset, Close, Open,
         Call, Poll, Interrupted, ConditionFound, ConditionNextSlot, ConditionNone, Woken, First, Take, Done, Bug
<1>a. Alike' = Alike
  BY <1>u, SameSets
<1>w. ASSUME ChainInv', rd'.got = rd.got \/ rd'.got = << >>,
             (ret' = ret) \/ (ret'.status # "ok") \/ (ret'.got = rd.got)
      PROVE  WholeInv'
  <2>1. Alike => Whole(rd.got)'
    BY <1>0, <1>w DEF WholeInv, Whole
  <2>2. ASSUME Alike, ret'.status = "ok" PROVE Whole(ret.got)'
    BY <1>0, <1>w, <2>2 DEF WholeInv, Whole
  <2> QED
    BY <1>a, <1>w, <2>1, <2>2 DEF WholeInv
<1>1. CASE \/ \E s \in Slots, last \in BOOLEAN : \E c \in Conns(s) : ReadData(s, c, last)
           \/ Store \/ ReadFails \/ Wake \/ \E s \in Slots : Shutdown(s) \/ LinkInit(s)
           \/ Reset \/ Close \/ Open
  <2>1. TypeOK'
    BY <1>0, <1>u, <1>1, TypeThread, TypeSlots
  <2>2. ReaderInv'
    BY <1>0, <1>u, <1>1, <2>1, ReaderOthers
  <2>3. ChainInv'
    BY <1>0, <1>u, <1>1, <2>1, ChainSlots, ChainReadData, ChainReadFails, ChainOpen
  <2>4. rd' = rd /\ ret' = ret
    BY <1>1 DEF ReadData, Store, ReadFails, Wake, Shutdown, LinkInit, Reset, Close, Open
  <2> QED
    BY <2>1, <2>2, <2>3, <2>4, <1>w DEF ReadInv
<1>2. CASE \/ Call \/ Poll \/ Interrupted \/ ConditionFound \/ ConditionNextSlot
           \/ ConditionNone \/ Woken
  <2>1. TypeOK'
    BY <1>0, <1>u, <1>2, TypeProcess DEF Reader
  <2>2. ReaderInv'
    BY <1>0, <1>u, <1>2, <2>1, ReaderCondition
  <2>3. rd.got = << >>
    BY <1>0, <1>2 DEF ReaderInv, GotInv, Call, Poll, Interrupted, ConditionFound, ConditionNextSlot, ConditionNone, Woken
  <2>4. rd'.got = << >>
    <3>1. rd'.pc \notin {"walk", "done"}
      <4>1. rd \in Readers /\ Idle.pc = "idle"
        BY <1>0 DEF TypeOK, Idle
      <4>2. ASSUME NEW x, NEW y, StartCondition(x, y) PROVE rd'.pc = "cond"
        BY <4>2 DEF StartCondition, Idle
      <4>3. CASE Call \/ Poll \/ Woken
        BY <4>2, <4>3, Zenon DEF Call, Poll, Woken
      <4>4. CASE Interrupted
        BY <4>1, <4>4 DEF Interrupted
      <4>5. CASE ConditionFound
        BY <4>1, <4>5 DEF ConditionFound, Readers
      <4>6. CASE ConditionNextSlot
        BY <4>1, <4>6 DEF ConditionNextSlot, Readers
      <4>7. CASE ConditionNone
        BY <4>1, <4>7 DEF ConditionNone, Readers
      <4> QED
        BY <1>2, <4>3, <4>4, <4>5, <4>6, <4>7
    <3> QED
      BY <2>2, <3>1 DEF ReaderInv, GotInv
  <2>5. rx' = rx /\ th' = th /\ cam' = cam /\ up' = up
    BY <1>2 DEF Call, Poll, Interrupted, ConditionFound, ConditionNextSlot, ConditionNone, Woken
  <2>6. ChainInv'
    <3>1. rd'.got = rd.got /\ rd.got = << >>
      BY <2>3, <2>4
    <3>2. TypeOK /\ ReaderInv /\ ChainInv
      BY <1>0
    <3> QED
      BY <3>1, <3>2, <1>u, <2>1, <2>2, <2>5, ChainProcess
  <2>7. ret' = ret \/ ret'.status # "ok"
    <3>1. \A x \in {"POLLIN", "EWOULDBLOCK"} : [Nothing EXCEPT !.status = x].status # "ok"
      BY DEF Nothing
    <3>2. Nothing.status # "ok"
      BY DEF Nothing
    <3> QED
      BY <1>2, <3>1, <3>2 DEF Call, Poll, Interrupted, ConditionFound, ConditionNextSlot, ConditionNone, Woken
  <2> QED
    BY <2>1, <2>2, <2>3, <2>4, <2>6, <2>7, <1>w DEF ReadInv
<1>3. CASE First \/ Done
  <2>1. TypeOK'
    BY <1>0, <1>u, <1>3, TypeProcess DEF Reader
  <2>2. ReaderInv'
    BY <1>0, <1>u, <1>3, <2>1, ReaderWalk
  <2>3. \/ rd'.got = rd.got /\ rd.got = << >>
        \/ rd.pc = "done" /\ rd'.got = << >>
    <3>1. rd \in Readers /\ Idle.got = << >>
      BY <1>0 DEF TypeOK, Idle
    <3>2. CASE First
      <4>1. rd.got = << >>
        BY <1>0, <3>2 DEF First, ReaderInv, GotInv
      <4>2. rd'.got = rd.got
        BY <3>1, <3>2 DEF First, Readers
      <4> QED
        BY <4>1, <4>2
    <3>3. CASE Done
      BY <3>1, <3>3 DEF Done
    <3> QED
      BY <1>3, <3>2, <3>3
  <2>4. rx' = rx /\ th' = th /\ cam' = cam /\ up' = up
    BY <1>3 DEF First, Done
  <2>5. ChainInv'
    <3>1. TypeOK /\ ReaderInv /\ ChainInv
      BY <1>0
    <3> QED
      BY <3>1, <1>u, <2>1, <2>2, <2>3, <2>4, ChainProcess
  <2>6. ret' = ret \/ ret'.got = rd.got
    BY <1>3 DEF First, Done
  <2> QED
    BY <2>1, <2>2, <2>3, <2>5, <2>6, <1>w DEF ReadInv
<1>4. CASE Take
  <2>1. TypeOK'
    BY <1>0, <1>u, <1>4, TypeProcess DEF Reader
  <2>2. ReaderInv'
    BY <1>0, <1>u, <1>4, <2>1, ReaderWalk
  <2>3. ChainInv' /\ (Alike /\ Whole(rd.got) => Whole(rd.got)')
    BY <1>0, <1>u, <1>4, <2>1, <2>2, ChainTake
  <2>4. ret' = ret
    BY <1>4 DEF Take
  <2>5. WholeInv'
    BY <1>0, <1>a, <2>3, <2>4 DEF WholeInv
  <2> QED
    BY <2>1, <2>2, <2>5 DEF ReadInv
<1>5. CASE Bug
  <2>1. TypeOK'
    BY <1>0, <1>u, <1>5, TypeProcess DEF Reader
  <2>2. ReaderInv'
    BY <1>0, <1>u, <1>5, <2>1, ReaderWalk
  <2>3. ~Alike
    BY <1>5, <1>0 DEF Bug, ReaderInv, AheadInv
  <2>4. WholeInv'
    BY <1>a, <2>3 DEF WholeInv, ChainInv
  <2> QED
    BY <2>1, <2>2, <2>4 DEF ReadInv
<1>6. CASE UNCHANGED vars
  <2> USE SameSets, <1>6 DEF vars
  <2>1. TypeOK'
    BY <1>0 DEF TypeOK
  <2>2. ReaderInv'
    BY <1>0 DEF ReaderInv, CondInv, GotInv, WalkInv, AheadInv, PromiseInv, OneConnection, ConditionTrue,
              PromiseKept, PollKept, NeverEndsEarly, HeadComplete, Seen
  <2>3. ChainInv'
    BY <1>0, <1>u, <2>1, <2>2, ChainProcess
  <2> QED
    BY <2>1, <2>2, <2>3, <1>w DEF ReadInv
<1> QED
  BY <1>1, <1>2, <1>3, <1>4, <1>5, <1>6 DEF Next, Reader

(* The inductive invariant of the receive path: the types, where the       *)
(* reader and its search are, and the chain of packets from the CAM to     *)
(* what dvb_ca_en50221_io_read has taken.                                  *)
THEOREM ReadSafe == Spec => []ReadInv
<1>1. ReadInv /\ [Next]_vars => ReadInv'
  BY ReadStep
<1> QED
  BY ReadInit, <1>1, PTL DEF Spec

(* dvb_ca_en50221_io_read never mixes connections and returns at most one  *)
(* message, whole unless something is missing before one of its fragments: *)
(* for every number of slots, connections and fragments, every capacity of *)
(* rx_buffer, and however often CAMs are changed and the device is opened. *)
THEOREM MessageAlways == Spec => []MessageWhole
<1>1. ReadInv => MessageWhole
  BY DEF ReadInv, ReaderInv, WholeInv, MessageWhole, Whole
<1> QED
  BY ReadSafe, <1>1, PTL

(* With slots that are alike, dvb_ca_en50221_io_read_condition promises    *)
(* nothing that the read, or the read after a poll, does not find.         *)
THEOREM ConditionAlways == Spec => []ConditionTrue
<1>1. ReadInv => ConditionTrue
  BY DEF ReadInv, ReaderInv
<1> QED
  BY ReadSafe, <1>1, PTL

-----------------------------------------------------------------------------
(* The ring of packets: recursion                                          *)

(* A nonempty set of naturals has a least element.                         *)
LEMMA LeastOf ==
  ASSUME NEW S \in SUBSET Nat, S # {}
  PROVE  Min(S) \in S /\ \A y \in S : Min(S) <= y
<1>1. PICK x \in S : \A y \in S : ~(<<y, x>> \in OpToRel(<, Nat))
  BY NatLessThanWellFounded, WFMin, Zenon
<1>2. \A y \in S : ~(y < x)
  BY <1>1, Zenon DEF OpToRel
<1>3. \A y \in S : x <= y
  BY <1>2
<1> QED
  BY <1>3, Zenon DEF Min

(* Induction downwards from a bound.                                       *)
LEMMA Downwards ==
  ASSUME NEW lo \in Int, NEW hi \in Int, NEW S, hi \in S,
         \A n \in lo .. hi - 1 : n + 1 \in S => n \in S
  PROVE  \A n \in lo .. hi : n \in S
<1> SUFFICES ASSUME NEW n0 \in lo .. hi, n0 \notin S PROVE FALSE
  OBVIOUS
<1> DEFINE Bad == {k \in Nat : hi - k \in lo .. hi /\ hi - k \notin S}
<1>1. hi - n0 \in Nat /\ hi - (hi - n0) = n0
  OBVIOUS
<1>2. Bad # {} /\ Bad \in SUBSET Nat
  <2>1. hi - n0 \in Bad
    BY <1>1
  <2> QED
    BY <2>1
<1>3. PICK k \in Bad : \A j \in Bad : k <= j
  BY <1>2, LeastOf
<1>4. k \in Nat /\ hi - k \in lo .. hi /\ hi - k \notin S
  BY <1>3
<1>5. k # 0
  BY <1>4
<1>6. k - 1 \in Nat /\ hi - (k - 1) = hi - k + 1 /\ hi - (k - 1) \in lo .. hi /\ hi - k \in lo .. hi - 1
  BY <1>4, <1>5
<1>7. k - 1 \notin Bad
  <2> HIDE DEF Bad
  <2> QED
    BY <1>3, <1>4, <1>6
<1>8. hi - k + 1 \in S
  BY <1>6, <1>7
<1> QED
  BY <1>4, <1>6, <1>8

(* A walk that stops where stop holds and goes on at next otherwise.       *)
WalkStops(D) ==
  \A stop \in [D -> BOOLEAN], next \in [D -> D] :
    \E f : \A q \in D : f[q] = IF stop[q] THEN q ELSE f[next[q]]

(* A function gives where the walk stops, also if it stops nowhere.        *)
LEMMA WalksStop ==
  ASSUME NEW D
  PROVE  WalkStops(D)
<1> SUFFICES ASSUME NEW stop \in [D -> BOOLEAN], NEW next \in [D -> D]
             PROVE  \E f : \A q \in D : f[q] = IF stop[q] THEN q ELSE f[next[q]]
  BY Zenon DEF WalkStops
<1> DEFINE Closed == {S \in SUBSET D : \A y \in S : ~stop[y] => next[y] \in S}
           End(q) == {x \in D : stop[x] /\ \A S \in Closed : q \in S => x \in S}
           f == [q \in D |-> CHOOSE x : x \in End(q)]
<1>1. ASSUME NEW q \in D, stop[q] PROVE f[q] = q
  <2>1. {q} \in Closed
    BY <1>1
  <2>2. End(q) = {q}
    BY <1>1, <2>1
  <2>3. (CHOOSE x : x \in {q}) = q
    OBVIOUS
  <2> QED
    BY <2>2, <2>3
<1>2. ASSUME NEW q \in D, ~stop[q] PROVE f[q] = f[next[q]]
  <2>1. next[q] \in D
    OBVIOUS
  <2>2. ASSUME NEW x \in End(q) PROVE x \in End(next[q])
    <3> SUFFICES ASSUME NEW S \in Closed, next[q] \in S PROVE x \in S
      BY <2>2
    <3>1. S \union {q} \in Closed
      OBVIOUS
    <3>2. x \in S \union {q}
      BY <2>2, <3>1
    <3>3. x # q
      BY <1>2, <2>2
    <3> QED
      BY <3>2, <3>3
  <2>3. ASSUME NEW x \in End(next[q]) PROVE x \in End(q)
    <3> SUFFICES ASSUME NEW S \in Closed, q \in S PROVE x \in S
      BY <2>3
    <3>1. next[q] \in S
      BY <1>2
    <3> QED
      BY <2>3, <3>1
  <2>4. End(q) = End(next[q])
    BY <2>2, <2>3
  <2> HIDE DEF End
  <2> QED
    BY <2>1, <2>4
<1> HIDE DEF f
<1>3. \A q \in D : f[q] = IF stop[q] THEN q ELSE f[next[q]]
  BY <1>1, <1>2
<1> QED
  BY <1>3

-----------------------------------------------------------------------------
(* The ring of packets: indices                                            *)

(* The modulus, below twice the size.                                      *)
LEMMA Wrapped ==
  ASSUME NEW x \in Nat, x < 2 * Size
  PROVE  x % Size = IF x < Size THEN x ELSE x - Size
<1>1. Size \in Nat /\ Size > 1
  BY SizeAssumption
<1>2. CASE x < Size
  BY <1>1, <1>2
<1>3. CASE ~(x < Size)
  <2>1. x - Size \in Nat /\ x - Size < Size
    BY <1>1, <1>3
  <2>2. x = 1 * Size + (x - Size)
    BY <1>1
  <2> QED
    BY <1>1, <1>3, <2>1, <2>2
<1> QED
  BY <1>2, <1>3

(* Distances from an index.                                                *)
LEMMA Distance ==
  ASSUME NEW p \in Index, NEW q \in Index
  PROVE  /\ RbAvail(p, q) \in Nat /\ RbAvail(p, q) < Size
         /\ q = (p + RbAvail(p, q)) % Size
<1>1. Size \in Nat /\ Size > 1 /\ p \in Nat /\ q \in Nat /\ p < Size /\ q < Size
  BY SizeAssumption DEF Index
<1>2. RbAvail(p, q) \in Nat /\ RbAvail(p, q) < Size
  BY <1>1 DEF RbAvail
<1>3. p + RbAvail(p, q) \in Nat /\ p + RbAvail(p, q) < 2 * Size
  BY <1>1, <1>2
<1> DEFINE a == RbAvail(p, q)
<1>4. p + a = q \/ p + a = q + Size
  BY <1>1 DEF RbAvail
<1>5. a \in Nat /\ p + a \in Nat /\ p + a < 2 * Size
  BY <1>2, <1>3
<1> HIDE DEF a
<1>6. (p + a) % Size = IF p + a < Size THEN p + a ELSE p + a - Size
  BY <1>1, <1>5, Wrapped
<1>7. (p + a) % Size = q
  BY <1>1, <1>6, <1>4
<1> QED
  BY <1>2, <1>7 DEF a

(* The place at a distance.                                                *)
LEMMA Placed ==
  ASSUME NEW p \in Index, NEW o \in Nat, o < Size
  PROVE  (p + o) % Size \in Index /\ RbAvail(p, (p + o) % Size) = o
<1>1. Size \in Nat /\ Size > 1 /\ p \in Nat /\ p < Size
  BY SizeAssumption DEF Index
<1>2. (p + o) % Size = IF p + o < Size THEN p + o ELSE p + o - Size
  BY <1>1, Wrapped
<1> QED
  BY <1>1, <1>2 DEF RbAvail, Index

(* Going on from a place.                                                  *)
LEMMA PlaceSum ==
  ASSUME NEW p \in Index, NEW o \in Nat, NEW j \in Nat, o < Size, j < Size, o + j < 2 * Size - p
  PROVE  (((p + o) % Size) + j) % Size = (p + o + j) % Size
<1>1. Size \in Nat /\ Size > 1 /\ p \in Nat /\ p < Size
  BY SizeAssumption DEF Index
<1>2. (p + o) % Size = IF p + o < Size THEN p + o ELSE p + o - Size
  BY <1>1, Wrapped
<1>3. (p + o + j) % Size = IF p + o + j < Size THEN p + o + j ELSE p + o + j - Size
  BY <1>1, Wrapped
<1>4. CASE p + o < Size
  BY <1>2, <1>4
<1>5. CASE ~(p + o < Size)
  <2>1. p + o - Size + j \in Nat /\ p + o - Size + j < Size
    BY <1>1, <1>5
  <2>2. (p + o - Size + j) % Size = p + o - Size + j
    BY <1>1, <2>1, Wrapped
  <2> QED
    BY <1>1, <1>2, <1>3, <1>5, <2>2
<1> QED
  BY <1>4, <1>5

(* Distances from a place further on.                                      *)
LEMMA Rebased ==
  ASSUME NEW p \in Index, NEW s \in Nat, NEW o \in Nat, s <= o, o < Size
  PROVE  RbAvail((p + s) % Size, (p + o) % Size) = o - s
<1>1. Size \in Nat /\ Size > 1 /\ p \in Nat /\ p < Size
  BY SizeAssumption DEF Index
<1>2. (p + o) % Size = IF p + o < Size THEN p + o ELSE p + o - Size
  BY <1>1, Wrapped
<1>3. (p + s) % Size = IF p + s < Size THEN p + s ELSE p + s - Size
  BY <1>1, Wrapped
<1> QED
  BY <1>1, <1>2, <1>3 DEF RbAvail

(* dvb_ringbuffer_free and dvb_ringbuffer_avail share the ring.            *)
LEMMA FreeAvail ==
  ASSUME NEW p \in Index, NEW q \in Index
  PROVE  RbFree(p, q) = Size - 1 - RbAvail(p, q)
BY SizeAssumption DEF RbFree, RbAvail, Index

-----------------------------------------------------------------------------
(* The ring of packets: what the calls compute                             *)

(* The constants, without the modulus.                                     *)
LEMMA PktBounds ==
  /\ Size \in Nat /\ Size > 1 /\ MinLen \in Nat /\ MaxLen \in Nat /\ MinLen <= MaxLen
  /\ MaxLen + 3 < Size /\ MinLen >= 1 /\ Word \in Nat /\ Word >= Size
  /\ Word % Size \in Nat /\ Word % Size < MinLen /\ PKTHDRSIZE = 3
BY SizeAssumption, PktConstants DEF PKTHDRSIZE

(* The second length cell, whatever it holds.                              *)
LEMMA LenNat ==
  ASSUME NEW d \in [Index -> Cells], NEW i \in Index
  PROVE  /\ PktLen(d, i) \in Nat /\ (i + 1) % Size \in Index /\ (i + 2) % Size \in Index
         /\ After(d, i) \in Index
<1>1. Size \in Nat /\ Size > 1 /\ i \in Nat
  BY SizeAssumption DEF Index
<1>2. (i + 1) % Size \in Index /\ (i + 2) % Size \in Index
  BY <1>1 DEF Index
<1>3. PICK c \in Cells : c = d[(i + 1) % Size]
  BY <1>2
<1>4. c[1] = "len" => c[2] \in Nat
  BY <1>3 DEF Cells, Junk, Ready, Disposed
<1>5. PktLen(d, i) \in Nat
  BY <1>3, <1>4 DEF PktLen
<1> DEFINE l == PktLen(d, i)
<1>6. l \in Nat
  BY <1>5
<1> HIDE DEF l
<1>7. (i + l + 3) % Size \in Index
  BY <1>1, <1>6 DEF Index
<1> QED
  BY <1>2, <1>5, <1>7 DEF After, l, PKTHDRSIZE

(* dvb_ringbuffer_pkt_next as an equation.                                 *)
LEMMA SearchStep ==
  ASSUME data \in [Index -> Cells], pread \in Index, pwrite \in Index
  PROVE  \E f :
           /\ \A i \in Index : Search(i) = f[<<i, Consumed(i, pread)>>]
           /\ \A i \in Index, c \in Nat :
                f[<<i, c>>] = IF RbAvail(pread, pwrite) - c <= PKTHDRSIZE THEN -1
                              ELSE IF Status(data, i) = Ready THEN i
                              ELSE f[<<After(data, i), c + PktLen(data, i) + PKTHDRSIZE>>]
<1> DEFINE D == Index \X Nat
           avail == RbAvail(pread, pwrite)
           none(q) == avail - q[2] <= PKTHDRSIZE
           hit(q) == Status(data, q[1]) = Ready
           stop == [q \in D |-> none(q) \/ hit(q)]
           go(q) == <<After(data, q[1]), q[2] + PktLen(data, q[1]) + PKTHDRSIZE>>
           next == [q \in D |-> go(q)]
           val(q) == IF none(q) THEN -1 ELSE q[1]
           step(g) == [q \in D |-> IF none(q) THEN -1 ELSE IF hit(q) THEN q[1] ELSE g[go(q)]]
           found == CHOOSE g : g = step(g)
<1>1. \A q \in D : go(q) \in D
  <2> TAKE q \in D
  <2>1. q[1] \in Index /\ q[2] \in Nat
    OBVIOUS
  <2>2. After(data, q[1]) \in Index /\ PktLen(data, q[1]) \in Nat
    BY <2>1, LenNat
  <2> QED
    BY <2>1, <2>2 DEF PKTHDRSIZE
<1>2. stop \in [D -> BOOLEAN] /\ next \in [D -> D]
  BY <1>1
<1>3. WalkStops(D)
  BY WalksStop
<1>4. PICK w : \A q \in D : w[q] = IF stop[q] THEN q ELSE w[next[q]]
  <2> HIDE DEF D, stop, next
  <2> QED
    BY <1>2, <1>3, Zenon DEF WalkStops
<1> DEFINE g0 == [q \in D |-> val(w[q])]
<1>5. g0 = step(g0)
  <2>1. ASSUME NEW q \in D PROVE g0[q] = step(g0)[q]
    <3>1. go(q) \in D /\ stop[q] = (none(q) \/ hit(q)) /\ next[q] = go(q)
      BY <1>1
    <3>2. g0[q] = val(w[q]) /\ g0[go(q)] = val(w[go(q)])
      BY <3>1
    <3>3. step(g0)[q] = IF none(q) THEN -1 ELSE IF hit(q) THEN q[1] ELSE g0[go(q)]
      OBVIOUS
    <3> HIDE DEF D, stop, next, go, g0, step
    <3>4. CASE none(q) \/ hit(q)
      <4>1. w[q] = q
        BY <1>4, <3>1, <3>4, Zenon
      <4> QED
        BY <3>2, <3>3, <3>4, <4>1, Zenon
    <3>5. CASE ~none(q) /\ ~hit(q)
      <4>1. w[q] = w[go(q)]
        BY <1>4, <3>1, <3>5, Zenon
      <4> QED
        BY <3>2, <3>3, <3>5, <4>1, Zenon
    <3> QED
      BY <3>4, <3>5
  <2> HIDE DEF val, none, hit, go
  <2> QED
    BY <2>1
<1>6. found = step(found)
  <2> HIDE DEF step, g0
  <2> QED
    BY <1>5, Zenon
<1>7. \A i : Search(i) = found[<<i, Consumed(i, pread)>>]
  BY DEF Search
<1>8. ASSUME NEW i \in Index, NEW c \in Nat
      PROVE  found[<<i, c>>] =
               IF avail - c <= PKTHDRSIZE THEN -1 ELSE IF Status(data, i) = Ready THEN i
               ELSE found[<<After(data, i), c + PktLen(data, i) + PKTHDRSIZE>>]
  <2>1. <<i, c>> \in D
    OBVIOUS
  <2> HIDE DEF found
  <2>2. found[<<i, c>>] = step(found)[<<i, c>>]
    BY <1>6, Zenon
  <2> HIDE DEF D
  <2>3. step(found)[<<i, c>>] =
          IF none(<<i, c>>) THEN -1 ELSE IF hit(<<i, c>>) THEN <<i, c>>[1] ELSE found[go(<<i, c>>)]
    BY <2>1, Zenon
  <2>4. <<i, c>>[1] = i /\ <<i, c>>[2] = c
    OBVIOUS
  <2> QED
    BY <2>2, <2>3, <2>4, Zenon
<1> HIDE DEF found
<1> QED
  BY <1>7, <1>8

(* The loop of dvb_ringbuffer_pkt_dispose as an equation.                  *)
LEMMA SkipStep ==
  ASSUME NEW d \in [Index -> Cells], pwrite \in Index
  PROVE  \E f :
           /\ \A p \in Index : SkipDisposed(d, p) = f[p]
           /\ \A p \in Index :
                f[p] = IF RbAvail(p, pwrite) > PKTHDRSIZE /\ Status(d, p) = Disposed
                       THEN f[After(d, p)] ELSE p
<1> DEFINE on(p) == RbAvail(p, pwrite) > PKTHDRSIZE /\ Status(d, p) = Disposed
           stop == [p \in Index |-> ~on(p)]
           next == [p \in Index |-> After(d, p)]
           step(g) == [p \in Index |-> IF on(p) THEN g[After(d, p)] ELSE p]
           first == CHOOSE g : g = step(g)
<1>1. stop \in [Index -> BOOLEAN] /\ next \in [Index -> Index]
  BY LenNat
<1>2. WalkStops(Index)
  BY WalksStop
<1>3. PICK w : \A p \in Index : w[p] = IF stop[p] THEN p ELSE w[next[p]]
  <2> HIDE DEF stop, next
  <2> QED
    BY <1>1, <1>2, Zenon DEF WalkStops
<1> DEFINE g0 == [p \in Index |-> w[p]]
<1>4. g0 = step(g0)
  <2>1. ASSUME NEW p \in Index PROVE w[p] = IF on(p) THEN g0[After(d, p)] ELSE p
    <3>1. After(d, p) \in Index
      BY LenNat
    <3>2. stop[p] = ~on(p) /\ next[p] = After(d, p) /\ g0[After(d, p)] = w[After(d, p)]
      BY <3>1
    <3> HIDE DEF stop, next, on, g0
    <3> QED
      BY <1>3, <3>2, Zenon
  <2> HIDE DEF on
  <2> QED
    BY <2>1
<1>5. first = step(first)
  <2> HIDE DEF step, g0
  <2> QED
    BY <1>4, Zenon
<1>6. \A p : SkipDisposed(d, p) = first[p]
  BY DEF SkipDisposed
<1> HIDE DEF first
<1>7. \A p \in Index : first[p] = IF on(p) THEN first[After(d, p)] ELSE p
  <2> HIDE DEF on
  <2> QED
    BY <1>5
<1> QED
  BY <1>6, <1>7

-----------------------------------------------------------------------------
(* The ring of packets: where the packets lie                              *)

(* The numbers of the packets, and the packet being written or next.       *)
LEMMA Numbers ==
  ASSUME PktTypes, LayoutInv, PartInv
  PROVE  /\ Top \in Nat /\ Top >= 1 /\ Base \in Nat /\ Base >= 1 /\ Base <= Top
         /\ live \in SUBSET Nat /\ \A n \in live : n >= Base /\ n < Top
         /\ live # {} => Base \in live
         /\ Len(where) = wr.n /\ wr.n \in Nat /\ (wr.busy => Top = wr.n) /\ (~wr.busy => Top = wr.n + 1)
         /\ \A n \in 1 .. wr.n : where[n] \in Index
<1>1. wr.n \in Nat /\ wr.busy \in BOOLEAN /\ Len(where) = wr.n /\ where \in Seq(Index) /\ live \subseteq 1 .. wr.n
  BY DEF PktTypes
<1>2. Top \in Nat /\ Top >= 1 /\ (wr.busy => Top = wr.n) /\ (~wr.busy => Top = wr.n + 1)
  BY <1>1 DEF Top, PartInv
<1>3. live \in SUBSET Nat
  BY <1>1
<1>4. live \subseteq Base .. Top - 1
  BY DEF LayoutInv
<1>5. ASSUME live # {} PROVE Base \in live
  <2>1. Base = Min(live)
    BY <1>5 DEF Base
  <2> QED
    BY <1>3, <1>5, <2>1, LeastOf, Zenon
<1>6. Base \in Nat /\ Base >= 1 /\ Base <= Top
  <2>1. CASE live = {}
    <3>1. Base = Top
      BY <2>1 DEF Base
    <3> QED
      BY <1>2, <3>1
  <2>2. CASE live # {}
    <3>1. Base \in 1 .. wr.n /\ Base \in Base .. Top - 1
      BY <1>1, <1>4, <1>5, <2>2
    <3>2. Base \in Nat /\ Base >= 1
      BY <1>1, <3>1
    <3> QED
      BY <1>2, <3>1, <3>2
  <2> QED
    BY <2>1, <2>2
<1>7. \A n \in live : n >= Base /\ n < Top
  BY <1>2, <1>4, <1>6
<1>8. \A n \in 1 .. wr.n : where[n] \in Index
  BY <1>1, ElementOfSeq
<1> QED
  BY <1>1, <1>2, <1>3, <1>5, <1>6, <1>7, <1>8

(* Their places and their distances from pread.                            *)
LEMMA Places ==
  ASSUME PktTypes, LayoutInv, PartInv, NEW n \in Base .. Top
  PROVE  /\ n \in Nat /\ Pos(n) \in Index /\ Off(n) \in Nat /\ Off(n) < Size
         /\ Pos(n) = (pread + Off(n)) % Size
         /\ (n < Top \/ wr.busy) => Pos(n) = where[n] /\ n \in 1 .. Len(where)
<1>1. /\ Top \in Nat /\ Base \in Nat /\ Base >= 1 /\ Base <= Top
      /\ Len(where) = wr.n /\ wr.n \in Nat /\ (wr.busy => Top = wr.n) /\ (~wr.busy => Top = wr.n + 1)
  BY Numbers
<1>2. \A m \in 1 .. wr.n : where[m] \in Index
  BY Numbers
<1>3. pread \in Index /\ pwrite \in Index
  BY DEF PktTypes
<1>4. n \in Nat /\ n >= 1 /\ n <= Top
  BY <1>1
<1>5. (n < Top \/ wr.busy) => Pos(n) = where[n] /\ n \in 1 .. wr.n
  BY <1>1, <1>4 DEF Pos
<1>6. Pos(n) \in Index
  BY <1>1, <1>3, <1>4, <1>5, <1>2 DEF Pos
<1> QED
  BY <1>1, <1>3, <1>4, <1>5, <1>6, Distance DEF Off

(* The order and the lengths of the packets.                               *)
LEMMA Ordered ==
  ASSUME PktTypes, LayoutInv, PartInv
  PROVE  /\ Off(Base) = 0 /\ Pos(Base) = pread
         /\ \A n \in Base .. Top - 1 :
              /\ PktLen(data, where[n]) \in MinLen .. MaxLen
              /\ Off(n + 1) = Off(n) + 3 + PktLen(data, where[n])
         /\ \A m \in Base .. Top - 1, n \in Base .. Top :
              m < n => Off(m) + 3 + PktLen(data, where[m]) <= Off(n)
<1>1. Top \in Nat /\ Base \in Nat /\ Base <= Top
  BY Numbers
<1>2. Pos(Base) = pread
  BY DEF LayoutInv
<1>3. Off(Base) = 0
  <2>1. pread \in Nat
    BY SizeAssumption DEF PktTypes, Index
  <2> QED
    BY <1>2, <2>1 DEF Off, RbAvail
<1>4. \A n \in Base .. Top - 1 : PktLen(data, where[n]) \in MinLen .. MaxLen /\ Off(n + 1) = PktEnd(n)
  BY DEF LayoutInv, PktWhole
<1>5. \A m, n \in Base .. Top : m < n => PktEnd(m) <= Off(n)
  BY DEF LayoutInv
<1>6. \A m : PktEnd(m) = Off(m) + 3 + PktLen(data, where[m])
  BY DEF PktEnd, PKTHDRSIZE
<1>7. \A m \in Base .. Top - 1 : m \in Base .. Top
  BY <1>1
<1> QED
  BY <1>2, <1>3, <1>4, <1>5, <1>6, <1>7, Zenon

(* A cell of a packet, counted from pread.                                 *)
LEMMA CellAt ==
  ASSUME PktTypes, LayoutInv, PartInv, NEW n \in Base .. Top, n < Top \/ wr.busy,
         NEW j \in Nat, Off(n) + j < Size
  PROVE  /\ (where[n] + j) % Size = (pread + (Off(n) + j)) % Size
         /\ (where[n] + j) % Size \in Index
<1>1. Off(n) \in Nat /\ Pos(n) = (pread + Off(n)) % Size /\ Pos(n) = where[n] /\ pread \in Index
  BY Places DEF PktTypes
<1>2. Size \in Nat /\ pread \in Nat /\ pread < Size
  BY <1>1, SizeAssumption DEF Index
<1> DEFINE o == Off(n)
<1>3. o \in Nat /\ o + j < Size /\ where[n] = (pread + o) % Size
  BY <1>1
<1> HIDE DEF o
<1>4. (((pread + o) % Size) + j) % Size = (pread + o + j) % Size
  BY <1>1, <1>2, <1>3, PlaceSum
<1>5. pread + o + j = pread + (o + j) /\ o + j \in Nat
  BY <1>2, <1>3
<1>6. (pread + (o + j)) % Size \in Index
  BY <1>1, <1>3, <1>5, Placed
<1> QED
  BY <1>3, <1>4, <1>5, <1>6 DEF o

(* Where the packet after n begins.                                        *)
LEMMA AfterIs ==
  ASSUME PktTypes, LayoutInv, PartInv, NEW n \in Base .. Top - 1,
         NEW d, PktLen(d, where[n]) = PktLen(data, where[n])
  PROVE  After(d, where[n]) = Pos(n + 1)
<1>1. Top \in Nat /\ Base \in Nat
  BY Numbers
<1>2. n \in Base .. Top /\ n + 1 \in Base .. Top /\ n < Top /\ n \in Nat
  BY <1>1
<1>3. Off(n + 1) \in Nat /\ Off(n + 1) < Size /\ Pos(n + 1) = (pread + Off(n + 1)) % Size
  BY <1>2, Places
<1>4. Off(n) \in Nat /\ where[n] \in Index
  BY <1>2, Places
<1>5. PktLen(data, where[n]) \in MinLen .. MaxLen /\ Off(n + 1) = Off(n) + 3 + PktLen(data, where[n])
  BY Ordered
<1> DEFINE l == PktLen(data, where[n])
<1>6. l \in Nat /\ l + 3 \in Nat /\ Off(n) + (l + 3) = Off(n + 1)
  BY <1>4, <1>5, PktBounds
<1>7. After(d, where[n]) = (where[n] + l + 3) % Size
  BY DEF After, PKTHDRSIZE
<1> HIDE DEF l
<1>8. where[n] \in Nat
  BY <1>4, SizeAssumption DEF Index
<1>9. where[n] + l + 3 = where[n] + (l + 3)
  BY <1>6, <1>8
<1>10. (where[n] + (l + 3)) % Size = (pread + (Off(n) + (l + 3))) % Size
  BY <1>2, <1>3, <1>6, CellAt
<1> QED
  BY <1>3, <1>6, <1>7, <1>9, <1>10, Zenon

-----------------------------------------------------------------------------
(* The ring of packets: what pkt_next and pkt_dispose find                 *)

(* The packets from n on, among L.                                         *)
From(L, n) == {m \in L : m >= n}

(* One packet less to look at.                                             *)
LEMMA FromStep ==
  ASSUME NEW L \in SUBSET Nat, NEW n \in Nat
  PROVE  /\ n \in L => From(L, n) # {} /\ Min(From(L, n)) = n
         /\ n \notin L => From(L, n) = From(L, n + 1)
<1>1. ASSUME n \in L PROVE From(L, n) # {} /\ Min(From(L, n)) = n
  <2> DEFINE S == From(L, n)
  <2>1. n \in S /\ S \in SUBSET Nat
    <3>1. n >= n
      OBVIOUS
    <3>2. n \in S
      BY <1>1, <3>1, Zenon DEF From
    <3>3. S \subseteq L
      BY Zenon DEF From
    <3> QED
      BY <3>2, <3>3
  <2>2. Min(S) \in S /\ Min(S) <= n
    <3> HIDE DEF S
    <3> QED
      BY <2>1, LeastOf
  <2>3. Min(From(L, n)) \in Nat /\ Min(From(L, n)) >= n
    BY <2>2 DEF From
  <2> QED
    BY <2>1, <2>2, <2>3
<1>2. ASSUME n \notin L PROVE From(L, n) = From(L, n + 1)
  <2>1. \A m \in L : m >= n <=> m >= n + 1
    BY <1>2
  <2> QED
    BY <2>1, Zenon DEF From
<1> QED
  BY <1>1, <1>2

(* Products of positive factors.                                           *)
LEMMA Times == \A s \in Nat, e \in Nat : e >= 1 => s * e >= s
BY SMTT(20)

(* The remainder is what is left over.                                     *)
LEMMA Modulo ==
  ASSUME NEW s \in Nat, s > 0, NEW t \in Nat, NEW y \in Nat, y < s
  PROVE  (s * t + y) % s = y
<1> DEFINE x == s * t + y
<1>1. x \in Nat
  OBVIOUS
<1> DEFINE D == x \div s
           M == x % s
<1>2. D \in Int /\ M \in Nat /\ M < s /\ x = s * D + M
  <2> HIDE DEF x
  <2> QED
    BY <1>1
<1> HIDE DEF D, M
<1>3. s * t + y = s * D + M
  BY <1>2
<1>4. CASE t = D
  BY <1>2, <1>3, <1>4 DEF M
<1>5. CASE t > D
  <2>1. s * (t - D) = M - y
    <3>1. s * (t - D) = s * t - s * D
      BY <1>2
    <3> QED
      BY <3>1, <1>2, <1>3
  <2>2. s * (t - D) >= s
    BY <1>5, <1>2, Times
  <2> QED
    BY <1>2, <2>1, <2>2
<1>6. CASE t < D
  <2>1. s * (D - t) = y - M
    <3>1. s * (D - t) = s * D - s * t
      BY <1>2
    <3> QED
      BY <3>1, <1>2, <1>3
  <2>2. s * (D - t) >= s
    BY <1>6, <1>2, Times
  <2> QED
    BY <1>2, <2>1, <2>2
<1> QED
  BY <1>2, <1>4, <1>5, <1>6

(* consumed is the distance from pread, or too large by Word % Size, or so *)
(* much too large that it comes out smaller.                               *)
LEMMA ConsumedIs ==
  ASSUME NEW p \in Index, NEW i \in Index
  PROVE  /\ Consumed(i, p) \in Nat
         /\ (Consumed(i, p) >= RbAvail(p, i)
               => Consumed(i, p) = RbAvail(p, i) \/ Consumed(i, p) = RbAvail(p, i) + (Word % Size))
         /\ (RbAvail(p, i) + (Word % Size) < Size => Consumed(i, p) >= RbAvail(p, i))
         /\ Consumed(p, p) = 0
<1>1. Size \in Nat /\ Size > 1 /\ p \in Nat /\ i \in Nat /\ p < Size /\ i < Size /\ Word \in Nat /\ Word >= Size
  BY PktBounds DEF Index
<1> DEFINE r == Word % Size
           q == Word \div Size
           a == RbAvail(p, i)
<1>2. r \in Nat /\ r < Size /\ q \in Nat /\ Word = Size * q + r
  BY <1>1
<1>3. a \in Nat /\ a < Size
  BY Distance
<1>4. Consumed(p, p) = 0
  BY <1>1 DEF Consumed
<1>5. CASE i >= p
  <2>1. a = i - p
    BY <1>1, <1>5 DEF RbAvail
  <2>2. Consumed(i, p) = (i - p) % Size
    BY <1>5 DEF Consumed
  <2>3. (i - p) % Size = i - p
    BY <1>1, <1>5
  <2> QED
    BY <1>1, <1>3, <1>4, <2>1, <2>2, <2>3
<1>6. CASE ~(i >= p)
  <2>1. a = i - p + Size
    BY <1>1, <1>6 DEF RbAvail
  <2>2. Consumed(i, p) = (Word + i - p) % Size
    BY <1>6 DEF Consumed
  <2> HIDE DEF r, q, a
  <2>3. q >= 1
    <3>1. CASE q = 0
      <4>1. Size * q = 0
        BY <1>1, <3>1
      <4> QED
        BY <1>1, <1>2, <4>1
    <3> QED
      BY <1>2, <3>1
  <2>4. Size * (q - 1) = Size * q - Size /\ q - 1 \in Nat /\ Size * q \in Nat
    BY <1>1, <1>2, <2>3
  <2>5. Word + i - p = Size * (q - 1) + (a + r) /\ Word + i - p = Size * q + (a + r - Size)
    BY <1>1, <1>2, <1>3, <2>1, <2>4
  <2>6. a + r < Size => (Size * (q - 1) + (a + r)) % Size = a + r
    BY <1>1, <1>2, <1>3, <2>4, Modulo
  <2>7. ~(a + r < Size) => (Size * q + (a + r - Size)) % Size = a + r - Size
    BY <1>1, <1>2, <1>3, Modulo
  <2>8. Consumed(i, p) = IF a + r < Size THEN a + r ELSE a + r - Size
    BY <2>2, <2>5, <2>6, <2>7, Zenon
  <2>9. a + r - Size < a
    BY <1>1, <1>2, <1>3
  <2>10. Consumed(i, p) \in Nat
    BY <1>1, <1>2, <1>3, <2>8
  <2>11. /\ (Consumed(i, p) >= a => Consumed(i, p) = a \/ Consumed(i, p) = a + r)
         /\ (a + r < Size => Consumed(i, p) >= a)
    BY <1>1, <1>2, <1>3, <2>8, <2>9
  <2> QED
    BY <1>4, <2>10, <2>11 DEF a, r
<1> QED
  BY <1>5, <1>6

(* Every packet in the ring is ready or disposed of.                       *)
LEMMA StatusIs ==
  ASSUME LayoutInv, NEW n \in Base .. Top - 1
  PROVE  Status(data, where[n]) = IF n \in live THEN Ready ELSE Disposed
BY Zenon DEF LayoutInv, PktWhole

(* What lies between the packets and pwrite: the packet being written.     *)
Ahead == IF wr.busy THEN wr.done ELSE 0

LEMMA AvailIs ==
  ASSUME PktTypes, LayoutInv, PartInv
  PROVE  /\ RbAvail(pread, pwrite) = Off(Top) + Ahead /\ Ahead \in Nat
         /\ Off(Top) \in Nat /\ Off(Top) + Ahead < Size
         /\ Ahead > 3 => wr.busy /\ Arriving = {wr.n} /\ Status(data, where[Top]) = Ready
<1>1. Top \in Base .. Top /\ pread \in Index /\ pwrite \in Index /\ wr.done \in Nat /\ wr.busy \in BOOLEAN
  BY Numbers DEF PktTypes
<1>2. Off(Top) \in Nat /\ Off(Top) < Size
  BY <1>1, Places
<1>3. RbAvail(pread, pwrite) \in Nat /\ RbAvail(pread, pwrite) < Size
  BY <1>1, Distance
<1>4. CASE wr.busy
  <2>1. RbAvail(pread, pwrite) = Off(Top) + Ahead /\ Ahead = wr.done
    BY <1>4 DEF PartInv, Ahead
  <2>2. wr.done > 3 => wr.done >= 3
    BY <1>1
  <2> QED
    BY <1>1, <1>2, <1>3, <1>4, <2>1, <2>2 DEF PartInv, Arriving, PKTHDRSIZE
<1>5. CASE ~wr.busy
  <2>1. RbAvail(pread, pwrite) = Off(Top) /\ Ahead = 0
    BY <1>5 DEF Off, Pos, Ahead
  <2> QED
    BY <1>2, <2>1
<1> QED
  BY <1>1, <1>4, <1>5

(* A search that begins at packet n, with consumed right or too large by   *)
(* Word % Size, ends at the oldest ready packet from there on: the length  *)
(* of a packet makes up for the error.  If there is none it may end at the *)
(* packet that is being written.                                           *)
LEMMA NextReady ==
  ASSUME PktTypes, LayoutInv, PartInv,
         NEW f, NEW e \in Nat, e < MinLen,
         \A i \in Index, c \in Nat :
           f[<<i, c>>] = IF RbAvail(pread, pwrite) - c <= PKTHDRSIZE THEN -1
                         ELSE IF Status(data, i) = Ready THEN i
                         ELSE f[<<After(data, i), c + PktLen(data, i) + PKTHDRSIZE>>]
  PROVE  \A n \in Base .. Top : f[<<Pos(n), Off(n) + e>>] \in FirstOf(From(live, n))
<1> DEFINE S == {n \in Base .. Top : f[<<Pos(n), Off(n) + e>>] \in FirstOf(From(live, n))}
<1>1. Top \in Nat /\ Base \in Nat /\ Base <= Top /\ live \in SUBSET Nat /\ \A n \in live : n < Top
  BY Numbers
<1>2. RbAvail(pread, pwrite) = Off(Top) + Ahead /\ Ahead \in Nat
  BY AvailIs
<1>3. Top \in S
  <2>1. Pos(Top) \in Index /\ Off(Top) \in Nat /\ Off(Top) + e \in Nat /\ Top \in Base .. Top
    BY <1>1, Places
  <2>2. From(live, Top) = {}
    <3>1. \A m \in live : ~(m >= Top)
      BY <1>1
    <3> QED
      BY <3>1, Zenon DEF From
  <2>3. FirstOf(From(live, Top)) = {-1} \union {where[n] : n \in Arriving}
    BY <2>2, Zenon DEF FirstOf
  <2>4. CASE RbAvail(pread, pwrite) - (Off(Top) + e) <= PKTHDRSIZE
    <3>1. f[<<Pos(Top), Off(Top) + e>>] = -1
      BY <2>1, <2>4, Zenon
    <3> QED
      BY <2>1, <2>3, <3>1
  <2>5. CASE ~(RbAvail(pread, pwrite) - (Off(Top) + e) <= PKTHDRSIZE)
    <3>1. Ahead > 3
      BY <1>2, <2>1, <2>5, PktBounds
    <3>2. wr.busy /\ Arriving = {wr.n} /\ Status(data, where[Top]) = Ready
      BY <3>1, AvailIs
    <3>3. Pos(Top) = where[wr.n] /\ Pos(Top) = where[Top]
      BY <2>1, <3>2, Places, Numbers
    <3>4. f[<<Pos(Top), Off(Top) + e>>] = Pos(Top)
      BY <2>1, <2>5, <3>2, <3>3, Zenon
    <3> QED
      BY <2>1, <2>3, <3>2, <3>3, <3>4
  <2> QED
    BY <2>4, <2>5
<1>4. ASSUME NEW n \in Base .. Top - 1, n + 1 \in S PROVE n \in S
  <2>1. n \in Base .. Top /\ n < Top /\ n \in Nat /\ n + 1 \in Base .. Top /\ Top \in Base .. Top
    BY <1>1
  <2>2. Pos(n) \in Index /\ Off(n) \in Nat /\ Pos(n) = where[n] /\ Off(n) + e \in Nat
    BY <2>1, Places
  <2>3. /\ PktLen(data, where[n]) \in MinLen .. MaxLen
        /\ Off(n + 1) = Off(n) + 3 + PktLen(data, where[n])
        /\ Off(n) + 3 + PktLen(data, where[n]) <= Off(Top)
    BY <2>1, Ordered
  <2>4. PktLen(data, where[n]) \in Nat /\ PktLen(data, where[n]) > e /\ Off(Top) \in Nat
    BY <2>1, <2>3, PktBounds, Places
  <2>5. ~(RbAvail(pread, pwrite) - (Off(n) + e) <= PKTHDRSIZE)
    BY <1>2, <2>2, <2>3, <2>4, PktBounds
  <2>6. f[<<Pos(n), Off(n) + e>>] =
          IF Status(data, where[n]) = Ready THEN where[n]
          ELSE f[<<After(data, where[n]), (Off(n) + e) + PktLen(data, where[n]) + PKTHDRSIZE>>]
    BY <2>2, <2>5, Zenon
  <2>7. CASE n \in live
    <3>1. Status(data, where[n]) = Ready
      BY <2>7, StatusIs
    <3>2. FirstOf(From(live, n)) = {where[n]}
      BY <1>1, <2>1, <2>7, FromStep, Zenon DEF FirstOf
    <3> QED
      BY <2>1, <2>6, <3>1, <3>2
  <2>8. CASE n \notin live
    <3>1. Status(data, where[n]) # Ready
      BY <2>8, StatusIs DEF Ready, Disposed
    <3>2. After(data, where[n]) = Pos(n + 1)
      BY AfterIs
    <3>3. (Off(n) + e) + PktLen(data, where[n]) + PKTHDRSIZE = Off(n + 1) + e
      BY <2>2, <2>3, <2>4, PktBounds
    <3>4. From(live, n) = From(live, n + 1)
      BY <1>1, <2>1, <2>8, FromStep, Zenon
    <3>5. f[<<Pos(n + 1), Off(n + 1) + e>>] \in FirstOf(From(live, n + 1))
      BY <1>4
    <3>6. f[<<Pos(n), Off(n) + e>>] = f[<<Pos(n + 1), Off(n + 1) + e>>]
      BY <2>6, <3>1, <3>2, <3>3, Zenon
    <3> QED
      BY <2>1, <3>4, <3>5, <3>6, Zenon
  <2> QED
    BY <2>7, <2>8
<1> HIDE DEF S
<1>5. \A n \in Base .. Top : n \in S
  BY <1>1, <1>3, <1>4, Downwards
<1> QED
  BY <1>5 DEF S

(* pkt_next from the beginning, and from a packet in the ring.             *)
LEMMA NextIs ==
  ASSUME PktTypes, LayoutInv, PartInv
  PROVE  /\ PktNext(-1) \in FirstOf(live)
         /\ \A n \in Base .. Top - 1 :
              ~Strays(where[n]) => PktNext(where[n]) \in FirstOf(From(live, n + 1))
<1>1. data \in [Index -> Cells] /\ pread \in Index /\ pwrite \in Index
  BY DEF PktTypes
<1>2. PICK f :
        /\ \A i \in Index : Search(i) = f[<<i, Consumed(i, pread)>>]
        /\ \A i \in Index, c \in Nat :
             f[<<i, c>>] = IF RbAvail(pread, pwrite) - c <= PKTHDRSIZE THEN -1
                           ELSE IF Status(data, i) = Ready THEN i
                           ELSE f[<<After(data, i), c + PktLen(data, i) + PKTHDRSIZE>>]
  BY <1>1, SearchStep, Zenon
<1>3. ASSUME NEW e \in Nat, e < MinLen, NEW n \in Base .. Top
      PROVE  f[<<Pos(n), Off(n) + e>>] \in FirstOf(From(live, n))
  BY <1>2, <1>3, NextReady, Zenon
<1>4. Top \in Nat /\ Base \in Nat /\ Base <= Top /\ live \in SUBSET Nat /\ \A n \in live : n >= Base
  BY Numbers
<1>5. PktNext(-1) \in FirstOf(live)
  <2>1. Off(Base) = 0 /\ Pos(Base) = pread /\ Base \in Base .. Top
    BY <1>4, Ordered
  <2>2. Search(pread) = f[<<pread, 0>>]
    BY <1>1, <1>2, ConsumedIs, Zenon
  <2>3. f[<<Pos(Base), Off(Base) + 0>>] \in FirstOf(From(live, Base))
    BY <1>3, <2>1, PktBounds
  <2>4. From(live, Base) = live
    BY <1>4 DEF From
  <2>5. PktNext(-1) = Search(pread)
    BY DEF PktNext
  <2>6. Off(Base) + 0 = 0
    BY <2>1
  <2> QED
    BY <2>1, <2>2, <2>3, <2>4, <2>5, <2>6, Zenon
<1>6. ASSUME NEW n \in Base .. Top - 1, ~Strays(where[n])
      PROVE  PktNext(where[n]) \in FirstOf(From(live, n + 1))
  <2>1. n \in Base .. Top /\ n < Top /\ n + 1 \in Base .. Top /\ n \in Nat
    BY <1>4
  <2>2. where[n] \in Index /\ Pos(n + 1) \in Index /\ Off(n + 1) \in Nat
    BY <2>1, Places
  <2>3. where[n] # -1
    BY <2>2, SizeAssumption DEF Index
  <2>4. After(data, where[n]) = Pos(n + 1)
    BY AfterIs
  <2>5. PktNext(where[n]) = Search(Pos(n + 1))
    BY <2>3, <2>4 DEF PktNext
  <2> DEFINE c == Consumed(Pos(n + 1), pread)
  <2>6. ~(c < Off(n + 1)) /\ c \in Nat
    <3>1. ~(c < RbAvail(pread, Pos(n + 1)))
      BY <1>6, <2>3, <2>4, Zenon DEF Strays
    <3>2. c \in Nat
      BY <1>1, <2>2, ConsumedIs, Zenon
    <3> QED
      BY <3>1, <3>2 DEF Off
  <2>7. c = Off(n + 1) \/ c = Off(n + 1) + (Word % Size)
    <3>1. c >= RbAvail(pread, Pos(n + 1))
      BY <2>2, <2>6 DEF Off
    <3> QED
      BY <1>1, <2>2, <3>1, ConsumedIs, Zenon DEF Off
  <2> HIDE DEF c
  <2>8. Search(Pos(n + 1)) = f[<<Pos(n + 1), c>>]
    BY <1>2, <2>2, Zenon DEF c
  <2>9. CASE c = Off(n + 1)
    <3>1. c = Off(n + 1) + 0 /\ 0 < MinLen
      BY <2>2, <2>9, PktBounds
    <3>2. f[<<Pos(n + 1), Off(n + 1) + 0>>] \in FirstOf(From(live, n + 1))
      BY <1>3, <2>1, <3>1
    <3> QED
      BY <2>5, <2>8, <3>1, <3>2, Zenon
  <2>10. CASE c = Off(n + 1) + (Word % Size)
    <3>1. Word % Size \in Nat /\ Word % Size < MinLen
      BY PktBounds
    <3>2. f[<<Pos(n + 1), Off(n + 1) + (Word % Size)>>] \in FirstOf(From(live, n + 1))
      BY <1>3, <2>1, <3>1, Zenon
    <3> QED
      BY <2>5, <2>8, <2>10, <3>2, Zenon
  <2> QED
    BY <2>7, <2>9, <2>10
<1> QED
  BY <1>5, <1>6

(* With Word % Size bytes free nothing strays.                             *)
LEMMA NoStray ==
  ASSUME PktTypes, LayoutInv, PartInv, RbFree(pread, pwrite) >= Word % Size,
         NEW n \in Base .. Top - 1
  PROVE  ~Strays(where[n])
<1>1. Top \in Nat /\ Base \in Nat /\ Base <= Top
  BY Numbers
<1>2. n + 1 \in Base .. Top /\ Top \in Base .. Top /\ n + 1 <= Top /\ n \in Nat
  BY <1>1
<1>3. /\ Pos(n + 1) \in Index /\ Off(n + 1) \in Nat /\ Off(Top) \in Nat
      /\ pread \in Index /\ pwrite \in Index
  BY <1>2, Places DEF PktTypes
<1>4. RbFree(pread, pwrite) <= Size - 1 - Off(Top)
  <2>1. RbFree(pread, pwrite) = Size - 1 - RbAvail(pread, pwrite)
    BY <1>3, FreeAvail
  <2>2. RbAvail(pread, pwrite) = Off(Top) + Ahead /\ Ahead \in Nat
    BY AvailIs
  <2> QED
    BY <1>3, <2>1, <2>2, PktBounds
<1>5. Off(n + 1) <= Off(Top)
  <2>1. CASE n + 1 = Top
    BY <1>3, <2>1
  <2>2. CASE n + 1 < Top
    <3>1. n + 1 \in Base .. Top - 1
      BY <1>1, <1>2, <2>2
    <3>2. /\ Off(n + 1) + 3 + PktLen(data, where[n + 1]) <= Off(Top)
          /\ PktLen(data, where[n + 1]) \in MinLen .. MaxLen
      BY <1>2, <2>2, <3>1, Ordered
    <3> QED
      BY <1>3, <3>2, PktBounds
  <2> QED
    BY <1>1, <1>2, <2>1, <2>2
<1>6. Off(n + 1) + (Word % Size) < Size
  <2>1. RbFree(pread, pwrite) \in Int
    BY <1>3, FreeAvail, Distance, PktBounds
  <2> QED
    BY <1>3, <1>4, <1>5, <2>1, PktBounds
<1>7. Consumed(Pos(n + 1), pread) >= RbAvail(pread, Pos(n + 1)) /\ Consumed(Pos(n + 1), pread) \in Nat
  BY <1>3, <1>6, ConsumedIs, Zenon DEF Off
<1>8. ~(Consumed(Pos(n + 1), pread) < RbAvail(pread, Pos(n + 1)))
  BY <1>3, <1>7 DEF Off
<1>9. After(data, where[n]) = Pos(n + 1)
  BY AfterIs
<1> QED
  BY <1>8, <1>9, Zenon DEF Strays

(* The clean-up ends at the oldest packet of L, the ready ones of d.       *)
LEMMA SkipIs ==
  ASSUME PktTypes, LayoutInv, PartInv,
         NEW d \in [Index -> Cells], Ahead > 3 => Status(d, where[Top]) = Ready, NEW L \in SUBSET (Base .. Top - 1),
         \A n \in Base .. Top - 1 :
           /\ PktLen(d, where[n]) = PktLen(data, where[n])
           /\ Status(d, where[n]) = IF n \in L THEN Ready ELSE Disposed
  PROVE  SkipDisposed(d, pread) = IF L = {} THEN Pos(Top) ELSE where[Min(L)]
<1> DEFINE goal(n) == IF From(L, n) = {} THEN Pos(Top) ELSE where[Min(From(L, n))]
<1>1. /\ Top \in Nat /\ Base \in Nat /\ Base <= Top
      /\ pread \in Index /\ pwrite \in Index
  BY Numbers DEF PktTypes
<1>2. L \in SUBSET Nat /\ \A n \in L : n >= Base /\ n < Top
  BY <1>1
<1>3. PICK f : /\ \A p \in Index : SkipDisposed(d, p) = f[p]
               /\ \A p \in Index :
                    f[p] = IF RbAvail(p, pwrite) > PKTHDRSIZE /\ Status(d, p) = Disposed
                           THEN f[After(d, p)] ELSE p
  BY <1>1, SkipStep, Zenon
<1> DEFINE S == {n \in Base .. Top : f[Pos(n)] = goal(n)}
<1>4. /\ Pos(Top) \in Index /\ Off(Top) \in Nat /\ Off(Top) + Ahead < Size /\ Ahead \in Nat
      /\ Pos(Top) = (pread + Off(Top)) % Size /\ pwrite = (pread + (Off(Top) + Ahead)) % Size
  <2>1. Top \in Base .. Top
    BY <1>1
  <2>2. RbAvail(pread, pwrite) = Off(Top) + Ahead /\ Ahead \in Nat /\ Off(Top) + Ahead < Size
    BY AvailIs
  <2>3. pwrite = (pread + RbAvail(pread, pwrite)) % Size
    BY <1>1, Distance
  <2> QED
    BY <2>1, <2>2, <2>3, Places
<1>5. Top \in S
  <2>1. From(L, Top) = {}
    <3>1. \A m \in L : ~(m >= Top)
      BY <1>1, <1>2
    <3> QED
      BY <3>1, Zenon DEF From
  <2>2. RbAvail(Pos(Top), pwrite) = Ahead
    <3>1. Off(Top) <= Off(Top) + Ahead /\ Off(Top) + Ahead \in Nat /\ (Off(Top) + Ahead) - Off(Top) = Ahead
      BY <1>4
    <3>2. RbAvail((pread + Off(Top)) % Size, (pread + (Off(Top) + Ahead)) % Size) = (Off(Top) + Ahead) - Off(Top)
      BY <1>1, <1>4, <3>1, Rebased
    <3> QED
      BY <1>4, <3>1, <3>2
  <2>3. ~(RbAvail(Pos(Top), pwrite) > PKTHDRSIZE /\ Status(d, Pos(Top)) = Disposed)
    <3>1. CASE Ahead > 3
      <4>1. wr.busy
        BY <3>1, AvailIs
      <4>2. Pos(Top) = where[Top]
        BY <4>1 DEF Pos
      <4> QED
        BY <3>1, <4>2 DEF Ready, Disposed
    <3>2. CASE ~(Ahead > 3)
      BY <2>2, <3>2, PktBounds
    <3> QED
      BY <3>1, <3>2
  <2>4. f[Pos(Top)] = Pos(Top)
    BY <1>3, <1>4, <2>3, Zenon
  <2> QED
    BY <1>1, <2>1, <2>4
<1>6. ASSUME NEW n \in Base .. Top - 1, n + 1 \in S PROVE n \in S
  <2>1. n \in Base .. Top /\ n < Top /\ n \in Nat /\ n + 1 \in Base .. Top /\ Top \in Base .. Top
    BY <1>1
  <2>2. Pos(n) \in Index /\ Off(n) \in Nat /\ Pos(n) = where[n] /\ Pos(n) = (pread + Off(n)) % Size
    BY <2>1, Places
  <2>3. Off(Top) + Ahead \in Nat /\ Off(Top) \in Nat
    BY <1>4
  <2>4. /\ PktLen(data, where[n]) \in MinLen .. MaxLen
        /\ Off(n) + 3 + PktLen(data, where[n]) <= Off(Top)
    BY <2>1, Ordered
  <2>5. PktLen(data, where[n]) \in Nat /\ PktLen(data, where[n]) >= 1
    BY <2>4, PktBounds
  <2>6. RbAvail(Pos(n), pwrite) = (Off(Top) + Ahead) - Off(n)
    <3>1. Off(n) <= Off(Top) + Ahead
      BY <1>4, <2>2, <2>3, <2>4, <2>5
    <3>2. RbAvail((pread + Off(n)) % Size, (pread + (Off(Top) + Ahead)) % Size) = (Off(Top) + Ahead) - Off(n)
      BY <1>1, <1>4, <2>2, <2>3, <3>1, Rebased
    <3> QED
      BY <1>4, <2>2, <3>2
  <2>7. RbAvail(Pos(n), pwrite) > PKTHDRSIZE
    BY <1>4, <2>2, <2>3, <2>4, <2>5, <2>6, PktBounds
  <2>8. f[Pos(n)] = IF Status(d, where[n]) = Disposed THEN f[After(d, where[n])] ELSE where[n]
    BY <1>3, <2>2, <2>7, Zenon
  <2>9. CASE n \in L
    <3>1. Status(d, where[n]) # Disposed
      BY <2>9 DEF Ready, Disposed
    <3>2. goal(n) = where[n]
      BY <1>2, <2>1, <2>9, FromStep, Zenon
    <3> QED
      BY <2>1, <2>8, <3>1, <3>2
  <2>10. CASE n \notin L
    <3>1. Status(d, where[n]) = Disposed
      BY <2>10
    <3>2. After(d, where[n]) = Pos(n + 1)
      BY AfterIs
    <3>3. goal(n) = goal(n + 1)
      BY <1>2, <2>1, <2>10, FromStep, Zenon
    <3>4. f[Pos(n + 1)] = goal(n + 1)
      BY <1>6
    <3> HIDE DEF goal
    <3> QED
      BY <2>1, <2>8, <3>1, <3>2, <3>3, <3>4, Zenon
  <2> QED
    BY <2>9, <2>10
<1> HIDE DEF S
<1>7. \A n \in Base .. Top : n \in S
  BY <1>1, <1>5, <1>6, Downwards
<1>8. f[Pos(Base)] = goal(Base)
  BY <1>1, <1>7 DEF S
<1>9. Pos(Base) = pread /\ From(L, Base) = L
  BY <1>2, Ordered DEF From
<1> HIDE DEF goal
<1> QED
  BY <1>1, <1>3, <1>8, <1>9, Zenon DEF goal

-----------------------------------------------------------------------------
(* The ring of packets: the invariant                                      *)

(* What the invariant says of the walk and of pread.                       *)
LEMMA PktInvWalk == PktInv => WalkRight /\ SpaceReclaimed
<1> SUFFICES ASSUME PktInv, ~astray PROVE PacketMet /\ WalkFindsAll /\ SpaceReclaimed
  BY DEF WalkRight, PacketMet, WalkFindsAll, SpaceReclaimed
<1>1. PktTypes /\ LayoutInv /\ PartInv /\ CurInv
  BY DEF PktInv
<1>2. /\ Top \in Nat /\ Base \in Nat /\ live \in SUBSET Nat
      /\ \A n \in live : n \in Base .. Top - 1
  BY <1>1, Numbers
<1>3. ASSUME cur # -1
      PROVE  \E n \in live \union Arriving :
               /\ where[n] = cur
               /\ PktLen(data, cur) \in MinLen .. MaxLen /\ Stored(n) <= PktLen(data, cur)
               /\ \A k \in 1 .. Stored(n) : PktRead(cur)[k] = <<"payload", <<n, k>> >>
  <2>1. PICK n \in live \union Arriving : cur = where[n]
    BY <1>1, <1>3 DEF CurInv
  <2>2. CASE n \in live
    <3>1. n \in Base .. Top - 1
      BY <1>2, <2>2
    <3>2. PktWhole(n)
      BY <1>1, <3>1, Zenon DEF LayoutInv
    <3>3. \A k \in 1 .. PktLen(data, cur) : PktRead(cur)[k] = <<"payload", <<n, k>> >>
      <4>1. \A k \in 1 .. PktLen(data, cur) :
              data[(cur + PKTHDRSIZE + k - 1) % Size] = <<"payload", <<n, k>> >>
        BY <2>1, <3>2, Zenon DEF PktWhole
      <4>2. \A k \in 1 .. PktLen(data, cur) : PktRead(cur)[k] = data[(cur + PKTHDRSIZE + k - 1) % Size]
        BY Zenon DEF PktRead
      <4> QED
        BY <4>1, <4>2, Zenon
    <3>4. PktLen(data, cur) \in MinLen .. MaxLen /\ Stored(n) = PktLen(data, cur)
      BY <2>1, <2>2, <3>2 DEF PktWhole, Stored
    <3>5. Stored(n) <= PktLen(data, cur)
      BY <3>4, PktBounds
    <3> QED
      BY <2>1, <2>2, <3>3, <3>4, <3>5
  <2>3. CASE n \notin live
    <3>1. wr.busy /\ wr.done > PKTHDRSIZE /\ n = wr.n /\ n \in Arriving
      BY <2>1, <2>3 DEF Arriving
    <3>2. n = Top /\ wr.done \in Nat /\ wr.len \in Nat
      BY <1>1, <3>1, Numbers DEF PktTypes
    <3>3. /\ wr.len \in MinLen .. MaxLen /\ wr.done <= wr.len + PKTHDRSIZE
          /\ PktLen(data, cur) = wr.len
          /\ \A k \in 1 .. wr.len : k <= wr.done - PKTHDRSIZE =>
               data[(cur + PKTHDRSIZE + k - 1) % Size] = <<"payload", <<n, k>> >>
      <4>1. wr.done >= 2
        BY <3>1, <3>2 DEF PKTHDRSIZE
      <4> QED
        BY <1>1, <2>1, <3>1, <3>2, <4>1 DEF PartInv
    <3>4. Stored(n) = wr.done - PKTHDRSIZE
      BY <2>3 DEF Stored
    <3>5. Stored(n) <= wr.len /\ Stored(n) \in Nat /\ \A k \in 1 .. Stored(n) : k \in 1 .. wr.len /\ k <= Stored(n)
      BY <3>1, <3>2, <3>3, <3>4 DEF PKTHDRSIZE
    <3>6. \A k \in 1 .. wr.len : PktRead(cur)[k] = data[(cur + PKTHDRSIZE + k - 1) % Size]
      BY <3>3, Zenon DEF PktRead
    <3>7. \A k \in 1 .. Stored(n) : PktRead(cur)[k] = <<"payload", <<n, k>> >>
      BY <3>3, <3>4, <3>5, <3>6
    <3> QED
      BY <2>1, <3>1, <3>3, <3>5, <3>7
  <2> QED
    BY <2>2, <2>3
<1>4. ASSUME RbFree(pread, pwrite) >= Word % Size
      PROVE  /\ PktNext(-1) \in FirstOf(live)
             /\ \A n \in live : PktNext(where[n]) \in FirstOf({m \in live : m > n})
  <2>1. PktNext(-1) \in FirstOf(live)
    BY <1>1, <1>4, NextIs
  <2>2. ASSUME NEW n \in live PROVE PktNext(where[n]) \in FirstOf({m \in live : m > n})
    <3>1. n \in Base .. Top - 1 /\ n \in Nat
      BY <1>2
    <3>2. ~Strays(where[n])
      BY <1>1, <1>4, <3>1, NoStray
    <3>3. PktNext(where[n]) \in FirstOf(From(live, n + 1))
      BY <1>1, <1>4, <3>1, <3>2, NextIs
    <3>4. \A m \in live : m >= n + 1 <=> m > n
      BY <1>2, <3>1
    <3>5. From(live, n + 1) = {m \in live : m > n}
      BY <3>4, Zenon DEF From
    <3> QED
      BY <3>3, <3>5, Zenon
  <2> QED
    BY <2>1, <2>2
<1>5. pread = IF live # {} THEN where[Min(live)] ELSE IF wr.busy THEN where[wr.n] ELSE pwrite
  <2>1. Pos(Base) = pread
    BY <1>1 DEF LayoutInv
  <2>2. CASE live = {}
    <3>1. Base = Top
      BY <2>2 DEF Base
    <3>2. Pos(Top) = IF wr.busy THEN where[wr.n] ELSE pwrite
      BY DEF Pos, Top
    <3> QED
      BY <2>1, <2>2, <3>1, <3>2
  <2>3. CASE live # {}
    <3>1. Base \in live /\ Base < Top /\ Base = Min(live)
      BY <1>1, <2>3, Numbers DEF Base
    <3>2. Pos(Base) = where[Base]
      BY <1>2, <3>1 DEF Pos
    <3> QED
      BY <2>1, <2>3, <3>1, <3>2
  <2> QED
    BY <2>2, <2>3
<1> QED
  BY <1>3, <1>4, <1>5 DEF PacketMet, WalkFindsAll, SpaceReclaimed

(* It holds of the empty ring.                                             *)
LEMMA PktInvInit == PktInit => PktInv
<1> SUFFICES ASSUME PktInit PROVE PktTypes /\ LayoutInv /\ PartInv /\ CurInv
  BY DEF PktInv
<1>1. Size \in Nat /\ Size > 1
  BY SizeAssumption
<1>2. /\ data = [x \in Index |-> Junk] /\ pread = 0 /\ pwrite = 0
      /\ wr = [n |-> 0, len |-> 0, done |-> 0, busy |-> FALSE]
      /\ cur = -1 /\ live = {} /\ where = << >>
  BY DEF PktInit
<1>3. 0 \in Index
  BY <1>1 DEF Index
<1>4. PktTypes
  <2>1. Junk \in Cells
    BY DEF Cells
  <2>2. data \in [Index -> Cells]
    BY <1>2, <2>1
  <2>3. where \in Seq(Index) /\ Len(where) = 0
    BY <1>2
  <2> QED
    BY <1>2, <1>3, <2>2, <2>3 DEF PktTypes
<1>5. Top = 1 /\ Base = 1 /\ Pos(1) = 0
  BY <1>2 DEF Top, Base, Pos
<1>6. LayoutInv
  <2>1. Pos(Base) = pread /\ live \subseteq Base .. Top - 1
    BY <1>2, <1>5
  <2>2. Base .. Top - 1 = {} /\ \A m, n \in Base .. Top : ~(m < n)
    BY <1>5
  <2> QED
    BY <2>1, <2>2, Zenon DEF LayoutInv
<1>7. PartInv /\ CurInv
  BY <1>2 DEF PartInv, CurInv
<1> QED
  BY <1>4, <1>6, <1>7

(* Steps that only move the reader.                                        *)
LEMMA PktInvReader ==
  ASSUME PktTypes, LayoutInv, PartInv, UNCHANGED <<data, pread, pwrite, wr, live, where>>,
         cur' = -1 \/ \E n \in live \union Arriving : cur' = where[n]
  PROVE  PktTypes' /\ LayoutInv' /\ PartInv' /\ CurInv'
<1>1. \A n \in live \union Arriving : where[n] \in Index
  <2>1. \A n \in live \union Arriving : n \in 1 .. wr.n
    BY DEF PktTypes, Arriving, PartInv
  <2> QED
    BY <2>1, Numbers
<1>2. PktTypes'
  BY <1>1 DEF PktTypes
<1>3. LayoutInv'
  <2>1. Top' = Top /\ Base' = Base /\ live' = live /\ pread' = pread
    BY DEF Top, Base
  <2>2. \A n : Pos(n)' = Pos(n) /\ Off(n)' = Off(n) /\ PktEnd(n)' = PktEnd(n)
    BY DEF Top, Pos, Off, PktEnd
  <2>3. \A n : PktWhole(n) => PktWhole(n)'
    BY DEF PktWhole
  <2> QED
    BY <2>1, <2>2, <2>3, Zenon DEF LayoutInv
<1>4. PartInv'
  BY DEF PartInv, Top, Pos, Off
<1>5. CurInv'
  <2>1. live' = live /\ where' = where /\ Arriving' = Arriving
    BY DEF Arriving
  <2> QED
    BY <2>1, Zenon DEF CurInv
<1> QED
  BY <1>2, <1>3, <1>4, <1>5

(* Behind the packet that is being written there is nothing.               *)
LEMMA NextPart ==
  ASSUME PktTypes, LayoutInv, PartInv, wr.busy, wr.done > PKTHDRSIZE, ~Strays(where[wr.n])
  PROVE  PktNext(where[wr.n]) = -1
<1>1. /\ Top = wr.n /\ Top \in Base .. Top /\ wr.done \in Nat /\ wr.len \in Nat
      /\ data \in [Index -> Cells] /\ pread \in Index /\ pwrite \in Index
  BY Numbers DEF PktTypes
<1>2. Off(Top) \in Nat /\ Pos(Top) = where[Top] /\ where[Top] \in Index
  BY <1>1, Places
<1>3. /\ wr.done <= wr.len + 3 /\ Off(Top) + wr.len + 3 < Size
      /\ PktLen(data, where[Top]) = wr.len
      /\ RbAvail(pread, pwrite) = Off(Top) + wr.done
  <2>1. wr.done >= 2
    BY <1>1 DEF PKTHDRSIZE
  <2> QED
    BY <2>1 DEF PartInv, PKTHDRSIZE
<1> DEFINE e == After(data, where[Top])
<1>4. e \in Index /\ RbAvail(pread, e) = Off(Top) + (wr.len + 3)
  <2> DEFINE j == wr.len + 3
             o == Off(Top) + j
  <2>1. j \in Nat /\ Off(Top) + j < Size /\ o \in Nat /\ o < Size
    BY <1>1, <1>2, <1>3, PktBounds
  <2>2. e = (where[Top] + j) % Size
    <3>1. where[Top] \in Nat
      BY <1>2, PktBounds DEF Index
    <3>2. where[Top] + wr.len + 3 = where[Top] + (wr.len + 3)
      BY <1>1, <3>1
    <3> QED
      BY <1>3, <3>2 DEF After, PKTHDRSIZE
  <2> HIDE DEF e, j
  <2>3. (where[Top] + j) % Size = (pread + (Off(Top) + j)) % Size
    BY <1>1, <2>1, CellAt
  <2>4. (pread + o) % Size \in Index /\ RbAvail(pread, (pread + o) % Size) = o
    <3> HIDE DEF o
    <3> QED
      BY <1>1, <2>1, Placed
  <2> QED
    BY <2>2, <2>3, <2>4 DEF j
<1>5. where[Top] # -1
  BY <1>2, PktBounds DEF Index
<1> HIDE DEF e
<1>6. Consumed(e, pread) \in Nat /\ ~(Consumed(e, pread) < RbAvail(pread, e))
  <2>1. ~(Consumed(e, pread) < RbAvail(pread, e))
    BY <1>1, <1>5, Zenon DEF Strays, e
  <2> QED
    BY <1>1, <1>4, <2>1, ConsumedIs, Zenon
<1>7. RbAvail(pread, pwrite) - Consumed(e, pread) <= PKTHDRSIZE
  BY <1>1, <1>2, <1>3, <1>4, <1>6, PktBounds
<1>8. PktNext(where[Top]) = Search(e)
  BY <1>5 DEF PktNext, e
<1>9. Search(e) = -1
  <2>1. PICK f :
          /\ \A i \in Index : Search(i) = f[<<i, Consumed(i, pread)>>]
          /\ \A i \in Index, c \in Nat :
               f[<<i, c>>] = IF RbAvail(pread, pwrite) - c <= PKTHDRSIZE THEN -1
                             ELSE IF Status(data, i) = Ready THEN i
                             ELSE f[<<After(data, i), c + PktLen(data, i) + PKTHDRSIZE>>]
    BY <1>1, SearchStep, Zenon
  <2> QED
    BY <1>4, <1>6, <1>7, <2>1, Zenon
<1> QED
  BY <1>1, <1>8, <1>9

(* pkt_next finds a packet that is there, or the one that is being         *)
(* written, or nothing.                                                    *)
LEMMA PktInvNext ==
  ASSUME PktTypes, LayoutInv, PartInv, CurInv, cur = -1 \/ ~Strays(cur)
  PROVE  \/ PktNext(cur) = -1
         \/ \E n \in live \union Arriving : PktNext(cur) = where[n] /\ (cur # -1 => where[n] # cur)
<1>1. live \in SUBSET Nat /\ Base \in Nat /\ Top \in Nat /\ \A n \in live : n \in Base .. Top - 1
  BY Numbers
<1>2. CASE cur = -1
  <2>1. PktNext(cur) \in FirstOf(live)
    BY <1>2, NextIs
  <2>2. live # {} => Min(live) \in live
    BY <1>1, LeastOf
  <2> QED
    BY <1>2, <2>1, <2>2 DEF FirstOf
<1>3. CASE cur # -1 /\ \E n \in Arriving : cur = where[n]
  <2>1. wr.busy /\ wr.done > PKTHDRSIZE /\ cur = where[wr.n]
    BY <1>3 DEF Arriving
  <2> QED
    BY <1>3, <2>1, NextPart
<1>4. CASE cur # -1 /\ ~\E n \in Arriving : cur = where[n]
  <2>1. PICK c \in live : cur = where[c]
    BY <1>4 DEF CurInv
  <2>2. c \in Base .. Top - 1 /\ c \in Nat
    BY <1>1
  <2>3. PktNext(cur) \in FirstOf(From(live, c + 1))
    BY <1>4, <2>1, <2>2, NextIs
  <2> DEFINE S == From(live, c + 1)
  <2>4. S \in SUBSET Nat /\ S \subseteq live
    <3>1. S \subseteq live
      BY Zenon DEF From
    <3> QED
      BY <1>1, <3>1
  <2>5. CASE S = {}
    <3>1. PktNext(cur) = -1 \/ \E n \in Arriving : PktNext(cur) = where[n]
      BY <2>3, <2>5 DEF FirstOf
    <3>2. \A n \in Arriving : where[n] # cur
      BY <1>4
    <3> QED
      BY <3>1, <3>2
  <2>6. CASE S # {}
    <3>1. Min(S) \in S
      <4> HIDE DEF S
      <4> QED
        BY <2>4, <2>6, LeastOf
    <3>2. Min(S) \in live /\ Min(S) >= c + 1
      BY <3>1, Zenon DEF From
    <3> DEFINE m == Min(S)
    <3>3. PktNext(cur) = where[m]
      BY <2>3, <2>6, Zenon DEF FirstOf
    <3> HIDE DEF m
    <3>4. m \in live /\ m >= c + 1
      BY <3>2 DEF m
    <3>5. m \in Base .. Top - 1 /\ c < m
      BY <1>1, <2>2, <3>4
    <3>6. m \in Base .. Top /\ c \in Base .. Top /\ m < Top /\ c < Top
      BY <1>1, <2>2, <3>5
    <3>7. Off(c) + 3 + PktLen(data, where[c]) <= Off(m) /\ PktLen(data, where[c]) \in MinLen .. MaxLen
      BY <2>2, <3>5, <3>6, Ordered
    <3>8. /\ Off(c) \in Nat /\ Off(m) \in Nat
          /\ Pos(c) = where[c] /\ Pos(m) = where[m]
      BY <3>6, Places
    <3>9. Off(c) < Off(m)
      BY <3>7, <3>8, PktBounds
    <3>10. where[m] # where[c]
      BY <3>8, <3>9 DEF Off
    <3> QED
      BY <2>1, <3>3, <3>4, <3>10
  <2> QED
    BY <2>5, <2>6
<1> QED
  BY <1>2, <1>3, <1>4

(* Steps that leave the finished packets where and as they are.            *)
LEMMA LayoutKept ==
  ASSUME PktTypes, LayoutInv, PartInv, Top' = Top, live' = live, pread' = pread,
         \A n \in Base .. Top : Pos(n)' = Pos(n),
         \A n \in Base .. Top - 1 :
           PktLen(data, where[n])' = PktLen(data, where[n]) /\ PktWhole(n)'
  PROVE  LayoutInv' /\ Base' = Base /\ \A n \in Base .. Top : Off(n)' = Off(n)
<1>1. Top \in Nat /\ Base \in Nat /\ Base <= Top
  BY Numbers
<1>2. Base' = Base
  BY Zenon DEF Base
<1>3. \A n \in Base .. Top : Off(n)' = Off(n)
  BY DEF Off
<1>4. \A n \in Base .. Top - 1 : n \in Base .. Top /\ n + 1 \in Base .. Top
  BY <1>1
<1>5. \A n \in Base .. Top - 1 : PktEnd(n)' = PktEnd(n)
  BY <1>3, <1>4, Zenon DEF PktEnd
<1>6. (Pos(Base) = pread)'
  BY <1>1, <1>2 DEF LayoutInv
<1>7. \A n \in Base .. Top - 1 : PktWhole(n)' /\ (Off(n + 1) = PktEnd(n))'
  BY <1>3, <1>4, <1>5, Zenon DEF LayoutInv
<1>8. \A m, n \in Base .. Top : m < n => (PktEnd(m) <= Off(n))'
  <2>1. \A m, n \in Base .. Top : m < n => m \in Base .. Top - 1
    BY <1>1
  <2> QED
    BY <1>3, <1>5, <2>1, Zenon DEF LayoutInv
<1>9. live' \subseteq Base' .. Top' - 1
  BY <1>2, Zenon DEF LayoutInv
<1>10. LayoutInv'
  BY <1>2, <1>6, <1>7, <1>8, <1>9, Zenon DEF LayoutInv
<1> QED
  BY <1>2, <1>3, <1>10

(* The reader's packet is still there.                                     *)
LEMMA CurKept ==
  ASSUME CurInv, cur' = cur, live \subseteq live', Arriving \subseteq live' \union Arriving',
         \A n \in live \union Arriving : where'[n] = where[n]
  PROVE  CurInv'
BY Zenon DEF CurInv

(* The beginning of pkt_write: there is room for the longest packet.       *)
LEMMA PktInvWrite ==
  ASSUME PktTypes, LayoutInv, PartInv, CurInv, NEW len \in MinLen .. MaxLen, PktWrite(len)
  PROVE  PktTypes' /\ LayoutInv' /\ PartInv' /\ CurInv'
<1>1. /\ ~wr.busy /\ RbFree(pread, pwrite) >= MaxLen + 3
      /\ wr' = [n |-> wr.n + 1, len |-> len, done |-> 0, busy |-> TRUE]
      /\ where' = Append(where, pwrite)
      /\ data' = data /\ pread' = pread /\ pwrite' = pwrite /\ cur' = cur /\ live' = live
  BY DEF PktWrite, PKTHDRSIZE
<1>2. /\ Top \in Nat /\ Top >= 1 /\ Base \in Nat /\ Base >= 1 /\ Base <= Top
      /\ Len(where) = wr.n /\ wr.n \in Nat /\ Top = wr.n + 1
      /\ where \in Seq(Index) /\ pwrite \in Index /\ pread \in Index /\ live \subseteq 1 .. wr.n
  BY <1>1, Numbers DEF PktTypes
<1>3. /\ where' \in Seq(Index) /\ Len(where') = wr.n + 1 /\ where'[Top] = pwrite
      /\ \A n \in 1 .. wr.n : where'[n] = where[n]
  BY <1>1, <1>2, AppendProperties
<1>4. len \in Nat /\ len <= MaxLen
  BY PktBounds
<1>5. PktTypes'
  <2>1. wr' \in [n : Nat, len : Nat, done : Nat, busy : BOOLEAN]
    BY <1>1, <1>2, <1>4
  <2>2. live' \subseteq 1 .. wr'.n
    BY <1>1, <1>2
  <2> QED
    BY <1>1, <1>3, <2>1, <2>2 DEF PktTypes
<1>6. Top' = Top
  BY <1>1, <1>2 DEF Top
<1>7. \A n \in Base .. Top - 1 : n \in 1 .. wr.n
  BY <1>2
<1>8. \A n \in Base .. Top : Pos(n)' = Pos(n)
  <2>1. wr'.busy = TRUE
    BY <1>1
  <2>2. \A n : Pos(n)' = where'[n]
    BY <2>1 DEF Pos
  <2>3. Pos(Top) = pwrite
    BY <1>1 DEF Pos
  <2>4. \A n \in Base .. Top : n # Top => n \in 1 .. wr.n /\ Pos(n) = where[n]
    BY <1>2 DEF Pos
  <2> QED
    BY <1>3, <2>2, <2>3, <2>4, Zenon
<1>9. \A n \in Base .. Top - 1 : PktLen(data, where[n])' = PktLen(data, where[n]) /\ PktWhole(n)'
  <2>1. \A n \in Base .. Top - 1 : where'[n] = where[n] /\ data' = data /\ live' = live
    BY <1>1, <1>3, <1>7
  <2>2. \A n \in Base .. Top - 1 : PktWhole(n)
    BY DEF LayoutInv
  <2> QED
    BY <2>1, <2>2, Zenon DEF PktWhole
<1>10. LayoutInv' /\ \A n \in Base .. Top : Off(n)' = Off(n)
  BY <1>1, <1>6, <1>8, <1>9, LayoutKept
<1>11. PartInv'
  <2>1. Off(Top)' = Off(Top) /\ Off(Top) \in Nat
    <3>1. Top \in Base .. Top
      BY <1>2
    <3> QED
      BY <1>6, <1>10, <3>1, Places
  <2>2. RbAvail(pread, pwrite) = Off(Top) /\ RbFree(pread, pwrite) = Size - 1 - Off(Top)
    <3>1. Pos(Top) = pwrite
      BY <1>1 DEF Pos
    <3> QED
      BY <1>2, <3>1, FreeAvail DEF Off
  <2>3. Off(Top) + len + 3 < Size
    BY <1>1, <1>4, <2>1, <2>2, PktBounds
  <2>4. wr'.n > 0 /\ wr'.len = len /\ wr'.done = 0 /\ wr'.busy
    BY <1>1, <1>2
  <2>5. (Off(Top) + wr.len + PKTHDRSIZE < Size)'
    BY <1>6, <2>1, <2>3, <2>4 DEF PKTHDRSIZE
  <2>6. (RbAvail(pread, pwrite) = Off(Top) + wr.done)'
    BY <1>1, <1>6, <2>1, <2>2, <2>4
  <2>7. \A k \in 1 .. len : ~(k <= 0 - PKTHDRSIZE) /\ 0 <= len + PKTHDRSIZE
    BY <1>4 DEF PKTHDRSIZE
  <2>8. ~(0 >= 2) /\ ~(0 >= 3) /\ 0 <= len + PKTHDRSIZE
    BY <1>4 DEF PKTHDRSIZE
  <2> QED
    BY <2>4, <2>5, <2>6, <2>7, <2>8, Zenon DEF PartInv
<1>12. CurInv'
  <2>1. Arriving = {}
    BY <1>1 DEF Arriving
  <2>2. \A n \in live \union Arriving : where'[n] = where[n]
    BY <1>2, <1>3, <2>1
  <2> QED
    BY <1>1, <2>1, <2>2, CurKept
<1> QED
  BY <1>5, <1>10, <1>11, <1>12

(* A packet whose cells d leaves alone reads the same in d.                *)
LEMMA Framed ==
  ASSUME PktTypes, LayoutInv, PartInv, NEW n \in Base .. Top - 1, NEW d,
         \A o \in Nat : o >= Off(n) /\ o < Off(n) + 3 + PktLen(data, where[n])
                          => d[(pread + o) % Size] = data[(pread + o) % Size]
  PROVE  /\ PktLen(d, where[n]) = PktLen(data, where[n])
         /\ Status(d, where[n]) = Status(data, where[n])
         /\ \A k \in 1 .. PktLen(data, where[n]) :
              d[(where[n] + PKTHDRSIZE + k - 1) % Size] = data[(where[n] + PKTHDRSIZE + k - 1) % Size]
<1> DEFINE l == PktLen(data, where[n])
<1>1. Top \in Nat /\ Base \in Nat
  BY Numbers
<1>2. n \in Base .. Top /\ n + 1 \in Base .. Top /\ n < Top
  BY <1>1
<1>3. l \in MinLen .. MaxLen /\ Off(n + 1) = Off(n) + 3 + l
  BY Ordered
<1>4. Off(n + 1) \in Nat /\ Off(n + 1) < Size /\ Off(n) \in Nat /\ where[n] \in Index
  BY <1>2, Places
<1>5. l \in Nat /\ where[n] \in Nat
  BY <1>3, <1>4, PktBounds DEF Index
<1>6. ASSUME NEW j \in Nat, j < 3 + l
      PROVE  d[(where[n] + j) % Size] = data[(where[n] + j) % Size]
  <2> HIDE DEF l
  <2>1. Off(n) + j \in Nat /\ Off(n) + j >= Off(n) /\ Off(n) + j < Off(n) + 3 + l /\ Off(n) + j < Size
    BY <1>3, <1>4, <1>5, <1>6, PktBounds
  <2>2. (where[n] + j) % Size = (pread + (Off(n) + j)) % Size
    BY <1>2, <2>1, CellAt
  <2>3. d[(pread + (Off(n) + j)) % Size] = data[(pread + (Off(n) + j)) % Size]
    BY <2>1 DEF l
  <2> QED
    BY <2>2, <2>3, Zenon
<1>7. 1 \in Nat /\ 1 < 3 + l /\ 2 \in Nat /\ 2 < 3 + l
  BY <1>5
<1>8. PktLen(d, where[n]) = l
  <2>1. d[(where[n] + 1) % Size] = data[(where[n] + 1) % Size]
    BY <1>6, <1>7
  <2> QED
    BY <2>1, Zenon DEF PktLen
<1>9. Status(d, where[n]) = Status(data, where[n])
  <2>1. d[(where[n] + 2) % Size] = data[(where[n] + 2) % Size]
    BY <1>6, <1>7
  <2> QED
    BY <2>1, Zenon DEF Status
<1>10. ASSUME NEW k \in 1 .. l
       PROVE  d[(where[n] + PKTHDRSIZE + k - 1) % Size] = data[(where[n] + PKTHDRSIZE + k - 1) % Size]
  <2> HIDE DEF l
  <2>1. k + 2 \in Nat /\ k + 2 < 3 + l /\ where[n] + PKTHDRSIZE + k - 1 = where[n] + (k + 2)
    BY <1>5 DEF PKTHDRSIZE
  <2>2. d[(where[n] + (k + 2)) % Size] = data[(where[n] + (k + 2)) % Size]
    BY <1>6, <2>1
  <2> QED
    BY <2>1, <2>2, Zenon
<1> QED
  BY <1>8, <1>9, <1>10

(* The writer changes cells behind the finished packets only.              *)
LEMMA WriterKeeps ==
  ASSUME PktTypes, LayoutInv, PartInv, wr.busy, wr'.busy, wr'.n = wr.n,
         live' = live, pread' = pread, where' = where,
         \A o \in Nat : o < Off(Top) => data'[(pread + o) % Size] = data[(pread + o) % Size]
  PROVE  LayoutInv' /\ Top' = Top /\ Off(Top)' = Off(Top)
<1>1. Top \in Nat /\ Base \in Nat /\ Base <= Top
  BY Numbers
<1>2. Top' = Top
  BY DEF Top
<1>3. \A n : Pos(n)' = Pos(n)
  BY DEF Pos
<1>4. ASSUME NEW n \in Base .. Top - 1
      PROVE  /\ PktLen(data', where[n]) = PktLen(data, where[n])
             /\ Status(data', where[n]) = Status(data, where[n])
             /\ \A k \in 1 .. PktLen(data, where[n]) :
                  data'[(where[n] + PKTHDRSIZE + k - 1) % Size] = data[(where[n] + PKTHDRSIZE + k - 1) % Size]
  <2>1. n < Top /\ Top \in Base .. Top /\ n \in Base .. Top
    BY <1>1
  <2>2. Off(n) + 3 + PktLen(data, where[n]) <= Off(Top) /\ PktLen(data, where[n]) \in MinLen .. MaxLen
    BY <2>1, Ordered
  <2>3. Off(n) \in Nat /\ Off(Top) \in Nat /\ PktLen(data, where[n]) \in Nat
    BY <2>1, <2>2, Places, PktBounds
  <2>4. \A o \in Nat : o < Off(n) + 3 + PktLen(data, where[n]) => o < Off(Top)
    BY <2>2, <2>3
  <2>5. \A o \in Nat : o >= Off(n) /\ o < Off(n) + 3 + PktLen(data, where[n])
                         => data'[(pread + o) % Size] = data[(pread + o) % Size]
    BY <2>4
  <2> QED
    BY <2>5, Framed, Zenon
<1>5. \A n \in Base .. Top - 1 : PktLen(data, where[n])' = PktLen(data, where[n]) /\ PktWhole(n)'
  <2>1. \A n \in Base .. Top - 1 : PktWhole(n)
    BY DEF LayoutInv
  <2> QED
    BY <1>4, <2>1, Zenon DEF PktWhole
<1>6. LayoutInv' /\ \A n \in Base .. Top : Off(n)' = Off(n)
  BY <1>2, <1>3, <1>5, LayoutKept
<1>7. Top \in Base .. Top
  BY <1>1
<1> QED
  BY <1>2, <1>6, <1>7

(* Where the writer stands, and that its cells are no others'.             *)
LEMMA WriterAt ==
  ASSUME PktTypes, LayoutInv, PartInv, wr.busy
  PROVE  /\ Off(Top) \in Nat /\ wr.done \in Nat /\ wr.len \in MinLen .. MaxLen /\ wr.len \in Nat
         /\ wr.done <= wr.len + 3 /\ Off(Top) + wr.len + 3 < Size
         /\ pwrite = (pread + (Off(Top) + wr.done)) % Size
         /\ \A o \in Nat : o < Size /\ o # Off(Top) + wr.done => (pread + o) % Size # pwrite
<1>1. Top \in Nat /\ Base \in Nat /\ Base <= Top /\ Top \in Base .. Top
  BY Numbers
<1>2. pread \in Index /\ pwrite \in Index /\ wr.done \in Nat /\ wr.len \in Nat
  BY DEF PktTypes
<1>3. Off(Top) \in Nat
  BY <1>1, Places
<1>4. /\ wr.len \in MinLen .. MaxLen /\ wr.done <= wr.len + 3 /\ Off(Top) + wr.len + 3 < Size
      /\ RbAvail(pread, pwrite) = Off(Top) + wr.done
  BY DEF PartInv, PKTHDRSIZE
<1>5. pwrite = (pread + (Off(Top) + wr.done)) % Size
  BY <1>2, <1>4, Distance
<1>6. ASSUME NEW o \in Nat, o < Size, (pread + o) % Size = pwrite PROVE o = Off(Top) + wr.done
  <2>1. RbAvail(pread, (pread + o) % Size) = o
    BY <1>2, <1>6, Placed
  <2> QED
    BY <1>4, <1>6, <2>1
<1> QED
  BY <1>2, <1>3, <1>4, <1>5, <1>6

(* The cells of the header.                                                *)
LEMMA PktInvHeader ==
  ASSUME PktTypes, LayoutInv, PartInv, CurInv, PktWriteHeader
  PROVE  PktTypes' /\ LayoutInv' /\ PartInv' /\ CurInv'
<1> DEFINE v == CASE wr.done = 0 -> <<"len", 0>> [] wr.done = 1 -> <<"len", wr.len>>
                  [] wr.done = 2 -> Ready
<1>1. /\ wr.busy /\ wr.done < 3
      /\ data' = [data EXCEPT ![pwrite] = v] /\ pwrite' = RbAdvance(pwrite, 1)
      /\ wr' = [wr EXCEPT !.done = @ + 1]
      /\ pread' = pread /\ cur' = cur /\ live' = live /\ where' = where
  BY DEF PktWriteHeader, PKTHDRSIZE
<1>2. /\ data \in [Index -> Cells] /\ pread \in Index /\ pwrite \in Index
      /\ wr \in [n : Nat, len : Nat, done : Nat, busy : BOOLEAN]
  BY DEF PktTypes
<1>3. /\ Off(Top) \in Nat /\ wr.done \in Nat /\ wr.len \in MinLen .. MaxLen /\ wr.len \in Nat
      /\ wr.done <= wr.len + 3 /\ Off(Top) + wr.len + 3 < Size
      /\ pwrite = (pread + (Off(Top) + wr.done)) % Size
  BY <1>1, WriterAt
<1>4. \A o \in Nat : o < Size /\ o # Off(Top) + wr.done => (pread + o) % Size # pwrite
  BY <1>1, WriterAt
<1>5. wr.done \in {0, 1, 2}
  BY <1>1, <1>3
<1>6. v \in Cells
  BY <1>3, <1>5 DEF Cells
<1> HIDE DEF v
<1>7. Size \in Nat /\ Size > 1 /\ pread \in Nat /\ pread < Size /\ pwrite \in Nat
  BY <1>2, SizeAssumption DEF Index
<1>8. /\ wr'.n = wr.n /\ wr'.len = wr.len /\ wr'.busy = wr.busy /\ wr'.done = wr.done + 1
      /\ wr' \in [n : Nat, len : Nat, done : Nat, busy : BOOLEAN]
  <2>1. wr \in [n : Nat, len : Nat, done : Nat, busy : BOOLEAN]
    BY <1>2
  <2>2. wr' = [wr EXCEPT !.done = wr.done + 1]
    BY <1>1
  <2> QED
    BY <2>1, <2>2
<1>9. \A o \in Nat : o < Size /\ o # Off(Top) + wr.done
                       => data'[(pread + o) % Size] = data[(pread + o) % Size]
  <2>1. \A o \in Nat : o < Size => (pread + o) % Size \in Index
    BY <1>2, Placed
  <2> QED
    BY <1>1, <1>2, <1>4, <2>1
<1>10. data'[pwrite] = v
  BY <1>1, <1>2
<1>11. LayoutInv' /\ Top' = Top /\ Off(Top)' = Off(Top)
  <2>1. \A o \in Nat : o < Off(Top) => o < Size /\ o # Off(Top) + wr.done
    BY <1>3, <1>7
  <2>2. \A o \in Nat : o < Off(Top) => data'[(pread + o) % Size] = data[(pread + o) % Size]
    BY <1>9, <2>1
  <2> QED
    BY <1>1, <1>8, <2>2, WriterKeeps
<1>12. pwrite' \in Index /\ RbAvail(pread, pwrite') = Off(Top) + (wr.done + 1)
  <2> DEFINE o == Off(Top) + wr.done
  <2>1. o \in Nat /\ o + 1 < Size /\ 1 < Size /\ o < Size /\ o + 1 < 2 * Size - pread
    BY <1>1, <1>3, <1>7
  <2>2. pwrite = (pread + o) % Size /\ Off(Top) + (wr.done + 1) = o + 1
    BY <1>3
  <2> HIDE DEF o
  <2>3. (((pread + o) % Size) + 1) % Size = (pread + o + 1) % Size
    BY <1>2, <2>1, PlaceSum
  <2>4. pread + o + 1 = pread + (o + 1)
    BY <1>7, <2>1
  <2>5. pwrite' = (pread + (o + 1)) % Size
    BY <1>1, <2>2, <2>3, <2>4, Zenon DEF RbAdvance
  <2>6. (pread + (o + 1)) % Size \in Index /\ RbAvail(pread, (pread + (o + 1)) % Size) = o + 1
    BY <1>2, <2>1, Placed
  <2> QED
    BY <2>2, <2>5, <2>6, Zenon
<1>13. PktTypes'
  <2>1. data' \in [Index -> Cells]
    BY <1>1, <1>2, <1>6
  <2> QED
    BY <1>1, <1>8, <1>12, <2>1 DEF PktTypes
<1>14. Top \in Base .. Top
  BY Numbers
<1>15. wr.done >= 1 => PktLen(data', where[Top]) = wr.len
  <2> SUFFICES ASSUME wr.done >= 1 PROVE PktLen(data', where[Top]) = wr.len
    OBVIOUS
  <2>1. (where[Top] + 1) % Size = (pread + (Off(Top) + 1)) % Size /\ Off(Top) + 1 < Size /\ Off(Top) + 1 \in Nat
    BY <1>1, <1>3, <1>7, <1>14, CellAt
  <2>2. CASE wr.done = 1
    <3>1. data'[(where[Top] + 1) % Size] = v
      BY <1>3, <1>10, <2>1, <2>2
    <3>2. v = <<"len", wr.len>>
      BY <2>2 DEF v
    <3> QED
      BY <3>1, <3>2 DEF PktLen
  <2>3. CASE wr.done = 2
    <3>1. PktLen(data, where[Top]) = wr.len
      BY <1>1, <2>3 DEF PartInv
    <3>2. Off(Top) + 1 # Off(Top) + wr.done
      BY <1>3, <2>3
    <3>3. data'[(pread + (Off(Top) + 1)) % Size] = data[(pread + (Off(Top) + 1)) % Size]
      BY <1>9, <2>1, <3>2
    <3>4. data'[(where[Top] + 1) % Size] = data[(where[Top] + 1) % Size]
      BY <2>1, <3>3, Zenon
    <3> QED
      BY <3>1, <3>4, Zenon DEF PktLen
  <2> QED
    BY <1>5, <2>2, <2>3
<1>16. wr.done = 2 => Status(data', where[Top]) = Ready
  <2> SUFFICES ASSUME wr.done = 2 PROVE Status(data', where[Top]) = Ready
    OBVIOUS
  <2>1. (where[Top] + 2) % Size = (pread + (Off(Top) + 2)) % Size
    BY <1>1, <1>3, <1>7, <1>14, CellAt
  <2>2. data'[(where[Top] + 2) % Size] = v
    BY <1>3, <1>10, <2>1
  <2>3. v = Ready
    BY DEF v
  <2> QED
    BY <2>2, <2>3 DEF Status
<1>17. PartInv'
  <2>1. (wr.n > 0)' /\ (wr.len \in MinLen .. MaxLen)' /\ (wr.done <= wr.len + PKTHDRSIZE)'
    BY <1>1, <1>3, <1>8 DEF PartInv, PKTHDRSIZE
  <2>2. (Off(Top) + wr.len + PKTHDRSIZE < Size)' /\ (RbAvail(pread, pwrite) = Off(Top) + wr.done)'
    BY <1>1, <1>3, <1>8, <1>11, <1>12 DEF PKTHDRSIZE
  <2>3. (wr.done >= 2 => PktLen(data, where[Top]) = wr.len)'
    <3>1. wr'.done >= 2 => wr.done >= 1
      BY <1>3, <1>8
    <3> QED
      BY <1>1, <1>8, <1>11, <1>15, <3>1
  <2>4. (wr.done >= 3 => Status(data, where[Top]) = Ready)'
    <3>1. wr'.done >= 3 => wr.done = 2
      BY <1>5, <1>8
    <3> QED
      BY <1>1, <1>11, <1>16, <3>1
  <2>5. \A k \in 1 .. wr'.len : ~(k <= wr'.done - PKTHDRSIZE)
    BY <1>3, <1>5, <1>8 DEF PKTHDRSIZE
  <2> QED
    BY <2>1, <2>2, <2>3, <2>4, <2>5, Zenon DEF PartInv
<1>18. CurInv'
  <2>1. Arriving = {}
    BY <1>1, <1>3 DEF Arriving, PKTHDRSIZE
  <2> QED
    BY <1>1, <2>1, CurKept
<1> QED
  BY <1>11, <1>13, <1>17, <1>18

(* A block of n cells that does not wrap, counted from p.                  *)
LEMMA Spread ==
  ASSUME NEW p \in Index, NEW D \in Nat, NEW n \in Nat, D + n < Size,
         ((p + D) % Size) + n <= Size, NEW o \in Nat, o < Size
  PROVE  /\ ((p + o) % Size >= (p + D) % Size /\ (p + o) % Size < ((p + D) % Size) + n)
              <=> (D <= o /\ o < D + n)
         /\ D <= o /\ o < D + n => ((p + o) % Size) - ((p + D) % Size) = o - D
<1>1. Size \in Nat /\ Size > 1 /\ p \in Nat /\ p < Size
  BY SizeAssumption DEF Index
<1>2. (p + o) % Size = IF p + o < Size THEN p + o ELSE p + o - Size
  BY <1>1, Wrapped
<1>3. (p + D) % Size = IF p + D < Size THEN p + D ELSE p + D - Size
  BY <1>1, Wrapped
<1> DEFINE a == (p + o) % Size
           w == (p + D) % Size
<1>4. w + n <= Size
  OBVIOUS
<1>5. a = (IF p + o < Size THEN p + o ELSE p + o - Size) /\ w = IF p + D < Size THEN p + D ELSE p + D - Size
  BY <1>2, <1>3
<1> HIDE DEF a, w
<1>6. (a >= w /\ a < w + n <=> D <= o /\ o < D + n) /\ (D <= o /\ o < D + n => a - w = o - D)
  <2>1. CASE p + D < Size
    BY <1>1, <1>4, <1>5, <2>1
  <2>2. CASE ~(p + D < Size)
    BY <1>1, <1>4, <1>5, <2>2
  <2> QED
    BY <2>1, <2>2
<1> QED
  BY <1>6 DEF a, w

(* How much of the payload one copy takes.                                 *)
LEMMA CopyIs ==
  ASSUME NEW w \in Index, NEW todo \in Nat
  PROVE  LET split == RbSplit(w, todo)
             n == IF split > 0 THEN split ELSE todo
         IN  n \in Nat /\ n <= todo /\ w + n <= Size
BY SizeAssumption DEF RbSplit, Index

(* A part of the payload, in the cells behind the ones written.            *)
LEMMA BodyCells ==
  ASSUME PktTypes, LayoutInv, PartInv, wr.busy, wr.done >= 3,
         NEW n \in Nat, n <= wr.len + 3 - wr.done, pwrite + n <= Size,
         data' = [x \in Index |-> IF x >= pwrite /\ x < pwrite + n
                                  THEN <<"payload", <<wr.n, wr.done - 3 + x - pwrite + 1>> >>
                                  ELSE data[x]],
         pwrite' = RbAdvance(pwrite, n)
  PROVE  /\ data' \in [Index -> Cells] /\ pwrite' \in Index
         /\ RbAvail(pread, pwrite') = Off(Top) + (wr.done + n)
         /\ \A o \in Nat : o < Off(Top) + wr.done => data'[(pread + o) % Size] = data[(pread + o) % Size]
         /\ PktLen(data', where[Top]) = wr.len /\ Status(data', where[Top]) = Ready
         /\ \A k \in 1 .. wr.len : k <= wr.done + n - 3 =>
              data'[(where[Top] + PKTHDRSIZE + k - 1) % Size] = <<"payload", <<Top, k>> >>
<1>1. /\ Off(Top) \in Nat /\ wr.done \in Nat /\ wr.len \in MinLen .. MaxLen /\ wr.len \in Nat
      /\ wr.done <= wr.len + 3 /\ Off(Top) + wr.len + 3 < Size
      /\ pwrite = (pread + (Off(Top) + wr.done)) % Size
  BY WriterAt
<1>2. data \in [Index -> Cells] /\ pread \in Index /\ pwrite \in Index /\ wr.n \in Nat
  BY DEF PktTypes
<1>3. /\ Size \in Nat /\ Size > 1 /\ pread \in Nat /\ pread < Size /\ pwrite \in Nat
  BY <1>2, SizeAssumption DEF Index
<1>4. Top = wr.n /\ Top \in Base .. Top
  BY Numbers
<1> DEFINE D == Off(Top) + wr.done
<1>5. D \in Nat /\ D + n \in Nat /\ D + n < Size /\ D < Size /\ n < Size /\ D + n < 2 * Size - pread /\ n <= wr.len
  BY <1>1, <1>3
<1>6. pwrite = (pread + D) % Size /\ Off(Top) + (wr.done + n) = D + n
  BY <1>1
<1> HIDE DEF D
<1>7. pwrite' \in Index /\ RbAvail(pread, pwrite') = D + n
  <2>1. (((pread + D) % Size) + n) % Size = (pread + D + n) % Size
    BY <1>2, <1>5, PlaceSum
  <2>2. pread + D + n = pread + (D + n)
    BY <1>3, <1>5
  <2>3. pwrite' = (pread + (D + n)) % Size
    BY <1>6, <2>1, <2>2, Zenon DEF RbAdvance
  <2>4. (pread + (D + n)) % Size \in Index /\ RbAvail(pread, (pread + (D + n)) % Size) = D + n
    BY <1>2, <1>5, Placed
  <2> QED
    BY <2>3, <2>4, Zenon
<1>8. data' \in [Index -> Cells]
  <2>1. ASSUME NEW x \in Index, x >= pwrite
        PROVE  <<"payload", <<wr.n, wr.done - 3 + x - pwrite + 1>> >> \in Cells
    <3>1. wr.done - 3 + x - pwrite + 1 \in Nat
      <4>1. x \in Nat
        BY <1>3 DEF Index
      <4>2. wr.done - 3 \in Nat /\ x - pwrite \in Nat
        BY <1>1, <1>3, <2>1, <4>1
      <4> QED
        BY <4>2
    <3> QED
      BY <1>2, <3>1 DEF Cells
  <2>2. \A x \in Index : data[x] \in Cells
    BY <1>2
  <2> QED
    BY <2>1, <2>2
<1>9. ASSUME NEW o \in Nat, o < Size
      PROVE  /\ o < D => data'[(pread + o) % Size] = data[(pread + o) % Size]
             /\ D <= o /\ o < D + n =>
                  data'[(pread + o) % Size] = <<"payload", <<wr.n, wr.done - 3 + (o - D) + 1>> >>
  <2> DEFINE a == (pread + o) % Size
  <2>1. a \in Index
    BY <1>2, <1>9, Placed
  <2>2. /\ (a >= pwrite /\ a < pwrite + n) <=> (D <= o /\ o < D + n)
        /\ D <= o /\ o < D + n => a - pwrite = o - D
    <3>1. ((pread + D) % Size) + n <= Size
      BY <1>6
    <3>2. /\ (a >= (pread + D) % Size /\ a < ((pread + D) % Size) + n) <=> (D <= o /\ o < D + n)
          /\ D <= o /\ o < D + n => a - ((pread + D) % Size) = o - D
      BY <1>2, <1>5, <1>9, <3>1, Spread
    <3> QED
      BY <1>6, <3>2, Zenon
  <2>3. data'[a] = IF a >= pwrite /\ a < pwrite + n
                   THEN <<"payload", <<wr.n, wr.done - 3 + a - pwrite + 1>> >> ELSE data[a]
    BY <2>1
  <2>4. a \in Nat
    BY <2>1, <1>3 DEF Index
  <2> HIDE DEF a
  <2>5. wr.done - 3 + a - pwrite + 1 = wr.done - 3 + (a - pwrite) + 1
    BY <1>1, <1>3, <2>4
  <2>6. o < D => ~(D <= o)
    BY <1>5
  <2> QED
    BY <2>2, <2>3, <2>5, <2>6, Zenon DEF a
<1>10. \A o \in Nat : o < D => data'[(pread + o) % Size] = data[(pread + o) % Size]
  <2>1. \A o \in Nat : o < D => o < Size
    BY <1>3, <1>5
  <2> QED
    BY <1>9, <2>1
<1>11. ASSUME NEW j \in Nat, j < wr.done
       PROVE  data'[(where[Top] + j) % Size] = data[(where[Top] + j) % Size]
  <2>1. Off(Top) + j \in Nat /\ Off(Top) + j < D /\ Off(Top) + j < Size
    BY <1>1, <1>3, <1>5, <1>11 DEF D
  <2>2. (where[Top] + j) % Size = (pread + (Off(Top) + j)) % Size
    BY <1>4, <2>1, CellAt
  <2> QED
    BY <1>10, <2>1, <2>2
<1>12. PktLen(data', where[Top]) = wr.len
  <2>1. PktLen(data, where[Top]) = wr.len
    BY <1>1 DEF PartInv
  <2>2. data'[(where[Top] + 1) % Size] = data[(where[Top] + 1) % Size]
    BY <1>1, <1>11
  <2> QED
    BY <2>1, <2>2, Zenon DEF PktLen
<1>13. Status(data', where[Top]) = Ready
  <2>1. Status(data, where[Top]) = Ready
    BY <1>1 DEF PartInv
  <2>2. data'[(where[Top] + 2) % Size] = data[(where[Top] + 2) % Size]
    BY <1>1, <1>11
  <2> QED
    BY <2>1, <2>2, Zenon DEF Status
<1>14. ASSUME NEW k \in 1 .. wr.len, k <= wr.done + n - 3
       PROVE  data'[(where[Top] + PKTHDRSIZE + k - 1) % Size] = <<"payload", <<Top, k>> >>
  <2>1. where[Top] \in Nat /\ k \in Nat
    <3>1. where[Top] \in Index
      BY <1>4, Places
    <3> QED
      BY <1>1, <1>3, <3>1 DEF Index
  <2>2. k + 2 \in Nat /\ where[Top] + PKTHDRSIZE + k - 1 = where[Top] + (k + 2)
    BY <2>1 DEF PKTHDRSIZE
  <2>3. CASE k <= wr.done - 3
    <3>1. k <= wr.done - PKTHDRSIZE
      BY <2>3 DEF PKTHDRSIZE
    <3>2. data[(where[Top] + PKTHDRSIZE + k - 1) % Size] = <<"payload", <<Top, k>> >>
      BY <3>1, Zenon DEF PartInv
    <3>3. k + 2 < wr.done
      BY <1>1, <2>1, <2>3
    <3>4. data'[(where[Top] + (k + 2)) % Size] = data[(where[Top] + (k + 2)) % Size]
      BY <1>11, <2>2, <3>3
    <3> QED
      BY <2>2, <3>2, <3>4, Zenon
  <2>4. CASE ~(k <= wr.done - 3)
    <3> DEFINE o == Off(Top) + (k + 2)
    <3>1. o \in Nat /\ o < Size /\ D <= o /\ o < D + n /\ wr.done - 3 + (o - D) + 1 = k
      BY <1>1, <1>3, <1>5, <1>14, <2>1, <2>4 DEF D
    <3>2. (where[Top] + (k + 2)) % Size = (pread + o) % Size
      BY <1>4, <2>2, <3>1, CellAt
    <3> HIDE DEF o
    <3>3. data'[(pread + o) % Size] = <<"payload", <<wr.n, wr.done - 3 + (o - D) + 1>> >>
      BY <1>9, <3>1
    <3> QED
      BY <1>4, <2>2, <3>1, <3>2, <3>3, Zenon
  <2> QED
    BY <2>3, <2>4
<1> QED
  BY <1>6, <1>7, <1>8, <1>10, <1>12, <1>13, <1>14 DEF D

(* Another part of the payload, or the last one: the packet is finished.   *)
LEMMA PktInvBody ==
  ASSUME PktTypes, LayoutInv, PartInv, CurInv, PktWriteBody
  PROVE  PktTypes' /\ LayoutInv' /\ PartInv' /\ CurInv'
<1> DEFINE todo == wr.len - (wr.done - 3)
           split == RbSplit(pwrite, todo)
           n == IF split > 0 THEN split ELSE todo
<1>1. /\ wr.busy /\ wr.done >= 3
      /\ data' = [x \in Index |-> IF x >= pwrite /\ x < pwrite + n
                                  THEN <<"payload", <<wr.n, wr.done - 3 + x - pwrite + 1>> >>
                                  ELSE data[x]]
      /\ pwrite' = RbAdvance(pwrite, n)
      /\ wr' = [wr EXCEPT !.done = @ + n, !.busy = (n < todo)]
      /\ live' = IF n = todo THEN live \union {wr.n} ELSE live
      /\ pread' = pread /\ cur' = cur /\ where' = where
  BY DEF PktWriteBody, PKTHDRSIZE
<1>2. /\ Off(Top) \in Nat /\ wr.done \in Nat /\ wr.len \in MinLen .. MaxLen /\ wr.len \in Nat
      /\ wr.done <= wr.len + 3 /\ Off(Top) + wr.len + 3 < Size
  BY <1>1, WriterAt
<1>3. pwrite \in Index /\ pread \in Index /\ wr \in [n : Nat, len : Nat, done : Nat, busy : BOOLEAN]
  BY DEF PktTypes
<1>4. todo \in Nat /\ todo = wr.len + 3 - wr.done
  BY <1>1, <1>2
<1>5. n \in Nat /\ n <= todo /\ pwrite + n <= Size
  <2> HIDE DEF todo
  <2> QED
    BY <1>3, <1>4, CopyIs
<1> HIDE DEF n, todo
<1>6. /\ data' \in [Index -> Cells] /\ pwrite' \in Index
      /\ RbAvail(pread, pwrite') = Off(Top) + (wr.done + n)
      /\ \A o \in Nat : o < Off(Top) + wr.done => data'[(pread + o) % Size] = data[(pread + o) % Size]
      /\ PktLen(data', where[Top]) = wr.len /\ Status(data', where[Top]) = Ready
      /\ \A k \in 1 .. wr.len : k <= wr.done + n - 3 =>
           data'[(where[Top] + PKTHDRSIZE + k - 1) % Size] = <<"payload", <<Top, k>> >>
  BY <1>1, <1>4, <1>5, BodyCells
<1>7. /\ wr'.n = wr.n /\ wr'.len = wr.len /\ wr'.busy = (n < todo) /\ wr'.done = wr.done + n
      /\ wr' \in [n : Nat, len : Nat, done : Nat, busy : BOOLEAN]
  <2>1. wr' = [wr EXCEPT !.done = wr.done + n, !.busy = (n < todo)]
    BY <1>1
  <2>2. wr.done + n \in Nat /\ (n < todo) \in BOOLEAN
    BY <1>2, <1>5
  <2> QED
    BY <1>3, <2>1, <2>2
<1>8. PICK T : T = Top
  OBVIOUS
<1>9. /\ T = Top /\ Top \in Nat /\ Top >= 1 /\ Base \in Nat /\ Base <= Top /\ Top = wr.n
      /\ live \in SUBSET Nat /\ Base >= 1 /\ Len(where) = wr.n
  BY <1>1, <1>8, Numbers
<1>10. \A m \in live : m >= Base /\ m < Top
  BY Numbers
<1>11. \A o \in Nat : o < Off(Top) => data'[(pread + o) % Size] = data[(pread + o) % Size]
  <2>1. \A o \in Nat : o < Off(Top) => o < Off(Top) + wr.done
    BY <1>2
  <2> QED
    BY <1>6, <2>1
<1>12. live \subseteq live' /\ live' \subseteq 1 .. wr.n
  BY <1>1, <1>9, <1>10
<1>13. PktTypes'
  BY <1>1, <1>6, <1>7, <1>12 DEF PktTypes
<1>14. CurInv'
  <2>1. Arriving \subseteq live' \union Arriving'
    <3>1. CASE n < todo
      <4>1. wr.done > 3 => wr'.done > 3
        BY <1>2, <1>5, <1>7
      <4> QED
        BY <1>7, <3>1, <4>1 DEF Arriving, PKTHDRSIZE
    <3>2. CASE ~(n < todo)
      <4>1. n = todo
        BY <1>4, <1>5, <3>2
      <4> QED
        BY <1>1, <4>1 DEF Arriving
    <3> QED
      BY <3>1, <3>2
  <2> QED
    BY <1>1, <1>12, <2>1, CurKept
<1>15. CASE n < todo
  <2>1. n # todo
    BY <1>4, <1>5, <1>15
  <2>2. wr'.busy /\ live' = live
    BY <1>1, <1>7, <1>15, <2>1, Zenon
  <2>3. LayoutInv' /\ Top' = Top /\ Off(Top)' = Off(Top)
    BY <1>1, <1>7, <1>11, <2>2, WriterKeeps
  <2>4. (wr.n > 0)' /\ (wr.len \in MinLen .. MaxLen)' /\ (wr.done <= wr.len + PKTHDRSIZE)'
    <3>1. wr.done + n <= wr.len + 3 /\ wr.n > 0
      BY <1>2, <1>4, <1>5, <1>9
    <3> QED
      BY <1>2, <1>7, <3>1 DEF PKTHDRSIZE
  <2>5. (Off(Top) + wr.len + PKTHDRSIZE < Size)' /\ (RbAvail(pread, pwrite) = Off(Top) + wr.done)'
    BY <1>1, <1>2, <1>6, <1>7, <2>3 DEF PKTHDRSIZE
  <2>6. (PktLen(data, where[Top]) = wr.len)' /\ (Status(data, where[Top]) = Ready)'
    BY <1>1, <1>6, <1>7, <2>3
  <2>7. wr'.done - PKTHDRSIZE = wr.done + n - 3
    BY <1>2, <1>5, <1>7 DEF PKTHDRSIZE
  <2>8. \A k \in 1 .. wr'.len : k <= wr'.done - PKTHDRSIZE =>
           data'[(where'[Top'] + PKTHDRSIZE + k - 1) % Size] = <<"payload", <<Top', k>> >>
    BY <1>1, <1>6, <1>7, <2>3, <2>7, Zenon
  <2>9. PartInv'
    BY <2>4, <2>5, <2>6, <2>8, Zenon DEF PartInv
  <2> QED
    BY <1>13, <1>14, <2>3, <2>9
<1>16. CASE ~(n < todo)
  <2>1. n = todo /\ wr.done + n = wr.len + 3
    BY <1>2, <1>4, <1>5, <1>16
  <2>2. ~wr'.busy /\ live' = live \union {T}
    BY <1>1, <1>7, <1>9, <1>16, <2>1, Zenon
  <2>3. Top' = T + 1
    BY <1>7, <1>9, <2>2 DEF Top
  <2>4. Base' = Base
    <3>1. live' # {} /\ Base' = Min(live')
      BY <2>2 DEF Base
    <3>2. live' \in SUBSET Nat
      BY <1>9, <2>2
    <3>3. Min(live') \in live' /\ \A y \in live' : Min(live') <= y
      BY <3>1, <3>2, LeastOf
    <3>4. Base \in live'
      <4>1. CASE live = {}
        BY <1>9, <2>2, <4>1 DEF Base
      <4>2. CASE live # {}
        BY <2>2, <4>2, Numbers
      <4> QED
        BY <4>1, <4>2
    <3>5. \A y \in live' : y >= Base
      BY <1>9, <1>10, <2>2
    <3>6. Min(live') \in Nat /\ Min(live') >= Base /\ Min(live') <= Base
      BY <3>2, <3>3, <3>4, <3>5
    <3> QED
      BY <1>9, <3>1, <3>6
  <2>5. \A m \in Base .. T : m # T + 1 /\ m \in Nat
    BY <1>9
  <2>6. \A m \in Base .. T : Pos(m)' = Pos(m) /\ Pos(m) = where[m]
    <3>1. \A m : Pos(m) = where[m]
      BY <1>1 DEF Pos
    <3>2. \A m \in Base .. T : Pos(m)' = where'[m]
      BY <2>3, <2>5, Zenon DEF Pos
    <3> QED
      BY <1>1, <3>1, <3>2
  <2>7. Pos(T + 1)' = pwrite'
    BY <2>2, <2>3 DEF Pos
  <2>8. \A m \in Base .. T : Off(m)' = Off(m)
    BY <1>1, <2>6 DEF Off
  <2>9. Off(T + 1)' = Off(T) + 3 + wr.len
    <3>1. Off(T + 1)' = RbAvail(pread, pwrite')
      BY <1>1, <2>7 DEF Off
    <3> QED
      <4>1. RbAvail(pread, pwrite') = Off(Top) + (wr.done + n)
        BY <1>6
      <4>2. Off(Top) + (wr.done + n) = Off(Top) + 3 + wr.len
        BY <1>2, <1>5, <2>1
      <4> QED
        BY <1>9, <3>1, <4>1, <4>2, Zenon
  <2>10. ASSUME NEW m \in Base .. Top - 1
         PROVE  PktLen(data', where[m]) = PktLen(data, where[m]) /\ PktWhole(m)'
    <3>1. m < Top /\ Top \in Base .. Top /\ m \in Base .. Top /\ m # T
      BY <1>9
    <3>2. Off(m) + 3 + PktLen(data, where[m]) <= Off(Top) /\ PktLen(data, where[m]) \in MinLen .. MaxLen
      BY <3>1, Ordered
    <3>3. Off(m) \in Nat /\ PktLen(data, where[m]) \in Nat
      BY <3>1, <3>2, Places, PktBounds
    <3>4. \A o \in Nat : o < Off(m) + 3 + PktLen(data, where[m]) => o < Off(Top)
      BY <1>2, <3>2, <3>3
    <3>5. \A o \in Nat : o >= Off(m) /\ o < Off(m) + 3 + PktLen(data, where[m])
                           => data'[(pread + o) % Size] = data[(pread + o) % Size]
      BY <1>11, <3>4
    <3>6. /\ PktLen(data', where[m]) = PktLen(data, where[m])
          /\ Status(data', where[m]) = Status(data, where[m])
          /\ \A k \in 1 .. PktLen(data, where[m]) :
               data'[(where[m] + PKTHDRSIZE + k - 1) % Size] = data[(where[m] + PKTHDRSIZE + k - 1) % Size]
      BY <3>5, Framed, Zenon
    <3>7. PktWhole(m) /\ (m \in live' <=> m \in live)
      BY <2>2, <3>1 DEF LayoutInv
    <3>8. PktWhole(m)'
      BY <1>1, <3>6, <3>7, Zenon DEF PktWhole
    <3> QED
      BY <3>6, <3>8
  <2>11. PktWhole(T)'
    <3>1. (PktLen(data, where[T]) \in MinLen .. MaxLen)' /\ T \in live'
      BY <1>1, <1>2, <1>6, <1>9, <2>2
    <3>2. (Status(data, where[T]) = IF T \in live THEN Ready ELSE Disposed)'
      BY <1>1, <1>6, <1>9, <3>1
    <3>3. \A k \in 1 .. wr.len : k <= wr.done + n - 3
      <4>1. wr.done + n - 3 = wr.len
        BY <1>2, <1>5, <2>1
      <4> QED
        BY <1>2, <4>1
    <3>4. \A k \in 1 .. PktLen(data', where'[T]) :
            data'[(where'[T] + PKTHDRSIZE + k - 1) % Size] = <<"payload", <<T, k>> >>
      BY <1>1, <1>6, <1>9, <3>3, Zenon
    <3> QED
      BY <3>1, <3>2, <3>4, Zenon DEF PktWhole
  <2>12. \A m \in Base .. T : PktWhole(m)'
    <3>1. \A m \in Base .. T : m # T => m \in Base .. Top - 1
      BY <1>9
    <3> QED
      BY <2>10, <2>11, <3>1
  <2>13. \A m \in Base .. T : PktEnd(m)' = Off(m) + 3 + PktLen(data', where[m])
    BY <1>1, <2>8 DEF PktEnd, PKTHDRSIZE
  <2>14. \A m \in Base .. T : (Off(m + 1) = PktEnd(m))'
    <3> SUFFICES ASSUME NEW m \in Base .. T PROVE Off(m + 1)' = PktEnd(m)'
      OBVIOUS
    <3>1. CASE m = T
      BY <1>6, <1>9, <2>9, <2>13, <3>1
    <3>2. CASE m # T
      <4>1. m \in Base .. Top - 1 /\ m + 1 \in Base .. T
        BY <1>9, <3>2
      <4>2. Off(m + 1) = Off(m) + 3 + PktLen(data, where[m])
        BY <4>1, Ordered
      <4> QED
        BY <2>8, <2>10, <2>13, <4>1, <4>2
    <3> QED
      BY <3>1, <3>2
  <2>15. \A l, m \in Base .. T + 1 : l < m => (PktEnd(l) <= Off(m))'
    <3> SUFFICES ASSUME NEW l \in Base .. T + 1, NEW m \in Base .. T + 1, l < m
                 PROVE  PktEnd(l)' <= Off(m)'
      OBVIOUS
    <3>1. l \in Base .. T /\ (m \in Base .. T \/ m = T + 1)
      BY <1>9
    <3>2. ASSUME m \in Base .. T PROVE PktEnd(l)' <= Off(m)
      <4>1. l \in Base .. Top - 1 /\ m \in Base .. Top
        BY <1>9, <3>2
      <4>2. Off(l) + 3 + PktLen(data, where[l]) <= Off(m)
        BY <4>1, Ordered
      <4> QED
        BY <2>10, <2>13, <3>1, <4>1, <4>2
    <3>3. CASE m \in Base .. T
      BY <2>8, <3>2, <3>3
    <3>4. CASE m = T + 1 /\ l # T
      <4>1. l \in Base .. Top - 1 /\ Top \in Base .. Top /\ l < Top
        BY <1>9, <3>1, <3>4
      <4>2. Off(l) + 3 + PktLen(data, where[l]) <= Off(Top) /\ PktLen(data, where[l]) \in MinLen .. MaxLen
        BY <4>1, Ordered
      <4>3. l \in Base .. Top
        BY <1>9, <3>1
      <4>4. Off(l) \in Nat /\ PktLen(data, where[l]) \in Nat
        BY <4>2, <4>3, Places, PktBounds
      <4>5. PktEnd(l)' = Off(l) + 3 + PktLen(data, where[l])
        BY <2>10, <2>13, <3>1, <4>1
      <4>6. Off(m)' = Off(Top) + 3 + wr.len
        BY <1>9, <2>9, <3>4
      <4> QED
        BY <1>2, <4>2, <4>4, <4>5, <4>6
    <3>5. CASE m = T + 1 /\ l = T
      <4>1. PktEnd(l)' = Off(m)' /\ Off(m)' \in Nat
        BY <1>2, <1>6, <1>9, <2>9, <2>13, <3>1, <3>5
      <4> QED
        BY <4>1
    <3> QED
      BY <3>1, <3>3, <3>4, <3>5
  <2>16. live' \subseteq Base .. T
    BY <1>9, <1>10, <2>2
  <2>17. (Pos(Base) = pread)'
    <3>1. Base \in Base .. T
      BY <1>9
    <3>2. Pos(Base)' = Pos(Base)
      BY <2>4, <2>6, <3>1
    <3> QED
      BY <1>1, <3>2 DEF LayoutInv
  <2>18. Top' - 1 = T
    BY <1>9, <2>3
  <2>19. LayoutInv'
    BY <2>3, <2>4, <2>12, <2>14, <2>15, <2>16, <2>17, <2>18, Zenon DEF LayoutInv
  <2>20. PartInv'
    BY <2>2, Zenon DEF PartInv
  <2> QED
    BY <1>13, <1>14, <2>19, <2>20
<1> QED
  BY <1>15, <1>16

(* Later packets lie further on.                                           *)
LEMMA OffUp ==
  ASSUME PktTypes, LayoutInv, PartInv, NEW m \in Base .. Top, NEW n \in Base .. Top
  PROVE  (m <= n => Off(m) <= Off(n)) /\ (m < n => Off(m) + 3 <= Off(n))
<1>1. Top \in Nat /\ Base \in Nat /\ Off(m) \in Nat /\ Off(n) \in Nat
  BY Numbers, Places
<1>2. ASSUME m < n PROVE Off(m) + 3 <= Off(n)
  <2>1. m \in Base .. Top - 1
    BY <1>1, <1>2
  <2>2. Off(m) + 3 + PktLen(data, where[m]) <= Off(n) /\ PktLen(data, where[m]) \in MinLen .. MaxLen
    BY <1>2, <2>1, Ordered
  <2> QED
    BY <1>1, <2>2, PktBounds
<1> QED
  BY <1>1, <1>2

(* In d the packets of L are ready and the other ones are disposed of.     *)
Flags(d, L) ==
  \A m \in Base .. Top - 1 :
    /\ PktLen(d, where[m]) = PktLen(data, where[m])
    /\ Status(d, where[m]) = IF m \in L THEN Ready ELSE Disposed
    /\ \A k \in 1 .. PktLen(data, where[m]) :
         d[(where[m] + PKTHDRSIZE + k - 1) % Size] = data[(where[m] + PKTHDRSIZE + k - 1) % Size]

(* The packet is marked and no other cell changes.                         *)
LEMMA DisposeIs ==
  ASSUME PktTypes, LayoutInv, PartInv, NEW c \in live, NEW d,
         d = [data EXCEPT ![(where[c] + 2) % Size] = Disposed]
  PROVE  /\ d \in [Index -> Cells]
         /\ Flags(d, live \ {c})
         /\ \A j \in Nat : Off(Top) + j < Size /\ wr.busy
              => d[(where[Top] + j) % Size] = data[(where[Top] + j) % Size]
<1>1. /\ Top \in Nat /\ Base \in Nat /\ c \in Base .. Top - 1
  BY Numbers
<1>2. data \in [Index -> Cells] /\ pread \in Index
  BY DEF PktTypes
<1>3. c \in Base .. Top /\ c + 1 \in Base .. Top /\ c < Top /\ c \in Nat
  BY <1>1
<1>4. Off(c) \in Nat /\ Off(c + 1) \in Nat /\ Off(c + 1) < Size /\ where[c] \in Index
  BY <1>3, Places
<1>5. PktLen(data, where[c]) \in MinLen .. MaxLen /\ Off(c + 1) = Off(c) + 3 + PktLen(data, where[c])
  BY <1>1, Ordered
<1>6. PktLen(data, where[c]) \in Nat /\ where[c] \in Nat /\ Size \in Nat
  BY <1>4, <1>5, PktBounds DEF Index
<1>7. Off(c) + 2 \in Nat /\ Off(c) + 2 < Size
  BY <1>4, <1>5, <1>6
<1>8. (where[c] + 2) % Size = (pread + (Off(c) + 2)) % Size /\ (where[c] + 2) % Size \in Index
  BY <1>3, <1>7, CellAt
<1>9. d \in [Index -> Cells]
  <2>1. Disposed \in Cells
    BY DEF Cells
  <2> QED
    BY <1>2, <2>1
<1>10. ASSUME NEW o \in Nat, o < Size, o # Off(c) + 2
       PROVE  d[(pread + o) % Size] = data[(pread + o) % Size]
  <2>1. (pread + o) % Size \in Index /\ RbAvail(pread, (pread + o) % Size) = o
    BY <1>2, <1>10, Placed
  <2>2. RbAvail(pread, (pread + (Off(c) + 2)) % Size) = Off(c) + 2
    BY <1>2, <1>7, Placed
  <2>3. (pread + o) % Size # (where[c] + 2) % Size
    BY <1>8, <1>10, <2>1, <2>2, Zenon
  <2> QED
    BY <1>2, <2>1, <2>3
<1>11. ASSUME NEW m \in Base .. Top - 1, m # c
       PROVE  /\ PktLen(d, where[m]) = PktLen(data, where[m])
              /\ Status(d, where[m]) = Status(data, where[m])
              /\ \A k \in 1 .. PktLen(data, where[m]) :
                   d[(where[m] + PKTHDRSIZE + k - 1) % Size] = data[(where[m] + PKTHDRSIZE + k - 1) % Size]
  <2>1. m \in Base .. Top /\ m + 1 \in Base .. Top /\ m \in Nat
    BY <1>1
  <2>2. /\ Off(m) \in Nat /\ Off(m + 1) \in Nat /\ Off(m + 1) < Size
        /\ Off(m + 1) = Off(m) + 3 + PktLen(data, where[m])
    BY <2>1, Places, Ordered
  <2>3. m < c => Off(m + 1) <= Off(c)
    <3>1. m < c => m + 1 <= c
      BY <1>3, <2>1
    <3> QED
      BY <1>3, <2>1, <3>1, OffUp
  <2>4. c < m => Off(c) + 3 <= Off(m)
    BY <1>3, <2>1, OffUp
  <2>5. ASSUME NEW o \in Nat, o >= Off(m), o < Off(m + 1) PROVE o < Size /\ o # Off(c) + 2
    BY <1>3, <1>4, <1>6, <1>11, <2>1, <2>2, <2>3, <2>4, <2>5
  <2>6. \A o \in Nat : o >= Off(m) /\ o < Off(m) + 3 + PktLen(data, where[m])
                         => d[(pread + o) % Size] = data[(pread + o) % Size]
    BY <1>10, <2>2, <2>5
  <2> QED
    BY <2>6, Framed, Zenon
<1>12. ASSUME NEW j \in Nat, j # 2, j < 3 + PktLen(data, where[c])
       PROVE  d[(where[c] + j) % Size] = data[(where[c] + j) % Size]
  <2>1. Off(c) + j \in Nat /\ Off(c) + j < Size /\ Off(c) + j # Off(c) + 2
    BY <1>4, <1>5, <1>6, <1>12
  <2>2. (where[c] + j) % Size = (pread + (Off(c) + j)) % Size
    BY <1>3, <2>1, CellAt
  <2>3. d[(pread + (Off(c) + j)) % Size] = data[(pread + (Off(c) + j)) % Size]
    BY <1>10, <2>1
  <2> QED
    BY <2>2, <2>3, Zenon
<1>13. PktLen(d, where[c]) = PktLen(data, where[c])
  <2>1. 1 \in Nat /\ 1 # 2 /\ 1 < 3 + PktLen(data, where[c])
    BY <1>6
  <2>2. d[(where[c] + 1) % Size] = data[(where[c] + 1) % Size]
    BY <1>12, <2>1
  <2>3. \A e : e[(where[c] + 1) % Size] = data[(where[c] + 1) % Size]
                 => PktLen(e, where[c]) = PktLen(data, where[c])
    BY Zenon DEF PktLen
  <2> QED
    BY <2>2, <2>3
<1>14. Status(d, where[c]) = Disposed
  BY <1>2, <1>8 DEF Status
<1>15. ASSUME NEW k \in 1 .. PktLen(data, where[c])
       PROVE  d[(where[c] + PKTHDRSIZE + k - 1) % Size] = data[(where[c] + PKTHDRSIZE + k - 1) % Size]
  <2>1. /\ k + 2 \in Nat /\ k + 2 # 2 /\ k + 2 < 3 + PktLen(data, where[c])
        /\ where[c] + PKTHDRSIZE + k - 1 = where[c] + (k + 2)
    BY <1>6 DEF PKTHDRSIZE
  <2>2. d[(where[c] + (k + 2)) % Size] = data[(where[c] + (k + 2)) % Size]
    BY <1>12, <2>1
  <2> QED
    BY <2>1, <2>2, Zenon
<1>16. ASSUME NEW m \in Base .. Top - 1
       PROVE  /\ PktLen(d, where[m]) = PktLen(data, where[m])
              /\ Status(d, where[m]) = IF m \in live \ {c} THEN Ready ELSE Disposed
              /\ \A k \in 1 .. PktLen(data, where[m]) :
                   d[(where[m] + PKTHDRSIZE + k - 1) % Size] = data[(where[m] + PKTHDRSIZE + k - 1) % Size]
  <2>1. CASE m = c
    BY <1>13, <1>14, <1>15, <2>1, Zenon
  <2>2. CASE m # c
    <3>1. Status(data, where[m]) = IF m \in live THEN Ready ELSE Disposed
      BY StatusIs
    <3>2. m \in live \ {c} <=> m \in live
      BY <2>2
    <3> QED
      BY <1>11, <2>2, <3>1, <3>2, Zenon
  <2> QED
    BY <2>1, <2>2
<1>17. Flags(d, live \ {c})
  BY <1>16, Zenon DEF Flags
<1>18. ASSUME NEW j \in Nat, Off(Top) + j < Size, wr.busy
       PROVE  d[(where[Top] + j) % Size] = data[(where[Top] + j) % Size]
  <2>1. Top \in Base .. Top
    BY <1>1
  <2>2. Off(Top) \in Nat /\ Off(c) + 3 <= Off(Top)
    BY <1>3, <2>1, Places, OffUp
  <2>3. Off(Top) + j \in Nat /\ Off(Top) + j # Off(c) + 2
    BY <1>4, <2>2
  <2>4. (where[Top] + j) % Size = (pread + (Off(Top) + j)) % Size
    BY <1>18, <2>1, CellAt
  <2>5. d[(pread + (Off(Top) + j)) % Size] = data[(pread + (Off(Top) + j)) % Size]
    BY <1>10, <1>18, <2>3
  <2> QED
    BY <2>4, <2>5, Zenon
<1> QED
  BY <1>9, <1>17, <1>18

(* A packet is read and given back; pread goes on to the oldest packet     *)
(* that is left.                                                           *)
LEMMA PktInvTake ==
  ASSUME PktTypes, LayoutInv, PartInv, CurInv, ~Strays(cur), PktTake
  PROVE  PktTypes' /\ LayoutInv' /\ PartInv' /\ CurInv'
<1> DEFINE d == [data EXCEPT ![(cur + 2) % Size] = Disposed]
<1>1. /\ cur # -1 /\ cur' = PktNext(cur) /\ data' = d /\ pread' = SkipDisposed(d, pread)
      /\ live' = {n \in live : where[n] # cur}
      /\ pwrite' = pwrite /\ wr' = wr /\ where' = where
      /\ \A n \in Arriving : where[n] # cur
  BY DEF PktTake, DisposeCurrent, Marked
<1>2. PICK c \in live : cur = where[c]
  BY <1>1 DEF CurInv
<1>3. PICK T : T = Top
  OBVIOUS
<1>4. /\ T = Top /\ T \in Nat /\ Base \in Nat /\ Base <= T /\ live \in SUBSET Nat
      /\ c \in Base .. T - 1 /\ c \in Base .. Top /\ c < Top /\ T \in Base .. Top
  <2>1. Top \in Nat /\ Base \in Nat /\ Base <= Top /\ live \in SUBSET Nat /\ c >= Base /\ c < Top
    BY <1>2, Numbers
  <2> QED
    BY <1>3, <2>1
<1>5. \A n \in live : n \in Base .. Top - 1 /\ n \in Base .. Top /\ n < Top /\ n \in Nat
  BY <1>4, Numbers
<1>6. live' = live \ {c}
  <2>1. ASSUME NEW n \in live, n # c PROVE where[n] # where[c]
    <3>1. n \in Base .. Top /\ n < Top /\ n \in Nat /\ c \in Nat /\ c \in Base .. Top /\ c < Top
      BY <1>4, <1>5
    <3>2. Pos(n) = where[n] /\ Pos(c) = where[c] /\ Off(n) \in Nat /\ Off(c) \in Nat
      BY <3>1, Places
    <3>3. (n < c => Off(n) + 3 <= Off(c)) /\ (c < n => Off(c) + 3 <= Off(n))
      BY <3>1, OffUp
    <3>4. Off(n) # Off(c)
      BY <2>1, <3>1, <3>2, <3>3
    <3> QED
      BY <3>2, <3>4, Zenon DEF Off
  <2> QED
    BY <1>1, <1>2, <2>1, Zenon
<1>7. d = [data EXCEPT ![(where[c] + 2) % Size] = Disposed]
  BY <1>2
<1> HIDE DEF d
<1>8. d \in [Index -> Cells]
  BY <1>7, DisposeIs
<1>9. \A m \in Base .. Top - 1 :
        /\ PktLen(d, where[m]) = PktLen(data, where[m])
        /\ Status(d, where[m]) = IF m \in live' THEN Ready ELSE Disposed
        /\ \A k \in 1 .. PktLen(data, where[m]) :
             d[(where[m] + PKTHDRSIZE + k - 1) % Size] = data[(where[m] + PKTHDRSIZE + k - 1) % Size]
  <2>1. Flags(d, live \ {c})
    BY <1>7, DisposeIs
  <2>2. Flags(d, live')
    BY <1>6, <2>1
  <2> QED
    BY <2>2, Zenon DEF Flags
<1>10. PICK L : L = live'
  OBVIOUS
<1>11. L \in SUBSET (Base .. Top - 1) /\ L \in SUBSET Nat /\ L \subseteq live
  BY <1>5, <1>6, <1>10
<1>12. PICK B : B = IF L = {} THEN T ELSE Min(L)
  OBVIOUS
<1>13. /\ B \in Nat /\ B >= Base /\ B <= T /\ \A n \in L : B <= n
       /\ L # {} => B \in L /\ B < T
  <2>1. CASE L = {}
    BY <1>4, <1>12, <2>1
  <2>2. CASE L # {}
    <3>1. B = Min(L)
      BY <1>12, <2>2
    <3>2. B \in L /\ \A y \in L : B <= y
      BY <1>11, <2>2, <3>1, LeastOf
    <3>3. B \in Base .. T - 1
      BY <1>4, <1>11, <3>2
    <3> QED
      BY <1>4, <3>2, <3>3
  <2> QED
    BY <2>1, <2>2
<1>14. B \in Base .. Top /\ \A n \in B .. T : n \in Base .. Top
  BY <1>4, <1>13
<1>cells. \A j \in Nat : Off(Top) + j < Size /\ wr.busy
            => d[(where[Top] + j) % Size] = data[(where[Top] + j) % Size]
  BY <1>7, DisposeIs
<1>head. /\ Off(Top) \in Nat
         /\ wr.busy => /\ Off(Top) + wr.len + 3 < Size /\ wr.len \in Nat /\ where[Top] \in Nat
                       /\ PktLen(d, where[Top]) = PktLen(data, where[Top])
                       /\ Status(d, where[Top]) = Status(data, where[Top])
  <2>1. Off(Top) \in Nat /\ wr.len \in Nat
    BY <1>4, Places DEF PktTypes
  <2>2. ASSUME wr.busy
        PROVE  /\ Off(Top) + wr.len + 3 < Size /\ where[Top] \in Nat
               /\ PktLen(d, where[Top]) = PktLen(data, where[Top])
               /\ Status(d, where[Top]) = Status(data, where[Top])
    <3>1. Off(Top) + wr.len + 3 < Size
      BY <2>2 DEF PartInv, PKTHDRSIZE
    <3>2. Off(Top) + 1 < Size /\ Off(Top) + 2 < Size
      BY <2>1, <3>1, PktBounds
    <3>3. d[(where[Top] + 1) % Size] = data[(where[Top] + 1) % Size]
      BY <1>cells, <2>2, <3>2
    <3>4. d[(where[Top] + 2) % Size] = data[(where[Top] + 2) % Size]
      BY <1>cells, <2>2, <3>2
    <3>5. where[Top] \in Nat
      BY <1>4, <2>2, Places, PktBounds DEF Index
    <3> QED
      BY <3>1, <3>3, <3>4, <3>5, Zenon DEF PktLen, Status
  <2> QED
    BY <2>1, <2>2
<1>15. pread' = Pos(B)
  <2>1. SkipDisposed(d, pread) = IF L = {} THEN Pos(Top) ELSE where[Min(L)]
    <3>1. Ahead > 3 => Status(d, where[Top]) = Ready
      BY <1>head, AvailIs
    <3> QED
      BY <1>8, <1>9, <1>10, <1>11, <3>1, SkipIs
  <2>2. CASE L = {}
    <3>1. B = Top
      BY <1>4, <1>12, <2>2
    <3> QED
      BY <1>1, <2>1, <2>2, <3>1
  <2>3. CASE L # {}
    <3>1. B = Min(L) /\ B # Top
      BY <1>4, <1>12, <1>13, <2>3
    <3>2. Pos(B) = where[B]
      BY <3>1 DEF Pos
    <3> QED
      BY <1>1, <2>1, <2>3, <3>1, <3>2
  <2> QED
    BY <2>2, <2>3
<1>16. Top' = T /\ Base' = B
  <2>1. Top' = T
    BY <1>1, <1>4 DEF Top
  <2> QED
    BY <1>10, <1>12, <2>1, Zenon DEF Base
<1>17. \A n : Pos(n)' = Pos(n)
  <2>1. \A n : Pos(n)' = IF n = T /\ ~wr.busy THEN pwrite ELSE where[n]
    BY <1>1, <1>16, Zenon DEF Pos
  <2>2. \A n : Pos(n) = IF n = T /\ ~wr.busy THEN pwrite ELSE where[n]
    BY <1>3 DEF Pos
  <2> QED
    BY <2>1, <2>2, Zenon
<1>18. pread \in Index /\ Off(B) \in Nat /\ Off(B) < Size /\ Pos(B) = (pread + Off(B)) % Size /\ Pos(B) \in Index
  BY <1>14, Places DEF PktTypes
<1>19. ASSUME NEW n \in B .. T PROVE Off(n)' = Off(n) - Off(B) /\ Off(n) \in Nat
  <2>1. Off(n) \in Nat /\ Off(n) < Size /\ Pos(n) = (pread + Off(n)) % Size
    BY <1>14, Places
  <2>2. B <= n
    BY <1>13
  <2>3. Off(B) <= Off(n)
    BY <1>14, <2>2, OffUp
  <2>4. RbAvail((pread + Off(B)) % Size, (pread + Off(n)) % Size) = Off(n) - Off(B)
    BY <1>18, <2>1, <2>3, Rebased
  <2>5. Off(n)' = RbAvail(Pos(B), Pos(n))
    BY <1>15, <1>17, Zenon DEF Off
  <2> QED
    BY <1>18, <2>1, <2>4, <2>5
<1>20. \A n \in B .. T - 1 : n \in B .. T /\ n + 1 \in B .. T /\ n \in Base .. Top - 1
  BY <1>4, <1>13
<1>21. \A n \in B .. T - 1 : PktEnd(n)' = Off(n)' + 3 + PktLen(data, where[n])
  <2>1. \A n \in B .. T - 1 : PktLen(data', where'[n]) = PktLen(data, where[n])
    BY <1>1, <1>9, <1>20
  <2> QED
    BY <2>1, Zenon DEF PktEnd, PKTHDRSIZE
<1>22. \A n \in B .. T - 1 : PktWhole(n)'
  <2> SUFFICES ASSUME NEW n \in B .. T - 1 PROVE PktWhole(n)'
    OBVIOUS
  <2>1. PktWhole(n) /\ n \in Base .. Top - 1
    BY <1>20 DEF LayoutInv
  <2>2. data' = d /\ where' = where
    BY <1>1
  <2> QED
    BY <1>9, <2>1, <2>2, Zenon DEF PktWhole
<1>23. \A n \in B .. T - 1 : (Off(n + 1) = PktEnd(n))'
  <2> SUFFICES ASSUME NEW n \in B .. T - 1 PROVE Off(n + 1)' = PktEnd(n)'
    OBVIOUS
  <2>1. n \in B .. T /\ n + 1 \in B .. T /\ n \in Base .. Top - 1
    BY <1>20
  <2>2. /\ Off(n + 1) = Off(n) + 3 + PktLen(data, where[n])
        /\ PktLen(data, where[n]) \in MinLen .. MaxLen
    BY <2>1, Ordered
  <2>3. Off(n)' = Off(n) - Off(B) /\ Off(n + 1)' = Off(n + 1) - Off(B) /\ Off(n) \in Nat
    BY <1>19, <2>1
  <2>4. PktEnd(n)' = Off(n)' + 3 + PktLen(data, where[n])
    BY <1>21
  <2>5. PktLen(data, where[n]) \in Nat
    BY <2>2, PktBounds
  <2> QED
    BY <1>18, <2>2, <2>3, <2>4, <2>5
<1>24. \A m, n \in B .. T : m < n => (PktEnd(m) <= Off(n))'
  <2> SUFFICES ASSUME NEW m \in B .. T, NEW n \in B .. T, m < n PROVE PktEnd(m)' <= Off(n)'
    OBVIOUS
  <2>1. m \in B .. T - 1 /\ m \in Base .. Top - 1 /\ n \in Base .. Top
    BY <1>4, <1>13, <1>14
  <2>2. /\ Off(m) + 3 + PktLen(data, where[m]) <= Off(n)
        /\ PktLen(data, where[m]) \in MinLen .. MaxLen
    BY <2>1, Ordered
  <2>3. Off(m)' = Off(m) - Off(B) /\ Off(n)' = Off(n) - Off(B) /\ Off(m) \in Nat /\ Off(n) \in Nat
    BY <1>19
  <2>4. PktEnd(m)' = Off(m)' + 3 + PktLen(data, where[m])
    BY <1>21, <2>1
  <2>5. PktLen(data, where[m]) \in Nat
    BY <2>2, PktBounds
  <2> QED
    BY <1>18, <2>2, <2>3, <2>4, <2>5
<1>25. LayoutInv'
  <2>1. live' \subseteq B .. T - 1
    BY <1>4, <1>10, <1>11, <1>13
  <2>2. (Pos(Base) = pread)'
    BY <1>15, <1>16, <1>17
  <2> QED
    BY <1>16, <1>22, <1>23, <1>24, <2>1, <2>2, Zenon DEF LayoutInv
<1>26. PartInv'
  <2> SUFFICES ASSUME wr.busy PROVE PartInv'
    BY <1>1 DEF PartInv
  <2>0. /\ Off(Top) \in Nat /\ Off(Top) + wr.len + 3 < Size /\ wr.len \in Nat /\ where[Top] \in Nat
         /\ PktLen(d, where[Top]) = PktLen(data, where[Top])
         /\ Status(d, where[Top]) = Status(data, where[Top])
    BY <1>head, Zenon
  <2>1. /\ wr.n > 0 /\ wr.len \in MinLen .. MaxLen /\ wr.done <= wr.len + PKTHDRSIZE
        /\ RbAvail(pread, pwrite) = Off(Top) + wr.done /\ wr.done \in Nat
    BY DEF PartInv, PktTypes
  <2>2. (wr.n > 0)' /\ (wr.len \in MinLen .. MaxLen)' /\ (wr.done <= wr.len + PKTHDRSIZE)'
    BY <1>1, <2>1
  <2>3. Off(Top)' = Off(Top) - Off(B) /\ Top' = Top /\ Off(B) <= Off(Top)
    <3>1. T \in B .. T /\ B <= T
      BY <1>4, <1>13
    <3>2. Off(T)' = Off(T) - Off(B)
      BY <1>19, <3>1
    <3>3. Off(B) <= Off(T)
      BY <1>4, <1>14, <3>1, OffUp
    <3> QED
      BY <1>4, <1>16, <3>2, <3>3
  <2>4. (Off(Top) + wr.len + PKTHDRSIZE < Size)'
    BY <1>1, <1>18, <2>0, <2>3, PktBounds
  <2>5. (RbAvail(pread, pwrite) = Off(Top) + wr.done)'
    <3> DEFINE o == Off(Top) + wr.done
    <3>1. o \in Nat /\ o < Size /\ Off(B) <= o
      BY <1>18, <2>0, <2>1, <2>3, PktBounds
    <3>2. pwrite = (pread + RbAvail(pread, pwrite)) % Size
      BY Distance DEF PktTypes
    <3>3. pwrite = (pread + o) % Size
      BY <2>1, <3>2
    <3> HIDE DEF o
    <3>4. RbAvail((pread + Off(B)) % Size, (pread + o) % Size) = o - Off(B)
      BY <1>18, <3>1, Rebased
    <3>5. RbAvail(pread, pwrite)' = o - Off(B)
      BY <1>1, <1>15, <1>18, <3>3, <3>4
    <3> QED
      BY <1>1, <1>18, <2>0, <2>1, <2>3, <3>5 DEF o
  <2>6. (wr.done >= 2 => PktLen(data, where[Top]) = wr.len)'
    <3>1. wr.done >= 2 => PktLen(data, where[Top]) = wr.len
      BY DEF PartInv
    <3> QED
      BY <1>1, <2>0, <2>3, <3>1
  <2>7. (wr.done >= 3 => Status(data, where[Top]) = Ready)'
    <3>1. wr.done >= 3 => Status(data, where[Top]) = Ready
      BY DEF PartInv
    <3> QED
      BY <1>1, <2>0, <2>3, <3>1
  <2>8. \A k \in 1 .. wr.len : k <= wr.done - PKTHDRSIZE =>
          d[(where[Top] + PKTHDRSIZE + k - 1) % Size] = <<"payload", <<Top, k>> >>
    <3> SUFFICES ASSUME NEW k \in 1 .. wr.len, k <= wr.done - PKTHDRSIZE
                 PROVE  d[(where[Top] + PKTHDRSIZE + k - 1) % Size] = <<"payload", <<Top, k>> >>
      OBVIOUS
    <3>1. data[(where[Top] + PKTHDRSIZE + k - 1) % Size] = <<"payload", <<Top, k>> >>
      BY DEF PartInv
    <3>2. k + 2 \in Nat /\ Off(Top) + (k + 2) < Size /\ where[Top] + PKTHDRSIZE + k - 1 = where[Top] + (k + 2)
      BY <2>0, PktBounds
    <3>3. d[(where[Top] + (k + 2)) % Size] = data[(where[Top] + (k + 2)) % Size]
      BY <1>cells, <3>2
    <3> QED
      BY <3>1, <3>2, <3>3, Zenon
  <2>9. \A k \in 1 .. wr'.len : k <= wr'.done - PKTHDRSIZE =>
          data'[(where'[Top'] + PKTHDRSIZE + k - 1) % Size] = <<"payload", <<Top', k>> >>
    <3>1. wr' = wr /\ data' = d /\ where' = where /\ Top' = Top
      BY <1>1, <2>3
    <3> QED
      BY <2>8, <3>1, Zenon
  <2> QED
    BY <2>2, <2>4, <2>5, <2>6, <2>7, <2>9, Zenon DEF PartInv
<1>27. cur' = -1 \/ \E n \in live' \union Arriving : cur' = where[n]
  <2>1. PktNext(cur) = -1 \/ \E n \in live \union Arriving : PktNext(cur) = where[n] /\ where[n] # cur
    BY <1>1, PktInvNext, Zenon
  <2> QED
    BY <1>1, <2>1, Zenon
<1>28. CurInv'
  <2>1. Arriving' = Arriving
    BY <1>1 DEF Arriving
  <2> QED
    BY <1>1, <1>27, <2>1, Zenon DEF CurInv
<1>29. PktTypes'
  <2>1. \A n \in live \union Arriving : n \in 1 .. wr.n /\ where[n] \in Index
    <3>1. \A n \in live \union Arriving : n \in 1 .. wr.n
      BY DEF PktTypes, Arriving, PartInv
    <3> QED
      BY <3>1, Numbers
  <2>2. cur' \in Index \union {-1}
    BY <1>6, <1>27, <2>1
  <2>3. live' \subseteq 1 .. wr'.n
    BY <1>1, <1>6, <2>1
  <2>4. pread' \in Index
    BY <1>15, <1>18
  <2>5. data' \in [Index -> Cells]
    BY <1>1, <1>8
  <2> QED
    BY <1>1, <2>2, <2>3, <2>4, <2>5 DEF PktTypes
<1> QED
  BY <1>25, <1>26, <1>28, <1>29

(* Every step keeps it, also the reader's in the middle of a write.        *)
LEMMA PktInvStep == PktInv /\ [PktStep]_pktvars => PktInv'
<1> SUFFICES ASSUME PktInv, [PktStep]_pktvars, ~astray'
             PROVE  PktTypes' /\ LayoutInv' /\ PartInv' /\ CurInv'
  BY DEF PktInv
<1>1. ~astray
  BY DEF PktStep, pktvars, PktWrite, PktWriteHeader, PktWriteBody, PktFirst, PassBy, PktTake,
         PktTakeEarly
<1>2. PktTypes /\ LayoutInv /\ PartInv /\ CurInv
  BY <1>1 DEF PktInv
<1>3. ASSUME NEW len \in MinLen .. MaxLen, PktWrite(len)
      PROVE  PktTypes' /\ LayoutInv' /\ PartInv' /\ CurInv'
  BY <1>2, <1>3, PktInvWrite
<1>4. CASE PktWriteHeader
  BY <1>2, <1>4, PktInvHeader
<1>5. CASE PktWriteBody
  BY <1>2, <1>5, PktInvBody
<1>6. CASE PktFirst
  <2>1. cur = -1 /\ cur' = PktNext(cur) /\ UNCHANGED <<data, pread, pwrite, wr, live, where>>
    BY <1>6 DEF PktFirst
  <2>2. cur' = -1 \/ \E n \in live \union Arriving : cur' = where[n]
    BY <1>2, <2>1, PktInvNext, Zenon
  <2> QED
    BY <1>2, <2>1, <2>2, PktInvReader
<1>7. CASE PassBy
  <2>1. ~Strays(cur) /\ cur' = PktNext(cur) /\ UNCHANGED <<data, pread, pwrite, wr, live, where>>
    BY <1>7 DEF PassBy
  <2>2. cur' = -1 \/ \E n \in live \union Arriving : cur' = where[n]
    BY <1>2, <2>1, PktInvNext, Zenon
  <2> QED
    BY <1>2, <2>1, <2>2, PktInvReader
<1>8. CASE PktTake
  <2>1. ~Strays(cur)
    BY <1>8 DEF PktTake
  <2> QED
    BY <1>2, <1>8, <2>1, PktInvTake
<1>9. CASE PktTakeEarly
  BY <1>9 DEF PktTakeEarly
<1>10. CASE UNCHANGED pktvars
  <2>1. cur' = cur /\ UNCHANGED <<data, pread, pwrite, wr, live, where>>
    BY <1>10 DEF pktvars
  <2>2. cur' = -1 \/ \E n \in live \union Arriving : cur' = where[n]
    BY <1>2, <2>1 DEF CurInv
  <2> QED
    BY <1>2, <2>1, <2>2, PktInvReader
<1> QED
  BY <1>3, <1>4, <1>5, <1>6, <1>7, <1>8, <1>9, <1>10 DEF PktStep

(* Until the reader goes astray, and although it runs without a lock in    *)
(* the middle of dvb_ringbuffer_pkt_write, the ring is a row of whole      *)
(* packets from pread on, and behind them the part that is published of    *)
(* the packet being written.                                               *)
THEOREM PktSafe == PktSpec => []PktInv
<1>1. PktInit => PktInv
  BY PktInvInit
<1>2. PktInv /\ [PktStep]_pktvars => PktInv'
  BY PktInvStep
<1> QED
  BY <1>1, <1>2, PTL DEF PktSpec

(* dvb_ringbuffer_pkt_next finds every live packet, oldest first,          *)
(* whatever was disposed of before, and nothing else but the packet that   *)
(* is being written: the error in consumed, at most Word % Size, is        *)
(* smaller than the shortest payload.                                      *)
THEOREM PktWalkAlways == PktSpec => []WalkRight
<1>1. PktInv => WalkRight
  BY PktInvWalk
<1>2. PktSpec => []PktInv
  BY PktSafe
<1> QED
  BY <1>1, <1>2, PTL

(* dvb_ringbuffer_pkt_dispose gives the space back up to the oldest packet *)
(* that is still live, in whatever order packets are disposed of, and      *)
(* never the space of the packet that is being written.                    *)
THEOREM PktSpaceAlways == PktSpec => []SpaceReclaimed
<1>1. PktInv => SpaceReclaimed
  BY PktInvWalk
<1>2. PktSpec => []PktInv
  BY PktSafe
<1> QED
  BY <1>1, <1>2, PTL
=============================================================================
