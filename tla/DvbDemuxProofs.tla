--------------------------- MODULE DvbDemuxProofs ---------------------------
(***************************************************************************)
(* Proofs about the data path of dvb_demux.c: how the stream is cut into   *)
(* packets (TsResync) and how sections are put together from them          *)
(* (SectionDemux).                                                         *)
(***************************************************************************)
EXTENDS TsResync, SectionDemux, SequenceTheorems, WellFoundedInduction, TLAPS

-----------------------------------------------------------------------------
(* Recursion and induction                                                 *)

(* Induction is by the least counterexample.                               *)
LEMMA Least ==
  ASSUME NEW S \in SUBSET Nat, S # {}
  PROVE  \E x \in S : \A y \in S : x <= y
<1>1. PICK x \in S : \A y \in S : ~(<<y, x>> \in OpToRel(<, Nat))
  BY NatLessThanWellFounded, WFMin, Zenon
<1>2. \A y \in S : ~(y < x)  BY <1>1, Zenon DEF OpToRel
<1>3. \A y \in S : x <= y  BY <1>2
<1>. QED  BY <1>3

(* A walk over D stops where stop holds and goes on at next otherwise,     *)
(* with pre[q] noted at q; if every step gets nearer to its end, there is  *)
(* a function that gives what is noted from q on.                          *)
WalksEnd(D, T, N) ==
  \A stop \in [D -> BOOLEAN], pre \in [D -> Seq(T)], next \in [D -> D], rank \in [D -> 0 .. N] :
    (\A q \in D : ~stop[q] => rank[next[q]] < rank[q]) =>
      \E f \in [D -> Seq(T)] :
        \A q \in D : f[q] = IF stop[q] THEN << >> ELSE pre[q] \o f[next[q]]

(* Every such walk ends.                                                   *)
LEMMA WalkExists ==
  ASSUME NEW D, NEW T, NEW N \in Nat
  PROVE  WalksEnd(D, T, N)
<1>. SUFFICES ASSUME NEW stop \in [D -> BOOLEAN], NEW pre \in [D -> Seq(T)],
                     NEW next \in [D -> D], NEW rank \in [D -> 0 .. N],
                     \A q \in D : ~stop[q] => rank[next[q]] < rank[q]
              PROVE  \E f \in [D -> Seq(T)] :
                       \A q \in D : f[q] = IF stop[q] THEN << >> ELSE pre[q] \o f[next[q]]
  BY Zenon DEF WalksEnd
<1>. DEFINE Below(n) == {q \in D : rank[q] < n}
            P(n) == \E f \in [Below(n) -> Seq(T)] :
                      \A q \in Below(n) : f[q] = IF stop[q] THEN << >> ELSE pre[q] \o f[next[q]]
            Bad == {n \in Nat : ~P(n)}
<1>1. P(0)
  <2>1. Below(0) = {}  OBVIOUS
  <2>2. [q \in {} |-> << >>] \in [{} -> Seq(T)]  OBVIOUS
  <2>. QED  BY <2>1, <2>2
<1>2. ASSUME NEW n \in Nat, P(n) PROVE P(n + 1)
  <2>1. PICK f \in [Below(n) -> Seq(T)] :
          \A q \in Below(n) : f[q] = IF stop[q] THEN << >> ELSE pre[q] \o f[next[q]]
    BY <1>2, Zenon
  <2>. DEFINE B == Below(n)
              C == Below(n + 1)
              g == [q \in C |-> IF q \in B THEN f[q]
                                ELSE IF stop[q] THEN << >> ELSE pre[q] \o f[next[q]]]
  <2>2. \A q \in C : q \in D /\ (~stop[q] => next[q] \in B)  OBVIOUS
  <2>3. \A q \in B : q \in C  OBVIOUS
  <2>. HIDE DEF B, C, Below
  <2>4. ASSUME NEW q \in C PROVE g[q] \in Seq(T)
    <3>1. CASE q \in B  BY <3>1, <2>1 DEF B
    <3>2. CASE stop[q]  BY <3>2, <2>1 DEF B
    <3>3. CASE q \notin B /\ ~stop[q]
      <4>1. f[next[q]] \in Seq(T) /\ pre[q] \in Seq(T)  BY <3>3, <2>1, <2>2 DEF B
      <4>2. pre[q] \o f[next[q]] \in Seq(T)  BY <4>1
      <4>. QED  BY <4>2, <3>3
    <3>. QED  BY <3>1, <3>2, <3>3
  <2>5. g \in [C -> Seq(T)]  BY <2>4
  <2>6. ASSUME NEW q \in C PROVE g[q] = IF stop[q] THEN << >> ELSE pre[q] \o g[next[q]]
    <3>1. CASE stop[q]  BY <3>1, <2>1 DEF B
    <3>2. CASE ~stop[q]
      <4>1. next[q] \in B /\ next[q] \in C  BY <3>2, <2>2, <2>3
      <4>2. g[next[q]] = f[next[q]]  BY <4>1
      <4>3. g[q] = pre[q] \o f[next[q]]  BY <3>2, <2>1 DEF B
      <4>. QED  BY <4>2, <4>3, <3>2
    <3>. QED  BY <3>1, <3>2
  <2>. HIDE DEF g
  <2>. QED  BY <2>5, <2>6 DEF C
<1>. HIDE DEF P
<1>3. Bad = {}
  <2>. SUFFICES ASSUME Bad # {} PROVE FALSE  OBVIOUS
  <2>1. PICK n \in Bad : \A m \in Bad : n <= m  BY Least
  <2>2. n \in Nat /\ n # 0 /\ ~P(n)  BY <2>1, <1>1
  <2>3. n - 1 \in Nat /\ n - 1 \notin Bad /\ n - 1 + 1 = n  BY <2>1, <2>2
  <2>4. P(n - 1)  BY <2>3
  <2>5. P(n - 1 + 1)  BY <2>3, <2>4, <1>2
  <2>. QED  BY <2>2, <2>3, <2>5
<1>4. \A n \in Nat : P(n)  BY <1>3, Zenon
<1>6. P(N + 1)
  <2>1. N + 1 \in Nat  OBVIOUS
  <2>. QED  BY <2>1, <1>4, Zenon
<1>5. Below(N + 1) = D  OBVIOUS
<1>. HIDE DEF Below
<1>. QED  BY <1>5, <1>6 DEF P

-----------------------------------------------------------------------------
(* Synchronisation                                                         *)

(* Bytes is the segment of the stream it is meant to be.                   *)
LEMMA BytesSeq ==
  ASSUME NEW from \in Nat, NEW n \in Nat
  PROVE  /\ Bytes(from, n) \in Seq(Nat)
         /\ Len(Bytes(from, n)) = n
         /\ \A i \in 1 .. n : Bytes(from, n)[i] = from + i - 1
<1>1. \A i \in 1 .. n : from + i - 1 \in Nat
  OBVIOUS
<1>2. Bytes(from, n) \in [1 .. n -> Nat]
  BY <1>1 DEF Bytes
<1>3. Bytes(from, n) \in Seq(Nat) /\ Len(Bytes(from, n)) = n
  BY <1>2
<1> QED  BY <1>3 DEF Bytes

(* Two segments, one behind the other, are a segment.                      *)
LEMMA BytesConcat ==
  ASSUME NEW from \in Nat, NEW m \in Nat, NEW n \in Nat
  PROVE  Bytes(from, m) \o Bytes(from + m, n) = Bytes(from, m + n)
<1> DEFINE a == Bytes(from, m)
           b == Bytes(from + m, n)
           c == Bytes(from, m + n)
<1>0. from + m \in Nat /\ m + n \in Nat
  OBVIOUS
<1>1. a \in Seq(Nat) /\ Len(a) = m /\ \A i \in 1 .. m : a[i] = from + i - 1
  BY BytesSeq
<1>2. b \in Seq(Nat) /\ Len(b) = n /\ \A i \in 1 .. n : b[i] = from + m + i - 1
  BY <1>0, BytesSeq
<1>3. c \in Seq(Nat) /\ Len(c) = m + n /\ \A i \in 1 .. m + n : c[i] = from + i - 1
  BY <1>0, BytesSeq
<1> HIDE DEF a, b, c
<1>4. /\ a \o b \in Seq(Nat) /\ Len(a \o b) = m + n
      /\ \A i \in 1 .. m + n : (a \o b)[i] = IF i <= m THEN a[i] ELSE b[i - m]
  BY <1>1, <1>2, ConcatProperties
<1>5. \A i \in 1 .. m + n : (a \o b)[i] = c[i]
  <2> TAKE i \in 1 .. m + n
  <2>1. CASE i <= m
    <3>1. i \in 1 .. m  BY <2>1
    <3>2. (a \o b)[i] = a[i]  BY <2>1, <1>4
    <3>3. a[i] = from + i - 1  BY <3>1, <1>1
    <3> QED  BY <3>2, <3>3, <1>3
  <2>2. CASE i > m
    <3>1. i - m \in 1 .. n /\ ~(i <= m)  BY <2>2
    <3>2. b[i - m] = from + m + (i - m) - 1  BY <3>1, <1>2
    <3>3. (a \o b)[i] = b[i - m]  BY <3>1, <1>4
    <3>4. c[i] = from + i - 1  BY <1>3
    <3> QED  BY <3>2, <3>3, <3>4
  <2>3. i <= m \/ i > m  OBVIOUS
  <2> QED  BY <2>1, <2>2, <2>3, Zenon
<1>6. a \o b = c
  BY <1>3, <1>4, <1>5, SeqEqual
<1> QED  BY <1>6 DEF a, b, c

(* The beginning of a segment.                                             *)
LEMMA BytesPrefix ==
  ASSUME NEW from \in Nat, NEW n \in Nat, NEW p \in Nat, p <= n
  PROVE  SubSeq(Bytes(from, n), 1, p) = Bytes(from, p)
<1> DEFINE s == Bytes(from, n)
           t == SubSeq(s, 1, p)
           u == Bytes(from, p)
<1>1. \A i \in 1 .. p : s[i] = from + i - 1 /\ s[i] \in Nat
  <2> TAKE i \in 1 .. p
  <2>1. i \in 1 .. n /\ from + i - 1 \in Nat  OBVIOUS
  <2>2. s[i] = from + i - 1  BY <2>1 DEF Bytes
  <2> QED  BY <2>1, <2>2
<1>2. u \in Seq(Nat) /\ Len(u) = p /\ \A i \in 1 .. p : u[i] = from + i - 1
  BY BytesSeq
<1> HIDE DEF s, u
<1>3. t \in Seq(Nat) /\ Len(t) = p /\ \A i \in 1 .. p : t[i] = s[i]
  BY <1>1, SubSeqProperties
<1> HIDE DEF t
<1>4. t = u
  BY <1>1, <1>2, <1>3, SeqEqual
<1> QED  BY <1>4 DEF s, t, u

(* One packet further is the beginning of a packet again.                  *)
LEMMA NextUnit ==
  ASSUME NEW k \in Nat, k % Unit = 0
  PROVE  (k + Unit) % Unit = 0
<1> DEFINE q == k \div Unit
<1>1. q \in Nat /\ k = Unit * q
  BY UnitAssumption, Z3
<1> HIDE DEF q
<1>2. k + Unit = (q + 1) * Unit /\ q + 1 \in Nat
  BY <1>1, UnitAssumption, Z3
<1>3. \A p \in Nat : (p * Unit) % Unit = 0
  BY UnitAssumption, Z3
<1> QED  BY <1>2, <1>3

-----------------------------------------------------------------------------
(* tsbuf holds the bytes just before pos, and they begin where a packet    *)
(* begins.                                                                 *)
Begin == pos - Len(tsbuf)

Aligned == Begin \in Nat /\ Begin % Unit = 0 /\ tsbuf = Bytes(Begin, Len(tsbuf))

(* InSync alone is not inductive: that the packet completed from tsbuf is  *)
(* the next one of the stream follows from what tsbuf holds.               *)
SyncInv == TypeOK /\ InSync /\ (lead = 0 => Aligned)

(* A packet begins with a sync byte.                                       *)
LEMMA AlignedSync ==
  ASSUME lead = 0, NEW k \in Nat, k % Unit = 0
  PROVE  IsSync(k)
BY DEF IsSync

(* Where the packet that follows the last one handed on begins.            *)
Expected == IF out = << >> THEN 0 ELSE out[Len(out)][1] + Unit

(* While the stream is in sync, that is where tsbuf begins.                *)
LEMMA Position ==
  ASSUME SyncInv, lead = 0
  PROVE  Expected \in Nat /\ Begin = Expected
<1> USE UnitAssumption
<1> DEFINE n == Len(out)
           len == Len(tsbuf)
<1>1. pos \in Nat /\ len \in Nat /\ out \in Seq(Seq(Nat)) /\ n \in Nat
  BY DEF SyncInv, TypeOK
<1>2. pos = len + Expected
  BY DEF SyncInv, InSync, Expected
<1>3. Expected \in Nat
  <2>1. CASE out = << >>
    BY <2>1 DEF Expected
  <2>2. CASE out # << >>
    <3>1. n \in 1 .. n  BY <2>2, <1>1
    <3>2. out[n] = Bytes(IF n = 1 THEN 0 ELSE out[n - 1][1] + Unit, Pass)
      BY <3>1 DEF SyncInv, InSync
    <3>3. out[n] \in Seq(Nat) /\ 1 \in 1 .. Len(out[n])
      <4>1. out[n] \in Seq(Nat)  BY <3>1, <1>1
      <4>2. DOMAIN out[n] = 1 .. Pass  BY <3>2 DEF Bytes
      <4> QED  BY <4>1, <4>2
    <3>4. out[n][1] \in Nat  BY <3>3
    <3> QED  BY <2>2, <3>4 DEF Expected
  <2> QED  BY <2>1, <2>2
<1> HIDE DEF len
<1>4. pos - len = Expected  BY <1>1, <1>2, <1>3
<1> QED  BY <1>3, <1>4 DEF Begin, len

(* Handing on the packet that begins at Begin keeps the stream in sync.    *)
LEMMA HandOn ==
  ASSUME SyncInv, lead = 0, lead' = lead, tsbuf' = << >>, pos' = Begin + Unit,
         out' = Append(out, Bytes(Begin, Pass))
  PROVE  InSync' /\ Aligned'
<1> USE UnitAssumption
<1>1. /\ pos \in Nat /\ tsbuf \in Seq(Nat) /\ Len(tsbuf) \in Nat /\ out \in Seq(Seq(Nat))
      /\ Begin \in Nat /\ Begin % Unit = 0 /\ Begin + Unit \in Nat
  BY DEF SyncInv, TypeOK, Aligned
<1>2. /\ Bytes(Begin, Pass) \in Seq(Nat) /\ Len(Bytes(Begin, Pass)) = Pass
      /\ Bytes(Begin, Pass)[1] = Begin
  <2>1. Begin \in Nat /\ Pass \in Nat /\ 1 \in 1 .. Pass  BY <1>1
  <2>2. /\ Bytes(Begin, Pass) \in Seq(Nat) /\ Len(Bytes(Begin, Pass)) = Pass
        /\ Bytes(Begin, Pass)[1] = Begin + 1 - 1
    BY <2>1, BytesSeq, Zenon
  <2> QED  BY <2>1, <2>2
<1> DEFINE n == Len(out)
<1>3. /\ n \in Nat /\ Len(out') = n + 1
      /\ out'[n + 1] = Bytes(Begin, Pass)
      /\ \A i \in 1 .. n : out'[i] = out[i]
  BY <1>1, <1>2, AppendProperties
<1>4. Begin = IF out = << >> THEN 0 ELSE out[n][1] + Unit
  BY Position DEF Expected
<1>5. Len(tsbuf') = 0 /\ Begin' = Begin + Unit
  BY <1>1 DEF Begin
<1>6. Aligned'
  <2>1. (Begin + Unit) % Unit = 0  BY <1>1, NextUnit
  <2>2. Bytes(Begin + Unit, 0) = << >>
    <3>1. Bytes(Begin + Unit, 0) \in Seq(Nat) /\ Len(Bytes(Begin + Unit, 0)) = 0
      <4>1. Begin + Unit \in Nat /\ 0 \in Nat  BY <1>1
      <4> QED  BY <4>1, BytesSeq, Zenon
    <3> QED  BY <3>1, EmptySeq
  <2> QED  BY <1>1, <1>5, <2>1, <2>2 DEF Aligned, Bytes
<1>7. InSync'
  <2>1. ASSUME NEW i \in 1 .. n + 1
        PROVE  out'[i] = Bytes(IF i = 1 THEN 0 ELSE out'[i - 1][1] + Unit, Pass)
    <3>1. CASE i <= n
      <4>1. i \in 1 .. n /\ (i # 1 => i - 1 \in 1 .. n)  BY <3>1, <1>3
      <4>2. out[i] = Bytes(IF i = 1 THEN 0 ELSE out[i - 1][1] + Unit, Pass)
        BY <4>1 DEF SyncInv, InSync
      <4> QED  BY <4>1, <4>2, <1>3
    <3>2. CASE i = n + 1
      <4>1. CASE out = << >>
        <5>1. n = 0 /\ i = 1  BY <4>1, <3>2
        <5> QED  BY <5>1, <3>2, <4>1, <1>3, <1>4
      <4>2. CASE out # << >>
        <5>1. n \in 1 .. n /\ i # 1 /\ i - 1 = n  BY <4>2, <3>2, <1>1, <1>3
        <5> QED  BY <5>1, <3>2, <4>2, <1>3, <1>4
      <4> QED  BY <4>1, <4>2
    <3>3. i <= n \/ i = n + 1  BY <1>3
    <3> QED  BY <3>1, <3>2, <3>3, Zenon
  <2>2. out' # << >> /\ out'[Len(out')][1] = Begin
    BY <1>2, <1>3
  <2>3. pos' = Len(tsbuf') + (out'[Len(out')][1] + Unit)
    BY <1>1, <1>5, <2>2
  <2> QED  BY <1>3, <2>1, <2>2, <2>3 DEF InSync
<1> QED  BY <1>6, <1>7

(* ResyncInit and every action keep SyncInv.                                     *)
LEMMA SyncInit == ResyncInit => SyncInv
<1> SUFFICES ASSUME ResyncInit PROVE SyncInv  OBVIOUS
<1> USE UnitAssumption, BoundsAssumption
<1>1. /\ lead \in Nat /\ emu \subseteq Nat /\ pos = 0 /\ left = 0
      /\ tsbuf = << >> /\ out = << >> /\ Len(tsbuf) = 0
  BY DEF ResyncInit
<1>2. TypeOK
  BY <1>1, EmptySeq DEF TypeOK
<1>3. InSync
  BY <1>1 DEF InSync
<1>4. Aligned
  <2>0. 0 - 0 = 0  OBVIOUS
  <2>1. Begin = 0 - 0  BY <1>1 DEF Begin
  <2>2. Bytes(0, 0) \in Seq(Nat) /\ Len(Bytes(0, 0)) = 0
    <3>1. 0 \in Nat  OBVIOUS
    <3> QED  BY <3>1, BytesSeq, Zenon
  <2>3. Bytes(0, 0) = << >>  BY <2>2, EmptySeq
  <2>4. 0 % Unit = 0  BY Z3
  <2> QED  BY <1>1, <2>0, <2>1, <2>3, <2>4 DEF Aligned
<1> QED  BY <1>2, <1>3, <1>4 DEF SyncInv

(* Nothing is handed on and the bytes taken are appended to tsbuf.         *)
LEMMA Keep ==
  ASSUME SyncInv, lead = 0, lead' = lead, out' = out, NEW n \in Nat,
         pos' = pos + n, tsbuf' = tsbuf \o Bytes(pos, n)
  PROVE  InSync' /\ Aligned'
<1> USE UnitAssumption
<1> DEFINE len == Len(tsbuf)
<1>1. /\ pos \in Nat /\ tsbuf \in Seq(Nat) /\ len \in Nat
      /\ Begin \in Nat /\ Begin % Unit = 0 /\ tsbuf = Bytes(Begin, len)
  BY DEF SyncInv, TypeOK, Aligned
<1>2. pos = Begin + len  BY <1>1 DEF Begin
<1>3. tsbuf' = Bytes(Begin, len + n)
  <2>1. Bytes(Begin, len) \o Bytes(Begin + len, n) = Bytes(Begin, len + n)
    BY <1>1, BytesConcat, Zenon
  <2> QED  BY <1>1, <1>2, <2>1
<1>4. Len(tsbuf') = len + n
  <2>1. len + n \in Nat  BY <1>1
  <2>2. Len(Bytes(Begin, len + n)) = len + n  BY <1>1, <2>1, BytesSeq, Zenon
  <2> QED  BY <1>3, <2>2
<1>5. Begin' = Begin  BY <1>1, <1>4 DEF Begin
<1>6. Aligned'  BY <1>1, <1>3, <1>4, <1>5 DEF Aligned, Bytes
<1>7. InSync'
  <2>1. pos + n = len + n + Expected
    <3>1. Expected \in Nat /\ Begin = Expected  BY Position
    <3> QED  BY <1>1, <1>2, <3>1
  <2> QED  BY <1>4, <2>1 DEF SyncInv, InSync, Expected, Bytes
<1> QED  BY <1>6, <1>7

(* With tsbuf empty the next byte is the beginning of a packet.            *)
LEMMA EmptyBegin ==
  ASSUME SyncInv, tsbuf = << >>
  PROVE  /\ pos \in Nat /\ Begin = pos
         /\ lead = 0 => IsSync(pos)
<1>1. pos \in Nat /\ Len(tsbuf) = 0  BY DEF SyncInv, TypeOK
<1>2. Begin = pos  BY <1>1 DEF Begin
<1>3. lead = 0 => Begin \in Nat /\ Begin % Unit = 0  BY DEF SyncInv, Aligned
<1> QED  BY <1>1, <1>2, <1>3, AlignedSync

(* KeepMore appends the chunk to the packet begun in tsbuf.                *)
LEMMA SyncKeepMore == SyncInv /\ KeepMore => SyncInv'
<1> SUFFICES ASSUME SyncInv, KeepMore PROVE SyncInv'  OBVIOUS
<1> USE UnitAssumption
<1>1. /\ pos \in Nat /\ left \in Nat /\ tsbuf \in Seq(Nat) /\ Len(tsbuf) \in Nat
      /\ left < Unit - Len(tsbuf)
      /\ tsbuf' = tsbuf \o Bytes(pos, left) /\ pos' = pos + left /\ left' = 0
      /\ lead' = lead /\ emu' = emu /\ out' = out
  BY DEF SyncInv, TypeOK, KeepMore
<1>2. Bytes(pos, left) \in Seq(Nat) /\ Len(Bytes(pos, left)) = left
  BY <1>1, BytesSeq, Zenon
<1>3. tsbuf' \in Seq(Nat) /\ Len(tsbuf') = Len(tsbuf) + left
  BY <1>1, <1>2, ConcatProperties
<1>4. TypeOK'
  BY <1>1, <1>3 DEF SyncInv, TypeOK
<1>5. lead = 0 => InSync' /\ Aligned'
  BY <1>1, Keep, Zenon
<1> QED  BY <1>1, <1>4, <1>5 DEF SyncInv, InSync

(* Complete hands on the packet that tsbuf and the chunk make together.    *)
LEMMA SyncComplete == SyncInv /\ Complete => SyncInv'
<1> SUFFICES ASSUME SyncInv, Complete PROVE SyncInv'  OBVIOUS
<1> USE UnitAssumption
<1> DEFINE len == Len(tsbuf)
           j == Unit - len
           unit == tsbuf \o Bytes(pos, j)
<1>1. /\ pos \in Nat /\ left \in Nat /\ tsbuf \in Seq(Nat) /\ len \in Nat
      /\ len < Unit /\ j \in Nat /\ len + j = Unit /\ left >= j
      /\ out \in Seq(Seq(Nat))
  BY DEF SyncInv, TypeOK, Complete
<1>2. /\ out' = (IF IsSync(unit[1]) THEN Append(out, SubSeq(unit, 1, Pass)) ELSE out)
      /\ pos' = pos + j /\ left' = left - j /\ tsbuf' = << >>
      /\ lead' = lead /\ emu' = emu
  BY DEF Complete
<1>3. Bytes(pos, j) \in Seq(Nat) /\ Len(Bytes(pos, j)) = j
  BY <1>1, BytesSeq, Zenon
<1>4. unit \in Seq(Nat) /\ Len(unit) = Unit
  BY <1>1, <1>3, ConcatProperties
<1>5. SubSeq(unit, 1, Pass) \in Seq(Nat)
  <2> HIDE DEF unit
  <2>1. \A i \in 1 .. Pass : unit[i] \in Nat  BY <1>4
  <2> QED  BY <2>1, SubSeqProperties
<1>6. TypeOK'
  <2> HIDE DEF unit, j, len
  <2>1. out' \in Seq(Seq(Nat))  BY <1>1, <1>2, <1>5
  <2>2. pos' \in Nat /\ left' \in Nat  BY <1>1, <1>2
  <2>3. tsbuf' \in Seq(Nat) /\ Len(tsbuf') < Unit  BY <1>2, EmptySeq
  <2> QED  BY <1>2, <2>1, <2>2, <2>3 DEF SyncInv, TypeOK
<1>7. ASSUME lead = 0 PROVE InSync' /\ Aligned'
  <2>1. Begin \in Nat /\ Begin % Unit = 0 /\ tsbuf = Bytes(Begin, len)
    BY <1>7 DEF SyncInv, Aligned
  <2>2. pos = Begin + len  BY <1>1, <2>1 DEF Begin
  <2>3. unit = Bytes(Begin, Unit)
    <3>1. Bytes(Begin, len) \o Bytes(Begin + len, j) = Bytes(Begin, len + j)
      BY <1>1, <2>1, BytesConcat, Zenon
    <3> QED  BY <1>1, <2>1, <2>2, <3>1
  <2>4. SubSeq(unit, 1, Pass) = Bytes(Begin, Pass)
    <3>1. SubSeq(Bytes(Begin, Unit), 1, Pass) = Bytes(Begin, Pass)
      BY <2>1, BytesPrefix
    <3> QED  BY <2>3, <3>1
  <2>5. unit[1] = Begin
    <3>1. 1 \in 1 .. Unit  OBVIOUS
    <3>2. Bytes(Begin, Unit)[1] = Begin + 1 - 1  BY <3>1, <2>1, BytesSeq, Zenon
    <3>3. Begin + 1 - 1 = Begin  BY <2>1
    <3>4. unit[1] = Bytes(Begin, Unit)[1]  BY <2>3, Zenon
    <3> HIDE DEF unit
    <3> QED  BY <3>2, <3>3, <3>4, Zenon
  <2>6. IsSync(unit[1])  BY <1>7, <2>1, <2>5, AlignedSync
  <2>7. pos' = Begin + Unit
    <3> HIDE DEF j, len
    <3> QED  BY <1>1, <1>2, <2>1, <2>2
  <2> HIDE DEF unit, j, len
  <2>8. out' = Append(out, Bytes(Begin, Pass))  BY <1>2, <2>4, <2>6
  <2> QED  BY <1>2, <1>7, <2>7, <2>8, HandOn
<1> HIDE DEF unit, j, len
<1> QED  BY <1>2, <1>6, <1>7 DEF SyncInv, InSync

(* Skip does not happen in a stream that is in sync.                       *)
LEMMA SyncSkip == SyncInv /\ Skip => SyncInv'
<1> SUFFICES ASSUME SyncInv, Skip PROVE SyncInv'  OBVIOUS
<1>1. /\ tsbuf = << >> /\ ~IsSync(pos) /\ left > 0
      /\ pos' = pos + 1 /\ left' = left - 1
      /\ lead' = lead /\ emu' = emu /\ tsbuf' = tsbuf /\ out' = out
  BY DEF Skip
<1>2. lead # 0  BY <1>1, EmptyBegin
<1>3. TypeOK'  BY <1>1 DEF SyncInv, TypeOK
<1> QED  BY <1>1, <1>2, <1>3 DEF SyncInv, InSync

(* Whole hands on the next packet of the stream.                           *)
LEMMA SyncWhole == SyncInv /\ Whole => SyncInv'
<1> SUFFICES ASSUME SyncInv, Whole PROVE SyncInv'  OBVIOUS
<1> USE UnitAssumption
<1>1. /\ left >= Unit /\ tsbuf = << >> /\ out' = Append(out, Bytes(pos, Pass))
      /\ pos' = pos + Unit /\ left' = left - Unit
      /\ lead' = lead /\ emu' = emu /\ tsbuf' = tsbuf
  BY DEF Whole
<1>2. pos \in Nat /\ Begin = pos  BY <1>1, EmptyBegin
<1>3. TypeOK'
  <2>1. Bytes(pos, Pass) \in Seq(Nat)  BY <1>2, BytesSeq
  <2>2. out \in Seq(Seq(Nat)) /\ left \in Nat  BY DEF SyncInv, TypeOK
  <2>3. out' \in Seq(Seq(Nat))  BY <1>1, <2>1, <2>2
  <2>4. pos' \in Nat /\ left' \in Nat  BY <1>1, <1>2, <2>2
  <2> QED  BY <1>1, <2>3, <2>4 DEF SyncInv, TypeOK
<1>4. lead = 0 => InSync' /\ Aligned'
  <2>1. pos' = Begin + Unit /\ out' = Append(out, Bytes(Begin, Pass)) /\ tsbuf' = << >>
    BY <1>1, <1>2
  <2> QED  BY <1>1, <2>1, HandOn
<1> QED  BY <1>1, <1>3, <1>4 DEF SyncInv, InSync

(* KeepTail begins the next packet in tsbuf.                               *)
LEMMA SyncKeepTail == SyncInv /\ KeepTail => SyncInv'
<1> SUFFICES ASSUME SyncInv, KeepTail PROVE SyncInv'  OBVIOUS
<1> USE UnitAssumption
<1>1. /\ left \in Nat /\ left < Unit /\ tsbuf = << >> /\ tsbuf' = Bytes(pos, left)
      /\ pos' = pos + left /\ left' = 0
      /\ lead' = lead /\ emu' = emu /\ out' = out
  BY DEF KeepTail, SyncInv, TypeOK
<1>2. pos \in Nat  BY <1>1, EmptyBegin
<1>3. Bytes(pos, left) \in Seq(Nat) /\ Len(Bytes(pos, left)) = left
  BY <1>1, <1>2, BytesSeq, Zenon
<1>4. TypeOK'  BY <1>1, <1>2, <1>3 DEF SyncInv, TypeOK
<1>5. tsbuf' = tsbuf \o Bytes(pos, left)
  <2>1. << >> \o Bytes(pos, left) = Bytes(pos, left)  BY <1>3, ConcatEmptySeq
  <2> QED  BY <1>1, <2>1
<1>6. lead = 0 => InSync' /\ Aligned'  BY <1>1, <1>5, Keep, Zenon
<1> QED  BY <1>1, <1>4, <1>6 DEF SyncInv, InSync

(* A step keeps SyncInv, by cases on the actions.                          *)
LEMMA SyncNext == SyncInv /\ [ResyncNext]_resync_vars => SyncInv'
<1> SUFFICES ASSUME SyncInv, [ResyncNext]_resync_vars PROVE SyncInv'  OBVIOUS
<1>1. ASSUME NEW count \in 1 .. MaxChunk, Chunk(count) PROVE SyncInv'
  <2>1. /\ lead' = lead /\ emu' = emu /\ pos' = pos /\ tsbuf' = tsbuf /\ out' = out
        /\ left' \in Nat
    BY <1>1, BoundsAssumption DEF Chunk
  <2> QED  BY <2>1 DEF SyncInv, TypeOK, InSync, Aligned, Begin, Bytes
<1>2. CASE UNCHANGED resync_vars
  BY <1>2 DEF resync_vars, SyncInv, TypeOK, InSync, Aligned, Begin, Bytes
<1> QED
  BY <1>1, <1>2, SyncKeepMore, SyncComplete, SyncSkip, SyncWhole, SyncKeepTail DEF ResyncNext

(* dvb_dmx_swfilter never writes behind the end of tsbuf, whatever the     *)
(* stream contains and however it is cut.                                  *)
THEOREM ResyncTypeOK == ResyncSpec => []TypeOK
<1>1. SyncInv => TypeOK  BY DEF SyncInv
<1> QED  BY <1>1, SyncInit, SyncNext, PTL DEF ResyncSpec

(* A stream that begins with a packet is cut into exactly its packets, one *)
(* after the other, for every chunking and every payload.                  *)
THEOREM ResyncInSync == ResyncSpec => []InSync
<1>1. SyncInv => InSync  BY DEF SyncInv
<1> QED  BY <1>1, SyncInit, SyncNext, PTL DEF ResyncSpec

-----------------------------------------------------------------------------
(* Chunking                                                                *)

(* g notes the positions at which the stream is cut: S are the positions   *)
(* of sync bytes.                                                          *)
CutsAt(g, S, end) ==
  g = [q \in Nat |-> IF q + Unit > end THEN << >>
                     ELSE IF q \in S THEN <<q>> \o g[q + Unit] ELSE g[q + 1]]

(* There is such a function,                                               *)
LEMMA CutWalk ==
  ASSUME NEW end \in Nat, NEW S \in SUBSET Nat
  PROVE  \E f \in [Nat -> Seq(Nat)] : CutsAt(f, S, end)
<1>. USE UnitAssumption
<1>. DEFINE stop == [q \in Nat |-> q + Unit > end]
            pre == [q \in Nat |-> IF q \in S THEN <<q>> ELSE << >>]
            next == [q \in Nat |-> IF q \in S THEN q + Unit ELSE q + 1]
            rank == [q \in Nat |-> IF q > end THEN 0 ELSE end - q]
<1>1. \A q \in Nat : /\ stop[q] = (q + Unit > end) /\ q + 1 \in Nat /\ q + Unit \in Nat
                     /\ q \in S => pre[q] = <<q>> /\ next[q] = q + Unit
                     /\ q \notin S => pre[q] = << >> /\ next[q] = q + 1
                     /\ rank[q] = IF q > end THEN 0 ELSE end - q
  OBVIOUS
<1>2. stop \in [Nat -> BOOLEAN]  OBVIOUS
<1>3. next \in [Nat -> Nat]  OBVIOUS
<1>4. rank \in [Nat -> 0 .. end]
  <2>1. \A q \in Nat : (IF q > end THEN 0 ELSE end - q) \in 0 .. end  OBVIOUS
  <2>. QED  BY <2>1
<1>5. pre \in [Nat -> Seq(Nat)]
  <2>1. \A q \in Nat : <<q>> \in Seq(Nat) /\ << >> \in Seq(Nat)  OBVIOUS
  <2>. QED  BY <2>1
<1>. HIDE DEF stop, pre, next, rank
<1>6. ASSUME NEW q \in Nat, ~(q + Unit > end) PROVE rank[next[q]] < rank[q]
  <2>1. CASE q \in S  BY <2>1, <1>6, <1>1
  <2>2. CASE q \notin S  BY <2>2, <1>6, <1>1
  <2>. QED  BY <2>1, <2>2
<1>7. \A q \in Nat : ~stop[q] => rank[next[q]] < rank[q]  BY <1>1, <1>6
<1>8. PICK f \in [Nat -> Seq(Nat)] :
        \A q \in Nat : f[q] = IF stop[q] THEN << >> ELSE pre[q] \o f[next[q]]
  <2>. HIDE DEF stop, pre, next, rank
  <2>1. WalksEnd(Nat, Nat, end)  BY WalkExists
  <2>. QED  BY <1>2, <1>3, <1>4, <1>5, <1>7, <2>1, Zenon DEF WalksEnd
<1>. DEFINE step == [q \in Nat |-> IF q + Unit > end THEN << >>
                                   ELSE IF q \in S THEN <<q>> \o f[q + Unit] ELSE f[q + 1]]
<1>9. ASSUME NEW q \in Nat PROVE f[q] = step[q]
  <2>1. CASE q \in S  BY <2>1, <1>1, <1>8
  <2>2. CASE q \notin S
    <3>1. << >> \o f[q + 1] = f[q + 1]  BY <1>1, <1>8, ConcatEmptySeq
    <3>. QED  BY <2>2, <3>1, <1>1, <1>8
  <2>. QED  BY <2>1, <2>2
<1>10. f = step  BY <1>8, <1>9
<1>. QED  BY <1>8, <1>10 DEF CutsAt

(* and only one.                                                           *)
LEMMA CutUnique ==
  ASSUME NEW end \in Nat, NEW S \in SUBSET Nat, NEW f \in [Nat -> Seq(Nat)], NEW g,
         CutsAt(f, S, end), CutsAt(g, S, end)
  PROVE  g = f
<1>. USE UnitAssumption
<1>1. \A q \in Nat : f[q] = IF q + Unit > end THEN << >>
                            ELSE IF q \in S THEN <<q>> \o f[q + Unit] ELSE f[q + 1]
  BY DEF CutsAt
<1>2. \A q \in Nat : g[q] = IF q + Unit > end THEN << >>
                            ELSE IF q \in S THEN <<q>> \o g[q + Unit] ELSE g[q + 1]
  BY DEF CutsAt
<1>. DEFINE rank(q) == IF q > end THEN 0 ELSE end - q
            Bad == {n \in Nat : \E q \in Nat : rank(q) = n /\ f[q] # g[q]}
<1>3. Bad = {}
  <2>. SUFFICES ASSUME Bad # {} PROVE FALSE  OBVIOUS
  <2>1. PICK n \in Bad : \A m \in Bad : n <= m  BY Least
  <2>2. PICK q \in Nat : rank(q) = n /\ f[q] # g[q]  BY <2>1
  <2>3. q + Unit <= end
    <3>. SUFFICES ASSUME q + Unit > end PROVE FALSE  OBVIOUS
    <3>1. f[q] = << >>  BY <1>1, Zenon
    <3>2. g[q] = << >>  BY <1>2, Zenon
    <3>. QED  BY <2>2, <3>1, <3>2
  <2>. DEFINE r == IF q \in S THEN q + Unit ELSE q + 1
  <2>4. r \in Nat /\ rank(r) \in Nat /\ rank(r) < n
    <3>1. n = end - q  BY <2>2, <2>3
    <3>2. r \in Nat /\ r > q /\ r <= end  BY <2>3
    <3>. HIDE DEF r
    <3>. QED  BY <2>3, <3>1, <3>2
  <2>5. f[r] = g[r]
    <3>0. n \in Nat  BY <2>1
    <3>. HIDE DEF r, rank
    <3>1. rank(r) \notin Bad
      <4>. HIDE DEF Bad
      <4>. QED  BY <2>1, <2>4, <3>0
    <3>. QED  BY <3>1, <2>4, Zenon
  <2>6. CASE q \in S  BY <2>6, <2>2, <2>3, <2>5, <1>1, <1>2
  <2>7. CASE q \notin S  BY <2>7, <2>2, <2>3, <2>5, <1>1, <1>2
  <2>. QED  BY <2>6, <2>7
<1>4. \A q \in Nat : f[q] = g[q]
  <2>1. \A q \in Nat : rank(q) \in Nat  OBVIOUS
  <2>. HIDE DEF rank
  <2>. QED  BY <1>3, <2>1
<1>. QED  BY <1>4 DEF CutsAt

(* What StartsFrom computes: its definition read as an equation.           *)
LEMMA StartsFromDef ==
  ASSUME NEW end \in Nat
  PROVE  \A k \in Nat :
           /\ StartsFrom(k, end) \in Seq(Nat)
           /\ k + Unit > end => StartsFrom(k, end) = << >>
           /\ k + Unit <= end /\ IsSync(k) => StartsFrom(k, end) = <<k>> \o StartsFrom(k + Unit, end)
           /\ k + Unit <= end /\ ~IsSync(k) => StartsFrom(k, end) = StartsFrom(k + 1, end)
<1>. USE UnitAssumption
<1>1. PICK S \in SUBSET Nat : \A q \in Nat : q \in S <=> IsSync(q)
  <2>1. {q \in Nat : IsSync(q)} \in SUBSET Nat  OBVIOUS
  <2>. QED  BY <2>1
<1>. DEFINE step(g) == [q \in Nat |-> IF q + Unit > end THEN << >>
                                      ELSE IF IsSync(q) THEN <<q>> \o g[q + Unit] ELSE g[q + 1]]
            starts == CHOOSE g : g = step(g)
<1>2. \A k : StartsFrom(k, end) = starts[k]  BY DEF StartsFrom
<1>3. PICK f \in [Nat -> Seq(Nat)] : CutsAt(f, S, end)  BY CutWalk
<1>4. \A g : g = step(g) <=> CutsAt(g, S, end)  BY <1>1 DEF CutsAt
<1>5. f = step(f)  BY <1>3, <1>4, Zenon
<1>6. \A g : g = step(g) => g = f
  <2>. SUFFICES ASSUME NEW CONSTANT g, CutsAt(g, S, end) PROVE g = f  BY <1>4, Zenon
  <2>. QED  BY <1>3, CutUnique
<1>7. starts = f
  <2>. HIDE DEF step
  <2>. QED  BY <1>5, <1>6, Zenon
<1>8. \A k : StartsFrom(k, end) = f[k]  BY <1>2, <1>7, Zenon
<1>9. \A k \in Nat : f[k] = IF k + Unit > end THEN << >>
                            ELSE IF k \in S THEN <<k>> \o f[k + Unit] ELSE f[k + 1]
  BY <1>3 DEF CutsAt
<1>10. \A k \in Nat : k + 1 \in Nat /\ k + Unit \in Nat /\ f[k] \in Seq(Nat)  BY <1>3
<1>. HIDE DEF starts, step
<1>. TAKE k \in Nat
<1>11. StartsFrom(k, end) = f[k] /\ StartsFrom(k + 1, end) = f[k + 1]
       /\ StartsFrom(k + Unit, end) = f[k + Unit]
  BY <1>8, Zenon
<1>12. StartsFrom(k, end) \in Seq(Nat)  BY <1>11, <1>10
<1>13. ASSUME k + Unit > end PROVE StartsFrom(k, end) = << >>  BY <1>13, <1>11, <1>9
<1>14. ASSUME k + Unit <= end, IsSync(k)
       PROVE  StartsFrom(k, end) = <<k>> \o StartsFrom(k + Unit, end)
  <2>1. k \in S /\ ~(k + Unit > end)  BY <1>14, <1>1
  <2>. QED  BY <2>1, <1>11, <1>9
<1>15. ASSUME k + Unit <= end, ~IsSync(k)
       PROVE  StartsFrom(k, end) = StartsFrom(k + 1, end)
  <2>1. k \notin S /\ ~(k + Unit > end)  BY <1>15, <1>1
  <2>. QED  BY <2>1, <1>11, <1>9
<1>. QED  BY <1>12, <1>13, <1>14, <1>15

(* Only the stream decides where it is cut, not the state of the demux.    *)
LEMMA StartsSame ==
  ASSUME lead' = lead, emu' = emu, NEW k, NEW end
  PROVE  StartsFrom(k, end)' = StartsFrom(k, end)
BY DEF StartsFrom, IsSync

(* What has been handed on are the packets that begin at h, and the rest   *)
(* of the cut of the stream, however far it goes, begins at Begin.         *)
CutSoFar(h) ==
  /\ out = [i \in 1 .. Len(h) |-> Bytes(h[i], Pass)]
  /\ \A end \in Nat : end >= pos => StartsFrom(0, end) = h \o StartsFrom(Begin, end)

(* ChunkingIrrelevant alone is not inductive: it says nothing of the bytes *)
(* in tsbuf, which the next chunk may complete.                            *)
CutInv ==
  /\ TypeOK
  /\ Begin \in Nat /\ tsbuf = Bytes(Begin, Len(tsbuf))
  /\ tsbuf # << >> => IsSync(Begin)
  /\ \E h \in Seq(Nat) : CutSoFar(h)

(* Bytes kept for later do not move the cut.                               *)
LEMMA CutKept ==
  ASSUME TypeOK, NEW h \in Seq(Nat), CutSoFar(h), Begin' = Begin,
         lead' = lead, emu' = emu, out' = out, pos' \in Nat, pos' >= pos
  PROVE  CutSoFar(h)'
<1>1. ASSUME NEW end \in Nat, end >= pos'
      PROVE  StartsFrom(0, end)' = h \o StartsFrom(Begin, end)'
  <2>1. end >= pos  BY <1>1 DEF TypeOK
  <2>2. StartsFrom(0, end) = h \o StartsFrom(Begin, end)  BY <2>1 DEF CutSoFar
  <2>3. StartsFrom(0, end)' = StartsFrom(0, end)  BY StartsSame
  <2>4. StartsFrom(Begin, end)' = StartsFrom(Begin, end)
    BY DEF StartsFrom, IsSync
  <2>. QED  BY <2>2, <2>3, <2>4, Zenon
<1>2. out' = [i \in 1 .. Len(h) |-> Bytes(h[i], Pass)]  BY DEF CutSoFar
<1>. QED  BY <1>1, <1>2 DEF CutSoFar, Bytes

(* A byte that is no sync byte is skipped by the cut too.                  *)
LEMMA CutSkipped ==
  ASSUME TypeOK, NEW h \in Seq(Nat), CutSoFar(h), Begin \in Nat, ~IsSync(Begin),
         pos = Begin, Begin' = Begin + 1, pos' = Begin + 1,
         lead' = lead, emu' = emu, out' = out
  PROVE  CutSoFar(h)'
<1>. USE UnitAssumption
<1>1. ASSUME NEW end \in Nat, end >= pos'
      PROVE  StartsFrom(0, end)' = h \o StartsFrom(Begin, end)'
  <2>1. PICK b \in Nat : b = Begin  OBVIOUS
  <2>2. StartsFrom(0, end) = h \o StartsFrom(b, end)  BY <1>1, <2>1 DEF CutSoFar
  <2>3. StartsFrom(0, end)' = StartsFrom(0, end)  BY StartsSame
  <2>4. StartsFrom(Begin, end)' = StartsFrom(b + 1, end)
    BY <2>1 DEF StartsFrom, IsSync
  <2>5. StartsFrom(b, end) = StartsFrom(b + 1, end)
    <3>1. b + 1 \in Nat /\ ~IsSync(b)  BY <2>1
    <3>2. CASE b + Unit <= end  BY <3>1, <3>2, StartsFromDef
    <3>3. CASE b + Unit > end
      <4>1. b + 1 + Unit > end  BY <3>3
      <4>2. StartsFrom(b, end) = << >>  BY <3>3, StartsFromDef
      <4>3. StartsFrom(b + 1, end) = << >>  BY <3>1, <4>1, StartsFromDef
      <4>. QED  BY <4>2, <4>3
    <3>. QED  BY <3>2, <3>3
  <2>. QED  BY <2>2, <2>3, <2>4, <2>5, Zenon
<1>2. out' = [i \in 1 .. Len(h) |-> Bytes(h[i], Pass)]  BY DEF CutSoFar
<1>. QED  BY <1>1, <1>2 DEF CutSoFar, Bytes

(* A packet handed on is the next one of the cut.                          *)
LEMMA CutHanded ==
  ASSUME TypeOK, NEW h \in Seq(Nat), CutSoFar(h), Begin \in Nat, IsSync(Begin),
         pos <= Begin + Unit, Begin' = Begin + Unit, pos' = Begin + Unit,
         lead' = lead, emu' = emu, out' = Append(out, Bytes(Begin, Pass))
  PROVE  \E g \in Seq(Nat) : CutSoFar(g)'
<1>. USE UnitAssumption
<1>0. PICK b \in Nat : b = Begin  OBVIOUS
<1>. DEFINE g == Append(h, b)
<1>1. g \in Seq(Nat) /\ Len(g) = Len(h) + 1 /\ g[Len(h) + 1] = b /\ \A i \in 1 .. Len(h) : g[i] = h[i]
  BY AppendProperties
<1>2. ASSUME NEW end \in Nat, end >= pos'
      PROVE  StartsFrom(0, end)' = g \o StartsFrom(Begin, end)'
  <2>1. end >= b + Unit /\ end >= pos  BY <1>0, <1>2 DEF TypeOK
  <2>2. StartsFrom(0, end) = h \o StartsFrom(b, end)  BY <1>0, <2>1 DEF CutSoFar
  <2>3. StartsFrom(0, end)' = StartsFrom(0, end)  BY StartsSame
  <2>4. StartsFrom(Begin, end)' = StartsFrom(b + Unit, end)
    BY <1>0 DEF StartsFrom, IsSync
  <2>5. b + Unit \in Nat /\ IsSync(b) /\ b + Unit <= end  BY <1>0, <2>1
  <2>6. StartsFrom(b, end) = <<b>> \o StartsFrom(b + Unit, end)  BY <2>5, StartsFromDef
  <2>7. PICK r \in Seq(Nat) : r = StartsFrom(b + Unit, end)  BY <2>5, StartsFromDef
  <2>8. g \o r = h \o (<<b>> \o r)
    <3>1. g = h \o <<b>>  BY AppendProperties, ConcatProperties
    <3>2. (h \o <<b>>) \o r = h \o (<<b>> \o r)
      <4>1. <<b>> \in Seq(Nat)  OBVIOUS
      <4>. QED  BY <4>1, ConcatAssociative
    <3>. QED  BY <3>1, <3>2
  <2>. HIDE DEF g
  <2>. QED  BY <2>2, <2>3, <2>4, <2>6, <2>7, <2>8, Zenon
<1>3. out' = [i \in 1 .. Len(g) |-> Bytes(g[i], Pass)]
  <2>. DEFINE o == [i \in 1 .. Len(h) |-> Bytes(h[i], Pass)]
              t == [i \in 1 .. Len(g) |-> Bytes(g[i], Pass)]
  <2>1. \A i \in 1 .. Len(h) : Bytes(h[i], Pass) \in Seq(Nat)
    <3>1. \A i \in 1 .. Len(h) : h[i] \in Nat  OBVIOUS
    <3>. QED  BY <3>1, BytesSeq
  <2>2. Bytes(b, Pass) \in Seq(Nat)  BY BytesSeq
  <2>3. o \in Seq(Seq(Nat)) /\ Len(o) = Len(h)  BY <2>1
  <2>. HIDE DEF g
  <2>4. \A i \in 1 .. Len(g) : Bytes(g[i], Pass) \in Seq(Nat)
    <3>1. \A i \in 1 .. Len(g) : g[i] \in Nat  BY <1>1
    <3>. QED  BY <3>1, BytesSeq
  <2>5. t \in Seq(Seq(Nat)) /\ Len(t) = Len(g)  BY <1>1, <2>4
  <2>6. \A i \in 1 .. Len(h) : o[i] = t[i]  BY <1>1
  <2>7. t[Len(h) + 1] = Bytes(b, Pass)  BY <1>1
  <2>8. out' = Append(o, Bytes(b, Pass))  BY <1>0 DEF CutSoFar
  <2>. HIDE DEF o, t
  <2>9. Append(o, Bytes(b, Pass)) = t
    <3>1. PICK e \in Seq(Nat) : e = Bytes(b, Pass)  BY <2>2
    <3>2. /\ Append(o, e) \in Seq(Seq(Nat)) /\ Len(Append(o, e)) = Len(h) + 1
          /\ Append(o, e)[Len(h) + 1] = e /\ \A i \in 1 .. Len(h) : Append(o, e)[i] = o[i]
      BY <2>3, AppendProperties
    <3>3. ASSUME NEW i \in 1 .. Len(h) + 1 PROVE Append(o, e)[i] = t[i]
      BY <3>1, <3>2, <2>6, <2>7
    <3>. HIDE <3>1
    <3>4. Append(o, e) = t  BY <3>2, <3>3, <2>5, <1>1, SeqEqual
    <3>. QED  BY <3>1, <3>4
  <2>. QED  BY <2>8, <2>9 DEF t
<1>. HIDE DEF g
<1>4. CutSoFar(g)'  BY <1>2, <1>3 DEF CutSoFar, Bytes
<1>. QED  BY <1>1, <1>4

(* Where tsbuf begins and what it holds after more bytes were kept,        *)
LEMMA CutMore ==
  ASSUME TypeOK, Begin \in Nat, tsbuf = Bytes(Begin, Len(tsbuf)), NEW n \in Nat,
         pos' = pos + n, tsbuf' = tsbuf \o Bytes(pos, n)
  PROVE  /\ Begin' = Begin /\ tsbuf' \in Seq(Nat) /\ Len(tsbuf') = Len(tsbuf) + n
         /\ tsbuf' = Bytes(Begin, Len(tsbuf) + n)
<1>1. /\ pos \in Nat /\ tsbuf \in Seq(Nat) /\ Len(tsbuf) \in Nat
      /\ pos = Begin + Len(tsbuf)
  BY DEF TypeOK, Begin
<1>2. PICK b \in Nat, m \in Nat : b = Begin /\ m = Len(tsbuf)  BY <1>1
<1>3. tsbuf' = Bytes(b, m + n)
  <2>1. Bytes(b, m) \o Bytes(b + m, n) = Bytes(b, m + n)  BY BytesConcat, Zenon
  <2>. QED  BY <1>1, <1>2, <2>1
<1>4. m + n \in Nat  OBVIOUS
<1>5. tsbuf' \in Seq(Nat) /\ Len(tsbuf') = m + n  BY <1>3, <1>4, BytesSeq
<1>6. Begin' = b
  <2>1. Begin' = b + m + n - (m + n)  BY <1>1, <1>2, <1>5 DEF Begin
  <2>. QED  BY <2>1
<1>. QED  BY <1>2, <1>3, <1>5, <1>6

(* and after a packet has been handed on or a byte skipped.                *)
LEMMA CutEmpty ==
  ASSUME tsbuf' = << >>, pos' \in Nat
  PROVE  Begin' = pos' /\ Begin' \in Nat /\ tsbuf' = Bytes(Begin, Len(tsbuf))'
<1>1. Len(tsbuf') = 0  OBVIOUS
<1>2. Begin' = pos'
  <2>1. Begin' = pos' - 0  BY <1>1 DEF Begin
  <2>2. PICK p \in Nat : p = pos'  OBVIOUS
  <2>3. p - 0 = p  OBVIOUS
  <2>. QED  BY <2>1, <2>2, <2>3, Zenon
<1>3. PICK b \in Nat : b = Begin'  BY <1>2
<1>4. Bytes(b, 0) = << >>
  <2>1. Bytes(b, 0) \in Seq(Nat) /\ Len(Bytes(b, 0)) = 0  BY BytesSeq
  <2>. QED  BY <2>1, EmptySeq
<1>5. Bytes(Begin, Len(tsbuf))' = Bytes(b, 0)  BY <1>1, <1>3 DEF Bytes
<1>. QED  BY <1>2, <1>4, <1>5

(* The cut at the start, and after every action.                           *)
LEMMA CutInit == ResyncInit => CutInv
<1>. SUFFICES ASSUME ResyncInit PROVE CutInv  OBVIOUS
<1>1. TypeOK  BY SyncInit DEF SyncInv
<1>2. tsbuf = << >> /\ pos = 0 /\ out = << >> /\ Len(tsbuf) = 0  BY DEF ResyncInit
<1>3. Begin = 0
  <2>1. Begin = 0 - 0  BY <1>2 DEF Begin
  <2>. QED  BY <2>1
<1>4. tsbuf = Bytes(Begin, Len(tsbuf))
  <2>1. Bytes(0, 0) \in Seq(Nat) /\ Len(Bytes(0, 0)) = 0
    <3>1. 0 \in Nat  OBVIOUS
    <3>. QED  BY <3>1, BytesSeq, Zenon
  <2>. QED  BY <1>2, <1>3, <2>1, EmptySeq
<1>5. CutSoFar(<< >>)
  <2>1. out = [i \in 1 .. Len(<< >>) |-> Bytes(<< >>[i], Pass)]  BY <1>2
  <2>2. ASSUME NEW end \in Nat PROVE StartsFrom(0, end) = << >> \o StartsFrom(0, end)
    <3>1. StartsFrom(0, end) \in Seq(Nat)  BY StartsFromDef
    <3>2. PICK r \in Seq(Nat) : r = StartsFrom(0, end)  BY <3>1
    <3>3. << >> \o r = r  BY ConcatEmptySeq
    <3>. QED  BY <3>2, <3>3
  <2>. QED  BY <1>3, <2>1, <2>2 DEF CutSoFar
<1>6. << >> \in Seq(Nat)  OBVIOUS
<1>7. \E h \in Seq(Nat) : CutSoFar(h)  BY <1>5, <1>6, Zenon
<1>8. Begin \in Nat  BY <1>3
<1>. QED  BY <1>1, <1>2, <1>4, <1>7, <1>8, Zenon DEF CutInv

(* A chunk too short for the packet that is kept: one memcpy more.         *)
LEMMA CutKeepMore == CutInv /\ TypeOK' /\ KeepMore => CutInv'
<1>. SUFFICES ASSUME CutInv, TypeOK', KeepMore PROVE CutInv'  OBVIOUS
<1>1. /\ left \in Nat /\ pos \in Nat /\ tsbuf # << >> /\ tsbuf' = tsbuf \o Bytes(pos, left)
      /\ pos' = pos + left /\ lead' = lead /\ emu' = emu /\ out' = out
  BY DEF KeepMore, CutInv, TypeOK
<1>2. PICK h \in Seq(Nat) : CutSoFar(h)  BY DEF CutInv
<1>3. /\ Begin' = Begin /\ Begin \in Nat /\ Len(tsbuf') = Len(tsbuf) + left
      /\ tsbuf' = Bytes(Begin, Len(tsbuf) + left)
  BY <1>1, CutMore DEF CutInv
<1>4. IsSync(Begin)'  BY <1>1, <1>3 DEF CutInv, IsSync
<1>5. CutSoFar(h)'  BY <1>1, <1>2, <1>3, CutKept DEF CutInv
<1>6. tsbuf' = Bytes(Begin, Len(tsbuf))'  BY <1>3 DEF Bytes
<1>. QED  BY <1>3, <1>4, <1>5, <1>6 DEF CutInv

(* A chunk that ends inside a packet: its tail is kept.                    *)
LEMMA CutKeepTail == CutInv /\ TypeOK' /\ KeepTail => CutInv'
<1>. SUFFICES ASSUME CutInv, TypeOK', KeepTail PROVE CutInv'  OBVIOUS
<1>1. /\ left \in Nat /\ pos \in Nat /\ tsbuf = << >> /\ tsbuf' = Bytes(pos, left)
      /\ pos' = pos + left /\ lead' = lead /\ emu' = emu /\ out' = out /\ IsSync(pos)
  BY DEF KeepTail, CutInv, TypeOK
<1>2. PICK h \in Seq(Nat) : CutSoFar(h)  BY DEF CutInv
<1>3. tsbuf' = tsbuf \o Bytes(pos, left)
  <2>1. Bytes(pos, left) \in Seq(Nat)  BY <1>1, BytesSeq
  <2>2. << >> \o Bytes(pos, left) = Bytes(pos, left)  BY <2>1, ConcatEmptySeq
  <2>. QED  BY <1>1, <2>2
<1>4. /\ Begin' = Begin /\ Begin \in Nat /\ Len(tsbuf') = Len(tsbuf) + left
      /\ tsbuf' = Bytes(Begin, Len(tsbuf) + left)
  BY <1>1, <1>3, CutMore DEF CutInv
<1>5. Begin = pos
  <2>1. Begin = pos - 0  BY <1>1 DEF Begin
  <2>. QED  BY <1>1, <2>1
<1>6. IsSync(Begin)'  BY <1>1, <1>4, <1>5 DEF IsSync
<1>7. CutSoFar(h)'  BY <1>1, <1>2, <1>4, CutKept DEF CutInv
<1>8. tsbuf' = Bytes(Begin, Len(tsbuf))'  BY <1>4 DEF Bytes
<1>. QED  BY <1>4, <1>6, <1>7, <1>8 DEF CutInv

(* Bytes before a sync byte are skipped.                                   *)
LEMMA CutSkip == CutInv /\ TypeOK' /\ Skip => CutInv'
<1>. SUFFICES ASSUME CutInv, TypeOK', Skip PROVE CutInv'  OBVIOUS
<1>1. /\ pos \in Nat /\ tsbuf = << >> /\ tsbuf' = << >> /\ pos' = pos + 1 /\ pos' \in Nat
      /\ lead' = lead /\ emu' = emu /\ out' = out /\ ~IsSync(pos)
  BY DEF Skip, CutInv, TypeOK
<1>2. PICK h \in Seq(Nat) : CutSoFar(h)  BY DEF CutInv
<1>3. Begin = pos
  <2>1. Begin = pos - 0  BY <1>1 DEF Begin
  <2>. QED  BY <1>1, <2>1
<1>4. Begin' = pos' /\ Begin' \in Nat /\ tsbuf' = Bytes(Begin, Len(tsbuf))'  BY <1>1, CutEmpty
<1>5. CutSoFar(h)'  BY <1>1, <1>2, <1>3, <1>4, CutSkipped DEF CutInv
<1>. QED  BY <1>1, <1>4, <1>5 DEF CutInv

(* A whole packet of the chunk is handed on.                               *)
LEMMA CutWhole == CutInv /\ TypeOK' /\ Whole => CutInv'
<1>. SUFFICES ASSUME CutInv, TypeOK', Whole PROVE CutInv'  OBVIOUS
<1>. USE UnitAssumption
<1>1. /\ pos \in Nat /\ tsbuf = << >> /\ tsbuf' = << >> /\ pos' = pos + Unit /\ pos' \in Nat
      /\ lead' = lead /\ emu' = emu /\ out' = Append(out, Bytes(pos, Pass)) /\ IsSync(pos)
  BY DEF Whole, CutInv, TypeOK
<1>2. PICK h \in Seq(Nat) : CutSoFar(h)  BY DEF CutInv
<1>3. Begin = pos
  <2>1. Begin = pos - 0  BY <1>1 DEF Begin
  <2>. QED  BY <1>1, <2>1
<1>4. Begin' = pos' /\ Begin' \in Nat /\ tsbuf' = Bytes(Begin, Len(tsbuf))'  BY <1>1, CutEmpty
<1>5. \E g \in Seq(Nat) : CutSoFar(g)'  BY <1>1, <1>2, <1>3, <1>4, CutHanded DEF CutInv
<1>. QED  BY <1>1, <1>4, <1>5 DEF CutInv

(* The kept packet is completed and handed on.                             *)
LEMMA CutComplete == CutInv /\ TypeOK' /\ Complete => CutInv'
<1>. SUFFICES ASSUME CutInv, TypeOK', Complete PROVE CutInv'  OBVIOUS
<1>. USE UnitAssumption
<1>. DEFINE len == Len(tsbuf)
            j == Unit - len
            unit == tsbuf \o Bytes(pos, j)
<1>1. /\ pos \in Nat /\ tsbuf \in Seq(Nat) /\ tsbuf # << >> /\ len \in Nat /\ j \in Nat
      /\ len + j = Unit /\ Begin \in Nat /\ tsbuf = Bytes(Begin, len) /\ pos = Begin + len
      /\ IsSync(Begin)
  <2>1. /\ pos \in Nat /\ tsbuf \in Seq(Nat) /\ tsbuf # << >> /\ len \in Nat /\ len < Unit
        /\ Begin \in Nat /\ tsbuf = Bytes(Begin, len) /\ IsSync(Begin)
    BY DEF CutInv, TypeOK, Complete
  <2>. HIDE DEF len
  <2>2. j \in Nat /\ len + j = Unit  BY <2>1
  <2>3. pos = Begin + len  BY <2>1 DEF Begin, len
  <2>. QED  BY <2>1, <2>2, <2>3
<1>2. /\ out' = (IF IsSync(unit[1]) THEN Append(out, SubSeq(unit, 1, Pass)) ELSE out)
      /\ pos' = pos + j /\ tsbuf' = << >> /\ pos' \in Nat
      /\ lead' = lead /\ emu' = emu
  BY DEF Complete, TypeOK
<1>. HIDE DEF unit, j, len
<1>3. PICK h \in Seq(Nat) : CutSoFar(h)  BY DEF CutInv
<1>4. PICK b \in Nat, m \in Nat, n \in Nat : b = Begin /\ m = len /\ n = j  BY <1>1
<1>5. unit = Bytes(b, Unit)
  <2>1. Bytes(b, m) \o Bytes(b + m, n) = Bytes(b, m + n)  BY BytesConcat, Zenon
  <2>. QED  BY <1>1, <1>4, <2>1 DEF unit
<1>6. SubSeq(unit, 1, Pass) = Bytes(b, Pass)
  <2>1. SubSeq(Bytes(b, Unit), 1, Pass) = Bytes(b, Pass)  BY BytesPrefix
  <2>. QED  BY <1>5, <2>1
<1>7. unit[1] = b
  <2>1. 1 \in 1 .. Unit  OBVIOUS
  <2>2. Bytes(b, Unit)[1] = b + 1 - 1  BY <2>1, BytesSeq, Zenon
  <2>3. b + 1 - 1 = b  OBVIOUS
  <2>. QED  BY <1>5, <2>2, <2>3, Zenon
<1>8. out' = Append(out, Bytes(Begin, Pass))  BY <1>1, <1>2, <1>4, <1>6, <1>7
<1>9. pos' = Begin + Unit /\ pos <= Begin + Unit  BY <1>1, <1>2
<1>10. Begin' = pos' /\ Begin' \in Nat /\ tsbuf' = Bytes(Begin, Len(tsbuf))'  BY <1>2, CutEmpty
<1>11. \E g \in Seq(Nat) : CutSoFar(g)'
  BY <1>1, <1>2, <1>3, <1>8, <1>9, <1>10, CutHanded DEF CutInv
<1>. QED  BY <1>2, <1>10, <1>11 DEF CutInv

(* Every step keeps the invariant of the cut.                              *)
LEMMA CutNext == CutInv /\ TypeOK' /\ [ResyncNext]_resync_vars => CutInv'
<1>. SUFFICES ASSUME CutInv, TypeOK', [ResyncNext]_resync_vars PROVE CutInv'  OBVIOUS
<1>1. ASSUME lead' = lead, emu' = emu, pos' = pos, tsbuf' = tsbuf, out' = out PROVE CutInv'
  <2>1. Begin' = Begin  BY <1>1 DEF Begin
  <2>2. PICK h \in Seq(Nat) : CutSoFar(h)  BY DEF CutInv
  <2>3. pos' \in Nat /\ pos' >= pos  BY <1>1 DEF CutInv, TypeOK
  <2>4. CutSoFar(h)'  BY <1>1, <2>1, <2>2, <2>3, CutKept DEF CutInv
  <2>. QED  BY <1>1, <2>1, <2>4 DEF CutInv, IsSync, Bytes
<1>2. ASSUME NEW count \in 1 .. MaxChunk, Chunk(count) PROVE CutInv'
  BY <1>1, <1>2 DEF Chunk
<1>3. CASE UNCHANGED resync_vars  BY <1>1, <1>3 DEF resync_vars
<1>. QED
  BY <1>2, <1>3, CutKeepMore, CutComplete, CutSkip, CutWhole, CutKeepTail DEF ResyncNext

(* Between two passes of the loop everything up to pos has been handed on. *)
LEMMA CutDone == CutInv => ChunkingIrrelevant
<1>. SUFFICES ASSUME CutInv PROVE ChunkingIrrelevant  OBVIOUS
<1>. USE UnitAssumption
<1>1. PICK h \in Seq(Nat) : CutSoFar(h)  BY DEF CutInv
<1>2. PICK b \in Nat, p \in Nat : b = Begin /\ p = pos  BY DEF CutInv, TypeOK
<1>3. b + Unit > p
  <2>1. Len(tsbuf) \in Nat /\ Len(tsbuf) < Unit /\ pos \in Nat  BY DEF CutInv, TypeOK
  <2>. QED  BY <1>2, <2>1 DEF Begin
<1>4. StartsFrom(b, p) = << >>  BY <1>3, StartsFromDef
<1>5. h \o << >> = h  BY ConcatEmptySeq
<1>6. StartsFrom(0, pos) = h
  <2>1. pos \in Nat /\ pos >= pos  BY <1>2
  <2>2. StartsFrom(0, pos) = h \o StartsFrom(Begin, pos)  BY <1>1, <2>1 DEF CutSoFar
  <2>3. StartsFrom(Begin, pos) = StartsFrom(b, p)  BY <1>2
  <2>. QED  BY <1>4, <1>5, <2>2, <2>3
<1>. QED  BY <1>1, <1>6 DEF ChunkingIrrelevant, CutSoFar

(* The packets dvb_dmx_swfilter hands on are those of the stream taken as  *)
(* one chunk, for every stream, every Unit and every way the DMA cuts it.  *)
THEOREM ResyncChunking == ResyncSpec => []ChunkingIrrelevant
<1>1. TypeOK /\ CutInv /\ TypeOK' /\ [ResyncNext]_resync_vars => CutInv'  BY CutNext
<1>. QED  BY <1>1, CutInit, CutDone, ResyncTypeOK, PTL DEF ResyncSpec

-----------------------------------------------------------------------------
(* Sections in secbuf_base                                                 *)

(* Induction over the naturals, for a set.                                 *)
LEMMA Induction ==
  ASSUME NEW S \in SUBSET Nat, 0 \in S, \A n \in S : n + 1 \in S
  PROVE  S = Nat
<1>. DEFINE Bad == Nat \ S
<1>. SUFFICES ASSUME Bad # {} PROVE FALSE  OBVIOUS
<1>1. PICK n \in Bad : \A m \in Bad : n <= m  BY Least
<1>2. n # 0 /\ n - 1 \in Nat /\ n - 1 \notin Bad  BY <1>1
<1>3. n - 1 \in S  BY <1>2
<1>4. n - 1 + 1 \in S  BY <1>3
<1>. QED  BY <1>1, <1>2, <1>4

(* The bytes of the stream: stuffing, or byte k of the l bytes of section  *)
(* s.                                                                      *)
Byte == {Stuff} \union {<<s, k, l>> : s \in Nat \ {0}, k \in 1 .. MaxSectionSize, l \in Lengths}

InByte(x) ==
  /\ x[1] \in Nat /\ x[2] \in Nat /\ x[3] \in Nat
  /\ x[1] = 0 <=> x = Stuff
  /\ x[1] # 0 => x[2] >= 1 /\ x[3] \in Lengths /\ 3 <= x[3] /\ x[3] <= MaxSectionSize
  /\ x = <<x[1], x[2], x[3]>>

(* The three parts of a byte of the model.                                 *)
LEMMA ByteFields == \A x \in Byte : InByte(x)
<1>. TAKE x \in Byte
<1>1. CASE x = Stuff  BY <1>1 DEF Stuff, InByte
<1>2. CASE x # Stuff
  <2>1. PICK s \in Nat \ {0}, k \in 1 .. MaxSectionSize, l \in Lengths : x = <<s, k, l>>
    BY <1>2 DEF Byte
  <2>2. l \in Nat /\ 3 <= l /\ l <= MaxSectionSize /\ k \in Nat /\ 1 <= k
    BY SectionConstants
  <2>3. x[1] = s /\ x[2] = k /\ x[3] = l  BY <2>1
  <2>. QED  BY <1>2, <2>1, <2>2, <2>3 DEF InByte
<1>. QED  BY <1>1, <1>2

(* b can follow a in the bytes after a pointer.                            *)
Links(a, b) ==
  IF a[1] = 0 THEN b[1] = 0
  ELSE IF a[2] < a[3] THEN b[1] = a[1] /\ b[2] = a[2] + 1 /\ b[3] = a[3]
  ELSE b[1] = 0 \/ (b[1] = a[1] + 1 /\ b[2] = 1)

Linked(b) == \A i \in 1 .. Len(b) - 1 : Links(b[i], b[i + 1])

SectionStart(x) == x[1] > 0 /\ x[2] = 1

(* No section is cut at index p of secbuf_base.                            *)
Between(b, p) ==
  /\ p > 0 => b[p][1] = 0 \/ b[p][2] = b[p][3]
  /\ p < Len(b) => b[p + 1][1] = 0 \/ b[p + 1][2] = 1

(* Every byte of a buffer is one.                                          *)
LEMMA SeqBytes ==
  ASSUME NEW b \in Seq(Byte)
  PROVE  Len(b) \in Nat /\ \A i \in 1 .. Len(b) : b[i] \in Byte /\ InByte(b[i])
<1>1. Len(b) \in Nat /\ \A i \in 1 .. Len(b) : b[i] \in Byte  OBVIOUS
<1>. QED  BY <1>1, ByteFields

(* The bytes behind the start of a section are those of the section.       *)
LEMMA Chain ==
  ASSUME NEW b \in Seq(Byte), Linked(b), NEW p \in Nat, p < Len(b), SectionStart(b[p + 1])
  PROVE  \A k \in 1 .. b[p + 1][3] :
           p + k <= Len(b) => b[p + k][1] = b[p + 1][1] /\ b[p + k][2] = k /\ b[p + k][3] = b[p + 1][3]
<1>1. Len(b) \in Nat /\ \A i \in 1 .. Len(b) : InByte(b[i])  BY SeqBytes
<1>2. PICK s \in Nat, l \in Nat : s = b[p + 1][1] /\ l = b[p + 1][3] /\ s > 0 /\ b[p + 1][2] = 1
  BY <1>1 DEF InByte, SectionStart
<1>. DEFINE Right(k) == b[p + k][1] = s /\ b[p + k][2] = k /\ b[p + k][3] = l
            S == {n \in Nat : n + 1 <= l /\ p + (n + 1) <= Len(b) => Right(n + 1)}
<1>3. 0 \in S  BY <1>2
<1>4. ASSUME NEW n \in S PROVE n + 1 \in S
  <2>. SUFFICES ASSUME n + 1 + 1 <= l, p + (n + 1 + 1) <= Len(b) PROVE Right(n + 1 + 1)  BY <1>4
  <2>1. n \in Nat /\ n + 1 <= l /\ p + (n + 1) <= Len(b) /\ Right(n + 1)  BY <1>1, <1>2, <1>4
  <2>2. p + n + 1 \in 1 .. Len(b) - 1  BY <1>1, <2>1
  <2>3. Links(b[p + n + 1], b[p + n + 1 + 1])  BY <2>2 DEF Linked
  <2>4. p + (n + 1) = p + n + 1 /\ p + (n + 1 + 1) = p + n + 1 + 1  BY <2>1
  <2>. QED  BY <1>2, <2>1, <2>3, <2>4 DEF Links
<1>. HIDE DEF S
<1>5. S = Nat
  <2>1. S \in SUBSET Nat  BY DEF S
  <2>. QED  BY <1>3, <1>4, <2>1, Induction
<1>6. ASSUME NEW k \in 1 .. l, p + k <= Len(b) PROVE Right(k)
  <2>1. k - 1 \in S /\ k - 1 + 1 = k  BY <1>5
  <2>. QED  BY <1>6, <2>1 DEF S
<1>. QED  BY <1>2, <1>6

(* A byte of a section has the beginning of the section before it.         *)
LEMMA Back ==
  ASSUME NEW b \in Seq(Byte), Linked(b), Between(b, 0), NEW i \in 1 .. Len(b), b[i][1] # 0
  PROVE  /\ b[i][2] <= i /\ SectionStart(b[i - b[i][2] + 1])
         /\ b[i - b[i][2] + 1][1] = b[i][1] /\ b[i - b[i][2] + 1][3] = b[i][3]
<1>1. Len(b) \in Nat /\ \A j \in 1 .. Len(b) : InByte(b[j])  BY SeqBytes
<1>. DEFINE Right(j) == /\ b[j][2] <= j /\ SectionStart(b[j - b[j][2] + 1])
                        /\ b[j - b[j][2] + 1][1] = b[j][1] /\ b[j - b[j][2] + 1][3] = b[j][3]
            S == {n \in Nat : n + 1 <= Len(b) /\ b[n + 1][1] # 0 => Right(n + 1)}
<1>2. ASSUME NEW j \in 1 .. Len(b), b[j][1] # 0, b[j][2] = 1 PROVE Right(j)
  <2>1. j - b[j][2] + 1 = j  BY <1>2
  <2>2. b[j][1] > 0  BY <1>1, <1>2 DEF InByte
  <2>. QED  BY <1>2, <2>1, <2>2 DEF SectionStart
<1>3. 0 \in S
  <2>. SUFFICES ASSUME 1 <= Len(b), b[1][1] # 0 PROVE Right(1)  OBVIOUS
  <2>1. b[1][2] = 1  BY <1>1 DEF Between
  <2>. QED  BY <1>2, <2>1
<1>4. ASSUME NEW n \in S PROVE n + 1 \in S
  <2>m. PICK m \in Nat : m = n + 1  BY <1>4
  <2>. SUFFICES ASSUME m + 1 <= Len(b), b[m + 1][1] # 0 PROVE Right(m + 1)  BY <1>4, <2>m
  <2>0. n \in Nat /\ m \in 1 .. Len(b) - 1 /\ m + 1 \in 1 .. Len(b) /\ m \in 1 .. Len(b)
    BY <1>1, <1>4, <2>m
  <2>1. Links(b[m], b[m + 1])  BY <2>0 DEF Linked
  <2>2. InByte(b[m]) /\ InByte(b[m + 1])  BY <2>0, <1>1
  <2>3. CASE b[m + 1][2] = 1  BY <2>0, <2>3, <1>2
  <2>4. CASE b[m + 1][2] # 1
    <3>1. b[m][1] # 0 /\ b[m + 1][1] = b[m][1] /\ b[m + 1][2] = b[m][2] + 1 /\ b[m + 1][3] = b[m][3]
      BY <2>1, <2>2, <2>4 DEF Links
    <3>2. Right(m)
      <4>1. m <= Len(b)  BY <2>0
      <4>. QED  BY <1>4, <2>m, <3>1, <4>1
    <3>3. (m + 1) - b[m + 1][2] + 1 = m - b[m][2] + 1
      <4>1. PICK y \in Nat : y = b[m][2]  BY <2>2 DEF InByte
      <4>2. (m + 1) - (y + 1) + 1 = m - y + 1  OBVIOUS
      <4>. QED  BY <3>1, <4>1, <4>2, Zenon
    <3>4. b[m + 1][2] <= m + 1  BY <2>0, <2>2, <3>1, <3>2 DEF InByte
    <3>5. b[(m + 1) - b[m + 1][2] + 1] = b[m - b[m][2] + 1]  BY <3>3, Zenon
    <3>. DEFINE t == b[m - b[m][2] + 1]
    <3>6. SectionStart(t) /\ t[1] = b[m + 1][1] /\ t[3] = b[m + 1][3]  BY <3>1, <3>2
    <3>7. b[(m + 1) - b[m + 1][2] + 1] = t  BY <3>5
    <3>. HIDE DEF t
    <3>8. SectionStart(b[(m + 1) - b[m + 1][2] + 1])  BY <3>6, <3>7, Zenon
    <3>9. b[(m + 1) - b[m + 1][2] + 1][1] = b[m + 1][1]  BY <3>6, <3>7, Zenon
    <3>10. b[(m + 1) - b[m + 1][2] + 1][3] = b[m + 1][3]  BY <3>6, <3>7, Zenon
    <3>. QED  BY <3>4, <3>8, <3>9, <3>10
  <2>. QED  BY <2>3, <2>4
<1>. HIDE DEF S
<1>5. S = Nat
  <2>1. S \in SUBSET Nat  BY DEF S
  <2>. QED  BY <1>3, <1>4, <2>1, Induction
<1>6. i - 1 \in S /\ i - 1 + 1 = i  BY <1>1, <1>5
<1>. QED  BY <1>6 DEF S

(* Sections come in the order of their numbers, with stuffing last.        *)
LEMMA Increasing ==
  ASSUME NEW b \in Seq(Byte), Linked(b), NEW i \in 1 .. Len(b), NEW j \in 1 .. Len(b), i <= j,
         b[j][1] # 0
  PROVE  b[i][1] # 0 /\ b[i][1] <= b[j][1] /\ (i < j /\ b[j][2] = 1 => b[i][1] < b[j][1])
<1>1. Len(b) \in Nat /\ \A k \in 1 .. Len(b) : InByte(b[k])  BY SeqBytes
<1>. DEFINE Right(k) == b[i][1] # 0 /\ b[i][1] <= b[k][1] /\ (i < k /\ b[k][2] = 1 => b[i][1] < b[k][1])
            S == {n \in Nat : i + n <= Len(b) /\ b[i + n][1] # 0 => Right(i + n)}
<1>2. i \in Nat /\ InByte(b[i])  BY <1>1
<1>3. 0 \in S  BY <1>2 DEF InByte
<1>4. ASSUME NEW n \in S PROVE n + 1 \in S
  <2>. SUFFICES ASSUME i + (n + 1) <= Len(b), b[i + (n + 1)][1] # 0 PROVE Right(i + (n + 1))  BY <1>4
  <2>. DEFINE m == i + n
  <2>0. /\ n \in Nat /\ m \in Nat /\ m \in 1 .. Len(b) - 1 /\ m + 1 \in 1 .. Len(b) /\ m \in 1 .. Len(b)
        /\ i + (n + 1) = m + 1 /\ i <= m
    BY <1>1, <1>4
  <2>1. Links(b[m], b[m + 1])  BY <2>0 DEF Linked
  <2>2. InByte(b[m]) /\ InByte(b[m + 1])  BY <2>0, <1>1
  <2>3. b[m][1] # 0  BY <2>0, <2>1 DEF Links
  <2>4. Right(m)  BY <1>4, <2>0, <2>3
  <2>5. b[m + 1][1] = b[m][1] \/ b[m + 1][1] = b[m][1] + 1  BY <2>0, <2>1, <2>3 DEF Links
  <2>6. ASSUME b[m + 1][2] = 1 PROVE b[m + 1][1] = b[m][1] + 1
    BY <2>0, <2>1, <2>2, <2>3, <2>6 DEF Links, InByte
  <2>7. b[m][1] \in Nat /\ b[i][1] \in Nat /\ b[m + 1][1] \in Nat  BY <1>2, <2>2 DEF InByte
  <2>. HIDE DEF m
  <2>8. b[i][1] # 0 /\ b[i][1] <= b[m + 1][1]  BY <2>4, <2>5, <2>7
  <2>9. ASSUME b[m + 1][2] = 1 PROVE b[i][1] < b[m + 1][1]
    <3>1. b[m + 1][1] = b[m][1] + 1 /\ b[i][1] <= b[m][1]  BY <2>4, <2>6, <2>9
    <3>2. PICK x \in Nat, y \in Nat : x = b[i][1] /\ y = b[m][1]  BY <2>7
    <3>3. x < y + 1  BY <3>1, <3>2
    <3>. QED  BY <3>1, <3>2, <3>3, Zenon
  <2>. QED  BY <2>0, <2>8, <2>9
<1>. HIDE DEF S
<1>5. S = Nat
  <2>1. S \in SUBSET Nat  BY DEF S
  <2>. QED  BY <1>3, <1>4, <2>1, Induction
<1>6. j - i \in S /\ i + (j - i) = j /\ j <= Len(b)  BY <1>1, <1>5
<1>. QED  BY <1>6 DEF S

(* Two slices are equal if their elements are.                             *)
LEMMA SlicesEqual ==
  ASSUME NEW T, NEW a \in Seq(T), NEW b \in Seq(T), NEW i \in Nat, NEW j \in Nat, NEW n \in Nat,
         i + n <= Len(a), j + n <= Len(b), \A k \in 1 .. n : a[i + k] = b[j + k]
  PROVE  SubSeq(a, i + 1, i + n) = SubSeq(b, j + 1, j + n)
<1>1. \A k \in i + 1 .. i + n : a[k] \in T
  <2>1. \A k \in i + 1 .. i + n : k \in 1 .. Len(a)  OBVIOUS
  <2>. QED  BY <2>1
<1>2. \A k \in j + 1 .. j + n : b[k] \in T
  <2>1. \A k \in j + 1 .. j + n : k \in 1 .. Len(b)  OBVIOUS
  <2>. QED  BY <2>1
<1>. DEFINE u == SubSeq(a, i + 1, i + n)
            v == SubSeq(b, j + 1, j + n)
<1>3. u \in Seq(T) /\ Len(u) = n /\ \A k \in 1 .. n : u[k] = a[i + k]
  BY <1>1, SubSeqProperties
<1>4. v \in Seq(T) /\ Len(v) = n /\ \A k \in 1 .. n : v[k] = b[j + k]
  BY <1>2, SubSeqProperties
<1>5. \A k \in 1 .. n : u[k] = v[k]  BY <1>3, <1>4
<1>. HIDE DEF u, v
<1>6. u = v  BY <1>3, <1>4, <1>5, SeqEqual
<1>. QED  BY <1>6 DEF u, v

(* The bytes of a section.                                                 *)
LEMMA SectionBytesSeq ==
  ASSUME NEW s \in Nat, s > 0, NEW l \in Lengths
  PROVE  /\ SectionBytes(s, l) \in Seq(Byte) /\ Len(SectionBytes(s, l)) = l /\ l \in Nat /\ 3 <= l
         /\ l <= MaxSectionSize
         /\ \A k \in 1 .. l : SectionBytes(s, l)[k] = <<s, k, l>>
<1>1. l \in Nat /\ 3 <= l /\ l <= MaxSectionSize  BY SectionConstants
<1>2. \A k \in 1 .. l : <<s, k, l>> \in Byte
  <2>1. \A k \in 1 .. l : k \in 1 .. MaxSectionSize  BY <1>1, SectionConstants
  <2>. QED  BY <2>1 DEF Byte
<1>3. SectionBytes(s, l) \in [1 .. l -> Byte]  BY <1>2 DEF SectionBytes
<1>4. SectionBytes(s, l) \in Seq(Byte) /\ Len(SectionBytes(s, l)) = l  BY <1>1, <1>3
<1>. QED  BY <1>1, <1>4 DEF SectionBytes

(* A misread header spells a length like any other.                        *)
GarbleOK == garble \in Nat /\ garble >= 3

(* The length read at an index: at least 3 everywhere,                     *)
LEMMA LengthAny ==
  ASSUME GarbleOK, NEW b \in Seq(Byte), NEW p \in Nat, p + 3 <= Len(b)
  PROVE  SectionLength(b, p) \in Nat /\ SectionLength(b, p) >= 3
<1>1. Len(b) \in Nat /\ \A i \in 1 .. Len(b) : InByte(b[i])  BY SeqBytes
<1>2. InByte(b[p + 1])  BY <1>1
<1>3. b[p + 1] # Stuff => b[p + 1][3] \in Nat /\ b[p + 1][3] >= 3  BY <1>2 DEF InByte
<1>4. MaxSectionSize + 2 \in Nat /\ MaxSectionSize + 2 >= 3  BY SectionConstants
<1>5. HeaderAt(b, p) => b[p + 1] # Stuff  BY DEF HeaderAt
<1>6. \/ SectionLength(b, p) = MaxSectionSize + 2
      \/ SectionLength(b, p) = garble
      \/ HeaderAt(b, p) /\ SectionLength(b, p) = b[p + 1][3]
  BY DEF SectionLength
<1>. QED  BY <1>3, <1>4, <1>5, <1>6 DEF GarbleOK

(* the length of the section where one starts,                             *)
LEMMA LengthStart ==
  ASSUME NEW b \in Seq(Byte), Linked(b), NEW p \in Nat, p + 3 <= Len(b), SectionStart(b[p + 1])
  PROVE  SectionLength(b, p) = b[p + 1][3]
<1>1. Len(b) \in Nat /\ \A i \in 1 .. Len(b) : InByte(b[i])  BY SeqBytes
<1>2. InByte(b[p + 1]) /\ InByte(b[p + 2])  BY <1>1
<1>3. PICK s \in Nat, l \in Lengths : s = b[p + 1][1] /\ l = b[p + 1][3] /\ s > 0
  BY <1>2 DEF InByte, SectionStart
<1>4. /\ SectionBytes(s, l) \in Seq(Byte) /\ Len(SectionBytes(s, l)) = l /\ 3 <= l /\ l \in Nat
      /\ \A k \in 1 .. l : SectionBytes(s, l)[k] = <<s, k, l>>
  BY <1>3, SectionBytesSeq
<1>10. \A k \in 1 .. l : p + k <= Len(b) => b[p + k][1] = s /\ b[p + k][2] = k /\ b[p + k][3] = l
  <2>1. p < Len(b)  BY <1>1
  <2>. QED  BY <1>3, <2>1, Chain
<1>5. \A k \in 1 .. 3 : b[p + k] = <<s, k, l>>
  <2>. TAKE k \in 1 .. 3
  <2>1. p + k \in 1 .. Len(b) /\ k \in 1 .. l  BY <1>1, <1>4
  <2>2. b[p + k][1] = s /\ b[p + k][2] = k /\ b[p + k][3] = l
    BY <1>1, <1>10, <2>1
  <2>3. b[p + k] = <<b[p + k][1], b[p + k][2], b[p + k][3]>>  BY <1>1, <2>1 DEF InByte
  <2>. QED  BY <2>2, <2>3
<1>6. SubSeq(b, p + 1, p + 3) = SubSeq(SectionBytes(s, l), 1, 3)
  <2>1. PICK c \in Seq(Byte) : c = SectionBytes(s, l) /\ Len(c) = l /\ \A k \in 1 .. l : c[k] = <<s, k, l>>
    BY <1>4
  <2>2. ASSUME NEW k \in 1 .. 3 PROVE b[p + k] = c[0 + k]
    <3>1. 0 + k = k /\ k \in 1 .. l  BY <1>4
    <3>2. c[k] = <<s, k, l>>  BY <2>1, <3>1
    <3>3. b[p + k] = <<s, k, l>>  BY <1>5
    <3>. QED  BY <3>1, <3>2, <3>3, Zenon
  <2>3. p + 3 <= Len(b) /\ 0 + 3 <= Len(c)  BY <1>4, <2>1
  <2>4. SubSeq(b, p + 1, p + 3) = SubSeq(c, 0 + 1, 0 + 3)
    <3>1. 0 \in Nat /\ 3 \in Nat  OBVIOUS
    <3>. QED  BY <2>2, <2>3, <3>1, SlicesEqual
  <2>5. 0 + 1 = 1 /\ 0 + 3 = 3  OBVIOUS
  <2>. QED  BY <2>1, <2>4, <2>5
<1>7. b[p + 1] # Stuff  BY <1>2, <1>3 DEF InByte
<1>8. HeaderAt(b, p)  BY <1>3, <1>6, <1>7 DEF HeaderAt
<1>9. b[p + 2] # Stuff
  <2>1. b[p + 2][1] = s
    <3>1. 2 \in 1 .. l /\ p + 2 <= Len(b)  BY <1>1, <1>4
    <3>. QED  BY <1>10, <3>1
  <2>. QED  BY <1>2, <1>3, <2>1 DEF InByte
<1>. QED  BY <1>8, <1>9 DEF SectionLength

(* and too large in stuffing.                                              *)
LEMMA LengthStuff ==
  ASSUME NEW b \in Seq(Byte), Linked(b), NEW p \in Nat, p + 3 <= Len(b), b[p + 1][1] = 0
  PROVE  SectionLength(b, p) = MaxSectionSize + 2
<1>1. Len(b) \in Nat /\ \A i \in 1 .. Len(b) : InByte(b[i])  BY SeqBytes
<1>2. InByte(b[p + 1]) /\ InByte(b[p + 2]) /\ InByte(b[p + 3])  BY <1>1
<1>3. Links(b[p + 1], b[p + 2])
  <2>1. p + 1 \in 1 .. Len(b) - 1 /\ p + 1 + 1 = p + 2  BY <1>1
  <2>. QED  BY <2>1 DEF Linked
<1>4. Links(b[p + 2], b[p + 3])
  <2>1. p + 2 \in 1 .. Len(b) - 1 /\ p + 2 + 1 = p + 3  BY <1>1
  <2>. QED  BY <2>1 DEF Linked
<1>5. b[p + 2][1] = 0 /\ b[p + 3][1] = 0  BY <1>3, <1>4 DEF Links
<1>6. b[p + 1] = Stuff /\ b[p + 2] = Stuff /\ b[p + 3] = Stuff  BY <1>2, <1>5 DEF InByte
<1>7. ~HeaderAt(b, p)  BY <1>6 DEF HeaderAt
<1>. QED  BY <1>6, <1>7 DEF SectionLength

(* The loop of copy_dump goes on at q.                                     *)
Goes(b, q) ==
  /\ q + 2 < Len(b)
  /\ SectionLength(b, q) <= MaxSectionSize /\ SectionLength(b, q) + q <= Len(b)

(* g notes the sections of the loop, whose length at q is sl[q] where it   *)
(* goes on and 0 where it stops.                                           *)
LoopsAt(g, sl, n) ==
  g = [q \in 0 .. n |-> IF sl[q] = 0 THEN << >> ELSE <<q>> \o g[q + sl[q]]]

(* There is such a function,                                               *)
LEMMA LoopWalk ==
  ASSUME NEW n \in Nat, NEW sl \in [0 .. n -> Nat], \A q \in 0 .. n : q + sl[q] <= n
  PROVE  \E f \in [0 .. n -> Seq(Nat)] : LoopsAt(f, sl, n)
<1>. DEFINE D == 0 .. n
            stop == [q \in D |-> sl[q] = 0]
            pre == [q \in D |-> <<q>>]
            next == [q \in D |-> q + sl[q]]
            rank == [q \in D |-> n - q]
<1>1. stop \in [D -> BOOLEAN]  OBVIOUS
<1>2. pre \in [D -> Seq(Nat)]
  <2>1. \A q \in D : <<q>> \in Seq(Nat)  OBVIOUS
  <2>. QED  BY <2>1
<1>3. next \in [D -> D]
  <2>1. \A q \in D : q + sl[q] \in D  OBVIOUS
  <2>. QED  BY <2>1
<1>4. rank \in [D -> 0 .. n]
  <2>1. \A q \in D : n - q \in 0 .. n  OBVIOUS
  <2>. QED  BY <2>1
<1>5. \A q \in D : ~stop[q] => rank[next[q]] < rank[q]
  <2>. TAKE q \in D
  <2>1. q + sl[q] \in D /\ sl[q] \in Nat  OBVIOUS
  <2>2. stop[q] = (sl[q] = 0) /\ next[q] = q + sl[q]  OBVIOUS
  <2>3. rank[q] = n - q /\ rank[q + sl[q]] = n - (q + sl[q])  BY <2>1
  <2>4. sl[q] # 0 => n - (q + sl[q]) < n - q  BY <2>1
  <2>. QED  BY <2>2, <2>3, <2>4
<1>6. WalksEnd(D, Nat, n)  BY WalkExists
<1>7. \A q \in D : stop[q] = (sl[q] = 0) /\ pre[q] = <<q>> /\ next[q] = q + sl[q]  OBVIOUS
<1>. HIDE DEF stop, pre, next, rank, D
<1>8. PICK f \in [D -> Seq(Nat)] : \A q \in D : f[q] = IF stop[q] THEN << >> ELSE pre[q] \o f[next[q]]
  BY <1>1, <1>2, <1>3, <1>4, <1>5, <1>6, Zenon DEF WalksEnd
<1>9. \A q \in D : f[q] = IF sl[q] = 0 THEN << >> ELSE <<q>> \o f[q + sl[q]]  BY <1>7, <1>8
<1>. QED  BY <1>8, <1>9 DEF LoopsAt, D

(* and only one.                                                           *)
LEMMA LoopUnique ==
  ASSUME NEW n \in Nat, NEW sl \in [0 .. n -> Nat], \A q \in 0 .. n : q + sl[q] <= n,
         NEW f, NEW g, LoopsAt(f, sl, n), LoopsAt(g, sl, n)
  PROVE  f = g
<1>1. \A q \in 0 .. n : f[q] = IF sl[q] = 0 THEN << >> ELSE <<q>> \o f[q + sl[q]]  BY DEF LoopsAt
<1>2. \A q \in 0 .. n : g[q] = IF sl[q] = 0 THEN << >> ELSE <<q>> \o g[q + sl[q]]  BY DEF LoopsAt
<1>. DEFINE Bad == {k \in Nat : k <= n /\ f[n - k] # g[n - k]}
<1>3. Bad = {}
  <2>. SUFFICES ASSUME Bad # {} PROVE FALSE  OBVIOUS
  <2>1. PICK k \in Bad : \A m \in Bad : k <= m  BY Least
  <2>2. PICK q \in 0 .. n : q = n - k /\ k = n - q /\ f[q] # g[q] /\ k \in Nat
    <3>1. n - k \in 0 .. n /\ k = n - (n - k)  BY <2>1
    <3>. QED  BY <2>1, <3>1
  <2>3. sl[q] # 0  BY <1>1, <1>2, <2>2, Zenon
  <2>4. PICK l \in Nat : l = sl[q] /\ l # 0 /\ q + l <= n  BY <2>2, <2>3
  <2>5. PICK r \in 0 .. n : r = q + l  BY <2>2, <2>4
  <2>6. n - r \in Nat /\ n - r < k /\ n - (n - r) = r /\ n - r <= n
    <3>1. r \in Nat /\ r <= n /\ q \in Nat /\ r > q  BY <2>2, <2>4, <2>5
    <3>2. n - r \in Nat /\ n - (n - r) = r /\ n - r <= n  BY <3>1
    <3>3. n - r < n - q  BY <3>1
    <3>. QED  BY <2>2, <3>2, <3>3
  <2>7. n - r \notin Bad
    <3>. HIDE DEF Bad
    <3>. QED  BY <2>1, <2>2, <2>6
  <2>8. f[r] = g[r]  BY <2>6, <2>7
  <2>9. f[q] = <<q>> \o f[r] /\ g[q] = <<q>> \o g[r]  BY <1>1, <1>2, <2>2, <2>3, <2>4, <2>5
  <2>. QED  BY <2>2, <2>8, <2>9
<1>4. ASSUME NEW q \in 0 .. n PROVE f[q] = g[q]
  <2>1. n - q \in Nat /\ n - q <= n /\ n - (n - q) = q  OBVIOUS
  <2>. QED  BY <1>3, <2>1
<1>. QED  BY <1>4 DEF LoopsAt

(* What SectionsFrom computes: its definition read as an equation.         *)
LEMMA SectionsFromDef ==
  ASSUME GarbleOK, NEW b \in Seq(Byte)
  PROVE  \A q \in 0 .. Len(b) :
           /\ SectionsFrom(b, q) \in Seq(Nat)
           /\ ~Goes(b, q) => SectionsFrom(b, q) = << >>
           /\ Goes(b, q) => /\ SectionLength(b, q) \in Nat /\ SectionLength(b, q) >= 3
                            /\ q + SectionLength(b, q) \in 0 .. Len(b)
                            /\ SectionsFrom(b, q) = <<q>> \o SectionsFrom(b, q + SectionLength(b, q))
<1>. DEFINE n == Len(b)
            D == 0 .. n
<1>1. n \in Nat  OBVIOUS
<1>2. \A q \in D : q + 2 < n => SectionLength(b, q) \in Nat /\ SectionLength(b, q) >= 3
  <2>1. \A q \in D : q + 2 < n => q \in Nat /\ q + 3 <= Len(b)  BY <1>1
  <2>. QED  BY <2>1, LengthAny
<1>3. \A q \in D : Goes(b, q) =>
        /\ SectionLength(b, q) \in Nat /\ SectionLength(b, q) >= 3
        /\ q + SectionLength(b, q) \in D
  BY <1>1, <1>2 DEF Goes
<1>4. PICK sl \in [D -> Nat] : \A q \in D : sl[q] = IF Goes(b, q) THEN SectionLength(b, q) ELSE 0
  <2>1. [q \in D |-> IF Goes(b, q) THEN SectionLength(b, q) ELSE 0] \in [D -> Nat]  BY <1>3
  <2>. QED  BY <2>1
<1>5. \A q \in D : q + sl[q] <= n /\ (sl[q] = 0 <=> ~Goes(b, q))  BY <1>1, <1>3, <1>4
<1>6. PICK f \in [D -> Seq(Nat)] : LoopsAt(f, sl, n)
  <2>. HIDE DEF n
  <2>. QED  BY <1>1, <1>4, <1>5, LoopWalk
<1>. DEFINE step(g) == [q \in 0 .. Len(b) |->
                          IF q + 2 < Len(b) /\ LET l == SectionLength(b, q) IN
                                                l <= MaxSectionSize /\ l + q <= Len(b)
                          THEN <<q>> \o g[q + SectionLength(b, q)]
                          ELSE << >>]
            starts == CHOOSE g : g = step(g)
<1>7. \A k : SectionsFrom(b, k) = starts[k]  BY DEF SectionsFrom
<1>8. \A g : g = step(g) <=> LoopsAt(g, sl, n)
  <2>. TAKE g
  <2>1. step(g) = [q \in D |-> IF sl[q] = 0 THEN << >> ELSE <<q>> \o g[q + sl[q]]]
    BY <1>4, <1>5 DEF Goes
  <2>. QED  BY <2>1, Zenon DEF LoopsAt
<1>9. \A g : g = step(g) => g = f
  <2>. SUFFICES ASSUME NEW CONSTANT g, LoopsAt(g, sl, n) PROVE g = f  BY <1>8, Zenon
  <2>. HIDE DEF n
  <2>. QED  BY <1>1, <1>4, <1>5, <1>6, LoopUnique
<1>10. f = step(f)  BY <1>6, <1>8, Zenon
<1>11. starts = f
  <2>. HIDE DEF step
  <2>. QED  BY <1>9, <1>10, Zenon
<1>12. \A k : SectionsFrom(b, k) = f[k]  BY <1>7, <1>11, Zenon
<1>13. \A q \in D : f[q] = IF sl[q] = 0 THEN << >> ELSE <<q>> \o f[q + sl[q]]
  BY <1>6 DEF LoopsAt
<1>. HIDE DEF starts, step
<1>. TAKE q \in D
<1>14. SectionsFrom(b, q) \in Seq(Nat)  BY <1>6, <1>12
<1>15. ASSUME ~Goes(b, q) PROVE SectionsFrom(b, q) = << >>  BY <1>5, <1>12, <1>13, <1>15
<1>16. ASSUME Goes(b, q) PROVE SectionsFrom(b, q) = <<q>> \o SectionsFrom(b, q + SectionLength(b, q))
  <2>1. sl[q] # 0 /\ sl[q] = SectionLength(b, q)  BY <1>4, <1>5, <1>16
  <2>2. f[q] = <<q>> \o f[q + SectionLength(b, q)]  BY <1>13, <2>1
  <2>. QED  BY <1>12, <2>2, Zenon
<1>. QED  BY <1>3, <1>14, <1>15, <1>16

(* Where the loop of copy_dump stops.                                      *)
StopAt(b, p) ==
  IF SectionsFrom(b, p) = << >> THEN p
  ELSE Last(SectionsFrom(b, p)) + SectionLength(b, Last(SectionsFrom(b, p)))

(* It stops where it would stop one section later.                         *)
LEMMA StopStep ==
  ASSUME GarbleOK, NEW b \in Seq(Byte), NEW q \in 0 .. Len(b)
  PROVE  /\ ~Goes(b, q) => StopAt(b, q) = q
         /\ Goes(b, q) => StopAt(b, q) = StopAt(b, q + SectionLength(b, q))
<1>1. ASSUME ~Goes(b, q) PROVE StopAt(b, q) = q
  <2>1. SectionsFrom(b, q) = << >>  BY <1>1, SectionsFromDef
  <2>. QED  BY <2>1 DEF StopAt
<1>2. ASSUME Goes(b, q) PROVE StopAt(b, q) = StopAt(b, q + SectionLength(b, q))
  <2>1. /\ SectionLength(b, q) \in Nat /\ q + SectionLength(b, q) \in 0 .. Len(b)
        /\ SectionsFrom(b, q) = <<q>> \o SectionsFrom(b, q + SectionLength(b, q))
    BY <1>2, SectionsFromDef
  <2>2. PICK r \in 0 .. Len(b) : r = q + SectionLength(b, q)  BY <2>1
  <2>3. PICK g \in Seq(Nat) : g = SectionsFrom(b, r)  BY SectionsFromDef, <2>2
  <2>4. SectionsFrom(b, q) = <<q>> \o g  BY <2>1, <2>2, <2>3
  <2>5. PICK h \in Seq(Nat) : h = <<q>> \o g
    <3>1. <<q>> \in Seq(Nat)  OBVIOUS
    <3>2. <<q>> \o g \in Seq(Nat)  BY <3>1, <2>3
    <3>. QED  BY <3>2
  <2>6. h # << >> /\ Len(h) = Len(g) + 1 /\ h[1] = q /\ \A i \in 1 .. Len(g) : h[i + 1] = g[i]
    <3>1. <<q>> \in Seq(Nat) /\ Len(<<q>>) = 1 /\ <<q>>[1] = q  OBVIOUS
    <3>2. Len(h) = 1 + Len(g) /\ \A i \in 1 .. 1 + Len(g) : h[i] = IF i <= 1 THEN <<q>>[i] ELSE g[i - 1]
      BY <2>3, <2>5, <3>1, ConcatProperties
    <3>3. Len(g) \in Nat  BY <2>3
    <3>4. \A i \in 1 .. Len(g) : i + 1 \in 1 .. 1 + Len(g) /\ ~(i + 1 <= 1) /\ i + 1 - 1 = i  BY <3>3
    <3>5. ASSUME NEW i \in 1 .. Len(g) PROVE h[i + 1] = g[i]  BY <3>2, <3>4
    <3>6. h[1] = q  BY <3>1, <3>2, <3>3
    <3>. QED  BY <2>5, <3>2, <3>3, <3>5, <3>6
  <2>7. CASE g = << >>
    <3>1. Len(h) = 1 /\ Last(h) = q  BY <2>6, <2>7 DEF Last
    <3>2. StopAt(b, q) = q + SectionLength(b, q)  BY <2>4, <2>5, <2>6, <3>1 DEF StopAt
    <3>3. StopAt(b, r) = r  BY <2>3, <2>7 DEF StopAt
    <3>. QED  BY <2>2, <3>2, <3>3
  <2>8. CASE g # << >>
    <3>1. Len(g) \in 1 .. Len(g)  BY <2>3, <2>8
    <3>2. Last(h) = Last(g)  BY <2>6, <3>1 DEF Last
    <3>3. StopAt(b, q) = Last(g) + SectionLength(b, Last(g))  BY <2>4, <2>5, <2>6, <3>2 DEF StopAt
    <3>4. StopAt(b, r) = Last(g) + SectionLength(b, Last(g))  BY <2>3, <2>8 DEF StopAt
    <3>. QED  BY <2>2, <3>3, <3>4
  <2>. QED  BY <2>7, <2>8
<1>. QED  BY <1>1, <1>2

(* Induction from the end of secbuf_base to its beginning.                 *)
LEMMA Backwards ==
  ASSUME NEW n \in Nat, NEW S \in SUBSET (0 .. n),
         \A q \in 0 .. n : (\A r \in q + 1 .. n : r \in S) => q \in S
  PROVE  S = 0 .. n
<1>. DEFINE Bad == {k \in Nat : k <= n /\ n - k \notin S}
<1>. SUFFICES ASSUME NEW q \in 0 .. n, q \notin S PROVE FALSE  OBVIOUS
<1>1. n - q \in Bad
  <2>1. n - q \in Nat /\ n - q <= n /\ n - (n - q) = q  OBVIOUS
  <2>. QED  BY <2>1
<1>2. PICK k \in Bad : \A m \in Bad : k <= m  BY <1>1, Least
<1>3. PICK p \in 0 .. n : p = n - k /\ k = n - p /\ p \notin S
  <2>1. k \in Nat /\ k <= n  BY <1>2
  <2>2. n - k \in 0 .. n /\ k = n - (n - k)  BY <2>1
  <2>. QED  BY <1>2, <2>2
<1>4. ASSUME NEW r \in p + 1 .. n PROVE r \in S
  <2>1. r \in Nat /\ p \in Nat /\ r > p /\ r <= n  BY <1>3, <1>4
  <2>2. n - r \in Nat /\ n - r <= n /\ n - (n - r) = r /\ n - r < n - p  BY <2>1
  <2>3. ~(n - p <= n - r)  BY <2>1
  <2>4. n - r \notin Bad  BY <1>2, <1>3, <2>3, Zenon
  <2>. QED  BY <2>2, <2>4
<1>. QED  BY <1>3, <1>4

(* The loop stops inside of secbuf_base, whatever it finds there.          *)
LEMMA StopRange ==
  ASSUME GarbleOK, NEW b \in Seq(Byte)
  PROVE  \A q \in 0 .. Len(b) : StopAt(b, q) \in q .. Len(b)
<1>. DEFINE S == {q \in 0 .. Len(b) : StopAt(b, q) \in q .. Len(b)}
<1>1. Len(b) \in Nat /\ S \in SUBSET (0 .. Len(b))  OBVIOUS
<1>2. ASSUME NEW q \in 0 .. Len(b), \A r \in q + 1 .. Len(b) : r \in S PROVE q \in S
  <2>1. CASE ~Goes(b, q)
    <3>1. StopAt(b, q) = q  BY <2>1, StopStep
    <3>. QED  BY <1>1, <3>1
  <2>2. CASE Goes(b, q)
    <3>1. PICK l \in Nat : l = SectionLength(b, q) /\ l >= 3 /\ q + l \in 0 .. Len(b)
      BY <2>2, SectionsFromDef
    <3>2. q + l \in q + 1 .. Len(b)  BY <3>1, <1>1
    <3>3. StopAt(b, q + l) \in q + l .. Len(b)  BY <1>2, <3>2
    <3>4. StopAt(b, q) = StopAt(b, q + l)  BY <2>2, <3>1, StopStep
    <3>. QED  BY <1>1, <3>1, <3>3, <3>4
  <2>. QED  BY <2>1, <2>2
<1>3. S = 0 .. Len(b)
  <2>. HIDE DEF S
  <2>. QED  BY <1>1, <1>2, Backwards
<1>. QED  BY <1>3

(* A section begins behind the end of the one before it.                   *)
LEMMA NextStart ==
  ASSUME NEW b \in Seq(Byte), Linked(b), NEW q \in Nat, NEW r \in Nat, q < r, r < Len(b),
         SectionStart(b[q + 1]), SectionStart(b[r + 1])
  PROVE  q + b[q + 1][3] <= r
<1>1. Len(b) \in Nat /\ \A i \in 1 .. Len(b) : InByte(b[i])  BY SeqBytes
<1>2. PICK l \in Nat : l = b[q + 1][3]
  <2>1. q + 1 \in 1 .. Len(b)  BY <1>1
  <2>. QED  BY <1>1, <2>1 DEF InByte
<1>3. \A k \in 1 .. l : q + k <= Len(b) => b[q + k][2] = k
  <2>1. q < Len(b)  BY <1>1
  <2>. QED  BY <1>2, <2>1, Chain
<1>. SUFFICES ASSUME r < q + l PROVE FALSE  BY <1>2
<1>4. r + 1 - q \in 1 .. l /\ q + (r + 1 - q) = r + 1 /\ r + 1 <= Len(b) /\ r + 1 - q # 1  BY <1>1
<1>5. b[r + 1][2] = r + 1 - q  BY <1>3, <1>4
<1>. QED  BY <1>4, <1>5 DEF SectionStart

(* A whole section.                                                        *)
WholeAt(b, r) == SectionStart(b[r + 1]) /\ r + b[r + 1][3] <= Len(b)

(* What the loop finds from q on: every whole section, in their order.     *)
Finds(b, q) ==
  LET F == SectionsFrom(b, q) IN
  /\ Between(b, StopAt(b, q))
  /\ \A i \in 1 .. Len(F) : F[i] \in q .. Len(b) - 1 /\ WholeAt(b, F[i]) /\ F[i] < StopAt(b, q)
  /\ \A i, j \in 1 .. Len(F) : i < j => F[i] < F[j]
  /\ \A r \in q .. Len(b) - 1 : WholeAt(b, r) => \E i \in 1 .. Len(F) : F[i] = r

(* Where no section is cut the loop goes on if and only if one is whole.   *)
LEMMA GoesIf ==
  ASSUME GarbleOK, NEW b \in Seq(Byte), Linked(b), NEW q \in 0 .. Len(b), Between(b, q)
  PROVE  /\ Goes(b, q) <=> q < Len(b) /\ WholeAt(b, q)
         /\ Goes(b, q) => SectionLength(b, q) = b[q + 1][3] /\ Between(b, q + b[q + 1][3])
<1>1. Len(b) \in Nat /\ \A i \in 1 .. Len(b) : InByte(b[i])  BY SeqBytes
<1>2. ASSUME Goes(b, q)
      PROVE  q < Len(b) /\ WholeAt(b, q) /\ SectionLength(b, q) = b[q + 1][3]
  <2>1. q \in Nat /\ q + 3 <= Len(b) /\ q < Len(b) /\ q + 1 \in 1 .. Len(b)  BY <1>1, <1>2 DEF Goes
  <2>2. b[q + 1][1] # 0
    <3>. SUFFICES ASSUME b[q + 1][1] = 0 PROVE FALSE  OBVIOUS
    <3>1. SectionLength(b, q) = MaxSectionSize + 2  BY <2>1, LengthStuff
    <3>. QED  BY <3>1, <1>2, SectionConstants DEF Goes
  <2>3. SectionStart(b[q + 1])  BY <1>1, <2>1, <2>2 DEF Between, SectionStart, InByte
  <2>4. SectionLength(b, q) = b[q + 1][3]  BY <2>1, <2>3, LengthStart
  <2>5. b[q + 1][3] \in Nat  BY <1>1, <2>1 DEF InByte
  <2>6. q + b[q + 1][3] <= Len(b)
    <3>1. SectionLength(b, q) + q <= Len(b)  BY <1>2 DEF Goes
    <3>. QED  BY <2>1, <2>4, <2>5, <3>1
  <2>. QED  BY <2>1, <2>3, <2>4, <2>6 DEF WholeAt
<1>3. ASSUME q < Len(b), WholeAt(b, q) PROVE Goes(b, q)
  <2>1. q \in Nat /\ q + 1 \in 1 .. Len(b) /\ SectionStart(b[q + 1])  BY <1>1, <1>3 DEF WholeAt
  <2>2. PICK l \in Nat : l = b[q + 1][3] /\ l >= 3 /\ l <= MaxSectionSize
    BY <1>1, <2>1 DEF InByte, SectionStart
  <2>3. q + l <= Len(b)  BY <1>3, <2>2 DEF WholeAt
  <2>4. q + 3 <= Len(b)  BY <1>1, <2>1, <2>2, <2>3
  <2>5. SectionLength(b, q) = l  BY <2>1, <2>2, <2>4, LengthStart
  <2>. QED  BY <1>1, <2>1, <2>2, <2>3, <2>4, <2>5 DEF Goes
<1>4. ASSUME q < Len(b), WholeAt(b, q) PROVE Between(b, q + b[q + 1][3])
  <2>1. q \in Nat /\ q + 1 \in 1 .. Len(b) /\ SectionStart(b[q + 1])  BY <1>1, <1>4 DEF WholeAt
  <2>2. PICK l \in Nat : l = b[q + 1][3] /\ l >= 3  BY <1>1, <2>1 DEF InByte, SectionStart
  <2>3. q + l <= Len(b)  BY <1>4, <2>2 DEF WholeAt
  <2>4. b[q + l][1] = b[q + 1][1] /\ b[q + l][2] = l /\ b[q + l][3] = l
    <3>1. l \in 1 .. b[q + 1][3]  BY <2>2
    <3>. QED  BY <1>4, <2>1, <2>2, <2>3, <3>1, Chain
  <2>5. ASSUME q + l < Len(b) PROVE b[q + l + 1][1] = 0 \/ b[q + l + 1][2] = 1
    <3>1. q + l \in 1 .. Len(b) - 1  BY <1>1, <2>1, <2>2, <2>5
    <3>2. Links(b[q + l], b[q + l + 1])  BY <3>1 DEF Linked
    <3>3. b[q + 1][1] # 0  BY <2>1 DEF SectionStart
    <3>. QED  BY <2>2, <2>4, <3>2, <3>3 DEF Links
  <2>. QED  BY <2>2, <2>4, <2>5 DEF Between
<1>. QED  BY <1>2, <1>3, <1>4

(* If the loop stops at once nothing is whole.                             *)
LEMMA NothingWhole ==
  ASSUME NEW b \in Seq(Byte), Linked(b), NEW q \in 0 .. Len(b), Between(b, q),
         ~(q < Len(b) /\ WholeAt(b, q)), NEW r \in q .. Len(b) - 1, WholeAt(b, r)
  PROVE  FALSE
<1>1. Len(b) \in Nat /\ \A i \in 1 .. Len(b) : InByte(b[i])  BY SeqBytes
<1>2. q \in Nat /\ r \in Nat /\ q < Len(b) /\ r < Len(b) /\ q <= r  BY <1>1
<1>3. SectionStart(b[r + 1]) /\ r # q  BY <1>2 DEF WholeAt
<1>4. q + 1 \in 1 .. Len(b) /\ r + 1 \in 1 .. Len(b) /\ q + 1 <= r + 1  BY <1>1, <1>2
<1>5. b[q + 1][1] # 0
  <2>1. b[r + 1][1] # 0  BY <1>3 DEF SectionStart
  <2>. QED  BY <1>4, <2>1, Increasing
<1>6. SectionStart(b[q + 1])  BY <1>1, <1>2, <1>4, <1>5 DEF Between, SectionStart, InByte
<1>7. q + b[q + 1][3] <= r
  <2>1. q < r  BY <1>2, <1>3
  <2>. QED  BY <1>2, <1>3, <1>6, <2>1, NextStart
<1>8. b[q + 1][3] \in Nat  BY <1>1, <1>4 DEF InByte
<1>9. q + b[q + 1][3] <= Len(b)  BY <1>1, <1>2, <1>7, <1>8
<1>. QED  BY <1>2, <1>6, <1>9 DEF WholeAt

(* What is put in front of a sequence.                                     *)
LEMMA Prefixed ==
  ASSUME NEW q \in Nat, NEW g \in Seq(Nat)
  PROVE  /\ <<q>> \o g \in Seq(Nat) /\ Len(<<q>> \o g) = Len(g) + 1
         /\ (<<q>> \o g)[1] = q /\ \A i \in 1 .. Len(g) : (<<q>> \o g)[i + 1] = g[i]
<1>1. <<q>> \in Seq(Nat) /\ Len(<<q>>) = 1 /\ <<q>>[1] = q  OBVIOUS
<1>2. PICK h : h = <<q>> \o g  OBVIOUS
<1>3. /\ h \in Seq(Nat) /\ Len(h) = 1 + Len(g)
      /\ \A i \in 1 .. 1 + Len(g) : h[i] = IF i <= 1 THEN <<q>>[i] ELSE g[i - 1]
  BY <1>1, <1>2, ConcatProperties
<1>4. Len(g) \in Nat  OBVIOUS
<1>5. \A i \in 1 .. Len(g) : i + 1 \in 1 .. 1 + Len(g) /\ ~(i + 1 <= 1) /\ i + 1 - 1 = i  BY <1>4
<1>6. ASSUME NEW i \in 1 .. Len(g) PROVE h[i + 1] = g[i]  BY <1>3, <1>5
<1>7. h[1] = q  BY <1>1, <1>3, <1>4
<1>. QED  BY <1>2, <1>3, <1>4, <1>6, <1>7

(* One section more in front.                                              *)
LEMMA FindsStep ==
  ASSUME GarbleOK, NEW b \in Seq(Byte), Linked(b), NEW q \in 0 .. Len(b), Between(b, q), Goes(b, q),
         Finds(b, q + SectionLength(b, q))
  PROVE  Finds(b, q)
<1>1. Len(b) \in Nat /\ q \in Nat  OBVIOUS
<1>2. q < Len(b) /\ WholeAt(b, q) /\ SectionLength(b, q) = b[q + 1][3]  BY GoesIf
<1>3. PICK l \in Nat : l = SectionLength(b, q) /\ l >= 3 /\ q + l \in 0 .. Len(b)  BY SectionsFromDef
<1>4. PICK g \in Seq(Nat) : g = SectionsFrom(b, q + l)  BY <1>3, SectionsFromDef
<1>5. SectionsFrom(b, q) = <<q>> \o g  BY <1>3, <1>4, SectionsFromDef
<1>6. PICK h \in Seq(Nat) : /\ h = SectionsFrom(b, q) /\ Len(h) = Len(g) + 1 /\ h[1] = q
                            /\ \A i \in 1 .. Len(g) : h[i + 1] = g[i]
  <2>1. PICK h : h = <<q>> \o g  OBVIOUS
  <2>2. /\ h \in Seq(Nat) /\ Len(h) = Len(g) + 1 /\ h[1] = q
        /\ \A i \in 1 .. Len(g) : h[i + 1] = g[i]
    BY <1>1, <1>4, <2>1, Prefixed
  <2>3. h = SectionsFrom(b, q)  BY <1>5, <2>1
  <2>. QED  BY <2>2, <2>3, Zenon
<1>7. PICK t \in q + l .. Len(b) : t = StopAt(b, q + l)  BY <1>3, StopRange
<1>8. StopAt(b, q) = t  BY <1>3, <1>7, StopStep
<1>9. /\ Between(b, t)
      /\ \A i \in 1 .. Len(g) : g[i] \in q + l .. Len(b) - 1 /\ WholeAt(b, g[i]) /\ g[i] < t
      /\ \A i, j \in 1 .. Len(g) : i < j => g[i] < g[j]
      /\ \A r \in q + l .. Len(b) - 1 : WholeAt(b, r) => \E i \in 1 .. Len(g) : g[i] = r
  BY <1>3, <1>4, <1>7 DEF Finds
<1>10. Len(g) \in Nat  BY <1>4
<1>11. \A i \in 1 .. Len(h) : i = 1 \/ (i - 1 \in 1 .. Len(g) /\ h[i] = g[i - 1])
  <2>. TAKE i \in 1 .. Len(h)
  <2>. SUFFICES ASSUME i # 1 PROVE i - 1 \in 1 .. Len(g) /\ h[i] = g[i - 1]  OBVIOUS
  <2>1. i - 1 \in 1 .. Len(g) /\ i - 1 + 1 = i  BY <1>6, <1>10
  <2>. QED  BY <1>6, <2>1
<1>16. \A x \in q + l .. Len(b) - 1 : x \in q .. Len(b) - 1 /\ q < x  BY <1>1, <1>3
<1>12. ASSUME NEW i \in 1 .. Len(h)
       PROVE  h[i] \in q .. Len(b) - 1 /\ WholeAt(b, h[i]) /\ h[i] < t
  <2>1. CASE i = 1  BY <1>1, <1>2, <1>3, <1>6, <1>7, <2>1
  <2>2. CASE i # 1
    <3>1. i - 1 \in 1 .. Len(g) /\ h[i] = g[i - 1]  BY <1>11, <2>2
    <3>2. g[i - 1] \in q + l .. Len(b) - 1 /\ WholeAt(b, g[i - 1]) /\ g[i - 1] < t  BY <1>9, <3>1
    <3>3. g[i - 1] \in q .. Len(b) - 1  BY <1>16, <3>2, Zenon
    <3>. QED  BY <3>1, <3>2, <3>3
  <2>. QED  BY <2>1, <2>2
<1>13. ASSUME NEW i \in 1 .. Len(h), NEW j \in 1 .. Len(h), i < j PROVE h[i] < h[j]
  <2>1. j # 1 /\ j - 1 \in 1 .. Len(g) /\ h[j] = g[j - 1]  BY <1>11, <1>13
  <2>2. CASE i = 1
    <3>1. g[j - 1] \in q + l .. Len(b) - 1  BY <1>9, <2>1
    <3>2. q < g[j - 1]  BY <1>16, <3>1, Zenon
    <3>. QED  BY <1>6, <2>1, <2>2, <3>2
  <2>3. CASE i # 1
    <3>1. i - 1 \in 1 .. Len(g) /\ h[i] = g[i - 1]  BY <1>11, <2>3
    <3>2. i - 1 < j - 1  BY <1>13
    <3>. QED  BY <1>9, <2>1, <3>1, <3>2
  <2>. QED  BY <2>2, <2>3
<1>14. ASSUME NEW r \in q .. Len(b) - 1, WholeAt(b, r) PROVE \E i \in 1 .. Len(h) : h[i] = r
  <2>1. CASE r = q  BY <1>6, <1>10, <2>1
  <2>2. CASE r # q
    <3>1. q + l <= r
      <4>1. q < r /\ r < Len(b) /\ r \in Nat  BY <1>1, <2>2
      <4>2. SectionStart(b[q + 1]) /\ SectionStart(b[r + 1])  BY <1>2, <1>14 DEF WholeAt
      <4>3. q + b[q + 1][3] <= r  BY <1>1, <4>1, <4>2, NextStart
      <4>. QED  BY <1>2, <1>3, <4>3
    <3>2. r \in q + l .. Len(b) - 1  BY <1>1, <1>3, <3>1
    <3>3. PICK i \in 1 .. Len(g) : g[i] = r  BY <1>9, <1>14, <3>2
    <3>4. i + 1 \in 1 .. Len(h) /\ h[i + 1] = r  BY <1>6, <1>10, <3>3
    <3>. QED  BY <3>4
  <2>. QED  BY <2>1, <2>2
<1>15. \A i, j \in 1 .. Len(h) : i < j => h[i] < h[j]  BY <1>13
<1>. QED  BY <1>6, <1>8, <1>9, <1>12, <1>14, <1>15 DEF Finds

(* The loop finds every whole section from an index on at which none is    *)
(* cut.                                                                    *)
LEMMA LoopFinds ==
  ASSUME GarbleOK, NEW b \in Seq(Byte), Linked(b)
  PROVE  \A q \in 0 .. Len(b) : Between(b, q) => Finds(b, q)
<1>. DEFINE S == {q \in 0 .. Len(b) : Between(b, q) => Finds(b, q)}
<1>1. Len(b) \in Nat /\ S \in SUBSET (0 .. Len(b))  OBVIOUS
<1>2. ASSUME NEW q \in 0 .. Len(b), \A r \in q + 1 .. Len(b) : r \in S PROVE q \in S
  <2>. SUFFICES ASSUME Between(b, q) PROVE Finds(b, q)  OBVIOUS
  <2>1. CASE ~Goes(b, q)
    <3>1. SectionsFrom(b, q) = << >> /\ StopAt(b, q) = q  BY <2>1, SectionsFromDef, StopStep
    <3>2. ~(q < Len(b) /\ WholeAt(b, q))  BY <2>1, GoesIf
    <3>3. \A r \in q .. Len(b) - 1 : ~WholeAt(b, r)  BY <3>2, NothingWhole
    <3>4. Len(<< >>) = 0 /\ 1 .. 0 = {}  OBVIOUS
    <3>. QED  BY <3>1, <3>3, <3>4 DEF Finds
  <2>2. CASE Goes(b, q)
    <3>1. PICK l \in Nat : l = SectionLength(b, q) /\ l >= 3 /\ q + l \in 0 .. Len(b)
      BY <2>2, SectionsFromDef
    <3>2. q + l \in q + 1 .. Len(b)  BY <3>1, <1>1
    <3>3. Between(b, q + l)  BY <2>2, <3>1, GoesIf
    <3>4. Finds(b, q + l)  BY <1>2, <3>2, <3>3
    <3>. QED  BY <2>2, <3>1, <3>4, FindsStep
  <2>. QED  BY <2>1, <2>2
<1>3. S = 0 .. Len(b)
  <2>. HIDE DEF S
  <2>. QED  BY <1>1, <1>2, Backwards
<1>. QED  BY <1>3

(* What the callback gets at the start of a whole section.                 *)
LEMMA SectionAtWhole ==
  ASSUME NEW b \in Seq(Byte), Linked(b), NEW q \in Nat, q < Len(b), WholeAt(b, q)
  PROVE  SectionAt(b, q) = b[q + 1][1] /\ b[q + 1][1] \in Nat /\ b[q + 1][1] > 0
<1>1. Len(b) \in Nat /\ \A i \in 1 .. Len(b) : InByte(b[i])  BY SeqBytes
<1>2. q + 1 \in 1 .. Len(b) /\ SectionStart(b[q + 1])  BY <1>1 DEF WholeAt
<1>3. PICK s \in Nat, l \in Lengths : s = b[q + 1][1] /\ l = b[q + 1][3] /\ s > 0 /\ l \in Nat /\ l >= 3
  BY <1>1, <1>2 DEF InByte, SectionStart
<1>4. q + l <= Len(b)  BY <1>3 DEF WholeAt
<1>5. q + 3 <= Len(b)  BY <1>1, <1>3, <1>4
<1>6. SectionLength(b, q) = l  BY <1>2, <1>3, <1>5, LengthStart
<1>7. PICK c \in Seq(Byte) : c = SectionBytes(s, l) /\ Len(c) = l /\ \A k \in 1 .. l : c[k] = <<s, k, l>>
  BY <1>3, SectionBytesSeq
<1>8. ASSUME NEW k \in 1 .. l PROVE b[q + k] = c[0 + k]
  <2>1. 0 + k = k /\ q + k \in 1 .. Len(b) /\ q + k <= Len(b)  BY <1>1, <1>3, <1>4
  <2>2. b[q + k][1] = s /\ b[q + k][2] = k /\ b[q + k][3] = l
    <3>1. k \in 1 .. b[q + 1][3]  BY <1>3
    <3>. QED  BY <1>2, <1>3, <2>1, <3>1, Chain
  <2>3. b[q + k] = <<b[q + k][1], b[q + k][2], b[q + k][3]>>  BY <1>1, <2>1 DEF InByte
  <2>4. b[q + k] = <<s, k, l>>  BY <2>2, <2>3
  <2>5. c[k] = <<s, k, l>>  BY <1>7
  <2>. QED  BY <2>1, <2>4, <2>5, Zenon
<1>9. SubSeq(b, q + 1, q + l) = SubSeq(c, 0 + 1, 0 + l)
  <2>1. 0 + l <= Len(c) /\ 0 \in Nat  BY <1>3, <1>7
  <2>2. l \in Nat /\ q + l <= Len(b)  BY <1>3, <1>4
  <2>3. \A k \in 1 .. l : b[q + k] = c[0 + k]  BY <1>8
  <2>4. c \in Seq(Byte)  BY <1>7
  <2>. QED  BY <2>1, <2>2, <2>3, <2>4, SlicesEqual, SMTT(60)
<1>10. SubSeq(c, 0 + 1, 0 + l) = c
  <2>1. 0 + 1 = 1 /\ 0 + l = Len(c)  BY <1>3, <1>7
  <2>. QED  BY <1>7, <2>1, SubSeqFull
<1>11. SubSeq(b, q + 1, q + l) = SectionBytes(s, l)  BY <1>7, <1>9, <1>10
<1>. QED  BY <1>3, <1>6, <1>11 DEF SectionAt

-----------------------------------------------------------------------------
(* copy_dump                                                               *)

(* A feed whose buffer is in order, as BufferOK says.                      *)
Feeds ==
  {f \in [base : Seq(Byte), secbufp : Nat, pusi_seen : BOOLEAN, cc : 0 .. CcMod - 1,
          is_filtering : BOOLEAN] :
     f.secbufp <= Len(f.base) /\ Len(f.base) <= SecFeedSize}

(* b with what there is room for.                                          *)
Taken(b, bytes) ==
  b \o SubSeq(bytes, 1, IF Len(bytes) > SecFeedSize - Len(b) THEN SecFeedSize - Len(b) ELSE Len(bytes))

(* B is the beginning of c.                                                *)
Begins(B, c) == Len(B) <= Len(c) /\ \A i \in 1 .. Len(B) : B[i] = c[i]

(* secbuf_base is larger than a section and a payload together.            *)
LEMMA SecFeedSizeNat == SecFeedSize \in Nat /\ SecFeedSize = MaxSectionSize + MaxCount + 4
BY SectionConstants DEF SecFeedSize

(* What copy_dump takes begins at the start of the buffer's free part.     *)
LEMMA TakenBegins ==
  ASSUME NEW b \in Seq(Byte), NEW bytes \in Seq(Byte), Len(b) <= SecFeedSize
  PROVE  /\ Taken(b, bytes) \in Seq(Byte)
         /\ Len(b) <= Len(Taken(b, bytes)) /\ Len(Taken(b, bytes)) <= SecFeedSize
         /\ Begins(Taken(b, bytes), b \o bytes)
         /\ Len(b \o bytes) = Len(b) + Len(bytes)
         /\ Len(Taken(b, bytes)) < Len(b \o bytes) => Len(Taken(b, bytes)) = SecFeedSize
<1>. USE SecFeedSizeNat
<1>. DEFINE n == IF Len(bytes) > SecFeedSize - Len(b) THEN SecFeedSize - Len(b) ELSE Len(bytes)
            t == SubSeq(bytes, 1, n)
            B == b \o t
            c == b \o bytes
<1>1. Len(b) \in Nat /\ Len(bytes) \in Nat  OBVIOUS
<1>2. /\ n \in Nat /\ n <= Len(bytes) /\ Len(b) + n <= SecFeedSize
      /\ n < Len(bytes) => Len(b) + n = SecFeedSize
  BY <1>1
<1>. HIDE DEF n
<1>3. t \in Seq(Byte) /\ Len(t) = n /\ \A i \in 1 .. n : t[i] = bytes[i]
  <2>1. \A i \in 1 .. n : bytes[i] \in Byte
    <3>1. \A i \in 1 .. n : i \in 1 .. Len(bytes)  BY <1>1, <1>2
    <3>. QED  BY <3>1
  <2>. QED  BY <1>2, <2>1, SubSeqProperties
<1>. HIDE DEF t
<1>4. /\ B \in Seq(Byte) /\ Len(B) = Len(b) + n
      /\ \A i \in 1 .. Len(b) + n : B[i] = IF i <= Len(b) THEN b[i] ELSE t[i - Len(b)]
  BY <1>3, ConcatProperties
<1>5. /\ c \in Seq(Byte) /\ Len(c) = Len(b) + Len(bytes)
      /\ \A i \in 1 .. Len(b) + Len(bytes) : c[i] = IF i <= Len(b) THEN b[i] ELSE bytes[i - Len(b)]
  BY ConcatProperties
<1>. HIDE DEF B, c
<1>6. ASSUME NEW i \in 1 .. Len(b) + n PROVE B[i] = c[i]
  <2>1. i \in 1 .. Len(b) + Len(bytes)  BY <1>1, <1>2
  <2>2. CASE i <= Len(b)  BY <1>4, <1>5, <2>1, <2>2
  <2>3. CASE i > Len(b)
    <3>1. i - Len(b) \in 1 .. n  BY <1>1, <1>2, <2>3
    <3>2. ~(i <= Len(b))  BY <1>1, <2>3
    <3>3. t[i - Len(b)] = bytes[i - Len(b)]  BY <1>3, <3>1
    <3>. QED  BY <1>4, <1>5, <2>1, <3>2, <3>3
  <2>. QED  BY <1>1, <2>2, <2>3
<1>7. Taken(b, bytes) = B  BY DEF Taken, n, t, B
<1>8. Begins(B, c)  BY <1>1, <1>2, <1>4, <1>5, <1>6 DEF Begins
<1>. QED  BY <1>1, <1>2, <1>4, <1>5, <1>7, <1>8 DEF c

(* The beginning of linked bytes is linked, and cuts sections no more.     *)
LEMMA BeginsLinked ==
  ASSUME NEW B \in Seq(Byte), NEW c \in Seq(Byte), Begins(B, c), Linked(c)
  PROVE  Linked(B) /\ \A p \in 0 .. Len(B) : Between(c, p) => Between(B, p)
<1>1. Len(B) \in Nat /\ Len(c) \in Nat /\ Len(B) <= Len(c) /\ \A i \in 1 .. Len(B) : B[i] = c[i]
  BY DEF Begins
<1>2. ASSUME NEW i \in 1 .. Len(B) - 1 PROVE Links(B[i], B[i + 1])
  <2>1. i \in 1 .. Len(c) - 1 /\ i \in 1 .. Len(B) /\ i + 1 \in 1 .. Len(B)  BY <1>1
  <2>2. Links(c[i], c[i + 1])  BY <2>1 DEF Linked
  <2>. QED  BY <1>1, <2>1, <2>2
<1>3. ASSUME NEW p \in 0 .. Len(B), Between(c, p) PROVE Between(B, p)
  <2>1. p > 0 => p \in 1 .. Len(B) /\ B[p] = c[p]  BY <1>1
  <2>2. p < Len(B) => p < Len(c) /\ p + 1 \in 1 .. Len(B) /\ B[p + 1] = c[p + 1]  BY <1>1
  <2>. QED  BY <1>3, <2>1, <2>2 DEF Between
<1>. QED  BY <1>2, <1>3 DEF Linked

(* The feed and the sections handed out by copy_dump.                      *)
Moved(f, B, p) == [f EXCEPT !.base = B, !.secbufp = p]

HandOut(B, p) ==
  [i \in 1 .. Len(SectionsFrom(B, p)) |-> SectionAt(B, SectionsFrom(B, p)[i])]

Full(f) == SecFeedSize - Len(f.base) <= 0

(* What copy_dump returns.                                                 *)
LEMMA CopyDumpDef ==
  ASSUME NEW f, NEW d, NEW bytes
  PROVE  /\ Full(f) \/ bytes = << >> => CopyDump(<<f, d>>, bytes) = <<f, d>>
         /\ ~Full(f) /\ bytes # << >> =>
              CopyDump(<<f, d>>, bytes) =
                << Moved(f, Taken(f.base, bytes), StopAt(Taken(f.base, bytes), f.secbufp)),
                   IF f.pusi_seen THEN d \o HandOut(Taken(f.base, bytes), f.secbufp) ELSE d >>
BY DEF CopyDump, Taken, StopAt, Moved, HandOut, Full

(* What the last memory of a dump leaves of the other fields.              *)
LEMMA MovedFields ==
  ASSUME NEW f \in Feeds, NEW B \in Seq(Byte), NEW p \in Nat, p <= Len(B), Len(B) <= SecFeedSize
  PROVE  /\ Moved(f, B, p) \in Feeds
         /\ Moved(f, B, p).base = B /\ Moved(f, B, p).secbufp = p
         /\ Moved(f, B, p).pusi_seen = f.pusi_seen /\ Moved(f, B, p).cc = f.cc
         /\ Moved(f, B, p).is_filtering = f.is_filtering
<1>. DEFINE g == Moved(f, B, p)
<1>1. g \in [base : Seq(Byte), secbufp : Nat, pusi_seen : BOOLEAN, cc : 0 .. CcMod - 1,
             is_filtering : BOOLEAN]
  BY DEF Feeds, Moved
<1>2. /\ g.base = B /\ g.secbufp = p /\ g.pusi_seen = f.pusi_seen /\ g.cc = f.cc
      /\ g.is_filtering = f.is_filtering
  BY DEF Feeds, Moved
<1>. HIDE DEF g
<1>3. g \in Feeds  BY <1>1, <1>2 DEF Feeds
<1>. QED  BY <1>2, <1>3 DEF g

(* r is a feed and what was handed out, after f took more bytes.           *)
After(r, f) ==
  /\ r = <<r[1], r[2]>> /\ r[1] \in Feeds
  /\ r[1].pusi_seen = f.pusi_seen /\ r[1].cc = f.cc /\ r[1].is_filtering = f.is_filtering

(* Whatever is in the buffer, it stays in order, and nothing is handed out *)
(* before a section start was seen.                                        *)
LEMMA DumpAny ==
  ASSUME GarbleOK, NEW f \in Feeds, NEW d, NEW bytes \in Seq(Byte)
  PROVE  /\ After(CopyDump(<<f, d>>, bytes), f)
         /\ ~f.pusi_seen => CopyDump(<<f, d>>, bytes)[2] = d
<1>1. f.base \in Seq(Byte) /\ Len(f.base) <= SecFeedSize /\ f.secbufp \in 0 .. Len(f.base)
      /\ Len(f.base) \in Nat
  BY DEF Feeds
<1>2. CASE Full(f) \/ bytes = << >>
  <2>1. CopyDump(<<f, d>>, bytes) = <<f, d>>  BY <1>2, CopyDumpDef
  <2>. QED  BY <2>1 DEF After
<1>3. CASE ~(Full(f) \/ bytes = << >>)
  <2>1. PICK B \in Seq(Byte) : B = Taken(f.base, bytes) /\ Len(f.base) <= Len(B) /\ Len(B) <= SecFeedSize
    BY <1>1, TakenBegins
  <2>2. f.secbufp \in 0 .. Len(B) /\ Len(B) \in Nat  BY <1>1, <2>1
  <2>3. PICK p \in Nat : p = StopAt(B, f.secbufp) /\ p <= Len(B)
    <3>1. StopAt(B, f.secbufp) \in f.secbufp .. Len(B)  BY <2>2, StopRange
    <3>. QED  BY <1>1, <2>2, <3>1
  <2>4. PICK h : CopyDump(<<f, d>>, bytes) = <<Moved(f, B, p), h>> /\ (~f.pusi_seen => h = d)
    BY <1>3, <2>1, <2>3, CopyDumpDef
  <2>5. /\ Moved(f, B, p) \in Feeds
        /\ Moved(f, B, p).pusi_seen = f.pusi_seen /\ Moved(f, B, p).cc = f.cc
        /\ Moved(f, B, p).is_filtering = f.is_filtering
    BY <2>1, <2>3, MovedFields
  <2>. QED  BY <2>4, <2>5 DEF After
<1>. QED  BY <1>2, <1>3

(* D are sections that are whole in B between p and P, in their order.     *)
Sections(B, p, P, D) ==
  /\ D \in Seq(Nat)
  /\ \A i \in 1 .. Len(D) : \E q \in p .. P - 1 : q < Len(B) /\ WholeAt(B, q) /\ D[i] = B[q + 1][1]
  /\ \A i, j \in 1 .. Len(D) : i < j => D[i] < D[j]

(* r is what copy_dump makes of f, which has seen a section start, d and   *)
(* bytes.                                                                  *)
Dumped(r, f, d, bytes) ==
  /\ After(r, f)
  /\ Len(f.base) <= Len(r[1].base) /\ Begins(r[1].base, f.base \o bytes)
  /\ Len(r[1].base) < Len(f.base \o bytes) => Len(r[1].base) = SecFeedSize
  /\ Linked(r[1].base) /\ Between(r[1].base, r[1].secbufp) /\ f.secbufp <= r[1].secbufp
  /\ \E D \in Seq(Nat) :
       /\ r[2] = d \o D /\ Sections(r[1].base, f.secbufp, r[1].secbufp, D)
       /\ ~Full(f) /\ bytes # << >> =>
            \A q \in f.secbufp .. Len(r[1].base) - 1 :
              WholeAt(r[1].base, q) => \E i \in 1 .. Len(D) : D[i] = r[1].base[q + 1][1]

(* The sections handed out in linked bytes.                                *)
LEMMA HandOutSections ==
  ASSUME GarbleOK, NEW B \in Seq(Byte), Linked(B), NEW p \in 0 .. Len(B), Between(B, p)
  PROVE  /\ Sections(B, p, StopAt(B, p), HandOut(B, p))
         /\ \A q \in p .. Len(B) - 1 :
              WholeAt(B, q) => \E i \in 1 .. Len(HandOut(B, p)) : HandOut(B, p)[i] = B[q + 1][1]
<1>1. Len(B) \in Nat /\ p \in Nat /\ \A i \in 1 .. Len(B) : InByte(B[i])  BY SeqBytes
<1>2. PICK F \in Seq(Nat) : F = SectionsFrom(B, p)  BY SectionsFromDef
<1>3. PICK P \in p .. Len(B) : P = StopAt(B, p)  BY StopRange
<1>4. /\ \A i \in 1 .. Len(F) : F[i] \in p .. Len(B) - 1 /\ WholeAt(B, F[i]) /\ F[i] < P
      /\ \A i, j \in 1 .. Len(F) : i < j => F[i] < F[j]
      /\ \A r \in p .. Len(B) - 1 : WholeAt(B, r) => \E i \in 1 .. Len(F) : F[i] = r
  BY <1>2, <1>3, LoopFinds DEF Finds
<1>5. \A i \in 1 .. Len(F) : F[i] \in Nat /\ F[i] < Len(B) /\ F[i] \in p .. P - 1 /\ WholeAt(B, F[i])
  <2>1. \A x \in p .. Len(B) - 1 : x \in Nat /\ x < Len(B) /\ (x < P => x \in p .. P - 1)  BY <1>1, <1>3
  <2>. QED  BY <1>4, <2>1
<1>6. \A i \in 1 .. Len(F) : SectionAt(B, F[i]) = B[F[i] + 1][1] /\ B[F[i] + 1][1] \in Nat
  BY <1>5, SectionAtWhole
<1>. DEFINE D == [i \in 1 .. Len(F) |-> B[F[i] + 1][1]]
<1>7. HandOut(B, p) = D  BY <1>2, <1>6 DEF HandOut
<1>8. D \in Seq(Nat) /\ Len(D) = Len(F) /\ \A i \in 1 .. Len(F) : D[i] = B[F[i] + 1][1]
  <2>1. Len(F) \in Nat  BY <1>2
  <2>2. D \in [1 .. Len(F) -> Nat]  BY <1>6
  <2>. QED  BY <2>1, <2>2
<1>. HIDE DEF D
<1>9. ASSUME NEW i \in 1 .. Len(F), NEW j \in 1 .. Len(F), i < j PROVE D[i] < D[j]
  <2>1. F[i] \in Nat /\ F[j] \in Nat /\ F[i] < F[j] /\ F[j] < Len(B) /\ WholeAt(B, F[j])
    BY <1>4, <1>5, <1>9
  <2>2. F[i] + 1 \in 1 .. Len(B) /\ F[j] + 1 \in 1 .. Len(B) /\ F[i] + 1 < F[j] + 1 /\ F[i] + 1 <= F[j] + 1
    <3>1. \A x, y \in Nat : x < y /\ y < Len(B) =>
            x + 1 \in 1 .. Len(B) /\ y + 1 \in 1 .. Len(B) /\ x + 1 < y + 1 /\ x + 1 <= y + 1
      BY <1>1
    <3>. QED  BY <2>1, <3>1, Zenon
  <2>3. B[F[j] + 1][1] # 0 /\ B[F[j] + 1][2] = 1  BY <2>1 DEF WholeAt, SectionStart
  <2>4. B[F[i] + 1][1] < B[F[j] + 1][1]  BY <2>2, <2>3, Increasing
  <2>. QED  BY <1>8, <2>4
<1>10. Sections(B, p, P, D)
  <2>1. ASSUME NEW i \in 1 .. Len(D)
        PROVE  \E q \in p .. P - 1 : q < Len(B) /\ WholeAt(B, q) /\ D[i] = B[q + 1][1]
    <3>1. i \in 1 .. Len(F)  BY <1>8
    <3>2. F[i] \in p .. P - 1 /\ F[i] < Len(B) /\ WholeAt(B, F[i]) /\ D[i] = B[F[i] + 1][1]
      BY <1>5, <1>8, <3>1
    <3>. QED  BY <3>2, Zenon
  <2>2. \A i, j \in 1 .. Len(D) : i < j => D[i] < D[j]  BY <1>8, <1>9
  <2>. QED  BY <1>8, <2>1, <2>2 DEF Sections
<1>11. ASSUME NEW q \in p .. Len(B) - 1, WholeAt(B, q) PROVE \E i \in 1 .. Len(D) : D[i] = B[q + 1][1]
  <2>1. PICK i \in 1 .. Len(F) : F[i] = q  BY <1>4, <1>11
  <2>. QED  BY <1>8, <2>1
<1>. QED  BY <1>3, <1>7, <1>10, <1>11

(* What copy_dump does once a section start was seen.                      *)
LEMMA DumpSeen ==
  ASSUME GarbleOK, NEW f \in Feeds, f.pusi_seen, NEW d \in Seq(Nat), NEW bytes \in Seq(Byte),
         Linked(f.base \o bytes), Between(f.base \o bytes, f.secbufp)
  PROVE  Dumped(CopyDump(<<f, d>>, bytes), f, d, bytes)
<1>1. PICK b \in Seq(Byte), p \in Nat :
        b = f.base /\ p = f.secbufp /\ Len(b) <= SecFeedSize /\ Len(b) \in Nat /\ p \in 0 .. Len(b)
  BY DEF Feeds
<1>2. PICK c \in Seq(Byte) : c = b \o bytes /\ Len(c) = Len(b) + Len(bytes)
  <2>1. b \o bytes \in Seq(Byte) /\ Len(b \o bytes) = Len(b) + Len(bytes)  BY <1>1, ConcatProperties
  <2>. QED  BY <2>1
<1>3. After(CopyDump(<<f, d>>, bytes), f)  BY DumpAny
<1>4. CASE Full(f) \/ bytes = << >>
  <2>1. CopyDump(<<f, d>>, bytes) = <<f, d>>  BY <1>4, CopyDumpDef
  <2>2. Begins(b, c)
    <3>1. \A i \in 1 .. Len(b) + Len(bytes) : c[i] = IF i <= Len(b) THEN b[i] ELSE bytes[i - Len(b)]
      BY <1>1, <1>2, ConcatProperties
    <3>2. Len(bytes) \in Nat  OBVIOUS
    <3>. QED  BY <1>1, <1>2, <3>1, <3>2 DEF Begins
  <2>3. Linked(b) /\ Between(b, p)  BY <1>1, <1>2, <2>2, BeginsLinked
  <2>4. d = d \o << >> /\ << >> \in Seq(Nat)  BY ConcatEmptySeq
  <2>5. Sections(b, p, p, << >>)
    <3>1. << >> \in Seq(Nat) /\ Len(<< >>) = 0 /\ 1 .. 0 = {}  OBVIOUS
    <3>. QED  BY <3>1 DEF Sections
  <2>6. Len(b) < Len(c) => Len(b) = SecFeedSize
    <3>1. CASE bytes = << >>  BY <3>1, <1>1, <1>2
    <3>2. CASE Full(f)  BY <3>2, <1>1, SecFeedSizeNat DEF Full
    <3>. QED  BY <1>4, <3>1, <3>2
  <2>. DEFINE r == <<f, d>>
  <2>7. r[1] = f /\ r[2] = d  OBVIOUS
  <2>8. \E D \in Seq(Nat) :
          /\ r[2] = d \o D /\ Sections(r[1].base, f.secbufp, r[1].secbufp, D)
          /\ ~Full(f) /\ bytes # << >> =>
               \A q \in f.secbufp .. Len(r[1].base) - 1 :
                 WholeAt(r[1].base, q) => \E i \in 1 .. Len(D) : D[i] = r[1].base[q + 1][1]
    <3>. HIDE DEF r
    <3>. WITNESS << >> \in Seq(Nat)
    <3>. QED  BY <1>1, <1>4, <2>4, <2>5, <2>7
  <2>. HIDE DEF r
  <2>9. Len(b) <= Len(b) /\ p <= p  BY <1>1
  <2>10. Dumped(r, f, d, bytes)  BY <1>1, <1>2, <1>3, <2>1, <2>2, <2>3, <2>6, <2>7, <2>8, <2>9 DEF Dumped, r
  <2>. QED  BY <2>1, <2>10 DEF r
<1>5. CASE ~Full(f) /\ bytes # << >>
  <2>1. PICK B \in Seq(Byte) :
          /\ B = Taken(b, bytes) /\ Len(b) <= Len(B) /\ Len(B) <= SecFeedSize /\ Begins(B, c)
          /\ Len(B) < Len(c) => Len(B) = SecFeedSize
    BY <1>1, <1>2, TakenBegins
  <2>2. Len(B) \in Nat /\ p \in 0 .. Len(B)  BY <1>1, <2>1
  <2>3. Linked(B) /\ Between(B, p)  BY <1>1, <1>2, <2>1, <2>2, BeginsLinked
  <2>4. PICK P \in p .. Len(B) : P = StopAt(B, p)  BY <2>2, StopRange
  <2>5. Between(B, P)  BY <2>2, <2>3, <2>4, LoopFinds DEF Finds
  <2>6. PICK D \in Seq(Nat) :
          /\ D = HandOut(B, p) /\ Sections(B, p, P, D)
          /\ \A q \in p .. Len(B) - 1 : WholeAt(B, q) => \E i \in 1 .. Len(D) : D[i] = B[q + 1][1]
    BY <2>2, <2>3, <2>4, HandOutSections DEF Sections
  <2>7. PICK g : g = Moved(f, B, P)  OBVIOUS
  <2>8. CopyDump(<<f, d>>, bytes) = <<g, d \o D>>
    <3>1. CopyDump(<<f, d>>, bytes) =
                << Moved(f, Taken(f.base, bytes), StopAt(Taken(f.base, bytes), f.secbufp)),
                   IF f.pusi_seen THEN d \o HandOut(Taken(f.base, bytes), f.secbufp) ELSE d >>
      BY <1>5, CopyDumpDef
    <3>2. Taken(f.base, bytes) = B  BY <1>1, <2>1
    <3>3. StopAt(Taken(f.base, bytes), f.secbufp) = P  BY <1>1, <2>4, <3>2
    <3>4. HandOut(Taken(f.base, bytes), f.secbufp) = D  BY <1>1, <2>6, <3>2
    <3>5. Moved(f, Taken(f.base, bytes), StopAt(Taken(f.base, bytes), f.secbufp)) = g  BY <2>7, <3>2, <3>3
    <3>. QED  BY <3>1, <3>4, <3>5
  <2>9. g.base = B /\ g.secbufp = P
    <3>1. P \in Nat /\ P <= Len(B)  BY <1>1, <2>2, <2>4
    <3>2. B \in Seq(Byte) /\ Len(B) <= SecFeedSize  BY <2>1
    <3>3. Moved(f, B, P).base = B /\ Moved(f, B, P).secbufp = P  BY <3>1, <3>2, MovedFields
    <3>. QED  BY <2>7, <3>3
  <2>10. PICK r : r = <<g, d \o D>> /\ r[1] = g /\ r[2] = d \o D
    <3>1. <<g, d \o D>>[1] = g /\ <<g, d \o D>>[2] = d \o D  OBVIOUS
    <3>. QED  BY <3>1, Zenon
  <2>11. p <= P  BY <1>1, <2>2, <2>4
  <2>12. \E E \in Seq(Nat) :
           /\ r[2] = d \o E /\ Sections(r[1].base, f.secbufp, r[1].secbufp, E)
           /\ ~Full(f) /\ bytes # << >> =>
               \A q \in f.secbufp .. Len(r[1].base) - 1 :
                 WholeAt(r[1].base, q) => \E i \in 1 .. Len(E) : E[i] = r[1].base[q + 1][1]
    <3>. WITNESS D \in Seq(Nat)
    <3>. QED  BY <1>1, <2>6, <2>9, <2>10
  <2>13. Dumped(r, f, d, bytes)
    BY <1>1, <1>2, <1>3, <2>1, <2>3, <2>5, <2>8, <2>9, <2>10, <2>11, <2>12 DEF Dumped
  <2>. QED  BY <2>8, <2>10, <2>13
<1>. QED  BY <1>4, <1>5

-----------------------------------------------------------------------------
(* The multiplexer                                                         *)

(* F[i] are the first i of seqs, one behind the other.                     *)
Flattens(F, seqs) ==
  F = [i \in 1 .. Len(seqs) |-> IF i = 1 THEN seqs[i] ELSE F[i - 1] \o seqs[i]]

(* There is such a function, for every number of sequences,                *)
LEMMA FlattenExists ==
  ASSUME NEW T, NEW seqs \in Seq(Seq(T))
  PROVE  \E F \in [1 .. Len(seqs) -> Seq(T)] : Flattens(F, seqs)
<1>. DEFINE G(F, n) == \A i \in 1 .. n : F[i] = IF i = 1 THEN seqs[i] ELSE F[i - 1] \o seqs[i]
            P(n) == n <= Len(seqs) => \E F \in [1 .. n -> Seq(T)] : G(F, n)
            S == {n \in Nat : P(n)}
<1>1. P(0)
  <2>1. [i \in 1 .. 0 |-> << >>] \in [1 .. 0 -> Seq(T)]  OBVIOUS
  <2>2. G([i \in 1 .. 0 |-> << >>], 0)  OBVIOUS
  <2>. QED  BY <2>1, <2>2
<1>2. ASSUME NEW n \in Nat, P(n) PROVE P(n + 1)
  <2>. SUFFICES ASSUME n + 1 <= Len(seqs) PROVE \E F \in [1 .. n + 1 -> Seq(T)] : G(F, n + 1)  OBVIOUS
  <2>1. n <= Len(seqs)  OBVIOUS
  <2>2. PICK F \in [1 .. n -> Seq(T)] : G(F, n)  BY <1>2, <2>1
  <2>. DEFINE H == [i \in 1 .. n + 1 |->
                      IF i <= n THEN F[i] ELSE IF i = 1 THEN seqs[i] ELSE F[i - 1] \o seqs[i]]
  <2>3. \A i \in 1 .. n + 1 : seqs[i] \in Seq(T)  OBVIOUS
  <2>4. ASSUME NEW i \in 1 .. n + 1 PROVE H[i] \in Seq(T)
    <3>1. CASE i <= n
      <4>1. i \in 1 .. n  BY <3>1
      <4>. QED  BY <2>2, <3>1, <4>1
    <3>2. CASE ~(i <= n) /\ i = 1  BY <2>3, <3>2
    <3>3. CASE ~(i <= n) /\ i # 1
      <4>1. i - 1 \in 1 .. n  BY <3>3
      <4>2. F[i - 1] \in Seq(T) /\ seqs[i] \in Seq(T)  BY <2>2, <2>3, <4>1
      <4>3. F[i - 1] \o seqs[i] \in Seq(T)  BY <4>2
      <4>. QED  BY <3>3, <4>3
    <3>. QED  BY <3>1, <3>2, <3>3
  <2>5. H \in [1 .. n + 1 -> Seq(T)]  BY <2>4
  <2>6. \A i \in 1 .. n : H[i] = F[i]  OBVIOUS
  <2>7. ASSUME NEW i \in 1 .. n + 1 PROVE H[i] = IF i = 1 THEN seqs[i] ELSE H[i - 1] \o seqs[i]
    <3>1. i # 1 => i - 1 \in 1 .. n /\ H[i - 1] = F[i - 1]  BY <2>6
    <3>2. CASE i <= n
      <4>1. i \in 1 .. n /\ H[i] = F[i]  BY <2>6, <3>2
      <4>2. F[i] = IF i = 1 THEN seqs[i] ELSE F[i - 1] \o seqs[i]  BY <2>2, <4>1
      <4>. HIDE DEF H
      <4>. QED  BY <3>1, <4>1, <4>2
    <3>3. CASE ~(i <= n)
      <4>1. H[i] = IF i = 1 THEN seqs[i] ELSE F[i - 1] \o seqs[i]  BY <3>3
      <4>. HIDE DEF H
      <4>. QED  BY <3>1, <4>1
    <3>. QED  BY <3>2, <3>3
  <2>8. G(H, n + 1)  BY <2>7
  <2>. HIDE DEF H, G
  <2>. QED  BY <2>5, <2>8
<1>. HIDE DEF P
<1>3. S = Nat
  <2>1. 0 \in S  BY <1>1
  <2>2. \A n \in S : n + 1 \in S  BY <1>2
  <2>3. S \in SUBSET Nat  OBVIOUS
  <2>. HIDE DEF S
  <2>. QED  BY <2>1, <2>2, <2>3, Induction
<1>4. P(Len(seqs))  BY <1>3
<1>5. Len(seqs) \in Nat /\ Len(seqs) <= Len(seqs)  OBVIOUS
<1>6. PICK F \in [1 .. Len(seqs) -> Seq(T)] : G(F, Len(seqs))
  <2>. HIDE DEF G
  <2>. QED  BY <1>4, <1>5 DEF P
<1>7. F = [i \in 1 .. Len(seqs) |-> IF i = 1 THEN seqs[i] ELSE F[i - 1] \o seqs[i]]
  <2>1. \A i \in 1 .. Len(seqs) : F[i] = IF i = 1 THEN seqs[i] ELSE F[i - 1] \o seqs[i]  BY <1>6
  <2>. QED  BY <1>6, <2>1
<1>. QED  BY <1>6, <1>7 DEF Flattens

(* and only one.                                                           *)
LEMMA FlattenUnique ==
  ASSUME NEW T, NEW seqs \in Seq(Seq(T)), NEW F, NEW H, Flattens(F, seqs), Flattens(H, seqs)
  PROVE  F = H
<1>1. Len(seqs) \in Nat  OBVIOUS
<1>2. \A i \in 1 .. Len(seqs) : F[i] = IF i = 1 THEN seqs[i] ELSE F[i - 1] \o seqs[i]  BY DEF Flattens
<1>3. \A i \in 1 .. Len(seqs) : H[i] = IF i = 1 THEN seqs[i] ELSE H[i - 1] \o seqs[i]  BY DEF Flattens
<1>. DEFINE S == {n \in Nat : n + 1 <= Len(seqs) => F[n + 1] = H[n + 1]}
<1>4. 0 \in S
  <2>1. 1 <= Len(seqs) => F[1] = seqs[1] /\ H[1] = seqs[1]  BY <1>1, <1>2, <1>3
  <2>. QED  BY <2>1
<1>5. ASSUME NEW n \in S PROVE n + 1 \in S
  <2>1. PICK m \in Nat : m = n + 1 /\ n \in Nat  BY <1>5
  <2>2. ASSUME m + 1 <= Len(seqs) PROVE F[m + 1] = H[m + 1]
    <3>1. m + 1 \in 1 .. Len(seqs) /\ m + 1 # 1 /\ (m + 1) - 1 = m /\ m <= Len(seqs)  BY <1>1, <2>1, <2>2
    <3>2. F[m] = H[m]  BY <1>5, <2>1, <3>1
    <3>3. F[m + 1] = F[(m + 1) - 1] \o seqs[m + 1]  BY <1>2, <3>1
    <3>4. H[m + 1] = H[(m + 1) - 1] \o seqs[m + 1]  BY <1>3, <3>1
    <3>. QED  BY <3>1, <3>2, <3>3, <3>4
  <2>. QED  BY <2>1, <2>2
<1>6. S = Nat
  <2>1. S \in SUBSET Nat  OBVIOUS
  <2>. HIDE DEF S
  <2>. QED  BY <1>4, <1>5, <2>1, Induction
<1>7. ASSUME NEW i \in 1 .. Len(seqs) PROVE F[i] = H[i]
  <2>1. i - 1 \in Nat /\ i - 1 + 1 = i /\ i <= Len(seqs)  BY <1>1
  <2>. QED  BY <1>6, <2>1
<1>. QED  BY <1>7 DEF Flattens

(* What FlattenSeq computes.                                               *)
LEMMA FlattenSeqDef ==
  ASSUME NEW T, NEW seqs \in Seq(Seq(T)), Len(seqs) > 0
  PROVE  \E F \in [1 .. Len(seqs) -> Seq(T)] :
           /\ FlattenSeq(seqs) = F[Len(seqs)]
           /\ \A i \in 1 .. Len(seqs) : F[i] = IF i = 1 THEN seqs[i] ELSE F[i - 1] \o seqs[i]
<1>1. PICK F \in [1 .. Len(seqs) -> Seq(T)] : Flattens(F, seqs)  BY FlattenExists
<1>. DEFINE step(g) == [i \in 1 .. Len(seqs) |-> IF i = 1 THEN seqs[i] ELSE g[i - 1] \o seqs[i]]
            flatten == CHOOSE g : g = step(g)
<1>2. FlattenSeq(seqs) = flatten[Len(seqs)]  BY DEF FlattenSeq
<1>3. F = step(F)  BY <1>1 DEF Flattens
<1>4. \A g : g = step(g) => g = F
  <2>. SUFFICES ASSUME NEW g, Flattens(g, seqs) PROVE g = F  BY Zenon DEF Flattens
  <2>. QED  BY <1>1, FlattenUnique
<1>5. flatten = F
  <2>. HIDE DEF step
  <2>. QED  BY <1>3, <1>4, Zenon
<1>6. FlattenSeq(seqs) = F[Len(seqs)]  BY <1>2, <1>5, Zenon
<1>. HIDE DEF step, flatten
<1>7. \A i \in 1 .. Len(seqs) : F[i] = IF i = 1 THEN seqs[i] ELSE F[i - 1] \o seqs[i]  BY <1>1 DEF Flattens
<1>. QED  BY <1>1, <1>6, <1>7

(* A are the first i sections of the lengths ls, behind section n0.        *)
Laying(n0, ls, i, A) ==
  /\ A \in Seq(Byte) /\ ls[i] <= Len(A) /\ Linked(A)
  /\ A[1][1] = n0 + 1 /\ A[1][2] = 1
  /\ \A k \in 1 .. Len(A) : A[k][1] <= n0 + i
  /\ \A k \in 1 .. ls[i] : A[Len(A) - ls[i] + k] = <<n0 + i, k, ls[i]>>
  /\ \A s \in 1 .. i - 1 : \E r \in 0 .. Len(A) - 1 :
       SectionStart(A[r + 1]) /\ A[r + 1][1] = n0 + s /\ r + A[r + 1][3] <= Len(A) - ls[i]

(* One section is laid,                                                    *)
LEMMA LayFirst ==
  ASSUME NEW n0 \in Nat, NEW ls \in Seq(Lengths), Len(ls) > 0
  PROVE  Laying(n0, ls, 1, SectionBytes(n0 + 1, ls[1]))
<1>1. PICK l \in Lengths : l = ls[1]  OBVIOUS
<1>2. PICK s \in Nat : s = n0 + 1 /\ s > 0  OBVIOUS
<1>3. PICK A : A = SectionBytes(s, l)  OBVIOUS
<1>4. /\ A \in Seq(Byte) /\ Len(A) = l /\ l \in Nat /\ 3 <= l
      /\ \A k \in 1 .. l : A[k] = <<s, k, l>>
  BY <1>2, <1>3, SectionBytesSeq
<1>5. \A k \in 1 .. l : A[k][1] = s /\ A[k][2] = k /\ A[k][3] = l  BY <1>4
<1>6. Linked(A)
  <2>1. ASSUME NEW i \in 1 .. Len(A) - 1 PROVE Links(A[i], A[i + 1])
    <3>1. i \in 1 .. l /\ i + 1 \in 1 .. l /\ i < l  BY <1>4
    <3>. QED  BY <1>2, <1>5, <3>1 DEF Links
  <2>. QED  BY <2>1 DEF Linked
<1>7. 1 \in 1 .. l /\ \A k \in 1 .. l : Len(A) - l + k = k  BY <1>4
<1>8. Laying(n0, ls, 1, A)
  <2>1. A[1][1] = n0 + 1 /\ A[1][2] = 1  BY <1>2, <1>5, <1>7
  <2>2. \A k \in 1 .. Len(A) : A[k][1] <= n0 + 1  BY <1>2, <1>4, <1>5
  <2>3. \A k \in 1 .. ls[1] : A[Len(A) - ls[1] + k] = <<n0 + 1, k, ls[1]>>
    BY <1>1, <1>2, <1>4, <1>7
  <2>4. 1 .. 1 - 1 = {}  OBVIOUS
  <2>5. ls[1] <= Len(A)  BY <1>1, <1>4
  <2>. QED  BY <1>4, <1>6, <2>1, <2>2, <2>3, <2>4, <2>5 DEF Laying
<1>. QED  BY <1>1, <1>2, <1>3, <1>8

(* and another one behind it.                                              *)
LEMMA LayMore ==
  ASSUME NEW n0 \in Nat, NEW ls \in Seq(Lengths), NEW i \in Nat, i >= 1, i + 1 <= Len(ls),
         NEW A, Laying(n0, ls, i, A)
  PROVE  Laying(n0, ls, i + 1, A \o SectionBytes(n0 + (i + 1), ls[i + 1]))
<1>1. PICK j \in Nat : j = i + 1 /\ j - 1 = i /\ j \in 1 .. Len(ls) /\ i \in 1 .. Len(ls)  OBVIOUS
<1>2. PICK l \in Lengths, h \in Lengths : l = ls[j] /\ h = ls[i]  BY <1>1
<1>3. PICK s \in Nat : s = n0 + j /\ s > 0 /\ s = (n0 + i) + 1 /\ n0 + i \in Nat /\ n0 + i > 0  BY <1>1
<1>4. PICK C : C = SectionBytes(s, l)  OBVIOUS
<1>5. /\ C \in Seq(Byte) /\ Len(C) = l /\ l \in Nat /\ 3 <= l
      /\ \A k \in 1 .. l : C[k] = <<s, k, l>>
  BY <1>3, <1>4, SectionBytesSeq
<1>6. \A k \in 1 .. l : C[k][1] = s /\ C[k][2] = k /\ C[k][3] = l  BY <1>5
<1>7. /\ A \in Seq(Byte) /\ h <= Len(A) /\ Linked(A)
      /\ A[1][1] = n0 + 1 /\ A[1][2] = 1
      /\ \A k \in 1 .. Len(A) : A[k][1] <= n0 + i
      /\ \A k \in 1 .. h : A[Len(A) - h + k] = <<n0 + i, k, h>>
  BY <1>2 DEF Laying
<1>8. h \in Nat /\ 3 <= h  BY SectionConstants
<1>a. PICK a \in Nat : a = Len(A) /\ 1 <= a /\ h <= a  BY <1>7, <1>8
<1>9. A[a][1] = n0 + i /\ A[a][2] = h /\ A[a][3] = h
  <2>1. h \in 1 .. h /\ Len(A) - h + h = a  BY <1>8, <1>a
  <2>2. A[a] = <<n0 + i, h, h>>  BY <1>7, <2>1
  <2>. QED  BY <2>2
<1>10. PICK B : B = A \o C  OBVIOUS
<1>11. /\ B \in Seq(Byte) /\ Len(B) = a + l
       /\ \A k \in 1 .. a + l : B[k] = IF k <= a THEN A[k] ELSE C[k - a]
  BY <1>5, <1>7, <1>a, <1>10, ConcatProperties
<1>12. \A k \in 1 .. a : B[k] = A[k]
  <2>1. \A k \in 1 .. a : k \in 1 .. a + l /\ k <= a  BY <1>5
  <2>. QED  BY <1>11, <2>1
<1>13. \A k \in 1 .. l : B[a + k] = C[k]
  <2>1. \A k \in 1 .. l : a + k \in 1 .. a + l /\ ~(a + k <= a) /\ (a + k) - a = k  BY <1>5
  <2>. QED  BY <1>11, <2>1
<1>14. Linked(B)
  <2>1. ASSUME NEW k \in 1 .. Len(B) - 1 PROVE Links(B[k], B[k + 1])
    <3>1. CASE k < a
      <4>1. k \in 1 .. Len(A) - 1 /\ k \in 1 .. a /\ k + 1 \in 1 .. a  BY <1>a, <3>1
      <4>. QED  BY <1>7, <1>12, <4>1 DEF Linked
    <3>2. CASE k = a
      <4>1. a \in 1 .. a /\ 1 \in 1 .. l  BY <1>5, <1>a
      <4>2. B[k] = A[a] /\ B[k + 1] = C[1]  BY <1>12, <1>13, <3>2, <4>1
      <4>3. C[1][1] = s /\ C[1][2] = 1  BY <1>6, <4>1
      <4>4. B[k][1] = n0 + i /\ B[k][2] = h /\ B[k][3] = h /\ B[k + 1][1] = s /\ B[k + 1][2] = 1
        BY <1>9, <4>2, <4>3
      <4>5. n0 + i # 0 /\ ~(h < h) /\ s = (n0 + i) + 1  BY <1>3, <1>8
      <4>. QED  BY <4>4, <4>5 DEF Links
    <3>3. CASE k > a
      <4>1. PICK m \in 1 .. l : k = a + m /\ k + 1 = a + (m + 1) /\ m + 1 \in 1 .. l /\ m < l
        <5>1. k - a \in 1 .. l /\ k = a + (k - a) /\ k + 1 = a + ((k - a) + 1) /\ (k - a) + 1 \in 1 .. l
              /\ k - a < l
          BY <1>5, <1>11, <3>3
        <5>. QED  BY <5>1
      <4>2. B[k] = C[m] /\ B[k + 1] = C[m + 1]  BY <1>13, <4>1
      <4>3. C[m][1] = s /\ C[m][2] = m /\ C[m][3] = l /\ C[m + 1][1] = s /\ C[m + 1][2] = m + 1
            /\ C[m + 1][3] = l
        BY <1>6, <4>1
      <4>. QED  BY <1>3, <4>1, <4>2, <4>3 DEF Links
    <3>. QED  BY <3>1, <3>2, <3>3
  <2>. QED  BY <2>1 DEF Linked
<1>15. B[1][1] = n0 + 1 /\ B[1][2] = 1
  <2>1. 1 \in 1 .. a  BY <1>a
  <2>. QED  BY <1>7, <1>12, <2>1
<1>16. ASSUME NEW k \in 1 .. Len(B) PROVE B[k][1] <= n0 + j
  <2>1. CASE k <= a
    <3>1. k \in 1 .. a  BY <2>1
    <3>2. B[k] = A[k] /\ A[k][1] <= n0 + i  BY <1>7, <1>12, <1>a, <3>1
    <3>3. A[k][1] \in Nat
      <4>1. k \in 1 .. Len(A)  BY <1>a, <3>1
      <4>2. InByte(A[k])  BY <1>7, <4>1, SeqBytes
      <4>. QED  BY <4>2 DEF InByte
    <3>. QED  BY <1>1, <3>2, <3>3
  <2>2. CASE k > a
    <3>1. k - a \in 1 .. l /\ a + (k - a) = k  BY <1>5, <1>11, <2>2
    <3>2. B[k] = C[k - a]  BY <1>13, <3>1
    <3>3. B[k][1] = s  BY <1>6, <3>1, <3>2
    <3>. QED  BY <1>3, <3>3
  <2>. QED  BY <2>1, <2>2
<1>17. ASSUME NEW k \in 1 .. l PROVE B[Len(B) - l + k] = <<n0 + j, k, l>>
  <2>1. Len(B) - l + k = a + k  BY <1>5, <1>11
  <2>. QED  BY <1>3, <1>5, <1>13, <2>1
<1>18. ASSUME NEW t \in 1 .. j - 1
       PROVE  \E r \in 0 .. Len(B) - 1 :
                SectionStart(B[r + 1]) /\ B[r + 1][1] = n0 + t /\ r + B[r + 1][3] <= Len(B) - l
  <2>1. CASE t \in 1 .. i - 1
    <3>1. PICK r \in 0 .. Len(A) - 1 : /\ SectionStart(A[r + 1]) /\ A[r + 1][1] = n0 + t
                                       /\ r + A[r + 1][3] <= Len(A) - ls[i]
      BY <2>1 DEF Laying
    <3>2. r + 1 \in 1 .. a /\ r \in 0 .. Len(B) - 1 /\ r \in Nat /\ r + 1 \in 1 .. Len(A)  BY <1>5, <1>a, <1>11
    <3>3. B[r + 1] = A[r + 1]  BY <1>12, <3>2
    <3>4. A[r + 1][3] \in Nat  BY <1>7, <3>2, SeqBytes DEF InByte
    <3>5. r + B[r + 1][3] <= Len(B) - l
      <4>1. PICK y \in Nat : y = A[r + 1][3]  BY <3>4
      <4>2. r + y <= a - h  BY <1>2, <1>a, <3>1, <4>1
      <4>3. r + y <= Len(B) - l  BY <1>5, <1>8, <1>11, <3>2, <4>2
      <4>. QED  BY <3>3, <4>1, <4>3
    <3>. QED  BY <3>1, <3>2, <3>3, <3>5
  <2>2. CASE t = i
    <3>0. a - h \in Nat /\ a - h \in 0 .. (a + l) - 1 /\ a - h + 1 \in 1 .. a  BY <1>5, <1>8, <1>a
    <3>1. PICK r \in Nat : r = a - h /\ r \in 0 .. Len(B) - 1 /\ r + 1 \in 1 .. a /\ Len(A) - h + 1 = r + 1
      BY <1>a, <1>11, <3>0
    <3>2. 1 \in 1 .. h  BY <1>8
    <3>3. A[r + 1] = <<n0 + i, 1, h>>  BY <1>7, <3>1, <3>2
    <3>4. B[r + 1] = <<n0 + i, 1, h>>  BY <1>12, <3>1, <3>3
    <3>5. B[r + 1][1] = n0 + i /\ B[r + 1][2] = 1 /\ B[r + 1][3] = h  BY <3>4
    <3>6. r + h <= Len(B) - l  BY <1>5, <1>8, <1>11, <3>1
    <3>. QED  BY <1>3, <2>2, <3>1, <3>5, <3>6 DEF SectionStart
  <2>3. t \in 1 .. i - 1 \/ t = i  BY <1>1
  <2>. QED  BY <2>1, <2>2, <2>3
<1>19. l <= Len(B)  BY <1>5, <1>11
<1>20. Laying(n0, ls, j, B)  BY <1>2, <1>11, <1>14, <1>15, <1>16, <1>17, <1>18, <1>19 DEF Laying
<1>. QED  BY <1>1, <1>2, <1>3, <1>4, <1>10, <1>20

(* The sections of a packet, for every number of them.                     *)
LaidFrom(n0, ls) == FlattenSeq([i \in 1 .. Len(ls) |-> SectionBytes(n0 + i, ls[i])])

(* Laid lays sections out one after the other.                             *)
LEMMA LaidLays ==
  ASSUME NEW n0 \in Nat, NEW ls \in Seq(Lengths), Len(ls) > 0
  PROVE  Laying(n0, ls, Len(ls), LaidFrom(n0, ls))
<1>. DEFINE seqs == [i \in 1 .. Len(ls) |-> SectionBytes(n0 + i, ls[i])]
<1>1. ASSUME NEW i \in 1 .. Len(ls) PROVE SectionBytes(n0 + i, ls[i]) \in Seq(Byte)
  <2>1. n0 + i \in Nat /\ n0 + i > 0 /\ ls[i] \in Lengths  OBVIOUS
  <2>. QED  BY <2>1, SectionBytesSeq
<1>2. Len(ls) \in Nat  OBVIOUS
<1>3. seqs \in Seq(Seq(Byte)) /\ Len(seqs) = Len(ls)
  <2>1. seqs \in [1 .. Len(ls) -> Seq(Byte)]  BY <1>1
  <2>. QED  BY <1>2, <2>1
<1>4. \A i \in 1 .. Len(ls) : seqs[i] = SectionBytes(n0 + i, ls[i])  OBVIOUS
<1>5. LaidFrom(n0, ls) = FlattenSeq(seqs)  BY DEF LaidFrom
<1>. HIDE DEF seqs
<1>6. PICK F : /\ FlattenSeq(seqs) = F[Len(ls)]
               /\ \A i \in 1 .. Len(ls) : F[i] = IF i = 1 THEN seqs[i] ELSE F[i - 1] \o seqs[i]
  BY <1>3, FlattenSeqDef
<1>. DEFINE S == {n \in Nat : n + 1 <= Len(ls) => Laying(n0, ls, n + 1, F[n + 1])}
<1>7. 0 \in S
  <2>1. 1 \in 1 .. Len(ls)  BY <1>2
  <2>2. F[1] = SectionBytes(n0 + 1, ls[1])  BY <1>4, <1>6, <2>1
  <2>. QED  BY <2>2, LayFirst
<1>8. ASSUME NEW n \in S PROVE n + 1 \in S
  <2>1. PICK m \in Nat : m = n + 1 /\ m >= 1  BY <1>8
  <2>. SUFFICES ASSUME m + 1 <= Len(ls) PROVE Laying(n0, ls, m + 1, F[m + 1])  BY <2>1
  <2>2. m <= Len(ls) /\ m + 1 \in 1 .. Len(ls) /\ m + 1 # 1 /\ (m + 1) - 1 = m  BY <1>2, <2>1
  <2>3. Laying(n0, ls, m, F[m])  BY <1>8, <2>1, <2>2
  <2>4. F[m + 1] = F[m] \o SectionBytes(n0 + (m + 1), ls[m + 1])  BY <1>4, <1>6, <2>2
  <2>. QED  BY <2>1, <2>3, <2>4, LayMore
<1>9. S = Nat
  <2>1. S \in SUBSET Nat  OBVIOUS
  <2>. HIDE DEF S
  <2>. QED  BY <1>7, <1>8, <2>1, Induction
<1>10. PICK m \in Nat : m + 1 = Len(ls)
  <2>1. Len(ls) - 1 \in Nat /\ (Len(ls) - 1) + 1 = Len(ls)  BY <1>2
  <2>. QED  BY <2>1
<1>11. Laying(n0, ls, m + 1, F[m + 1])
  <2>1. m \in S  BY <1>9, <1>10
  <2>2. m + 1 <= Len(ls)  BY <1>2, <1>10
  <2>. QED  BY <2>1, <2>2
<1>. QED  BY <1>5, <1>6, <1>10, <1>11

(* The states of the multiplexer.                                          *)
Muxes ==
  {m \in [n : Nat, len : Nat, sent : Nat, cc : 0 .. CcMod - 1] :
     /\ m.sent <= m.len /\ (m.n = 0 => m.len = 0)
     /\ m.n > 0 => m.len \in Lengths /\ m.sent > 0}

(* The sections that are sent completely.                                  *)
Done(m) == IF m.len - m.sent = 0 THEN m.n ELSE m.n - 1

(* The bytes b end where the multiplexer is, in the section it is sending. *)
Joins(b, m) ==
  /\ b # << >>
  /\ m.sent < m.len => b[Len(b)] = <<m.n, m.sent, m.len>> /\ Len(b) <= MaxCount - 1 + m.sent
  /\ m.sent = m.len => b[Len(b)] = Stuff \/ b[Len(b)] = <<m.n, m.len, m.len>>

(* The bytes are the next ones of that section, and stuffing.              *)
Follows(m, bytes) ==
  \A k \in 1 .. Len(bytes) :
    bytes[k] = IF k <= m.len - m.sent THEN <<m.n, m.sent + k, m.len>> ELSE Stuff

(* The bytes A behind a pointer: they begin with section n0 + 1 and hold   *)
(* all that follow until m.                                                *)
Fresh(A, n0, m) ==
  /\ A \in Seq(Byte) /\ A # << >> /\ Len(A) <= MaxCount
  /\ Linked(A) /\ SectionStart(A[1]) /\ A[1][1] = n0 + 1 /\ Joins(A, m)
  /\ \A k \in 1 .. Len(A) : A[k][1] <= m.n
  /\ \A s \in n0 + 1 .. Done(m) : \E r \in 0 .. Len(A) - 1 : WholeAt(A, r) /\ A[r + 1][1] = s

Packets ==
  {p \in [cc : 0 .. CcMod - 1, dci : BOOLEAN, pusi : BOOLEAN, pointer : Nat, bytes : Seq(Byte)] :
     p.pointer <= Len(p.bytes) /\ (p.pusi => Len(p.bytes) > 0)}

BeforePointer(pkt) == SubSeq(pkt.bytes, 1, pkt.pointer)

AfterPointer(pkt) == SubSeq(pkt.bytes, pkt.pointer + 1, Len(pkt.bytes))

(* What the multiplexer m can send: x is the packet with its next state.   *)
Sent(m, x) ==
  /\ x.mux \in Muxes /\ x.pkt \in Packets /\ m.n <= x.mux.n
  /\ x.mux.cc = (m.cc + 1) % CcMod /\ x.pkt.cc = (m.cc + 1) % CcMod

(* No section starts:                                                      *)
Carries(m, x) ==
  /\ ~x.pkt.pusi /\ Len(x.pkt.bytes) > 0 /\ Follows(m, x.pkt.bytes)
  /\ x.mux.n = m.n /\ x.mux.len = m.len
  /\ x.mux.sent = IF m.len - m.sent > Len(x.pkt.bytes) THEN m.sent + Len(x.pkt.bytes) ELSE m.len

(* one starts.                                                             *)
Opens(m, x) ==
  /\ x.pkt.pusi /\ Fresh(AfterPointer(x.pkt), m.n, x.mux)
  /\ BeforePointer(x.pkt) \in Seq(Byte) /\ Len(BeforePointer(x.pkt)) = m.len - m.sent
  /\ Follows(m, BeforePointer(x.pkt))

(* What remains of a section.                                              *)
LEMMA RestRight ==
  ASSUME mux \in Muxes
  PROVE  /\ Remaining \in Nat /\ RestOfSection \in Seq(Byte) /\ Len(RestOfSection) = Remaining
         /\ \A k \in 1 .. Remaining : RestOfSection[k] = <<mux.n, mux.sent + k, mux.len>>
<1>1. PICK n \in Nat, l \in Nat, t \in Nat : /\ n = mux.n /\ l = mux.len /\ t = mux.sent /\ t <= l
                                             /\ (n = 0 => l = 0) /\ (n > 0 => l \in Lengths)
  BY DEF Muxes
<1>2. PICK b : b = SectionBytes(n, l)  OBVIOUS
<1>3. b \in Seq(Byte) /\ Len(b) = l /\ \A k \in 1 .. l : b[k] = <<n, k, l>>
  <2>1. CASE n = 0
    <3>1. l = 0 /\ 1 .. l = {}  BY <1>1, <2>1
    <3>2. b \in [1 .. 0 -> Byte]  BY <1>2, <3>1 DEF SectionBytes
    <3>. QED  BY <3>1, <3>2
  <2>2. CASE n > 0  BY <1>1, <1>2, <2>2, SectionBytesSeq
  <2>. QED  BY <2>1, <2>2
<1>4. \A i \in t + 1 .. l : i \in 1 .. Len(b) /\ b[i] \in Byte
  <2>1. \A i \in t + 1 .. l : i \in 1 .. Len(b)  BY <1>3
  <2>. QED  BY <1>3, <2>1
<1>5. /\ SubSeq(b, t + 1, l) \in Seq(Byte) /\ Len(SubSeq(b, t + 1, l)) = l - t
      /\ \A i \in 1 .. l - t : SubSeq(b, t + 1, l)[i] = b[t + i]
  <2>1. t + 1 \in Int /\ l \in Int /\ t + 1 >= 1 /\ (t + 1 <= l \/ l = t)  BY <1>1
  <2>2. SubSeq(b, t + 1, l) \in Seq(Byte)  BY <1>4, <2>1, SubSeqProperties
  <2>3. Len(SubSeq(b, t + 1, l)) = l - t  BY <1>1, <1>3
  <2>4. ASSUME NEW i \in 1 .. l - t PROVE SubSeq(b, t + 1, l)[i] = b[t + i]  BY <1>1, <1>3
  <2>. QED  BY <2>2, <2>3, <2>4
<1>6. \A k \in 1 .. l - t : b[t + k] = <<n, t + k, l>>
  <2>1. \A k \in 1 .. l - t : t + k \in 1 .. l  BY <1>1
  <2>. QED  BY <1>3, <2>1
<1>7. Remaining = l - t /\ l - t \in Nat  BY <1>1 DEF Remaining
<1>8. RestOfSection = SubSeq(b, t + 1, l)  BY <1>1, <1>2, Zenon DEF RestOfSection
<1>9. PICK R : R = SubSeq(b, t + 1, l)  OBVIOUS
<1>10. \A k \in 1 .. l - t : R[k] = <<n, t + k, l>>  BY <1>5, <1>6, <1>9
<1>. QED  BY <1>1, <1>5, <1>7, <1>8, <1>9, <1>10

(* Stuffing up to a length.                                                *)
LEMMA PaddedRight ==
  ASSUME NEW b \in Seq(Byte), NEW n \in Nat
  PROVE  /\ Padded(b, n) \in Seq(Byte) /\ Len(Padded(b, n)) = n
         /\ \A k \in 1 .. n : /\ k <= Len(b) => Padded(b, n)[k] = b[k]
                              /\ k > Len(b) => Padded(b, n)[k] = Stuff
<1>1. Len(b) \in Nat /\ \A k \in 1 .. n : k <= Len(b) => b[k] \in Byte  OBVIOUS
<1>2. Stuff \in Byte  BY DEF Byte
<1>3. Padded(b, n) \in [1 .. n -> Byte]  BY <1>1, <1>2 DEF Padded
<1>4. \A k \in 1 .. n : Padded(b, n)[k] = IF k <= Len(b) THEN b[k] ELSE Stuff  BY DEF Padded
<1>5. \A k \in 1 .. n : k > Len(b) => ~(k <= Len(b))  BY <1>1
<1>. QED  BY <1>3, <1>4, <1>5

(* A continuation.                                                         *)
LEMMA ContinuationRight ==
  ASSUME mux \in Muxes, NEW count \in Counts, NEW dci \in BOOLEAN
  PROVE  Sent(mux, Continuation(count, dci)) /\ Carries(mux, Continuation(count, dci))
<1>1. PICK n \in Nat, l \in Nat, t \in Nat, c \in 0 .. CcMod - 1 :
        /\ mux = [n |-> n, len |-> l, sent |-> t, cc |-> c] /\ t <= l
        /\ (n = 0 => l = 0) /\ (n > 0 => l \in Lengths /\ t > 0)
  BY DEF Muxes
<1>2. /\ Remaining \in Nat /\ RestOfSection \in Seq(Byte) /\ Len(RestOfSection) = Remaining
      /\ Remaining = l - t
      /\ \A k \in 1 .. Remaining : RestOfSection[k] = <<n, t + k, l>>
  BY <1>1, RestRight DEF Remaining
<1>3. count \in Nat /\ count > 0  BY SectionConstants
<1>4. PICK b \in Seq(Byte) : b = Padded(RestOfSection, count)  BY <1>2, <1>3, PaddedRight
<1>5. /\ Len(b) = count
      /\ \A k \in 1 .. count : /\ k <= l - t => b[k] = RestOfSection[k]
                               /\ k > l - t => b[k] = Stuff
  <2>1. PICK R \in Seq(Byte) : R = RestOfSection /\ Len(R) = l - t  BY <1>2
  <2>2. b = Padded(R, count)  BY <1>4, <2>1
  <2>3. /\ Len(Padded(R, count)) = count
        /\ \A k \in 1 .. count : /\ k <= Len(R) => Padded(R, count)[k] = R[k]
                                 /\ k > Len(R) => Padded(R, count)[k] = Stuff
    BY <1>3, PaddedRight
  <2>. QED  BY <2>1, <2>2, <2>3
<1>6. PICK c1 \in 0 .. CcMod - 1 : c1 = (c + 1) % CcMod  BY <1>1, SectionConstants
<1>7. PICK t1 \in Nat : /\ t1 = IF l - t > count THEN t + count ELSE l
                        /\ t1 <= l /\ (n > 0 => t1 > 0)
  <2>1. n > 0 => l > 0  BY <1>1
  <2>. DEFINE u == IF l - t > count THEN t + count ELSE l
  <2>2. u \in Nat /\ u <= l /\ (n > 0 => u > 0)  BY <1>1, <1>3, <2>1
  <2>. QED  BY <2>2
<1>8. PICK x : x = Continuation(count, dci)  OBVIOUS
<1>9. x.mux = [n |-> n, len |-> l, sent |-> t1, cc |-> c1]
  BY <1>1, <1>2, <1>6, <1>7, <1>8 DEF Continuation
<1>10. x.pkt = [cc |-> c1, dci |-> dci, pusi |-> FALSE, pointer |-> 0, bytes |-> b]
  BY <1>1, <1>4, <1>6, <1>8 DEF Continuation, Header
<1>11. x.mux \in Muxes  BY <1>1, <1>6, <1>7, <1>9 DEF Muxes
<1>12. Sent(mux, x)
  <2>1. x.pkt \in Packets
    <3>1. 0 <= Len(b)  BY <1>3, <1>5
    <3>. QED  BY <1>4, <1>6, <1>10, <3>1 DEF Packets
  <2>. QED  BY <1>1, <1>6, <1>9, <1>10, <1>11, <2>1 DEF Sent
<1>13. Follows(mux, b)
  <2>1. ASSUME NEW k \in 1 .. Len(b)
        PROVE  b[k] = IF k <= l - t THEN <<n, t + k, l>> ELSE Stuff
    <3>1. CASE k <= l - t
      <4>1. k \in 1 .. Remaining /\ k \in 1 .. count  BY <1>2, <1>3, <1>5, <3>1
      <4>. QED  BY <1>2, <1>5, <3>1, <4>1
    <3>2. CASE ~(k <= l - t)
      <4>1. k \in 1 .. count /\ k > l - t  BY <1>1, <1>3, <1>5, <3>2
      <4>. QED  BY <1>5, <3>2, <4>1
    <3>. QED  BY <3>1, <3>2
  <2>. QED  BY <1>1, <2>1 DEF Follows
<1>14. Carries(mux, x)
  <2>1. ~x.pkt.pusi /\ x.pkt.bytes = b /\ x.mux.n = n /\ x.mux.len = l /\ x.mux.sent = t1
    BY <1>9, <1>10
  <2>2. mux.n = n /\ mux.len = l /\ mux.sent = t  BY <1>1
  <2>. QED  BY <1>3, <1>5, <1>7, <1>13, <2>1, <2>2 DEF Carries
<1>. QED  BY <1>8, <1>12, <1>14

(* Where the multiplexer is behind a bytes of sections, the last of which  *)
(* has number n and length l, in the room there is.                        *)
Ends(m, n, l, a, room) ==
  m.n = n /\ m.len = l /\ m.sent = IF a <= room THEN l ELSE room - (a - l)

(* Sections laid behind the pointer, the last of them perhaps cut off.     *)
LEMMA PaddedFresh ==
  ASSUME NEW n0 \in Nat, NEW ls, NEW i \in Nat, i >= 1, NEW new, Laying(n0, ls, i, new),
         NEW l \in Nat, NEW cut \in Nat, NEW a \in Nat, l = ls[i], 3 <= l, a = cut + l, a = Len(new),
         NEW room \in Nat, room > cut, room <= MaxCount - 1,
         NEW m \in Muxes, Ends(m, n0 + i, l, a, room)
  PROVE  Fresh(Padded(new, room), n0, m)
<1>1. m.n = n0 + i /\ m.len = l /\ m.sent = IF a <= room THEN l ELSE room - (a - l)  BY DEF Ends
<1>2. /\ new \in Seq(Byte) /\ l <= Len(new) /\ Linked(new)
      /\ new[1][1] = n0 + 1 /\ new[1][2] = 1
      /\ \A k \in 1 .. Len(new) : new[k][1] <= n0 + i
      /\ \A k \in 1 .. l : new[Len(new) - l + k] = <<n0 + i, k, l>>
  BY DEF Laying
<1>3. a >= 1  OBVIOUS
<1>4. room > cut /\ room >= 1 /\ MaxCount \in Nat  BY <1>1, <1>3, SectionConstants
<1>5. PICK A \in Seq(Byte) : A = Padded(new, room)  BY <1>2, PaddedRight
<1>6. /\ Len(A) = room
      /\ \A k \in 1 .. room : /\ k <= a => A[k] = new[k]
                              /\ k > a => A[k] = Stuff
  <2>1. /\ Len(Padded(new, room)) = room
        /\ \A k \in 1 .. room : /\ k <= Len(new) => Padded(new, room)[k] = new[k]
                                /\ k > Len(new) => Padded(new, room)[k] = Stuff
    BY <1>2, PaddedRight
  <2>. QED  BY <1>5, <2>1
<1>7. Stuff[1] = 0  BY DEF Stuff
<1>8. \A k \in 1 .. l : new[cut + k] = <<n0 + i, k, l>>
  <2>1. \A k \in 1 .. l : Len(new) - l + k = cut + k  BY <1>1, <1>3
  <2>. QED  BY <1>2, <2>1
<1>9. new[a] = <<n0 + i, l, l>>
  <2>1. l \in 1 .. l /\ cut + l = a  BY <1>1, <1>3
  <2>. QED  BY <1>8, <2>1
<1>10. Linked(A)
  <2>1. ASSUME NEW k \in 1 .. Len(A) - 1 PROVE Links(A[k], A[k + 1])
    <3>1. k \in 1 .. room /\ k + 1 \in 1 .. room  BY <1>6
    <3>2. CASE k + 1 <= a
      <4>1. k <= a /\ k \in 1 .. Len(new) - 1  BY <1>3, <3>1, <3>2
      <4>2. A[k] = new[k] /\ A[k + 1] = new[k + 1]  BY <1>6, <3>1, <3>2, <4>1
      <4>. QED  BY <1>2, <4>1, <4>2 DEF Linked
    <3>3. CASE k = a
      <4>1. k <= a /\ k + 1 > a  BY <1>3, <3>3
      <4>2. A[k] = new[a] /\ A[k + 1] = Stuff  BY <1>6, <3>1, <3>3, <4>1
      <4>3. A[k][1] = n0 + i /\ A[k][2] = l /\ A[k][3] = l  BY <1>9, <4>2
      <4>4. n0 + i # 0 /\ ~(l < l)  BY <1>1
      <4>. QED  BY <1>7, <4>2, <4>3, <4>4 DEF Links
    <3>4. CASE k > a
      <4>1. k + 1 > a  BY <1>3, <3>4
      <4>2. A[k] = Stuff /\ A[k + 1] = Stuff  BY <1>6, <3>1, <3>4, <4>1
      <4>. QED  BY <1>7, <4>2 DEF Links
    <3>5. k + 1 <= a \/ k = a \/ k > a  BY <1>3, <3>1
    <3>. QED  BY <3>2, <3>3, <3>4, <3>5
  <2>. QED  BY <2>1 DEF Linked
<1>11. SectionStart(A[1]) /\ A[1][1] = n0 + 1
  <2>1. 1 \in 1 .. room /\ 1 <= a  BY <1>3, <1>4
  <2>2. A[1] = new[1]  BY <1>6, <2>1
  <2>3. n0 + 1 > 0  OBVIOUS
  <2>. QED  BY <1>2, <2>2, <2>3 DEF SectionStart
<1>12. A # << >> /\ Len(A) <= MaxCount  BY <1>4, <1>6
<1>13. ASSUME NEW k \in 1 .. Len(A) PROVE A[k][1] <= m.n
  <2>1. CASE k <= a
    <3>1. k \in 1 .. Len(new) /\ k \in 1 .. room  BY <1>3, <1>6, <2>1
    <3>. QED  BY <1>1, <1>2, <1>6, <2>1, <3>1
  <2>2. CASE k > a
    <3>1. k \in 1 .. room  BY <1>6
    <3>2. 0 <= n0 + i  OBVIOUS
    <3>. QED  BY <1>1, <1>6, <1>7, <2>2, <3>1, <3>2
  <2>. QED  BY <1>3, <2>1, <2>2
<1>14. Joins(A, m)
  <2>0. room \in 1 .. room  BY <1>4
  <2>1. CASE a <= room
    <3>1. m.sent = l /\ m.len = l /\ m.n = n0 + i  BY <1>1, <1>3, <2>1
    <3>2. A[room] = Stuff \/ A[room] = <<n0 + i, l, l>>
      <4>1. CASE room = a
        <5>1. room <= a  BY <4>1
        <5>. QED  BY <1>6, <1>9, <2>0, <4>1, <5>1
      <4>2. CASE room > a  BY <1>6, <2>0, <4>2
      <4>. QED  BY <1>3, <2>1, <4>1, <4>2
    <3>3. ~(l < l)  BY <1>1
    <3>. QED  BY <1>6, <1>12, <3>1, <3>2, <3>3 DEF Joins
  <2>2. CASE ~(a <= room)
    <3>1. PICK t \in Nat : t = room - cut /\ t \in 1 .. l /\ t < l /\ room = cut + t
      <4>1. room - cut \in Nat /\ room - cut \in 1 .. l /\ room - cut < l /\ room = cut + (room - cut)
        BY <1>4, <2>2
      <4>. QED  BY <4>1
    <3>2. m.sent = t /\ m.len = l /\ m.n = n0 + i
      <4>1. a - l = cut  OBVIOUS
      <4>. QED  BY <1>1, <1>3, <2>2, <3>1, <4>1
    <3>3. A[room] = <<n0 + i, t, l>>
      <4>1. room <= a  BY <1>3, <2>2
      <4>. QED  BY <1>6, <1>8, <2>0, <3>1, <4>1
    <3>4. Len(A) <= MaxCount - 1 + t  BY <1>4, <1>6, <3>1
    <3>5. t # l  BY <3>1
    <3>. QED  BY <1>6, <1>12, <3>1, <3>2, <3>3, <3>4, <3>5 DEF Joins
  <2>. QED  BY <2>1, <2>2
<1>15. ASSUME NEW s \in n0 + 1 .. Done(m)
       PROVE  \E r \in 0 .. Len(A) - 1 : WholeAt(A, r) /\ A[r + 1][1] = s
  <2>0. Done(m) \in Int /\ Done(m) <= n0 + i /\ (Done(m) = n0 + i => m.sent = l)
    <3>1. m.n \in Nat /\ m.len \in Nat /\ m.sent \in Nat  BY DEF Muxes
    <3>2. PICK y \in Nat : y = m.sent  BY <3>1
    <3>3. Done(m) = IF l - y = 0 THEN n0 + i ELSE n0 + i - 1  BY <1>1, <3>2 DEF Done
    <3>4. CASE l - y = 0  BY <3>2, <3>3, <3>4
    <3>5. CASE l - y # 0  BY <3>2, <3>3, <3>5
    <3>. QED  BY <3>4, <3>5
  <2>1. CASE s < n0 + i
    <3>1. PICK t \in 1 .. i - 1 : s = n0 + t
      <4>1. s - n0 \in 1 .. i - 1 /\ s = n0 + (s - n0)  BY <2>0, <2>1
      <4>. QED  BY <4>1
    <3>2. PICK r \in 0 .. Len(new) - 1 : /\ SectionStart(new[r + 1]) /\ new[r + 1][1] = n0 + t
                                         /\ r + new[r + 1][3] <= Len(new) - ls[i]
      BY DEF Laying
    <3>3. r \in Nat /\ r + 1 \in 1 .. Len(new)  BY <1>3
    <3>4. PICK y \in Nat : y = new[r + 1][3] /\ y >= 3
      <4>1. InByte(new[r + 1])  BY <1>2, <3>3, SeqBytes
      <4>2. new[r + 1][1] > 0  BY <3>2 DEF SectionStart
      <4>3. new[r + 1][3] \in Nat /\ 3 <= new[r + 1][3]  BY <4>1, <4>2 DEF InByte
      <4>. QED  BY <4>3
    <3>5. r + y <= cut
      <4>1. Len(new) - ls[i] = cut  OBVIOUS
      <4>. QED  BY <3>2, <3>4, <4>1
    <3>6. r + 1 \in 1 .. room /\ r + 1 <= a /\ r \in 0 .. Len(A) - 1 /\ r + y <= Len(A)
      <4>1. Len(A) = room /\ r \in Nat /\ y \in Nat /\ 3 <= y  BY <1>6, <3>3, <3>4
      <4>2. r + 1 <= room /\ r + 1 <= a /\ r + y <= room  BY <1>4, <3>5, <4>1
      <4>. QED  BY <4>1, <4>2
    <3>7. A[r + 1] = new[r + 1]  BY <1>6, <3>6
    <3>. QED  BY <3>1, <3>2, <3>4, <3>6, <3>7 DEF WholeAt
  <2>2. CASE ~(s < n0 + i)
    <3>1. s = n0 + i /\ m.sent = l  BY <2>0, <2>2
    <3>2. a <= room
      <4>. SUFFICES ASSUME ~(a <= room) PROVE FALSE  OBVIOUS
      <4>1. l = room - cut  BY <1>1, <1>3, <3>1
      <4>. QED  BY <1>3, <1>4, <4>1
    <3>3. /\ cut + 1 \in 1 .. room /\ cut + 1 <= a /\ cut \in 0 .. Len(A) - 1 /\ cut + l <= Len(A)
          /\ 1 \in 1 .. l
      BY <1>1, <1>3, <1>4, <1>6, <3>2
    <3>4. A[cut + 1] = <<n0 + i, 1, l>>  BY <1>6, <1>8, <3>3
    <3>5. A[cut + 1][1] = n0 + i /\ A[cut + 1][2] = 1 /\ A[cut + 1][3] = l /\ n0 + i > 0  BY <3>4
    <3>. QED  BY <3>1, <3>3, <3>5 DEF WholeAt, SectionStart
  <2>. QED  BY <2>1, <2>2
<1>16. Fresh(A, n0, m)  BY <1>5, <1>10, <1>11, <1>12, <1>13, <1>14, <1>15 DEF Fresh
<1>. QED  BY <1>5, <1>16

(* A packet in which sections start.                                       *)
LEMMA StartRight ==
  ASSUME mux \in Muxes, NEW count \in Counts, NEW ls \in LengthSeqs, NEW dci \in BOOLEAN, Fits(count, ls)
  PROVE  Sent(mux, Start(count, ls, dci)) /\ Opens(mux, Start(count, ls, dci))
<1>1. PICK n \in Nat, l \in Nat, t \in Nat, c \in 0 .. CcMod - 1 :
        /\ mux = [n |-> n, len |-> l, sent |-> t, cc |-> c] /\ t <= l
        /\ (n = 0 => l = 0) /\ (n > 0 => l \in Lengths /\ t > 0)
  BY DEF Muxes
<1>2. PICK R \in Seq(Byte), rem \in Nat :
        /\ R = RestOfSection /\ Len(R) = rem /\ rem = Remaining /\ rem = l - t
        /\ \A k \in 1 .. rem : R[k] = <<n, t + k, l>>
  <2>1. Remaining = l - t  BY <1>1 DEF Remaining
  <2>. QED  BY <1>1, <2>1, RestRight
<1>3. count \in Nat /\ count > 0 /\ count <= MaxCount /\ MaxCount \in Nat  BY SectionConstants
<1>4. PICK i \in Nat : i = Len(ls) /\ i >= 1 /\ ls \in Seq(Lengths)
  <2>1. PICK k \in 1 .. MaxStarts : ls \in [1 .. k -> Lengths]  BY DEF LengthSeqs
  <2>2. k \in Nat /\ k >= 1  BY <2>1, SectionConstants
  <2>. QED  BY <2>1, <2>2
<1>5. PICK h \in Lengths : h = ls[i] /\ h = Last(ls)  BY <1>4 DEF Last
<1>6. h \in Nat /\ 3 <= h  BY SectionConstants
<1>7. PICK new : new = Laid(ls) /\ Laying(n, ls, i, new)
  <2>1. Laid(ls) = LaidFrom(n, ls)  BY <1>1 DEF Laid, LaidFrom
  <2>. QED  BY <1>4, <2>1, LaidLays
<1>8. new \in Seq(Byte) /\ h <= Len(new) /\ Len(new) \in Nat  BY <1>5, <1>7 DEF Laying
<1>9. PICK room \in Nat : room = count - 1 - rem /\ room > Len(new) - h /\ room <= MaxCount - 1
  <2>1. count - 1 - rem > Len(new) - h  BY <1>2, <1>5, <1>7 DEF Fits
  <2>2. count - 1 - rem \in Nat /\ count - 1 - rem <= MaxCount - 1  BY <1>3, <1>6, <1>8, <2>1
  <2>. QED  BY <2>1, <2>2
<1>10. PICK c1 \in 0 .. CcMod - 1 : c1 = (c + 1) % CcMod  BY <1>1, SectionConstants
<1>11. PICK t1 \in Nat : /\ t1 = IF Len(new) <= room THEN h ELSE room - (Len(new) - h)
                         /\ t1 <= h /\ t1 > 0
  <2>. DEFINE u == IF Len(new) <= room THEN h ELSE room - (Len(new) - h)
  <2>1. u \in Nat /\ u <= h /\ u > 0  BY <1>6, <1>8, <1>9
  <2>. QED  BY <2>1
<1>12. PICK A \in Seq(Byte) : A = Padded(new, room) /\ Len(A) = room  BY <1>8, PaddedRight
<1>13. PICK x : x = Start(count, ls, dci)  OBVIOUS
<1>14. x.mux = [n |-> n + i, len |-> h, sent |-> t1, cc |-> c1]
  <2>1. mux.n = n /\ mux.cc = c  BY <1>1
  <2>. QED  BY <1>2, <1>4, <1>5, <1>7, <1>9, <1>10, <1>11, <1>13, <2>1 DEF Start
<1>15. PICK b : b = R \o A  OBVIOUS
<1>16. x.pkt = [cc |-> c1, dci |-> dci, pusi |-> TRUE, pointer |-> rem, bytes |-> b]
  <2>1. mux.n = n /\ mux.cc = c  BY <1>1
  <2>. QED  BY <1>2, <1>7, <1>9, <1>10, <1>12, <1>13, <1>15, <2>1 DEF Start, Header
<1>17. PICK m \in Muxes : m = x.mux /\ m.n = n + i /\ m.len = h /\ m.sent = t1
  <2>1. n + i > 0 /\ n + i \in Nat  BY <1>4
  <2>2. x.mux \in Muxes  BY <1>6, <1>10, <1>11, <1>14, <2>1 DEF Muxes
  <2>. QED  BY <1>14, <2>2
<1>18. Fresh(A, n, m)
  <2>1. PICK a \in Nat, cut \in Nat : a = Len(new) /\ a = cut + h /\ cut = Len(new) - h
    <3>1. Len(new) - h \in Nat /\ Len(new) = (Len(new) - h) + h  BY <1>6, <1>8
    <3>. QED  BY <1>8, <3>1
  <2>2. Ends(m, n + i, h, a, room)  BY <1>11, <1>17, <2>1 DEF Ends
  <2>3. room > cut  BY <1>9, <2>1
  <2>. QED  BY <1>4, <1>5, <1>6, <1>7, <1>9, <1>12, <1>17, <2>1, <2>2, <2>3, PaddedFresh
<1>19. b \in Seq(Byte) /\ Len(b) = rem + room
       /\ \A k \in 1 .. rem + room : b[k] = IF k <= rem THEN R[k] ELSE A[k - rem]
  <2>1. /\ R \o A \in Seq(Byte) /\ Len(R \o A) = Len(R) + Len(A)
        /\ \A k \in 1 .. Len(R) + Len(A) : (R \o A)[k] = IF k <= Len(R) THEN R[k] ELSE A[k - Len(R)]
    BY <1>2, <1>12, ConcatProperties
  <2>. QED  BY <1>2, <1>12, <1>15, <2>1
<1>20. BeforePointer(x.pkt) = R
  <2>1. BeforePointer(x.pkt) = SubSeq(b, 1, rem)  BY <1>16 DEF BeforePointer
  <2>2. SubSeq(b, 1, rem) = R
    <3>1. \A k \in 1 .. rem : k \in 1 .. rem + room /\ k <= rem  BY <1>2
    <3>2. \A k \in 1 .. rem : b[k] = R[k]  BY <1>19, <3>1
    <3>3. SubSeq(b, 1, rem) \in Seq(Byte) /\ Len(SubSeq(b, 1, rem)) = rem  BY <1>2, <1>9, <1>19
    <3>4. ASSUME NEW k \in 1 .. rem PROVE SubSeq(b, 1, rem)[k] = b[k]
      <4>1. rem <= Len(b) /\ 1 + k - 1 = k /\ k \in 1 .. 1 + rem - 1  BY <1>2, <1>9, <1>19
      <4>. QED  BY <1>2, <1>19, <4>1
    <3>. QED  BY <1>2, <3>2, <3>3, <3>4, SeqEqual
  <2>. QED  BY <2>1, <2>2
<1>21. AfterPointer(x.pkt) = A
  <2>0. x.pkt.bytes = b /\ x.pkt.pointer = rem /\ Len(b) = rem + room  BY <1>16, <1>19
  <2>1. AfterPointer(x.pkt) = SubSeq(b, rem + 1, rem + room)  BY <2>0, Zenon DEF AfterPointer
  <2>2. SubSeq(b, rem + 1, rem + room) = A
    <3>1. \A k \in 1 .. room : rem + k \in 1 .. rem + room /\ ~(rem + k <= rem) /\ (rem + k) - rem = k
      BY <1>2, <1>9
    <3>2. \A k \in 1 .. room : b[rem + k] = A[k]  BY <1>19, <3>1
    <3>3. SubSeq(b, rem + 1, rem + room) \in Seq(Byte) /\ Len(SubSeq(b, rem + 1, rem + room)) = room
      BY <1>2, <1>9, <1>19
    <3>4. \A k \in 1 .. room : SubSeq(b, rem + 1, rem + room)[k] = b[rem + k]  BY <1>2, <1>9, <1>19
    <3>. QED  BY <1>12, <3>2, <3>3, <3>4, SeqEqual
  <2>. QED  BY <2>1, <2>2
<1>22. Follows(mux, R)
  <2>1. \A k \in 1 .. Len(R) : k <= l - t /\ R[k] = <<n, t + k, l>>  BY <1>2
  <2>. QED  BY <1>1, <2>1 DEF Follows
<1>23. Sent(mux, x)
  <2>1. x.pkt \in Packets
    <3>0. room > 0  BY <1>6, <1>8, <1>9
    <3>1. rem <= Len(b) /\ b \in Seq(Byte) /\ Len(b) > 0  BY <1>2, <1>9, <1>19, <3>0
    <3>. QED  BY <1>2, <1>10, <1>16, <3>1 DEF Packets
  <2>2. mux.n = n /\ mux.cc = c /\ x.mux.cc = c1 /\ x.pkt.cc = c1 /\ n <= n + i  BY <1>1, <1>4, <1>14, <1>16
  <2>. QED  BY <1>10, <1>17, <2>1, <2>2 DEF Sent
<1>24. Opens(mux, x)
  <2>1. mux.n = n /\ mux.len - mux.sent = rem /\ x.pkt.pusi  BY <1>1, <1>2, <1>16
  <2>. QED  BY <1>2, <1>17, <1>18, <1>20, <1>21, <1>22, <2>1 DEF Opens
<1>. QED  BY <1>13, <1>23, <1>24

(* What the multiplexer sends.                                             *)
LEMMA SendableRight ==
  ASSUME mux \in Muxes, NEW x \in Sendable
  PROVE  Sent(mux, x) /\ (Carries(mux, x) \/ Opens(mux, x))
<1>1. CASE \E c \in Counts \X BOOLEAN : x = Continuation(c[1], c[2])
  BY <1>1, ContinuationRight
<1>2. CASE \E c \in Counts \X LengthSeqs \X BOOLEAN : Fits(c[1], c[2]) /\ x = Start(c[1], c[2], c[3])
  BY <1>2, StartRight
<1>. QED  BY <1>1, <1>2 DEF Sendable

-----------------------------------------------------------------------------
(* A packet at a feed in step                                              *)

(* A feed in step: its buffer holds sections of the stream, none cut at    *)
(* its beginning or at secbufp, and none that is not sent yet.             *)
Steady(f, m) ==
  /\ Linked(f.base) /\ Between(f.base, 0) /\ Between(f.base, f.secbufp)
  /\ \A k \in 1 .. Len(f.base) : f.base[k][1] <= m.n

(* What was delivered comes before what is still in the buffer.            *)
Later(del, f) ==
  \A q \in f.secbufp .. Len(f.base) - 1 :
    SectionStart(f.base[q + 1]) => \A i \in 1 .. Len(del) : del[i] < f.base[q + 1][1]

Rising(del) == \A i, j \in 1 .. Len(del) : i < j => del[i] < del[j]

(* The next bytes of the section join those of the buffer, and no section  *)
(* starts in them.                                                         *)
LEMMA Joined ==
  ASSUME NEW m \in Muxes, NEW b \in Seq(Byte), Linked(b), Joins(b, m),
         NEW bytes \in Seq(Byte), Follows(m, bytes)
  PROVE  /\ Linked(b \o bytes)
         /\ \A p \in 0 .. Len(b) : Between(b, p) => Between(b \o bytes, p)
         /\ \A k \in 1 .. Len(b) + Len(bytes) : k > Len(b) => ~SectionStart((b \o bytes)[k])
<1>1. PICK n \in Nat, l \in Nat, t \in Nat :
        n = m.n /\ l = m.len /\ t = m.sent /\ t <= l /\ (n = 0 => l = 0) /\ (n > 0 => t > 0)
  BY DEF Muxes
<1>2. PICK a \in Nat, e \in Nat : a = Len(b) /\ e = Len(bytes)  OBVIOUS
<1>3. a >= 1 /\ b # << >>  BY <1>2 DEF Joins
<1>4. PICK c : c = b \o bytes  OBVIOUS
<1>5. /\ c \in Seq(Byte) /\ Len(c) = a + e
      /\ \A k \in 1 .. a + e : c[k] = IF k <= a THEN b[k] ELSE bytes[k - a]
  BY <1>2, <1>4, ConcatProperties
<1>6. \A k \in 1 .. a : c[k] = b[k]
  <2>1. \A k \in 1 .. a : k \in 1 .. a + e /\ k <= a  BY <1>2
  <2>. QED  BY <1>5, <2>1
<1>7. \A k \in 1 .. e : c[a + k] = bytes[k]
  <2>1. \A k \in 1 .. e : a + k \in 1 .. a + e /\ ~(a + k <= a) /\ (a + k) - a = k  BY <1>2
  <2>. QED  BY <1>5, <2>1
<1>8. \A k \in 1 .. e : bytes[k] = IF k <= l - t THEN <<n, t + k, l>> ELSE Stuff
  BY <1>1, <1>2 DEF Follows
<1>9. Stuff[1] = 0  BY DEF Stuff
<1>10. \A k \in 1 .. e : k <= l - t =>
         c[a + k][1] = n /\ c[a + k][2] = t + k /\ c[a + k][3] = l /\ n > 0 /\ t > 0
  <2>. SUFFICES ASSUME NEW k \in 1 .. e, k <= l - t
                PROVE  c[a + k][1] = n /\ c[a + k][2] = t + k /\ c[a + k][3] = l /\ n > 0 /\ t > 0
    OBVIOUS
  <2>1. n > 0 /\ t > 0  BY <1>1
  <2>2. c[a + k] = <<n, t + k, l>>  BY <1>7, <1>8
  <2>3. c[a + k][1] = n /\ c[a + k][2] = t + k /\ c[a + k][3] = l  BY <2>2
  <2>. QED  BY <2>1, <2>3
<1>11. \A k \in 1 .. e : ~(k <= l - t) => c[a + k][1] = 0  BY <1>7, <1>8, <1>9
<1>12. /\ t < l => b[a][1] = n /\ b[a][2] = t /\ b[a][3] = l
       /\ t = l => b[a][1] = 0 \/ (b[a][1] = n /\ b[a][2] = l /\ b[a][3] = l)
  <2>1. t < l => b[a] = <<n, t, l>>  BY <1>1, <1>2 DEF Joins
  <2>2. t = l => b[a] = Stuff \/ b[a] = <<n, l, l>>  BY <1>1, <1>2 DEF Joins
  <2>. QED  BY <1>9, <2>1, <2>2
<1>13. a \in 1 .. a /\ c[a] = b[a]
  <2>1. a \in 1 .. a  BY <1>3
  <2>. QED  BY <1>6, <2>1
<1>14. Linked(c)
  <2>1. ASSUME NEW k \in 1 .. Len(c) - 1 PROVE Links(c[k], c[k + 1])
    <3>1. CASE k < a
      <4>1. k \in 1 .. Len(b) - 1 /\ k \in 1 .. a /\ k + 1 \in 1 .. a  BY <1>2, <3>1
      <4>. QED  BY <1>6, <4>1 DEF Linked
    <3>2. CASE k = a
      <4>0. 1 \in 1 .. e  BY <1>5, <3>2
      <4>1. CASE t < l
        <5>1. 1 <= l - t  BY <4>1
        <5>2. c[a + 1][1] = n /\ c[a + 1][2] = t + 1 /\ c[a + 1][3] = l /\ n > 0  BY <1>10, <4>0, <5>1
        <5>3. c[a][1] = n /\ c[a][2] = t /\ c[a][3] = l  BY <1>12, <1>13, <4>1
        <5>4. n # 0  BY <5>2
        <5>. QED  BY <3>2, <4>1, <5>2, <5>3, <5>4 DEF Links
      <4>2. CASE t = l
        <5>1. ~(1 <= l - t) /\ ~(l < l)  BY <4>2
        <5>2. c[a + 1][1] = 0  BY <1>11, <4>0, <5>1
        <5>3. c[a][1] = 0 \/ (c[a][2] = l /\ c[a][3] = l)  BY <1>12, <1>13, <4>2
        <5>. QED  BY <3>2, <5>1, <5>2, <5>3 DEF Links
      <4>. QED  BY <1>1, <4>1, <4>2
    <3>3. CASE k > a
      <4>1. PICK j \in 1 .. e : k = a + j /\ k + 1 = a + (j + 1) /\ j + 1 \in 1 .. e
        <5>1. k - a \in 1 .. e /\ k = a + (k - a) /\ k + 1 = a + ((k - a) + 1) /\ (k - a) + 1 \in 1 .. e
          BY <1>5, <3>3
        <5>. QED  BY <5>1
      <4>2. CASE j + 1 <= l - t
        <5>1. j <= l - t /\ t + j < l /\ t + (j + 1) = (t + j) + 1  BY <4>2
        <5>2. c[a + (j + 1)][1] = n /\ c[a + (j + 1)][2] = t + (j + 1) /\ c[a + (j + 1)][3] = l /\ n > 0
          BY <1>10, <4>1, <4>2
        <5>3. c[a + j][1] = n /\ c[a + j][2] = t + j /\ c[a + j][3] = l  BY <1>10, <5>1
        <5>4. n # 0  BY <5>2
        <5>. QED  BY <4>1, <5>1, <5>2, <5>3, <5>4 DEF Links
      <4>3. CASE ~(j + 1 <= l - t) /\ j <= l - t
        <5>1. t + j = l /\ ~(l < l)  BY <4>3
        <5>2. c[a + (j + 1)][1] = 0  BY <1>11, <4>1, <4>3
        <5>3. c[a + j][1] = n /\ c[a + j][2] = l /\ c[a + j][3] = l  BY <1>10, <4>3, <5>1
        <5>. QED  BY <4>1, <5>1, <5>2, <5>3 DEF Links
      <4>4. CASE ~(j + 1 <= l - t) /\ ~(j <= l - t)
        <5>1. c[a + (j + 1)][1] = 0 /\ c[a + j][1] = 0  BY <1>11, <4>1, <4>4
        <5>. QED  BY <4>1, <5>1 DEF Links
      <4>. QED  BY <4>2, <4>3, <4>4
    <3>. QED  BY <3>1, <3>2, <3>3
  <2>. QED  BY <2>1 DEF Linked
<1>15. ASSUME NEW p \in 0 .. a, Between(b, p) PROVE Between(c, p)
  <2>1. p > 0 => c[p][1] = 0 \/ c[p][2] = c[p][3]
    <3>1. p > 0 => p \in 1 .. a  OBVIOUS
    <3>. QED  BY <1>6, <1>15, <3>1 DEF Between
  <2>2. CASE p < a
    <3>1. p + 1 \in 1 .. a  BY <2>2
    <3>2. c[p + 1][1] = 0 \/ c[p + 1][2] = 1  BY <1>2, <1>6, <1>15, <2>2, <3>1 DEF Between
    <3>. QED  BY <2>1, <3>2 DEF Between
  <2>3. CASE p = a
    <3>1. b[a][1] = 0 \/ b[a][2] = b[a][3]  BY <1>3, <1>15, <2>3 DEF Between
    <3>2. t = l
      <4>. SUFFICES ASSUME t < l PROVE FALSE  BY <1>1
      <4>1. b[a][1] = n /\ b[a][2] = t /\ b[a][3] = l  BY <1>12
      <4>2. n = 0  BY <3>1, <4>1
      <4>. QED  BY <1>1, <4>2
    <3>3. e > 0 => c[a + 1][1] = 0
      <4>1. ~(1 <= l - t)  BY <3>2
      <4>2. e > 0 => 1 \in 1 .. e  OBVIOUS
      <4>. QED  BY <1>11, <4>1, <4>2
    <3>4. p < Len(c) => e > 0  BY <1>5, <2>3
    <3>. QED  BY <2>1, <2>3, <3>3, <3>4 DEF Between
  <2>. QED  BY <2>2, <2>3
<1>16. ASSUME NEW k \in 1 .. a + e, k > a PROVE ~SectionStart(c[k])
  <2>1. PICK j \in 1 .. e : k = a + j
    <3>1. k - a \in 1 .. e /\ k = a + (k - a)  BY <1>16
    <3>. QED  BY <3>1
  <2>2. CASE j <= l - t
    <3>1. c[k][2] = t + j /\ t > 0  BY <1>10, <2>1, <2>2
    <3>2. t + j # 1  BY <3>1
    <3>. QED  BY <3>1, <3>2 DEF SectionStart
  <2>3. CASE ~(j <= l - t)
    <3>1. c[k][1] = 0  BY <1>11, <2>1, <2>3
    <3>. QED  BY <3>1 DEF SectionStart
  <2>. QED  BY <2>2, <2>3
<1>. QED  BY <1>2, <1>4, <1>14, <1>15, <1>16

(* r is the feed with what it handed out when f took the next n bytes of   *)
(* the section that m is sending.                                          *)
Extended(r, f, m, n) ==
  /\ After(r, f) /\ Steady(r[1], m)
  /\ r[2] \in Seq(Nat) /\ Rising(r[2]) /\ Later(r[2], r[1])
  /\ \A i \in 1 .. Len(r[2]) : r[2][i] \in 1 .. m.n
  /\ \A del : Later(del, f) =>
       Later(del, r[1]) /\ \A i \in 1 .. Len(del), j \in 1 .. Len(r[2]) : del[i] < r[2][j]
  /\ m.sent < m.len /\ m.len - m.sent <= n => \E i \in 1 .. Len(r[2]) : r[2][i] = m.n

(* The section being received starts behind secbufp.                       *)
LEMMA PartStart ==
  ASSUME NEW m \in Muxes, NEW b \in Seq(Byte), NEW p \in 0 .. Len(b), Linked(b), Between(b, 0),
         Between(b, p), Joins(b, m), m.sent < m.len
  PROVE  \E q \in p .. Len(b) - 1 :
           q + m.sent = Len(b) /\ SectionStart(b[q + 1]) /\ b[q + 1][1] = m.n /\ b[q + 1][3] = m.len
<1>1. PICK n \in Nat, l \in Nat, t \in Nat, a \in Nat :
        n = m.n /\ l = m.len /\ t = m.sent /\ t < l /\ n > 0 /\ t > 0 /\ a = Len(b)
  BY DEF Muxes
<1>2. a >= 1 /\ b[a] = <<n, t, l>>  BY <1>1 DEF Joins
<1>3. b[a][1] = n /\ b[a][2] = t /\ b[a][3] = l  BY <1>2
<1>4. a \in 1 .. Len(b) /\ b[a][1] # 0  BY <1>1, <1>2, <1>3
<1>5. t <= a /\ SectionStart(b[a - t + 1]) /\ b[a - t + 1][1] = n /\ b[a - t + 1][3] = l
  BY <1>3, <1>4, Back
<1>6. PICK q \in Nat : q = a - t /\ q + t = a /\ q < a /\ a - t + 1 = q + 1
  <2>1. a - t \in Nat /\ (a - t) + t = a /\ a - t < a  BY <1>1, <1>5
  <2>. QED  BY <2>1
<1>7. SectionStart(b[q + 1]) /\ b[q + 1][1] = n /\ b[q + 1][3] = l  BY <1>5, <1>6
<1>8. p <= q
  <2>. SUFFICES ASSUME q < p PROVE FALSE  BY <1>6
  <2>1. \A k \in 1 .. l : q + k <= a => b[q + k][1] = n /\ b[q + k][2] = k /\ b[q + k][3] = l
    <3>1. q < Len(b)  BY <1>1, <1>6
    <3>2. \A k \in 1 .. b[q + 1][3] :
            q + k <= Len(b) => b[q + k][1] = b[q + 1][1] /\ b[q + k][2] = k /\ b[q + k][3] = b[q + 1][3]
      BY <1>6, <1>7, <3>1, Chain
    <3>. QED  BY <1>1, <1>7, <3>2
  <2>2. CASE p = a
    <3>1. b[a][1] = 0 \/ b[a][2] = b[a][3]  BY <1>2, <2>2 DEF Between
    <3>. QED  BY <1>1, <1>3, <3>1
  <2>3. CASE p < a
    <3>1. PICK k \in 1 .. l : q + k = p + 1 /\ k > 1 /\ p + 1 <= a
      <4>1. (p - q) + 1 \in 1 .. l /\ q + ((p - q) + 1) = p + 1 /\ (p - q) + 1 > 1 /\ p + 1 <= a
        <5>1. p \in Nat /\ q \in Nat /\ q + t = a /\ t < l  BY <1>1, <1>6
        <5>. QED  BY <2>3, <5>1
      <4>. QED  BY <4>1
    <3>2. b[p + 1][1] = n /\ b[p + 1][2] = k  BY <2>1, <3>1
    <3>3. b[p + 1][1] = 0 \/ b[p + 1][2] = 1  BY <1>1, <2>3 DEF Between
    <3>. QED  BY <1>1, <3>1, <3>2, <3>3
  <2>. QED  BY <1>1, <2>2, <2>3
<1>9. q \in p .. Len(b) - 1  BY <1>1, <1>6, <1>8
<1>. QED  BY <1>1, <1>6, <1>7, <1>9

(* Starts in the buffer are those it had before.                           *)
LEMMA OldStarts ==
  ASSUME NEW b \in Seq(Byte), NEW bytes \in Seq(Byte), NEW B \in Seq(Byte), Begins(B, b \o bytes),
         Len(b) <= Len(B),
         \A k \in 1 .. Len(b) + Len(bytes) : k > Len(b) => ~SectionStart((b \o bytes)[k])
  PROVE  /\ \A k \in 1 .. Len(b) : B[k] = b[k]
         /\ \A q \in 0 .. Len(B) - 1 : SectionStart(B[q + 1]) => q < Len(b) /\ B[q + 1] = b[q + 1]
<1>1. PICK a \in Nat, e \in Nat, n \in Nat : a = Len(b) /\ e = Len(bytes) /\ n = Len(B)  OBVIOUS
<1>2. PICK c : c = b \o bytes  OBVIOUS
<1>3. /\ Len(c) = a + e
      /\ \A k \in 1 .. a + e : c[k] = IF k <= a THEN b[k] ELSE bytes[k - a]
  BY <1>1, <1>2, ConcatProperties
<1>4. n <= a + e /\ a <= n /\ \A k \in 1 .. n : B[k] = c[k]  BY <1>1, <1>2, <1>3 DEF Begins
<1>5. \A k \in 1 .. a : B[k] = b[k]
  <2>1. \A k \in 1 .. a : k \in 1 .. n /\ k \in 1 .. a + e /\ k <= a  BY <1>4
  <2>. QED  BY <1>3, <1>4, <2>1
<1>6. ASSUME NEW q \in 0 .. n - 1, SectionStart(B[q + 1]) PROVE q < a /\ B[q + 1] = b[q + 1]
  <2>1. q + 1 \in 1 .. n /\ q + 1 \in 1 .. a + e  BY <1>4
  <2>2. ~(q + 1 > a)  BY <1>1, <1>2, <1>4, <1>6, <2>1
  <2>3. q < a /\ q + 1 \in 1 .. a  BY <2>1, <2>2
  <2>. QED  BY <1>5, <2>3
<1>. QED  BY <1>1, <1>5, <1>6

(* What a feed in step does with the next bytes of a section.              *)
LEMMA Completes ==
  ASSUME GarbleOK, NEW m \in Muxes, NEW f \in Feeds, f.pusi_seen, Steady(f, m), Joins(f.base, m),
         NEW bytes \in Seq(Byte), Follows(m, bytes)
  PROVE  Extended(CopyDump(<<f, << >> >>, bytes), f, m, Len(bytes))
<1>1. PICK b \in Seq(Byte), p \in Nat : b = f.base /\ p = f.secbufp /\ p <= Len(b) /\ Len(b) <= SecFeedSize
  BY DEF Feeds
<1>2. /\ Linked(b) /\ Between(b, 0) /\ Between(b, p) /\ Joins(b, m)
      /\ \A k \in 1 .. Len(b) : b[k][1] <= m.n
  BY <1>1 DEF Steady
<1>3. PICK a \in Nat, e \in Nat : a = Len(b) /\ e = Len(bytes) /\ a >= 1  BY <1>2 DEF Joins
<1>4. p \in 0 .. Len(b) /\ 0 \in 0 .. Len(b)  BY <1>1, <1>3
<1>5. /\ Linked(b \o bytes) /\ Between(b \o bytes, p)
      /\ \A k \in 1 .. Len(b) + Len(bytes) : k > Len(b) => ~SectionStart((b \o bytes)[k])
  BY <1>2, <1>4, Joined
<1>6. PICK r : r = CopyDump(<<f, << >> >>, bytes)  OBVIOUS
<1>7. Dumped(r, f, << >>, bytes)
  <2>1. << >> \in Seq(Nat)  OBVIOUS
  <2>. QED  BY <1>1, <1>5, <1>6, <2>1, DumpSeen
<1>8. After(r, f) /\ r[1] \in Feeds  BY <1>7 DEF Dumped, After
<1>9. PICK B \in Seq(Byte), P \in Nat : B = r[1].base /\ P = r[1].secbufp /\ P <= Len(B)
  BY <1>8 DEF Feeds
<1>10. PICK D \in Seq(Nat) :
         /\ r[2] = << >> \o D /\ Sections(B, p, P, D)
         /\ ~Full(f) /\ bytes # << >> =>
              \A q \in p .. Len(B) - 1 : WholeAt(B, q) => \E i \in 1 .. Len(D) : D[i] = B[q + 1][1]
  <2>1. PICK D \in Seq(Nat) :
          /\ r[2] = << >> \o D /\ Sections(r[1].base, f.secbufp, r[1].secbufp, D)
          /\ ~Full(f) /\ bytes # << >> =>
               \A q \in f.secbufp .. Len(r[1].base) - 1 :
                 WholeAt(r[1].base, q) => \E i \in 1 .. Len(D) : D[i] = r[1].base[q + 1][1]
    BY <1>7, Zenon DEF Dumped
  <2>2. r[2] = << >> \o D /\ Sections(B, p, P, D)  BY <1>1, <1>9, <2>1, Zenon
  <2>3. ~Full(f) /\ bytes # << >> =>
          \A q \in p .. Len(B) - 1 : WholeAt(B, q) => \E i \in 1 .. Len(D) : D[i] = B[q + 1][1]
    BY <1>1, <1>9, <2>1, Zenon
  <2>. QED  BY <2>1, <2>2, <2>3, Zenon
<1>11. r[2] = D  BY <1>10
<1>12. /\ Len(b) <= Len(B) /\ Begins(B, b \o bytes) /\ Linked(B) /\ Between(B, P) /\ p <= P
       /\ Len(B) < Len(b \o bytes) => Len(B) = SecFeedSize
  BY <1>1, <1>7, <1>9 DEF Dumped
<1>13. PICK n \in Nat : n = Len(B) /\ a <= n /\ p <= a /\ P <= n /\ p <= P
  BY <1>1, <1>3, <1>9, <1>12
<1>14. /\ \A k \in 1 .. a : B[k] = b[k]
       /\ \A q \in 0 .. n - 1 : SectionStart(B[q + 1]) => q < a /\ B[q + 1] = b[q + 1]
  BY <1>3, <1>5, <1>12, <1>13, OldStarts
<1>15. \A k \in 1 .. n : InByte(B[k])  BY <1>9, <1>13, SeqBytes
<1>16. \A k \in 1 .. a : InByte(b[k])  BY <1>3, SeqBytes
<1>17. Between(B, 0)
  <2>1. 1 \in 1 .. a /\ 0 < Len(b)  BY <1>3
  <2>2. B[1] = b[1] /\ (b[1][1] = 0 \/ b[1][2] = 1)  BY <1>2, <1>14, <2>1 DEF Between
  <2>. QED  BY <2>2 DEF Between
<1>18. ASSUME NEW k \in 1 .. n PROVE B[k][1] <= m.n
  <2>0. m.n \in Nat  BY DEF Muxes
  <2>1. CASE B[k][1] = 0  BY <2>0, <2>1
  <2>2. CASE B[k][1] # 0
    <3>1. PICK y \in Nat : y = B[k][2] /\ y >= 1  BY <1>15, <2>2 DEF InByte
    <3>2. y <= k /\ SectionStart(B[k - y + 1]) /\ B[k - y + 1][1] = B[k][1]
      BY <1>12, <1>13, <1>17, <2>2, <3>1, Back
    <3>3. PICK q \in 0 .. n - 1 : q + 1 = k - y + 1
      <4>0. y \in Nat /\ y >= 1 /\ y <= k  BY <3>1, <3>2
      <4>1. k - y \in 0 .. n - 1 /\ (k - y) + 1 = k - y + 1  BY <1>13, <4>0
      <4>. QED  BY <4>1
    <3>4. q < a /\ B[q + 1] = b[q + 1]  BY <1>14, <3>2, <3>3
    <3>5. q + 1 \in 1 .. Len(b)  BY <1>3, <3>4
    <3>. QED  BY <1>2, <3>2, <3>3, <3>4, <3>5
  <2>. QED  BY <2>1, <2>2
<1>19. Steady(r[1], m)  BY <1>9, <1>12, <1>13, <1>17, <1>18 DEF Steady
<1>20. ASSUME NEW i \in 1 .. Len(D)
       PROVE  \E q \in p .. P - 1 : /\ q \in 0 .. n - 1 /\ q < a /\ SectionStart(b[q + 1])
                                    /\ D[i] = B[q + 1][1] /\ D[i] = b[q + 1][1]
  <2>1. PICK q \in p .. P - 1 : q < Len(B) /\ WholeAt(B, q) /\ D[i] = B[q + 1][1]  BY <1>10 DEF Sections
  <2>2. q \in 0 .. n - 1 /\ SectionStart(B[q + 1])  BY <1>13, <2>1 DEF WholeAt
  <2>3. q < a /\ B[q + 1] = b[q + 1]  BY <1>14, <2>2
  <2>. QED  BY <2>1, <2>2, <2>3
<1>21. Rising(D)  BY <1>10 DEF Sections, Rising
<1>22. ASSUME NEW i \in 1 .. Len(D) PROVE D[i] \in 1 .. m.n
  <2>1. PICK q \in p .. P - 1 : q \in 0 .. n - 1 /\ q < a /\ SectionStart(b[q + 1]) /\ D[i] = b[q + 1][1]
    BY <1>20
  <2>2. q + 1 \in 1 .. Len(b) /\ q + 1 \in 1 .. a  BY <1>3, <2>1
  <2>3. b[q + 1][1] \in Nat /\ b[q + 1][1] > 0 /\ b[q + 1][1] <= m.n /\ m.n \in Nat
    <3>1. b[q + 1][1] \in Nat  BY <1>16, <2>2 DEF InByte
    <3>2. b[q + 1][1] > 0  BY <2>1 DEF SectionStart
    <3>3. b[q + 1][1] <= m.n  BY <1>2, <2>2
    <3>4. m.n \in Nat  BY DEF Muxes
    <3>. QED  BY <3>1, <3>2, <3>3, <3>4
  <2>4. b[q + 1][1] \in 1 .. m.n
    <3>1. PICK y \in Nat, z \in Nat : y = b[q + 1][1] /\ z = m.n  BY <2>3
    <3>2. y \in 1 .. z  BY <2>3, <3>1
    <3>. QED  BY <3>1, <3>2, Zenon
  <2>. QED  BY <2>1, <2>4, Zenon
<1>23. Later(D, r[1])
  <2>1. ASSUME NEW q \in P .. n - 1, SectionStart(B[q + 1]), NEW i \in 1 .. Len(D)
        PROVE  D[i] < B[q + 1][1]
    <3>1. PICK s \in p .. P - 1 : s \in 0 .. n - 1 /\ D[i] = B[s + 1][1]  BY <1>20
    <3>2. s + 1 \in 1 .. Len(B) /\ q + 1 \in 1 .. Len(B) /\ s + 1 < q + 1 /\ s + 1 <= q + 1
      BY <1>13, <3>1
    <3>3. B[q + 1][1] # 0 /\ B[q + 1][2] = 1  BY <2>1 DEF SectionStart
    <3>4. B[s + 1][1] < B[q + 1][1]  BY <1>12, <3>2, <3>3, Increasing
    <3>. QED  BY <3>1, <3>4
  <2>. QED  BY <1>9, <1>13, <2>1 DEF Later
<1>24. ASSUME NEW del, Later(del, f)
       PROVE  Later(del, r[1]) /\ \A i \in 1 .. Len(del), j \in 1 .. Len(D) : del[i] < D[j]
  <2>1. \A q \in p .. a - 1 : SectionStart(b[q + 1]) => \A i \in 1 .. Len(del) : del[i] < b[q + 1][1]
    BY <1>1, <1>3, <1>24 DEF Later
  <2>2. ASSUME NEW q \in P .. n - 1, SectionStart(B[q + 1]), NEW i \in 1 .. Len(del)
        PROVE  del[i] < B[q + 1][1]
    <3>1. q \in 0 .. n - 1  BY <1>13
    <3>2. q < a /\ B[q + 1] = b[q + 1]  BY <1>14, <2>2, <3>1
    <3>3. q \in p .. a - 1  BY <1>13, <3>1, <3>2
    <3>. QED  BY <2>1, <2>2, <3>2, <3>3
  <2>3. ASSUME NEW i \in 1 .. Len(del), NEW j \in 1 .. Len(D) PROVE del[i] < D[j]
    <3>1. PICK q \in p .. P - 1 : q < a /\ SectionStart(b[q + 1]) /\ D[j] = b[q + 1][1]  BY <1>20
    <3>2. q \in p .. a - 1  BY <1>13, <3>1
    <3>. QED  BY <2>1, <3>1, <3>2
  <2>4. Later(del, r[1])  BY <1>9, <1>13, <2>2 DEF Later
  <2>. QED  BY <2>3, <2>4
<1>25. ASSUME m.sent < m.len, m.len - m.sent <= e PROVE \E i \in 1 .. Len(D) : D[i] = m.n
  <2>1. PICK l \in Nat, t \in Nat : l = m.len /\ t = m.sent /\ t < l /\ l - t <= e /\ l <= MaxSectionSize
    <3>1. m.len \in Nat /\ m.sent \in Nat  BY DEF Muxes
    <3>2. m.n \in Nat /\ (m.n = 0 => m.len = 0) /\ (m.n > 0 => m.len \in Lengths)  BY DEF Muxes
    <3>3. m.n > 0  BY <1>25, <3>1, <3>2
    <3>4. m.len <= MaxSectionSize
      <4>1. m.len \in Lengths  BY <3>2, <3>3
      <4>2. \A x \in Lengths : x <= MaxSectionSize  BY SectionConstants
      <4>. QED  BY <4>1, <4>2, Zenon
    <3>. QED  BY <1>25, <3>1, <3>4
  <2>2. PICK q \in p .. a - 1 : q + t = a /\ SectionStart(b[q + 1]) /\ b[q + 1][1] = m.n /\ b[q + 1][3] = l
    BY <1>2, <1>3, <1>4, <1>25, <2>1, PartStart
  <2>3. a <= MaxCount - 1 + t  BY <1>2, <1>3, <1>25, <2>1 DEF Joins
  <2>4. MaxCount \in Nat /\ MaxSectionSize \in Nat /\ SecFeedSize = MaxSectionSize + MaxCount + 4
    BY SectionConstants, SecFeedSizeNat
  <2>5. ~Full(f) /\ bytes # << >>
    <3>1. a < SecFeedSize  BY <2>1, <2>3, <2>4
    <3>2. ~(SecFeedSize - a <= 0)  BY <2>4, <3>1
    <3>3. e > 0  BY <2>1
    <3>. QED  BY <1>1, <1>3, <3>2, <3>3 DEF Full
  <2>6. q + l <= n
    <3>1. Len(b \o bytes) = a + e  BY <1>3, ConcatProperties
    <3>2. CASE n < a + e
      <4>1. n = SecFeedSize
        <5>1. Len(B) < Len(b \o bytes)  BY <1>13, <3>1, <3>2
        <5>. QED  BY <1>12, <1>13, <5>1
      <4>2. q \in Nat /\ q + t = a /\ t \in Nat /\ l \in Nat /\ l <= MaxSectionSize  BY <1>13, <2>1, <2>2
      <4>. QED  BY <2>3, <2>4, <4>1, <4>2
    <3>3. CASE ~(n < a + e)
      <4>1. q \in Nat /\ q + t = a /\ t \in Nat /\ l \in Nat /\ l - t <= e  BY <1>13, <2>1, <2>2
      <4>. QED  BY <3>3, <4>1
    <3>. QED  BY <3>2, <3>3
  <2>7. q \in p .. Len(B) - 1 /\ q + 1 \in 1 .. a  BY <1>13, <2>2
  <2>8. WholeAt(B, q)  BY <1>13, <1>14, <2>2, <2>6, <2>7 DEF WholeAt
  <2>9. PICK i \in 1 .. Len(D) : D[i] = B[q + 1][1]  BY <1>10, <2>5, <2>7, <2>8
  <2>. QED  BY <1>14, <2>2, <2>7, <2>9
<1>26. Extended(r, f, m, e)
  BY <1>8, <1>10, <1>11, <1>19, <1>21, <1>22, <1>23, <1>24, <1>25 DEF Extended
<1>. QED  BY <1>3, <1>6, <1>26

(* The buffer after a packet in which no section starts ends again where   *)
(* the multiplexer is.                                                     *)
LEMMA JoinsCarried ==
  ASSUME NEW m \in Muxes, NEW x, Carries(m, x), NEW b \in Seq(Byte), NEW bytes \in Seq(Byte),
         bytes = x.pkt.bytes, Len(b) <= SecFeedSize, Joins(b, m), NEW B \in Seq(Byte), Len(b) <= Len(B),
         Begins(B, b \o bytes), Len(B) < Len(b \o bytes) => Len(B) = SecFeedSize
  PROVE  Joins(B, x.mux)
<1>1. PICK n \in Nat, l \in Nat, t \in Nat :
        /\ n = m.n /\ l = m.len /\ t = m.sent /\ t <= l /\ (n = 0 => l = 0)
        /\ (n > 0 => l \in Lengths /\ t > 0)
  BY DEF Muxes
<1>2. PICK a \in Nat, e \in Nat, u \in Nat : a = Len(b) /\ e = Len(bytes) /\ u = Len(B)  OBVIOUS
<1>3. /\ a >= 1 /\ (t < l => a <= MaxCount - 1 + t)
      /\ (t = l => b[a] = Stuff \/ b[a] = <<n, l, l>>)
  BY <1>1, <1>2 DEF Joins
<1>4. PICK c : c = b \o bytes  OBVIOUS
<1>5. /\ Len(c) = a + e
      /\ \A k \in 1 .. a + e : c[k] = IF k <= a THEN b[k] ELSE bytes[k - a]
  BY <1>2, <1>4, ConcatProperties
<1>6. u <= a + e /\ a <= u /\ (u < a + e => u = SecFeedSize) /\ \A k \in 1 .. u : B[k] = c[k]
  <2>1. Len(c) = a + e /\ Len(B) = u /\ Begins(B, c)  BY <1>2, <1>4, <1>5
  <2>2. u <= a + e /\ \A k \in 1 .. u : B[k] = c[k]  BY <2>1 DEF Begins
  <2>3. u < a + e => u = SecFeedSize  BY <1>4, <2>1
  <2>4. a <= u  BY <1>2
  <2>. QED  BY <2>2, <2>3, <2>4
<1>7. e > 0 /\ \A k \in 1 .. e : bytes[k] = IF k <= l - t THEN <<n, t + k, l>> ELSE Stuff
  BY <1>1, <1>2 DEF Carries, Follows
<1>8. x.mux.n = n /\ x.mux.len = l /\ x.mux.sent = IF l - t > e THEN t + e ELSE l
  BY <1>1, <1>2 DEF Carries
<1>9. MaxCount \in Nat /\ MaxSectionSize \in Nat /\ SecFeedSize = MaxSectionSize + MaxCount + 4
  BY SectionConstants, SecFeedSizeNat
<1>10. l <= MaxSectionSize
  <2>1. \A y \in Lengths : y <= MaxSectionSize  BY SectionConstants
  <2>2. CASE n = 0  BY <1>1, <1>9, <2>2
  <2>3. CASE n > 0  BY <1>1, <2>1, <2>3
  <2>. QED  BY <2>2, <2>3
<1>11. B # << >> /\ u \in 1 .. u  BY <1>2, <1>3, <1>6
<1>12. u > a => /\ u - a \in 1 .. e
                /\ B[u] = IF u - a <= l - t THEN <<n, t + (u - a), l>> ELSE Stuff
  <2>. SUFFICES ASSUME u > a PROVE /\ u - a \in 1 .. e
                                   /\ B[u] = IF u - a <= l - t THEN <<n, t + (u - a), l>> ELSE Stuff
    OBVIOUS
  <2>1. u - a \in 1 .. e /\ u \in 1 .. a + e /\ ~(u <= a)  BY <1>6
  <2>2. B[u] = bytes[u - a]  BY <1>5, <1>6, <1>11, <2>1
  <2>. QED  BY <1>7, <2>1, <2>2
<1>13. CASE l - t > e
  <2>1. t < l /\ a <= MaxCount - 1 + t /\ x.mux.sent = t + e  BY <1>3, <1>8, <1>13
  <2>2. a + e < SecFeedSize  BY <1>9, <1>10, <1>13, <2>1
  <2>3. u = a + e /\ u > a /\ u - a = e  BY <1>6, <1>7, <2>2
  <2>4. B[u] = <<n, t + e, l>>
    <3>1. u - a <= l - t  BY <1>13, <2>3
    <3>. QED  BY <1>12, <2>3, <3>1
  <2>5. u <= MaxCount - 1 + (t + e)  BY <1>9, <2>1, <2>3
  <2>6. t + e # l  BY <1>13
  <2>. QED  BY <1>2, <1>8, <1>11, <2>1, <2>4, <2>5, <2>6 DEF Joins
<1>14. CASE ~(l - t > e)
  <2>1. x.mux.sent = l /\ x.mux.len = l /\ x.mux.n = n  BY <1>8, <1>14
  <2>2. B[u] = Stuff \/ B[u] = <<n, l, l>>
    <3>1. CASE u = a
      <4>1. u = SecFeedSize  BY <1>6, <1>7, <3>1
      <4>2. ~(t < l)  BY <1>3, <1>9, <1>10, <3>1, <4>1
      <4>3. t = l  BY <1>1, <4>2
      <4>4. c[a] = b[a]
        <5>1. a \in 1 .. a + e /\ a <= a  BY <1>3
        <5>. QED  BY <1>5, <5>1
      <4>. QED  BY <1>3, <1>6, <1>11, <3>1, <4>3, <4>4
    <3>2. CASE u > a
      <4>1. CASE u - a > l - t
        <5>1. ~(u - a <= l - t)  BY <4>1
        <5>. QED  BY <1>12, <3>2, <5>1
      <4>2. CASE u - a = l - t
        <5>1. t + (u - a) = l /\ u - a <= l - t  BY <4>2
        <5>. QED  BY <1>12, <3>2, <5>1
      <4>3. CASE u - a < l - t
        <5>1. t < l /\ a <= MaxCount - 1 + t  BY <1>3, <3>2, <4>3
        <5>2. u < SecFeedSize  BY <1>9, <1>10, <4>3, <5>1
        <5>3. u # SecFeedSize  BY <1>9, <5>2
        <5>4. u = a + e  BY <1>6, <5>3
        <5>. QED  BY <1>14, <4>3, <5>4
      <4>. QED  BY <4>1, <4>2, <4>3
    <3>. QED  BY <1>6, <3>1, <3>2
  <2>3. ~(l < l)  OBVIOUS
  <2>. QED  BY <1>2, <1>11, <2>1, <2>2, <2>3 DEF Joins
<1>. QED  BY <1>13, <1>14

(* A packet in which no section starts, at a feed in step.                 *)
LEMMA CarriedRight ==
  ASSUME GarbleOK, NEW m \in Muxes, NEW x, Sent(m, x), Carries(m, x), NEW f \in Feeds, f.pusi_seen,
         Steady(f, m), Joins(f.base, m), NEW r, r = CopyDump(<<f, << >> >>, x.pkt.bytes)
  PROVE  /\ Extended(r, f, m, Len(x.pkt.bytes))
         /\ Steady(r[1], x.mux) /\ Joins(r[1].base, x.mux)
<1>1. PICK bytes \in Seq(Byte) : bytes = x.pkt.bytes  BY DEF Sent, Packets
<1>2. Follows(m, bytes)  BY <1>1 DEF Carries
<1>3. Extended(r, f, m, Len(bytes))  BY <1>1, <1>2, Completes
<1>4. Steady(r[1], x.mux)
  <2>1. Steady(r[1], m) /\ x.mux.n = m.n  BY <1>3 DEF Extended, Carries
  <2>. QED  BY <2>1 DEF Steady
<1>5. PICK b \in Seq(Byte), p \in Nat : b = f.base /\ p = f.secbufp /\ p <= Len(b) /\ Len(b) <= SecFeedSize
  BY DEF Feeds
<1>6. Linked(b) /\ Between(b, p) /\ Joins(b, m)  BY <1>5 DEF Steady
<1>7. Linked(b \o bytes) /\ Between(b \o bytes, p)
  <2>1. p \in 0 .. Len(b)  BY <1>5
  <2>. QED  BY <1>2, <1>6, <2>1, Joined
<1>8. Dumped(r, f, << >>, bytes)
  <2>1. << >> \in Seq(Nat)  OBVIOUS
  <2>. QED  BY <1>1, <1>5, <1>7, <2>1, DumpSeen
<1>9. PICK B \in Seq(Byte) : B = r[1].base  BY <1>8 DEF Dumped, After, Feeds
<1>10. /\ Len(b) <= Len(B) /\ Begins(B, b \o bytes)
       /\ Len(B) < Len(b \o bytes) => Len(B) = SecFeedSize
  BY <1>5, <1>8, <1>9 DEF Dumped
<1>11. Joins(B, x.mux)  BY <1>1, <1>5, <1>6, <1>9, <1>10, JoinsCarried
<1>. QED  BY <1>1, <1>3, <1>4, <1>9, <1>11

(* r is a feed in step, with what it handed out, when it was empty and     *)
(* took the bytes behind a pointer; d was handed out before.               *)
Anew(r, n0, m, d) ==
  /\ Steady(r[1], m) /\ Joins(r[1].base, m)
  /\ \E D \in Seq(Nat) :
       /\ r[2] = d \o D /\ Rising(D) /\ Later(D, r[1])
       /\ \A i \in 1 .. Len(D) : D[i] \in n0 + 1 .. m.n
       /\ \A s \in n0 + 1 .. Done(m) : \E i \in 1 .. Len(D) : D[i] = s
       /\ \A q \in 0 .. Len(r[1].base) - 1 : SectionStart(r[1].base[q + 1]) => n0 < r[1].base[q + 1][1]

(* What a feed that has seen a section start does with the bytes behind    *)
(* the pointer.                                                            *)
LEMMA FreshRight ==
  ASSUME GarbleOK, NEW n0 \in Nat, NEW m \in Muxes, NEW A, Fresh(A, n0, m), NEW d \in Seq(Nat),
         NEW f \in Feeds, f.base = << >>, f.secbufp = 0, f.pusi_seen,
         NEW r, r = CopyDump(<<f, d>>, A)
  PROVE  After(r, f) /\ Anew(r, n0, m, d)
<1>1. /\ A \in Seq(Byte) /\ A # << >> /\ Len(A) <= MaxCount /\ Linked(A)
      /\ SectionStart(A[1]) /\ A[1][1] = n0 + 1 /\ Joins(A, m)
      /\ \A k \in 1 .. Len(A) : A[k][1] <= m.n
      /\ \A s \in n0 + 1 .. Done(m) : \E q \in 0 .. Len(A) - 1 : WholeAt(A, q) /\ A[q + 1][1] = s
  BY DEF Fresh
<1>2. PICK a \in Nat : a = Len(A) /\ a >= 1  BY <1>1
<1>3. f.base \o A = A /\ Len(f.base) = 0  BY <1>1
<1>4. Between(A, 0)  BY <1>1 DEF Between, SectionStart
<1>5. Dumped(r, f, d, A)  BY <1>1, <1>3, <1>4, DumpSeen
<1>6. After(r, f) /\ r[1] \in Feeds  BY <1>5 DEF Dumped, After
<1>7. MaxCount \in Nat /\ MaxSectionSize \in Nat /\ SecFeedSize = MaxSectionSize + MaxCount + 4
  BY SectionConstants, SecFeedSizeNat
<1>8. a < SecFeedSize  BY <1>1, <1>2, <1>7
<1>9. PICK B \in Seq(Byte), P \in Nat : B = r[1].base /\ P = r[1].secbufp /\ P <= Len(B)
  BY <1>6 DEF Feeds
<1>10. /\ Begins(B, A) /\ (Len(B) < Len(A) => Len(B) = SecFeedSize)
       /\ Linked(B) /\ Between(B, P)
  BY <1>3, <1>5, <1>9 DEF Dumped
<1>11. B = A
  <2>1. Len(B) <= Len(A) /\ \A k \in 1 .. Len(B) : B[k] = A[k]  BY <1>10 DEF Begins
  <2>2. Len(B) = Len(A)  BY <1>1, <1>2, <1>7, <1>8, <1>9, <1>10, <2>1
  <2>. QED  BY <1>1, <1>9, <2>1, <2>2, SeqEqual
<1>12. ~Full(f)
  <2>1. ~(SecFeedSize - 0 <= 0)  BY <1>2, <1>7, <1>8
  <2>. QED  BY <1>3, <2>1 DEF Full
<1>13. PICK D \in Seq(Nat) :
         /\ r[2] = d \o D /\ Sections(B, 0, P, D)
         /\ \A q \in 0 .. Len(B) - 1 : WholeAt(B, q) => \E i \in 1 .. Len(D) : D[i] = B[q + 1][1]
  <2>1. PICK D \in Seq(Nat) :
          /\ r[2] = d \o D /\ Sections(r[1].base, f.secbufp, r[1].secbufp, D)
          /\ ~Full(f) /\ A # << >> =>
               \A q \in f.secbufp .. Len(r[1].base) - 1 :
                 WholeAt(r[1].base, q) => \E i \in 1 .. Len(D) : D[i] = r[1].base[q + 1][1]
    BY <1>5, Zenon DEF Dumped
  <2>2. r[2] = d \o D /\ Sections(B, 0, P, D)  BY <1>9, <2>1, Zenon
  <2>3. \A q \in 0 .. Len(B) - 1 : WholeAt(B, q) => \E i \in 1 .. Len(D) : D[i] = B[q + 1][1]
    BY <1>1, <1>9, <1>12, <2>1, Zenon
  <2>. QED  BY <2>1, <2>2, <2>3, Zenon
<1>14. Steady(r[1], m)
  <2>1. r[1].base = A /\ r[1].secbufp = P /\ Between(A, P)  BY <1>9, <1>10, <1>11, Zenon
  <2>. QED  BY <1>1, <1>4, <2>1, Zenon DEF Steady
<1>15. Joins(r[1].base, m)  BY <1>1, <1>9, <1>11
<1>16. Rising(D)  BY <1>13 DEF Sections, Rising
<1>17. \A k \in 1 .. a : InByte(A[k])  BY <1>1, <1>2, SeqBytes
<1>18. ASSUME NEW q \in 0 .. a - 1, SectionStart(A[q + 1]) PROVE n0 + 1 <= A[q + 1][1]
  <2>1. 1 \in 1 .. Len(A) /\ q + 1 \in 1 .. Len(A) /\ 1 <= q + 1  BY <1>2
  <2>2. A[q + 1][1] # 0  BY <1>18 DEF SectionStart
  <2>3. A[1][1] <= A[q + 1][1]  BY <1>1, <2>1, <2>2, Increasing
  <2>. QED  BY <1>1, <2>3
<1>19. ASSUME NEW i \in 1 .. Len(D)
       PROVE  \E q \in 0 .. a - 1 : q < P /\ SectionStart(A[q + 1]) /\ D[i] = A[q + 1][1]
  <2>1. PICK q \in 0 .. P - 1 : q < Len(B) /\ WholeAt(B, q) /\ D[i] = B[q + 1][1]  BY <1>13 DEF Sections
  <2>2. q \in 0 .. a - 1 /\ q < P
    <3>1. Len(B) = a  BY <1>2, <1>11, Zenon
    <3>2. q \in Nat /\ q < P  BY <1>9, <2>1
    <3>3. q < a  BY <2>1, <3>1, Zenon
    <3>. QED  BY <1>2, <3>2, <3>3
  <2>3. SectionStart(A[q + 1])  BY <1>11, <2>1 DEF WholeAt
  <2>. QED  BY <1>11, <2>1, <2>2, <2>3
<1>20. ASSUME NEW i \in 1 .. Len(D) PROVE D[i] \in n0 + 1 .. m.n
  <2>1. PICK q \in 0 .. a - 1 : SectionStart(A[q + 1]) /\ D[i] = A[q + 1][1]  BY <1>19
  <2>2. q + 1 \in 1 .. a /\ q + 1 \in 1 .. Len(A)  BY <1>2
  <2>3. A[q + 1][1] \in Nat /\ m.n \in Nat  BY <1>17, <2>2 DEF InByte, Muxes
  <2>4. PICK y \in Nat, z \in Nat : y = A[q + 1][1] /\ z = m.n  BY <2>3
  <2>5. n0 + 1 <= y  BY <1>18, <2>1, <2>4
  <2>6. y <= z  BY <1>1, <2>2, <2>4
  <2>7. y \in n0 + 1 .. z  BY <2>5, <2>6
  <2>. QED  BY <2>1, <2>4, <2>7, Zenon
<1>21. Later(D, r[1])
  <2>1. ASSUME NEW q \in P .. Len(A) - 1, SectionStart(A[q + 1]), NEW i \in 1 .. Len(D)
        PROVE  D[i] < A[q + 1][1]
    <3>1. PICK s \in 0 .. a - 1 : s < P /\ D[i] = A[s + 1][1]  BY <1>19
    <3>2. s + 1 \in 1 .. Len(A) /\ q + 1 \in 1 .. Len(A) /\ s + 1 < q + 1 /\ s + 1 <= q + 1
      BY <1>2, <3>1
    <3>3. A[q + 1][1] # 0 /\ A[q + 1][2] = 1  BY <2>1 DEF SectionStart
    <3>4. A[s + 1][1] < A[q + 1][1]  BY <1>1, <3>2, <3>3, Increasing
    <3>. QED  BY <3>1, <3>4
  <2>. QED  BY <1>9, <1>11, <2>1 DEF Later
<1>22. ASSUME NEW s \in n0 + 1 .. Done(m) PROVE \E i \in 1 .. Len(D) : D[i] = s
  <2>1. PICK q \in 0 .. Len(A) - 1 : WholeAt(A, q) /\ A[q + 1][1] = s  BY <1>1
  <2>. QED  BY <1>11, <1>13, <2>1
<1>23. ASSUME NEW q \in 0 .. Len(r[1].base) - 1, SectionStart(r[1].base[q + 1]) PROVE n0 < r[1].base[q + 1][1]
  <2>1. r[1].base = A  BY <1>9, <1>11
  <2>2. q \in 0 .. a - 1 /\ SectionStart(A[q + 1])  BY <1>2, <1>23, <2>1
  <2>3. q + 1 \in 1 .. a  BY <2>2
  <2>4. A[q + 1][1] \in Nat /\ n0 + 1 <= A[q + 1][1]  BY <1>17, <1>18, <2>2, <2>3 DEF InByte
  <2>5. PICK y \in Nat : y = A[q + 1][1]  BY <2>4
  <2>6. n0 < y  BY <2>4, <2>5
  <2>. QED  BY <2>1, <2>5, <2>6
<1>. QED  BY <1>6, <1>13, <1>14, <1>15, <1>16, <1>20, <1>21, <1>22, <1>23 DEF Anew

-----------------------------------------------------------------------------
(* section_packet                                                          *)

(* The counter of the feed agrees with the multiplexer's only if no packet *)
(* is missing, and never for a repeated packet.                            *)
LEMMA Counter ==
  ASSUME NEW c \in 0 .. CcMod - 1, NEW k \in 0 .. CcMod - 1, NEW n \in 0 .. CcMod - 1,
         (c + k) % CcMod = n
  PROVE  /\ (c + 1) % CcMod = (n + 1) % CcMod <=> k = 0
         /\ k = 0 => c = n /\ (c + 1) % CcMod # n
         /\ (c + (k + 1)) % CcMod = (n + 1) % CcMod
         /\ (n + 1) % CcMod \in 0 .. CcMod - 1 /\ (n + 0) % CcMod = n
<1>1. PICK C \in Nat : C = CcMod /\ C > 1  BY SectionConstants
<1>2. c \in Nat /\ k \in Nat /\ n \in Nat /\ c < C /\ k < C /\ n < C  BY <1>1
<1>3. \A y \in 0 .. C - 1 : y % C = y  BY <1>1
<1>4. \A y \in C .. 2 * C - 1 : y % C = y - C  BY <1>1
<1>5. \A y \in Nat : y < C => (y + 1) % C = IF y + 1 = C THEN 0 ELSE y + 1  BY <1>1
<1>6. n = IF c + k < C THEN c + k ELSE c + k - C
  <2>1. CASE c + k < C
    <3>1. c + k \in 0 .. C - 1  BY <1>2, <2>1
    <3>. QED  BY <1>1, <1>3, <2>1, <3>1
  <2>2. CASE ~(c + k < C)
    <3>1. c + k \in C .. 2 * C - 1  BY <1>2, <2>2
    <3>. QED  BY <1>1, <1>4, <2>2, <3>1
  <2>. QED  BY <2>1, <2>2
<1>7. (c + 1) % C = (IF c + 1 = C THEN 0 ELSE c + 1) /\ (n + 1) % C = IF n + 1 = C THEN 0 ELSE n + 1
  BY <1>2, <1>5
<1>8. (c + 1) % C = (n + 1) % C <=> c = n  BY <1>1, <1>2, <1>7
<1>9. c = n <=> k = 0  BY <1>2, <1>6
<1>10. (c + 1) % C # c  BY <1>1, <1>2, <1>7
<1>11. (c + (k + 1)) % C = (n + 1) % C
  <2>1. c + (k + 1) \in 0 .. 2 * C - 1  BY <1>1, <1>2
  <2>2. CASE c + (k + 1) < C
    <3>1. c + (k + 1) \in 0 .. C - 1  BY <1>2, <2>2
    <3>2. (c + (k + 1)) % C = c + (k + 1)  BY <1>3, <3>1
    <3>. QED  BY <1>2, <1>6, <1>7, <2>2, <3>2
  <2>3. CASE ~(c + (k + 1) < C)
    <3>1. c + (k + 1) \in C .. 2 * C - 1  BY <1>2, <2>1, <2>3
    <3>2. (c + (k + 1)) % C = c + (k + 1) - C  BY <1>4, <3>1
    <3>. QED  BY <1>2, <1>6, <1>7, <2>3, <3>2
  <2>. QED  BY <2>2, <2>3
<1>12. (n + 1) % C \in 0 .. C - 1 /\ (n + 0) % C = n
  <2>1. n + 0 = n /\ n \in 0 .. C - 1  BY <1>2
  <2>2. n % C = n  BY <1>3, <2>1
  <2>. QED  BY <1>1, <1>2, <1>7, <2>1, <2>2
<1>. QED  BY <1>1, <1>8, <1>9, <1>10, <1>11, <1>12

(* The check of the continuity counter.                                    *)
LEMMA ContinuityRight ==
  ASSUME NEW f \in Feeds, NEW pkt \in Packets
  PROVE  LET g == Continuity(f, pkt)
             jump == (f.cc + 1) % CcMod # pkt.cc \/ pkt.dci
         IN /\ g \in Feeds /\ g.cc = pkt.cc /\ g.is_filtering = f.is_filtering
            /\ jump => g.pusi_seen = FALSE
            /\ ~jump => g.pusi_seen = f.pusi_seen /\ g.base = f.base /\ g.secbufp = f.secbufp
<1>1. PICK b \in Seq(Byte), p \in Nat, s \in BOOLEAN, c \in 0 .. CcMod - 1, i \in BOOLEAN :
        /\ f = [base |-> b, secbufp |-> p, pusi_seen |-> s, cc |-> c, is_filtering |-> i]
        /\ p <= Len(b) /\ Len(b) <= SecFeedSize
  BY DEF Feeds
<1>2. PICK d \in 0 .. CcMod - 1 : d = pkt.cc  BY DEF Packets
<1>3. << >> \in Seq(Byte) /\ Len(<< >>) = 0 /\ 0 <= SecFeedSize  BY SecFeedSizeNat
<1>. DEFINE g == Continuity(f, pkt)
            jump == (f.cc + 1) % CcMod # pkt.cc \/ pkt.dci
<1>4. CASE jump
  <2>1. g = [base |-> << >>, secbufp |-> 0, pusi_seen |-> FALSE, cc |-> d, is_filtering |-> i]
    BY <1>1, <1>2, <1>4 DEF Continuity, SectionNew
  <2>. HIDE DEF g, jump
  <2>2. g \in Feeds  BY <1>1, <1>2, <1>3, <2>1 DEF Feeds
  <2>3. g.cc = d /\ g.is_filtering = i /\ f.is_filtering = i /\ g.pusi_seen = FALSE  BY <1>1, <2>1
  <2>4. g \in Feeds /\ g.cc = pkt.cc /\ g.is_filtering = f.is_filtering  BY <1>2, <2>2, <2>3
  <2>. QED  BY <1>4, <2>3, <2>4 DEF g, jump
<1>5. CASE ~jump
  <2>1. g = [base |-> b, secbufp |-> p, pusi_seen |-> s, cc |-> d, is_filtering |-> i]
    BY <1>1, <1>2, <1>5 DEF Continuity
  <2>. HIDE DEF g, jump
  <2>2. g \in Feeds  BY <1>1, <1>2, <2>1 DEF Feeds
  <2>3. /\ g.cc = d /\ g.is_filtering = i /\ f.is_filtering = i /\ g.pusi_seen = f.pusi_seen
        /\ g.base = f.base /\ g.secbufp = f.secbufp
    BY <1>1, <2>1
  <2>4. g \in Feeds /\ g.cc = pkt.cc /\ g.is_filtering = f.is_filtering  BY <1>2, <2>2, <2>3
  <2>. QED  BY <1>5, <2>3, <2>4 DEF g, jump
<1>. QED  BY <1>4, <1>5

(* The feed behind the pointer.                                            *)
Reopened(f) == SectionNew([f EXCEPT !.pusi_seen = TRUE])

(* The fields of a feed whose buffer section_new has reopened.             *)
LEMMA ReopenedFields ==
  ASSUME NEW f \in Feeds
  PROVE  /\ Reopened(f) \in Feeds /\ Reopened(f).base = << >> /\ Reopened(f).secbufp = 0
         /\ Reopened(f).pusi_seen = TRUE /\ Reopened(f).cc = f.cc
         /\ Reopened(f).is_filtering = f.is_filtering
<1>1. PICK b \in Seq(Byte), p \in Nat, s \in BOOLEAN, c \in 0 .. CcMod - 1, i \in BOOLEAN :
        /\ f = [base |-> b, secbufp |-> p, pusi_seen |-> s, cc |-> c, is_filtering |-> i]
  BY DEF Feeds
<1>2. PICK g : g = Reopened(f)  OBVIOUS
<1>3. g = [base |-> << >>, secbufp |-> 0, pusi_seen |-> TRUE, cc |-> c, is_filtering |-> i]
  BY <1>1, <1>2 DEF Reopened, SectionNew
<1>4. << >> \in Seq(Byte) /\ Len(<< >>) = 0 /\ 0 <= SecFeedSize  BY SecFeedSizeNat
<1>5. g \in Feeds  BY <1>1, <1>3, <1>4 DEF Feeds
<1>6. /\ g.base = << >> /\ g.secbufp = 0 /\ g.pusi_seen = TRUE /\ g.cc = f.cc
      /\ g.is_filtering = f.is_filtering
  BY <1>1, <1>3
<1>. QED  BY <1>2, <1>5, <1>6

(* What section_packet does, in two parts.                                 *)
LEMMA SectionPacketDef ==
  ASSUME NEW f, NEW pkt \in Packets, NEW g, g = Continuity(f, pkt)
  PROVE  /\ ~pkt.pusi => SectionPacket(f, pkt) = CopyDump(<<g, << >> >>, pkt.bytes)
         /\ \A done : pkt.pusi /\ done = CopyDump(<<g, << >> >>, BeforePointer(pkt)) =>
              SectionPacket(f, pkt) = CopyDump(<<Reopened(done[1]), done[2]>>, AfterPointer(pkt))
<1>1. pkt.pusi \in BOOLEAN /\ (pkt.pusi => PointerOK(pkt))  BY DEF Packets, PointerOK
<1>2. CASE ~pkt.pusi  BY <1>2 DEF SectionPacket
<1>3. CASE pkt.pusi
  BY <1>1, <1>3 DEF SectionPacket, BeforePointer, AfterPointer, Reopened
<1>. QED  BY <1>2, <1>3

(* The bytes of a packet before and behind the pointer.                    *)
LEMMA PointerBytes ==
  ASSUME NEW pkt \in Packets
  PROVE  /\ pkt.bytes \in Seq(Byte) /\ BeforePointer(pkt) \in Seq(Byte)
         /\ AfterPointer(pkt) \in Seq(Byte)
<1>1. PICK b \in Seq(Byte), p \in Nat : b = pkt.bytes /\ p = pkt.pointer /\ p <= Len(b)  BY DEF Packets
<1>2. \A i \in 1 .. p : b[i] \in Byte
  <2>1. \A i \in 1 .. p : i \in 1 .. Len(b)  BY <1>1
  <2>. QED  BY <2>1
<1>3. \A i \in p + 1 .. Len(b) : b[i] \in Byte
  <2>1. \A i \in p + 1 .. Len(b) : i \in 1 .. Len(b)  BY <1>1
  <2>. QED  BY <2>1
<1>4. SubSeq(b, 1, p) \in Seq(Byte)  BY <1>1, <1>2, SubSeqProperties
<1>5. SubSeq(b, p + 1, Len(b)) \in Seq(Byte)
  <2>1. p + 1 \in Int /\ Len(b) \in Int  BY <1>1
  <2>. QED  BY <1>3, <2>1, SubSeqProperties
<1>. QED  BY <1>1, <1>4, <1>5 DEF BeforePointer, AfterPointer

(* Whatever the packet is, the feed stays in order; nothing is handed out  *)
(* before a section start was seen, and only a packet in which a section   *)
(* starts gives the feed its bearings.                                     *)
LEMMA PacketAny ==
  ASSUME GarbleOK, NEW f \in Feeds, NEW pkt \in Packets, NEW r, r = SectionPacket(f, pkt)
  PROVE  /\ r[1] \in Feeds /\ r[1].cc = pkt.cc /\ r[1].is_filtering = f.is_filtering
         /\ pkt.pusi => r[1].pusi_seen
         /\ ~pkt.pusi => r[1].pusi_seen = Continuity(f, pkt).pusi_seen
         /\ ~pkt.pusi /\ ~Continuity(f, pkt).pusi_seen => r[2] = << >>
<1>1. PICK g \in Feeds : g = Continuity(f, pkt) /\ g.cc = pkt.cc /\ g.is_filtering = f.is_filtering
  BY ContinuityRight
<1>2. pkt.bytes \in Seq(Byte) /\ BeforePointer(pkt) \in Seq(Byte) /\ AfterPointer(pkt) \in Seq(Byte)
  BY PointerBytes
<1>3. CASE ~pkt.pusi
  <2>1. r = CopyDump(<<g, << >> >>, pkt.bytes)  BY <1>1, <1>3, SectionPacketDef
  <2>2. After(r, g) /\ (~g.pusi_seen => r[2] = << >>)  BY <1>2, <2>1, DumpAny
  <2>. QED  BY <1>1, <1>3, <2>2 DEF After
<1>4. CASE pkt.pusi
  <2>1. PICK done : done = CopyDump(<<g, << >> >>, BeforePointer(pkt))  OBVIOUS
  <2>2. r = CopyDump(<<Reopened(done[1]), done[2]>>, AfterPointer(pkt))
    BY <1>1, <1>4, <2>1, SectionPacketDef
  <2>3. After(done, g)  BY <1>2, <2>1, DumpAny
  <2>4. done[1] \in Feeds /\ done[1].cc = g.cc /\ done[1].is_filtering = g.is_filtering
    BY <2>3 DEF After
  <2>5. PICK h \in Feeds : h = Reopened(done[1]) /\ h.pusi_seen = TRUE /\ h.cc = g.cc
                           /\ h.is_filtering = g.is_filtering
    <3>1. PICK e \in Feeds : e = done[1] /\ e.cc = g.cc /\ e.is_filtering = g.is_filtering  BY <2>4, Zenon
    <3>2. /\ Reopened(e) \in Feeds /\ Reopened(e).pusi_seen = TRUE /\ Reopened(e).cc = e.cc
          /\ Reopened(e).is_filtering = e.is_filtering
      BY ReopenedFields
    <3>. QED  BY <3>1, <3>2, Zenon
  <2>6. After(r, h)  BY <1>2, <2>2, <2>5, DumpAny
  <2>. QED  BY <1>1, <1>4, <2>5, <2>6 DEF After
<1>. QED  BY <1>3, <1>4

-----------------------------------------------------------------------------
(* What is delivered                                                       *)

(* Sections of the stream, of those that have begun.                       *)
Sound(del, n) == del \in Seq(Nat) /\ \A i \in 1 .. Len(del) : del[i] \in 1 .. n

Has(del, s) == \E i \in 1 .. Len(del) : del[i] = s

(* What is delivered after what was delivered before.                      *)
LEMMA ConcatParts ==
  ASSUME NEW del \in Seq(Nat), NEW D \in Seq(Nat)
  PROVE  /\ del \o D \in Seq(Nat)
         /\ \A i \in 1 .. Len(del) : i \in 1 .. Len(del \o D) /\ (del \o D)[i] = del[i]
         /\ \A j \in 1 .. Len(D) : Len(del) + j \in 1 .. Len(del \o D) /\ (del \o D)[Len(del) + j] = D[j]
         /\ \A i \in 1 .. Len(del \o D) :
              \/ i \in 1 .. Len(del)
              \/ \E j \in 1 .. Len(D) : i = Len(del) + j
<1>1. PICK a \in Nat, b \in Nat : a = Len(del) /\ b = Len(D)  OBVIOUS
<1>2. PICK c : c = del \o D  OBVIOUS
<1>3. /\ c \in Seq(Nat) /\ Len(c) = a + b
      /\ \A k \in 1 .. a + b : c[k] = IF k <= a THEN del[k] ELSE D[k - a]
  BY <1>1, <1>2, ConcatProperties
<1>4. ASSUME NEW i \in 1 .. a PROVE i \in 1 .. a + b /\ c[i] = del[i]
  <2>1. i \in 1 .. a + b /\ i <= a  BY <1>1
  <2>. QED  BY <1>3, <2>1
<1>5. ASSUME NEW j \in 1 .. b PROVE a + j \in 1 .. a + b /\ c[a + j] = D[j]
  <2>1. a + j \in 1 .. a + b /\ ~(a + j <= a) /\ (a + j) - a = j  BY <1>1
  <2>. QED  BY <1>3, <2>1
<1>6. ASSUME NEW i \in 1 .. a + b, i \notin 1 .. a PROVE \E j \in 1 .. b : i = a + j
  <2>1. i - a \in 1 .. b /\ i = a + (i - a)  BY <1>1, <1>6
  <2>. QED  BY <2>1
<1>. QED  BY <1>1, <1>2, <1>3, <1>4, <1>5, <1>6

(* Sound deliveries appended to sound deliveries are sound.                *)
LEMMA ConcatSound ==
  ASSUME NEW n, NEW del, NEW D, Sound(del, n), Sound(D, n)
  PROVE  Sound(del \o D, n)
<1>1. /\ del \in Seq(Nat) /\ \A i \in 1 .. Len(del) : del[i] \in 1 .. n
      /\ D \in Seq(Nat) /\ \A i \in 1 .. Len(D) : D[i] \in 1 .. n
  BY DEF Sound
<1>2. /\ del \o D \in Seq(Nat)
      /\ \A i \in 1 .. Len(del) : (del \o D)[i] = del[i]
      /\ \A j \in 1 .. Len(D) : (del \o D)[Len(del) + j] = D[j]
      /\ \A i \in 1 .. Len(del \o D) : \/ i \in 1 .. Len(del)
                                       \/ \E j \in 1 .. Len(D) : i = Len(del) + j
  BY <1>1, ConcatParts
<1>3. ASSUME NEW i \in 1 .. Len(del \o D) PROVE (del \o D)[i] \in 1 .. n  BY <1>1, <1>2, Zenon
<1>. QED  BY <1>2, <1>3 DEF Sound

(* Deliveries stay sound while the multiplexer goes on.                    *)
LEMMA SoundMore ==
  ASSUME NEW n \in Nat, NEW k \in Nat, n <= k, NEW del, Sound(del, n)
  PROVE  Sound(del, k)
<1>1. \A y \in 1 .. n : y \in 1 .. k  OBVIOUS
<1>. QED  BY <1>1 DEF Sound

(* A delivery is not lost when others are appended.                        *)
LEMMA ConcatHas ==
  ASSUME NEW del \in Seq(Nat), NEW D \in Seq(Nat), NEW s, Has(del, s) \/ Has(D, s)
  PROVE  Has(del \o D, s)
<1>1. CASE Has(del, s)
  <2>1. PICK i \in 1 .. Len(del) : del[i] = s  BY <1>1 DEF Has
  <2>2. i \in 1 .. Len(del \o D) /\ (del \o D)[i] = s  BY <2>1, ConcatParts
  <2>. QED  BY <2>2 DEF Has
<1>2. CASE Has(D, s)
  <2>1. PICK i \in 1 .. Len(D) : D[i] = s  BY <1>2 DEF Has
  <2>2. Len(del) + i \in 1 .. Len(del \o D) /\ (del \o D)[Len(del) + i] = s  BY <2>1, ConcatParts
  <2>. QED  BY <2>2 DEF Has
<1>. QED  BY <1>1, <1>2

(* Ascending deliveries above an ascending list extend it.                 *)
LEMMA ConcatRising ==
  ASSUME NEW del \in Seq(Nat), NEW D \in Seq(Nat), Rising(del), Rising(D),
         \A i \in 1 .. Len(del), j \in 1 .. Len(D) : del[i] < D[j]
  PROVE  Rising(del \o D)
<1>. DEFINE c == del \o D
<1>1. /\ \A i \in 1 .. Len(del) : c[i] = del[i]
      /\ \A j \in 1 .. Len(D) : c[Len(del) + j] = D[j]
      /\ \A i \in 1 .. Len(c) : \/ i \in 1 .. Len(del)
                                \/ \E j \in 1 .. Len(D) : i = Len(del) + j
  BY ConcatParts
<1>. HIDE DEF c
<1>2. ASSUME NEW i \in 1 .. Len(c), NEW j \in 1 .. Len(c), i < j PROVE c[i] < c[j]
  <2>1. CASE i \in 1 .. Len(del) /\ j \in 1 .. Len(del)  BY <1>1, <1>2, <2>1 DEF Rising
  <2>2. CASE i \in 1 .. Len(del) /\ \E k \in 1 .. Len(D) : j = Len(del) + k  BY <1>1, <2>2
  <2>3. CASE (\E k \in 1 .. Len(D) : i = Len(del) + k) /\ j \in 1 .. Len(del)
    <3>1. Len(del) \in Nat /\ Len(D) \in Nat  OBVIOUS
    <3>. QED  BY <1>2, <2>3, <3>1
  <2>4. CASE (\E k \in 1 .. Len(D) : i = Len(del) + k) /\ (\E k \in 1 .. Len(D) : j = Len(del) + k)
    <3>1. PICK k \in 1 .. Len(D), h \in 1 .. Len(D) : i = Len(del) + k /\ j = Len(del) + h  BY <2>4
    <3>2. Len(del) \in Nat /\ Len(D) \in Nat  OBVIOUS
    <3>3. k < h  BY <1>2, <3>1, <3>2
    <3>4. D[k] < D[h]  BY <3>3 DEF Rising
    <3>. QED  BY <1>1, <3>1, <3>4
  <2>. QED  BY <1>1, <2>1, <2>2, <2>3, <2>4
<1>3. Rising(c)  BY <1>2 DEF Rising
<1>. QED  BY <1>3 DEF c

(* Deliveries of two steps stay above the same bound.                      *)
LEMMA ConcatLater ==
  ASSUME NEW del \in Seq(Nat), NEW D \in Seq(Nat), NEW f, Later(del, f), Later(D, f)
  PROVE  Later(del \o D, f)
<1>. DEFINE c == del \o D
<1>1. /\ \A i \in 1 .. Len(del) : c[i] = del[i]
      /\ \A j \in 1 .. Len(D) : c[Len(del) + j] = D[j]
      /\ \A i \in 1 .. Len(c) : \/ i \in 1 .. Len(del)
                                \/ \E j \in 1 .. Len(D) : i = Len(del) + j
  BY ConcatParts
<1>. HIDE DEF c
<1>2. ASSUME NEW q \in f.secbufp .. Len(f.base) - 1, SectionStart(f.base[q + 1]), NEW i \in 1 .. Len(c)
      PROVE  c[i] < f.base[q + 1][1]
  <2>1. \A k \in 1 .. Len(del) : del[k] < f.base[q + 1][1]  BY <1>2 DEF Later
  <2>2. \A k \in 1 .. Len(D) : D[k] < f.base[q + 1][1]  BY <1>2 DEF Later
  <2>. QED  BY <1>1, <2>1, <2>2, Zenon
<1>3. Later(c, f)  BY <1>2 DEF Later
<1>. QED  BY <1>3 DEF c

(* What is delivered when sections start: e of the old buffer, and those   *)
(* of the new one.                                                         *)
LEMMA AnewRight ==
  ASSUME NEW n0 \in Nat, NEW m \in Muxes, n0 <= m.n, NEW del, Sound(del, n0),
         NEW e, Sound(e, n0), Rising(e), NEW r, Anew(r, n0, m, e), r[1] \in Feeds
  PROVE  /\ r[2] \in Seq(Nat) /\ Sound(del \o r[2], m.n)
         /\ Rising(del) /\ (\A i \in 1 .. Len(del), j \in 1 .. Len(e) : del[i] < e[j]) =>
              Rising(del \o r[2]) /\ Later(del \o r[2], r[1])
         /\ \A s \in n0 + 1 .. Done(m) : Has(del \o r[2], s)
         /\ \A s : Has(e, s) => Has(del \o r[2], s)
<1>1. PICK D \in Seq(Nat) :
        /\ r[2] = e \o D /\ Rising(D) /\ Later(D, r[1])
        /\ \A i \in 1 .. Len(D) : D[i] \in n0 + 1 .. m.n
        /\ \A s \in n0 + 1 .. Done(m) : \E i \in 1 .. Len(D) : D[i] = s
        /\ \A q \in 0 .. Len(r[1].base) - 1 : SectionStart(r[1].base[q + 1]) => n0 < r[1].base[q + 1][1]
  BY DEF Anew
<1>2. m.n \in Nat  BY DEF Muxes
<1>3. del \in Seq(Nat) /\ e \in Seq(Nat)  BY DEF Sound
<1>4. Sound(del, m.n) /\ Sound(e, m.n)  BY <1>2, SoundMore
<1>5. Sound(D, m.n)
  <2>1. \A y \in n0 + 1 .. m.n : y \in 1 .. m.n  BY <1>2
  <2>. QED  BY <1>1, <2>1 DEF Sound
<1>6. PICK X \in Seq(Nat) : X = r[2] /\ X = e \o D  BY <1>1, <1>3, ConcatParts
<1>7. Sound(X, m.n)  BY <1>4, <1>5, <1>6, ConcatSound
<1>8. Sound(del \o X, m.n)  BY <1>4, <1>7, ConcatSound
<1>9. ASSUME NEW s, Has(e, s) \/ Has(D, s) PROVE Has(del \o X, s)
  <2>1. Has(X, s)  BY <1>1, <1>3, <1>6, <1>9, ConcatHas
  <2>. QED  BY <1>3, <1>6, <2>1, ConcatHas
<1>10. ASSUME NEW s \in n0 + 1 .. Done(m) PROVE Has(D, s)  BY <1>1 DEF Has
<1>11. ASSUME NEW d, Sound(d, n0) PROVE \A i \in 1 .. Len(d), j \in 1 .. Len(D) : d[i] < D[j]
  <2>1. \A y \in 1 .. n0, z \in n0 + 1 .. m.n : y < z  BY <1>2
  <2>. QED  BY <1>1, <1>11, <2>1, Zenon DEF Sound
<1>12. ASSUME NEW d, Sound(d, n0) PROVE Later(d, r[1])
  <2>1. ASSUME NEW q \in r[1].secbufp .. Len(r[1].base) - 1, SectionStart(r[1].base[q + 1]),
               NEW i \in 1 .. Len(d)
        PROVE  d[i] < r[1].base[q + 1][1]
    <3>1. q \in 0 .. Len(r[1].base) - 1
      <4>1. r[1].secbufp \in Nat /\ Len(r[1].base) \in Nat  BY DEF Feeds
      <4>. QED  BY <4>1
    <3>2. n0 < r[1].base[q + 1][1]  BY <1>1, <2>1, <3>1
    <3>3. r[1].base[q + 1][1] \in Nat
      <4>1. PICK b \in Seq(Byte) : b = r[1].base  BY DEF Feeds
      <4>2. q + 1 \in 1 .. Len(b)  BY <3>1, <4>1
      <4>3. InByte(b[q + 1])  BY <4>2, SeqBytes
      <4>. QED  BY <4>1, <4>3 DEF InByte
    <3>4. PICK y \in Nat, z \in Nat : y = r[1].base[q + 1][1] /\ z = d[i] /\ z \in 1 .. n0
      <4>1. d[i] \in 1 .. n0  BY <1>12, <2>1, Zenon DEF Sound
      <4>2. \A w \in 1 .. n0 : w \in Nat  OBVIOUS
      <4>. QED  BY <3>3, <4>1, <4>2, Zenon
    <3>5. z < y  BY <3>2, <3>4
    <3>. QED  BY <3>4, <3>5, Zenon
  <2>. QED  BY <2>1 DEF Later
<1>13. ASSUME Rising(del), \A i \in 1 .. Len(del), j \in 1 .. Len(e) : del[i] < e[j]
       PROVE  Rising(del \o X) /\ Later(del \o X, r[1])
  <2>1. Rising(X)  BY <1>1, <1>3, <1>6, <1>11, ConcatRising
  <2>2. \A i \in 1 .. Len(del), j \in 1 .. Len(X) : del[i] < X[j]
    <3>1. /\ \A i \in 1 .. Len(e) : X[i] = e[i]
          /\ \A j \in 1 .. Len(D) : X[Len(e) + j] = D[j]
          /\ \A i \in 1 .. Len(X) : \/ i \in 1 .. Len(e)
                                    \/ \E j \in 1 .. Len(D) : i = Len(e) + j
      BY <1>1, <1>3, <1>6, ConcatParts
    <3>2. \A i \in 1 .. Len(del), j \in 1 .. Len(D) : del[i] < D[j]  BY <1>11
    <3>. QED  BY <1>13, <3>1, <3>2, Zenon
  <2>3. Rising(del \o X)  BY <1>3, <1>6, <1>13, <2>1, <2>2, ConcatRising
  <2>4. Later(X, r[1])  BY <1>1, <1>3, <1>6, <1>12, ConcatLater
  <2>5. Later(del \o X, r[1])  BY <1>3, <1>6, <1>12, <2>4, ConcatLater
  <2>. QED  BY <2>3, <2>5
<1>. QED  BY <1>6, <1>8, <1>9, <1>10, <1>13

(* A feed that has its bearings, k packets behind the multiplexer m.       *)
Tracks(f, m, k) ==
  f.pusi_seen =>
    /\ Steady(f, m) /\ k \in 0 .. CcMod - 1 /\ (f.cc + k) % CcMod = m.cc
    /\ k = 0 => Joins(f.base, m)

Ordered(del, f) == Rising(del) /\ (f.pusi_seen => Later(del, f))

(* What a packet x of the multiplexer m does to the feed f, which is k     *)
(* packets behind, and to what it has delivered.                           *)
Advanced(r, f, m, k, del, x) ==
  /\ Tracks(r[1], x.mux, 0)
  /\ Sound(del \o r[2], x.mux.n) /\ r[2] \in Seq(Nat)
  /\ Ordered(del, f) => Ordered(del \o r[2], r[1])
  /\ x.pkt.pusi => \A s \in m.n + 1 .. Done(x.mux) : Has(del \o r[2], s)
  /\ f.pusi_seen /\ k = 0 /\ ~x.pkt.dci =>
       r[1].pusi_seen /\ \A s \in Done(m) + 1 .. Done(x.mux) : Has(del \o r[2], s)

(* The feed takes the packet without a jump exactly if none is missing.    *)
LEMMA InStepOnly ==
  ASSUME NEW f \in Feeds, NEW m \in Muxes, NEW k, NEW x, Sent(m, x), Tracks(f, m, k)
  PROVE  LET g == Continuity(f, x.pkt) IN
         /\ g.pusi_seen <=> f.pusi_seen /\ k = 0 /\ ~x.pkt.dci
         /\ g.pusi_seen => /\ Steady(g, m) /\ Joins(g.base, m)
                           /\ \A del : Later(del, f) <=> Later(del, g)
<1>1. PICK g \in Feeds : g = Continuity(f, x.pkt)
  <2>1. x.pkt \in Packets  BY DEF Sent
  <2>. QED  BY <2>1, ContinuityRight
<1>. DEFINE jump == (f.cc + 1) % CcMod # x.pkt.cc \/ x.pkt.dci
<1>2. /\ jump => g.pusi_seen = FALSE
      /\ ~jump => g.pusi_seen = f.pusi_seen /\ g.base = f.base /\ g.secbufp = f.secbufp
  <2>1. x.pkt \in Packets  BY DEF Sent
  <2>. QED  BY <1>1, <2>1, ContinuityRight
<1>3. x.pkt.cc = (m.cc + 1) % CcMod  BY DEF Sent
<1>4. f.cc \in 0 .. CcMod - 1 /\ m.cc \in 0 .. CcMod - 1 /\ f.pusi_seen \in BOOLEAN /\ g.pusi_seen \in BOOLEAN
  BY DEF Feeds, Muxes
<1>5. ASSUME f.pusi_seen PROVE ~jump <=> k = 0 /\ ~x.pkt.dci
  <2>1. k \in 0 .. CcMod - 1 /\ (f.cc + k) % CcMod = m.cc  BY <1>5 DEF Tracks
  <2>2. (f.cc + 1) % CcMod = (m.cc + 1) % CcMod <=> k = 0  BY <1>4, <2>1, Counter
  <2>. QED  BY <1>3, <2>2
<1>. HIDE DEF jump
<1>6. g.pusi_seen <=> f.pusi_seen /\ k = 0 /\ ~x.pkt.dci
  <2>1. g.pusi_seen <=> ~jump /\ f.pusi_seen  BY <1>2, <1>4, Zenon
  <2>. QED  BY <1>5, <2>1, Zenon
<1>7. ASSUME g.pusi_seen
      PROVE  Steady(g, m) /\ Joins(g.base, m) /\ \A del : Later(del, f) <=> Later(del, g)
  <2>1. ~jump /\ f.pusi_seen /\ k = 0  BY <1>2, <1>6, <1>7, Zenon
  <2>2. g.base = f.base /\ g.secbufp = f.secbufp  BY <1>2, <2>1
  <2>3. Steady(f, m) /\ Joins(f.base, m)  BY <2>1 DEF Tracks
  <2>. QED  BY <2>2, <2>3, Zenon DEF Steady, Later
<1>. QED  BY <1>1, <1>6, <1>7, Zenon

(* The number of sections sent completely.                                 *)
LEMMA DoneRange ==
  ASSUME NEW m \in Muxes
  PROVE  /\ Done(m) \in Int /\ m.n \in Nat /\ m.len \in Nat /\ m.sent \in Nat /\ m.sent <= m.len
         /\ m.sent < m.len => Done(m) = m.n - 1
         /\ m.sent = m.len => Done(m) = m.n
<1>1. PICK n \in Nat, l \in Nat, t \in Nat : n = m.n /\ l = m.len /\ t = m.sent /\ t <= l  BY DEF Muxes
<1>2. Done(m) = IF l - t = 0 THEN n ELSE n - 1  BY <1>1 DEF Done
<1>. QED  BY <1>1, <1>2

(* The counter of a feed that has just taken a packet.                     *)
LEMMA TracksNow ==
  ASSUME NEW m \in Muxes, NEW f, f.cc = m.cc, f.pusi_seen => Steady(f, m) /\ Joins(f.base, m)
  PROVE  Tracks(f, m, 0)
<1>1. PICK c \in 0 .. CcMod - 1 : c = m.cc  BY DEF Muxes
<1>2. 0 \in 0 .. CcMod - 1 /\ c + 0 = c /\ c % CcMod = c  BY SectionConstants
<1>3. (f.cc + 0) % CcMod = m.cc  BY <1>1, <1>2
<1>. QED  BY <1>2, <1>3 DEF Tracks

(* No section starts, and the feed has no bearings.                        *)
LEMMA AdvanceIdle ==
  ASSUME GarbleOK, NEW f \in Feeds, NEW m \in Muxes, NEW k, NEW x, Sent(m, x), Carries(m, x),
         Tracks(f, m, k), NEW del, Sound(del, m.n), ~Continuity(f, x.pkt).pusi_seen,
         NEW r, r = SectionPacket(f, x.pkt)
  PROVE  Advanced(r, f, m, k, del, x)
<1>1. x.pkt \in Packets /\ ~x.pkt.pusi /\ x.mux \in Muxes /\ m.n <= x.mux.n /\ x.mux.n = m.n
  BY DEF Sent, Carries
<1>2. r[1] \in Feeds /\ r[1].pusi_seen = FALSE /\ r[2] = << >>
  <2>1. Continuity(f, x.pkt).pusi_seen \in BOOLEAN  BY <1>1, ContinuityRight DEF Feeds
  <2>2. r[1] \in Feeds /\ r[1].pusi_seen = Continuity(f, x.pkt).pusi_seen /\ r[2] = << >>
    BY <1>1, PacketAny
  <2>. QED  BY <2>1, <2>2, Zenon
<1>3. del \in Seq(Nat) /\ del \o r[2] = del  BY <1>2 DEF Sound
<1>4. ~(f.pusi_seen /\ k = 0 /\ ~x.pkt.dci)  BY InStepOnly
<1>5. Sound(del \o r[2], x.mux.n)  BY <1>1, <1>3
<1>6. r[2] \in Seq(Nat)  BY <1>2
<1>7. Ordered(del, f) => Ordered(del \o r[2], r[1])  BY <1>2, <1>3 DEF Ordered
<1>. QED  BY <1>1, <1>2, <1>4, <1>5, <1>6, <1>7, Zenon DEF Advanced, Tracks

(* No section starts, and the feed is in step.                             *)
LEMMA AdvanceCarry ==
  ASSUME GarbleOK, NEW f \in Feeds, NEW m \in Muxes, NEW k, NEW x, Sent(m, x), Carries(m, x),
         Tracks(f, m, k), NEW del, Sound(del, m.n), Continuity(f, x.pkt).pusi_seen,
         NEW r, r = SectionPacket(f, x.pkt)
  PROVE  Advanced(r, f, m, k, del, x)
<1>1. x.pkt \in Packets /\ ~x.pkt.pusi /\ x.mux \in Muxes /\ x.mux.n = m.n /\ x.mux.len = m.len
  BY DEF Sent, Carries
<1>2. PICK g \in Feeds : g = Continuity(f, x.pkt)  BY <1>1, ContinuityRight
<1>3. g.pusi_seen /\ Steady(g, m) /\ Joins(g.base, m) /\ \A d : Later(d, f) <=> Later(d, g)
  BY <1>2, InStepOnly
<1>4. f.pusi_seen /\ k = 0 /\ ~x.pkt.dci  BY InStepOnly
<1>5. r = CopyDump(<<g, << >> >>, x.pkt.bytes)  BY <1>1, <1>2, SectionPacketDef
<1>6. Extended(r, g, m, Len(x.pkt.bytes)) /\ Steady(r[1], x.mux) /\ Joins(r[1].base, x.mux)
  BY <1>3, <1>5, CarriedRight
<1>7. /\ After(r, g) /\ r[2] \in Seq(Nat) /\ Rising(r[2]) /\ Later(r[2], r[1])
      /\ \A i \in 1 .. Len(r[2]) : r[2][i] \in 1 .. m.n
      /\ \A d : Later(d, g) =>
           Later(d, r[1]) /\ \A i \in 1 .. Len(d), j \in 1 .. Len(r[2]) : d[i] < r[2][j]
      /\ m.sent < m.len /\ m.len - m.sent <= Len(x.pkt.bytes) =>
           \E i \in 1 .. Len(r[2]) : r[2][i] = m.n
  BY <1>6 DEF Extended
<1>8. r[1].cc = x.mux.cc /\ r[1].pusi_seen
  <2>1. r[1].cc = x.pkt.cc  BY <1>1, PacketAny
  <2>2. r[1].pusi_seen = g.pusi_seen  BY <1>7 DEF After
  <2>3. x.pkt.cc = x.mux.cc  BY DEF Sent
  <2>. QED  BY <1>3, <2>1, <2>2, <2>3, Zenon
<1>9. Tracks(r[1], x.mux, 0)  BY <1>1, <1>6, <1>8, TracksNow
<1>10. PICK D \in Seq(Nat) : D = r[2]  BY <1>7
<1>11. Sound(D, m.n)  BY <1>7, <1>10 DEF Sound
<1>12. Sound(del \o D, x.mux.n)  BY <1>1, <1>11, ConcatSound
<1>13. del \in Seq(Nat)  BY DEF Sound
<1>14. ASSUME Ordered(del, f) PROVE Ordered(del \o D, r[1])
  <2>1. Rising(del) /\ Later(del, f)  BY <1>4, <1>14 DEF Ordered
  <2>2. Later(del, g)  BY <1>3, <2>1
  <2>3. Later(del, r[1]) /\ \A i \in 1 .. Len(del), j \in 1 .. Len(D) : del[i] < D[j]
    BY <1>7, <1>10, <2>2
  <2>4. Rising(del \o D)  BY <1>7, <1>10, <1>13, <2>1, <2>3, ConcatRising
  <2>5. Later(del \o D, r[1])  BY <1>7, <1>10, <1>13, <2>3, ConcatLater
  <2>. QED  BY <2>4, <2>5 DEF Ordered
<1>15. ASSUME NEW s \in Done(m) + 1 .. Done(x.mux) PROVE Has(del \o D, s)
  <2>1. PICK n \in Nat, l \in Nat, t \in Nat, e \in Nat :
          /\ n = m.n /\ l = m.len /\ t = m.sent /\ t <= l /\ e = Len(x.pkt.bytes)
          /\ (t < l => Done(m) = n - 1) /\ (t = l => Done(m) = n)
    <3>1. Len(x.pkt.bytes) \in Nat  BY <1>1 DEF Packets
    <3>. QED  BY <3>1, DoneRange
  <2>2. x.mux.n = n /\ x.mux.len = l /\ x.mux.sent = IF l - t > e THEN t + e ELSE l
    BY <2>1 DEF Carries
  <2>3. PICK u \in Nat : /\ u = x.mux.sent /\ u <= l
                         /\ (u < l => Done(x.mux) = n - 1) /\ (u = l => Done(x.mux) = n)
    <3>1. /\ x.mux.sent \in Nat /\ x.mux.sent <= x.mux.len
          /\ (x.mux.sent < x.mux.len => Done(x.mux) = x.mux.n - 1)
          /\ (x.mux.sent = x.mux.len => Done(x.mux) = x.mux.n)
      BY <1>1, DoneRange
    <3>. QED  BY <2>2, <3>1
  <2>4. t < l /\ u = l /\ s = n
    <3>1. CASE t = l
      <4>1. u = l  BY <2>1, <2>2, <2>3, <3>1
      <4>. QED  BY <2>1, <2>3, <3>1, <4>1
    <3>2. CASE t < l /\ u < l  BY <2>1, <2>3, <3>2
    <3>3. CASE t < l /\ u = l  BY <2>1, <2>3, <3>3
    <3>. QED  BY <2>1, <2>3, <3>1, <3>2, <3>3
  <2>5. l - t <= e  BY <2>1, <2>2, <2>3, <2>4
  <2>6. Has(D, n)  BY <1>7, <1>10, <2>1, <2>4, <2>5 DEF Has
  <2>. QED  BY <1>10, <1>13, <2>4, <2>6, ConcatHas
<1>. QED  BY <1>1, <1>4, <1>8, <1>9, <1>10, <1>12, <1>14, <1>15, Zenon DEF Advanced

(* What the old buffer hands out when a section starts in the packet.      *)
LEMMA OpenBefore ==
  ASSUME GarbleOK, NEW f \in Feeds, NEW m \in Muxes, NEW k, NEW x, Sent(m, x), Opens(m, x),
         Tracks(f, m, k), NEW del, NEW done,
         done = CopyDump(<<Continuity(f, x.pkt), << >> >>, BeforePointer(x.pkt))
  PROVE  /\ done[1] \in Feeds /\ Sound(done[2], m.n) /\ Rising(done[2])
         /\ Ordered(del, f) => \A i \in 1 .. Len(del), j \in 1 .. Len(done[2]) : del[i] < done[2][j]
         /\ f.pusi_seen /\ k = 0 /\ ~x.pkt.dci /\ m.sent < m.len => Has(done[2], m.n)
<1>1. x.pkt \in Packets  BY DEF Sent
<1>2. PICK g \in Feeds : g = Continuity(f, x.pkt)  BY <1>1, ContinuityRight
<1>3. PICK bytes \in Seq(Byte) : /\ bytes = BeforePointer(x.pkt) /\ Len(bytes) = m.len - m.sent
                                 /\ Follows(m, bytes)
  BY DEF Opens
<1>4. CASE g.pusi_seen
  <2>1. f.pusi_seen /\ Steady(g, m) /\ Joins(g.base, m) /\ \A d : Later(d, f) <=> Later(d, g)
    BY <1>2, <1>4, InStepOnly
  <2>2. Extended(done, g, m, Len(bytes))  BY <1>2, <1>3, <1>4, <2>1, Completes
  <2>3. /\ After(done, g) /\ done[2] \in Seq(Nat) /\ Rising(done[2])
        /\ \A i \in 1 .. Len(done[2]) : done[2][i] \in 1 .. m.n
        /\ \A d : Later(d, g) => \A i \in 1 .. Len(d), j \in 1 .. Len(done[2]) : d[i] < done[2][j]
        /\ m.sent < m.len /\ m.len - m.sent <= Len(bytes) => \E i \in 1 .. Len(done[2]) : done[2][i] = m.n
    BY <2>2 DEF Extended
  <2>4. done[1] \in Feeds /\ Sound(done[2], m.n)  BY <2>3 DEF After, Sound
  <2>5. ASSUME Ordered(del, f)
        PROVE  \A i \in 1 .. Len(del), j \in 1 .. Len(done[2]) : del[i] < done[2][j]
    <3>1. Later(del, g)  BY <2>1, <2>5 DEF Ordered
    <3>. QED  BY <2>3, <3>1, Zenon
  <2>6. ASSUME m.sent < m.len PROVE Has(done[2], m.n)
    <3>1. Len(bytes) \in Nat /\ m.len - m.sent <= Len(bytes)  BY <1>3
    <3>. QED  BY <2>3, <2>6, <3>1 DEF Has
  <2>. QED  BY <2>3, <2>4, <2>5, <2>6
<1>5. CASE ~g.pusi_seen
  <2>1. After(done, g) /\ done[2] = << >>  BY <1>2, <1>3, <1>5, DumpAny
  <2>2. ~(f.pusi_seen /\ k = 0 /\ ~x.pkt.dci)  BY <1>2, <1>5, InStepOnly
  <2>3. done[1] \in Feeds  BY <2>1 DEF After
  <2>4. Len(done[2]) = 0 /\ done[2] \in Seq(Nat)
    <3>1. Len(<< >>) = 0 /\ << >> \in Seq(Nat)  OBVIOUS
    <3>. QED  BY <2>1, <3>1, Zenon
  <2>5. \A i \in 1 .. Len(done[2]) : FALSE  BY <2>4
  <2>. QED  BY <2>2, <2>3, <2>4, <2>5, Zenon DEF Sound, Rising
<1>. QED  BY <1>4, <1>5

(* A section starts in the packet.                                         *)
LEMMA AdvanceOpen ==
  ASSUME GarbleOK, NEW f \in Feeds, NEW m \in Muxes, NEW k, NEW x, Sent(m, x), Opens(m, x),
         Tracks(f, m, k), NEW del, Sound(del, m.n), NEW r, r = SectionPacket(f, x.pkt)
  PROVE  Advanced(r, f, m, k, del, x)
<1>1. x.pkt \in Packets /\ x.pkt.pusi /\ x.mux \in Muxes /\ m.n <= x.mux.n
      /\ Fresh(AfterPointer(x.pkt), m.n, x.mux)
  BY DEF Sent, Opens
<1>2. PICK done : done = CopyDump(<<Continuity(f, x.pkt), << >> >>, BeforePointer(x.pkt))  OBVIOUS
<1>3. PICK e : e = done[2]  OBVIOUS
<1>4. /\ done[1] \in Feeds /\ Sound(e, m.n) /\ Rising(e)
      /\ Ordered(del, f) => \A i \in 1 .. Len(del), j \in 1 .. Len(e) : del[i] < e[j]
      /\ f.pusi_seen /\ k = 0 /\ ~x.pkt.dci /\ m.sent < m.len => Has(e, m.n)
  BY <1>2, <1>3, OpenBefore
<1>5. PICK h \in Feeds : /\ h = Reopened(done[1]) /\ h.base = << >> /\ h.secbufp = 0 /\ h.pusi_seen
  BY <1>4, ReopenedFields
<1>6. r = CopyDump(<<h, e>>, AfterPointer(x.pkt))  BY <1>1, <1>2, <1>3, <1>5, SectionPacketDef
<1>7. m.n \in Nat /\ e \in Seq(Nat) /\ del \in Seq(Nat)  BY <1>4 DEF Muxes, Sound
<1>8. After(r, h) /\ Anew(r, m.n, x.mux, e)  BY <1>1, <1>5, <1>6, <1>7, FreshRight
<1>9. r[1] \in Feeds /\ r[1].pusi_seen  BY <1>5, <1>8, Zenon DEF After
<1>10. /\ r[2] \in Seq(Nat) /\ Sound(del \o r[2], x.mux.n)
       /\ Rising(del) /\ (\A i \in 1 .. Len(del), j \in 1 .. Len(e) : del[i] < e[j]) =>
            Rising(del \o r[2]) /\ Later(del \o r[2], r[1])
       /\ \A s \in m.n + 1 .. Done(x.mux) : Has(del \o r[2], s)
       /\ \A s : Has(e, s) => Has(del \o r[2], s)
  BY <1>1, <1>4, <1>7, <1>8, <1>9, AnewRight
<1>11. Tracks(r[1], x.mux, 0)
  <2>1. r[1].cc = x.mux.cc
    <3>1. r[1].cc = x.pkt.cc  BY <1>1, PacketAny
    <3>2. x.pkt.cc = x.mux.cc  BY DEF Sent
    <3>. QED  BY <3>1, <3>2
  <2>2. Steady(r[1], x.mux) /\ Joins(r[1].base, x.mux)  BY <1>8 DEF Anew
  <2>. QED  BY <1>1, <2>1, <2>2, TracksNow
<1>12. ASSUME Ordered(del, f) PROVE Ordered(del \o r[2], r[1])
  <2>1. Rising(del) /\ \A i \in 1 .. Len(del), j \in 1 .. Len(e) : del[i] < e[j]
    BY <1>4, <1>12, Zenon DEF Ordered
  <2>. QED  BY <1>10, <2>1, Zenon DEF Ordered
<1>13. ASSUME f.pusi_seen /\ k = 0 /\ ~x.pkt.dci, NEW s \in Done(m) + 1 .. Done(x.mux)
       PROVE  Has(del \o r[2], s)
  <2>1. PICK n \in Nat, l \in Nat, t \in Nat :
          /\ n = m.n /\ l = m.len /\ t = m.sent /\ t <= l
          /\ (t < l => Done(m) = n - 1) /\ (t = l => Done(m) = n)
    BY DoneRange
  <2>2. Done(x.mux) \in Int  BY <1>1, DoneRange
  <2>3. CASE s \in n + 1 .. Done(x.mux)  BY <1>10, <2>1, <2>3
  <2>4. CASE s \notin n + 1 .. Done(x.mux)
    <3>1. t < l /\ s = n
      <4>1. CASE t = l  BY <2>1, <2>2, <2>4, <4>1
      <4>2. CASE t < l  BY <2>1, <2>2, <2>4, <4>2
      <4>. QED  BY <2>1, <4>1, <4>2
    <3>2. Has(e, n)  BY <1>4, <1>13, <2>1, <3>1
    <3>. QED  BY <1>10, <3>1, <3>2
  <2>. QED  BY <2>3, <2>4
<1>. QED  BY <1>1, <1>9, <1>10, <1>11, <1>12, <1>13, Zenon DEF Advanced

(* What a packet of the multiplexer does.                                  *)
LEMMA Advance ==
  ASSUME GarbleOK, NEW f \in Feeds, NEW m \in Muxes, NEW k, NEW x, Sent(m, x),
         Carries(m, x) \/ Opens(m, x), Tracks(f, m, k), NEW del, Sound(del, m.n),
         NEW r, r = SectionPacket(f, x.pkt)
  PROVE  Advanced(r, f, m, k, del, x)
<1>1. CASE Opens(m, x)  BY <1>1, AdvanceOpen
<1>2. CASE Carries(m, x) /\ Continuity(f, x.pkt).pusi_seen  BY <1>2, AdvanceCarry
<1>3. CASE Carries(m, x) /\ ~Continuity(f, x.pkt).pusi_seen  BY <1>3, AdvanceIdle
<1>. QED  BY <1>1, <1>2, <1>3

(* What a repeated packet does to a feed that has taken it already, or     *)
(* that has no bearings.                                                   *)
LEMMA Repeat ==
  ASSUME GarbleOK, NEW f \in Feeds, NEW m \in Muxes, Tracks(f, m, 0), NEW pkt \in Packets,
         pkt.cc = m.cc, NEW n0 \in Nat, n0 <= m.n, pkt.pusi => Fresh(AfterPointer(pkt), n0, m),
         NEW del, Sound(del, m.n), NEW r, r = SectionPacket(f, pkt)
  PROVE  Tracks(r[1], m, 0) /\ Sound(del \o r[2], m.n) /\ r[2] \in Seq(Nat)
<1>1. PICK g \in Feeds : g = Continuity(f, pkt)  BY ContinuityRight
<1>2. g.pusi_seen = FALSE
  <2>1. CASE (f.cc + 1) % CcMod # pkt.cc  BY <1>1, <2>1, ContinuityRight
  <2>2. CASE (f.cc + 1) % CcMod = pkt.cc
    <3>1. f.cc \in 0 .. CcMod - 1 /\ m.cc \in 0 .. CcMod - 1 /\ f.pusi_seen \in BOOLEAN
          /\ g.pusi_seen \in BOOLEAN
      BY DEF Feeds, Muxes
    <3>2. ~f.pusi_seen
      <4>. SUFFICES ASSUME f.pusi_seen PROVE FALSE  OBVIOUS
      <4>1. (f.cc + 0) % CcMod = m.cc /\ 0 \in 0 .. CcMod - 1  BY DEF Tracks
      <4>2. (f.cc + 1) % CcMod # m.cc  BY <3>1, <4>1, Counter
      <4>. QED  BY <2>2, <4>2
    <3>3. g.pusi_seen => f.pusi_seen  BY <1>1, ContinuityRight
    <3>. QED  BY <3>1, <3>2, <3>3, Zenon
  <2>. QED  BY <2>1, <2>2
<1>3. r[1] \in Feeds /\ r[1].cc = m.cc  BY PacketAny
<1>4. del \in Seq(Nat)  BY DEF Sound
<1>5. CASE ~pkt.pusi
  <2>1. r[1].pusi_seen = FALSE /\ r[2] = << >>  BY <1>1, <1>2, <1>5, PacketAny
  <2>2. del \o r[2] = del /\ r[2] \in Seq(Nat)  BY <1>4, <2>1
  <2>3. Tracks(r[1], m, 0)  BY <2>1 DEF Tracks
  <2>. QED  BY <2>2, <2>3
<1>6. CASE pkt.pusi
  <2>1. PICK done : done = CopyDump(<<g, << >> >>, BeforePointer(pkt))  OBVIOUS
  <2>2. BeforePointer(pkt) \in Seq(Byte)  BY PointerBytes
  <2>3. After(done, g) /\ done[2] = << >>  BY <1>2, <2>1, <2>2, DumpAny
  <2>4. done[1] \in Feeds  BY <2>3 DEF After
  <2>5. PICK h \in Feeds : h = Reopened(done[1]) /\ h.base = << >> /\ h.secbufp = 0 /\ h.pusi_seen
    BY <2>4, ReopenedFields
  <2>6. r = CopyDump(<<h, << >> >>, AfterPointer(pkt))  BY <1>1, <1>6, <2>1, <2>3, <2>5, SectionPacketDef
  <2>7. << >> \in Seq(Nat) /\ Sound(<< >>, m.n)  BY DEF Sound
  <2>8. After(r, h) /\ Anew(r, n0, m, << >>)  BY <1>6, <2>5, <2>6, <2>7, FreshRight
  <2>9. Tracks(r[1], m, 0)
    <3>1. Steady(r[1], m) /\ Joins(r[1].base, m)  BY <2>8 DEF Anew
    <3>. QED  BY <1>3, <3>1, TracksNow
  <2>10. PICK D \in Seq(Nat) : r[2] = << >> \o D /\ \A i \in 1 .. Len(D) : D[i] \in n0 + 1 .. m.n
    BY <2>8 DEF Anew
  <2>11. r[2] = D  BY <2>10
  <2>12. Sound(D, m.n)
    <3>1. m.n \in Nat  BY DEF Muxes
    <3>2. \A y \in n0 + 1 .. m.n : y \in 1 .. m.n  BY <3>1
    <3>. QED  BY <2>10, <3>2 DEF Sound
  <2>13. Sound(del \o D, m.n)  BY <2>12, ConcatSound
  <2>. QED  BY <2>9, <2>10, <2>11, <2>13
<1>. QED  BY <1>5, <1>6

-----------------------------------------------------------------------------
(* The invariant                                                           *)

(* The buffer is in order, whether the card resets pusi_seen or not.       *)
BufferInv ==
  /\ mux \in Muxes /\ feed \in Feeds /\ GarbleOK
  /\ air # << >> => air[1] \in Packets

(* What Deliver does to the feed.                                          *)
LEMMA DeliverFeed ==
  ASSUME GarbleOK, feed \in Feeds, NEW pkt \in Packets, Deliver(pkt)
  PROVE  feed' \in Feeds /\ feed'.is_filtering = feed.is_filtering
<1>1. PICK r : r = SectionPacket(feed, pkt)  OBVIOUS
<1>2. r[1] \in Feeds /\ r[1].is_filtering = feed.is_filtering  BY <1>1, PacketAny
<1>3. feed' = IF feed.is_filtering THEN r[1] ELSE feed  BY <1>1 DEF Deliver
<1>. QED  BY <1>2, <1>3

(* The other changes of the feed.                                          *)
LEMMA FeedChanges ==
  ASSUME NEW f \in Feeds, NEW q \in BOOLEAN
  PROVE  LET rewound == [f EXCEPT !.secbufp = 0]
             stopped == [f EXCEPT !.is_filtering = FALSE]
             started == [SectionNew(f) EXCEPT !.is_filtering = TRUE, !.pusi_seen = IF q THEN FALSE ELSE @]
         IN /\ rewound \in Feeds /\ rewound.base = f.base /\ rewound.secbufp = 0
            /\ rewound.pusi_seen = f.pusi_seen /\ rewound.cc = f.cc
            /\ rewound.is_filtering = f.is_filtering
            /\ stopped \in Feeds /\ stopped.is_filtering = FALSE
            /\ started \in Feeds /\ (q => started.pusi_seen = FALSE)
<1>1. PICK b \in Seq(Byte), p \in Nat, s \in BOOLEAN, c \in 0 .. CcMod - 1, i \in BOOLEAN :
        /\ f = [base |-> b, secbufp |-> p, pusi_seen |-> s, cc |-> c, is_filtering |-> i]
        /\ p <= Len(b) /\ Len(b) <= SecFeedSize
  BY DEF Feeds
<1>2. << >> \in Seq(Byte) /\ Len(<< >>) = 0 /\ 0 <= SecFeedSize /\ 0 <= Len(b)  BY <1>1, SecFeedSizeNat
<1>3. PICK g : g = [f EXCEPT !.secbufp = 0]  OBVIOUS
<1>4. g = [base |-> b, secbufp |-> 0, pusi_seen |-> s, cc |-> c, is_filtering |-> i]  BY <1>1, <1>3
<1>5. g \in Feeds  BY <1>1, <1>2, <1>4 DEF Feeds
<1>6. /\ g.base = f.base /\ g.secbufp = 0 /\ g.pusi_seen = f.pusi_seen /\ g.cc = f.cc
      /\ g.is_filtering = f.is_filtering
  BY <1>1, <1>4
<1>7. PICK h : h = [f EXCEPT !.is_filtering = FALSE]  OBVIOUS
<1>8. h = [base |-> b, secbufp |-> p, pusi_seen |-> s, cc |-> c, is_filtering |-> FALSE]  BY <1>1, <1>7
<1>9. h \in Feeds /\ h.is_filtering = FALSE  BY <1>1, <1>8 DEF Feeds
<1>10. PICK j : j = [SectionNew(f) EXCEPT !.is_filtering = TRUE, !.pusi_seen = IF q THEN FALSE ELSE @]
  OBVIOUS
<1>11. PICK t \in BOOLEAN : t = (IF q THEN FALSE ELSE s) /\ (q => t = FALSE)  BY <1>1
<1>12. j = [base |-> << >>, secbufp |-> 0, pusi_seen |-> t, cc |-> c, is_filtering |-> TRUE]
  BY <1>1, <1>10, <1>11 DEF SectionNew
<1>13. j \in Feeds /\ j.pusi_seen = t
  <2>1. \A v \in BOOLEAN : [base |-> << >>, secbufp |-> 0, pusi_seen |-> v, cc |-> c, is_filtering |-> TRUE]
                             \in Feeds
    BY <1>1, <1>2 DEF Feeds
  <2>2. [base |-> << >>, secbufp |-> 0, pusi_seen |-> t, cc |-> c, is_filtering |-> TRUE].pusi_seen = t
    BY Zenon
  <2>. QED  BY <1>11, <1>12, <2>1, <2>2, Zenon
<1>. QED  BY <1>3, <1>5, <1>6, <1>7, <1>9, <1>10, <1>11, <1>13

(* The state at the beginning.                                             *)
LEMMA InitState ==
  ASSUME Init
  PROVE  /\ mux \in Muxes /\ feed \in Feeds /\ GarbleOK /\ air = << >> /\ missed = 0
         /\ delivered = << >> /\ owed = 0 /\ (ResetsPusiSeen => feed.pusi_seen = FALSE)
<1>1. air = << >> /\ missed = 0 /\ delivered = << >> /\ owed = 0  BY DEF Init
<1>2. mux \in Muxes
  <2>1. mux = [n |-> 0, len |-> 0, sent |-> 0, cc |-> 0] /\ 0 \in 0 .. CcMod - 1
    BY SectionConstants DEF Init
  <2>. QED  BY <2>1 DEF Muxes
<1>3. GarbleOK  BY SectionConstants DEF Init, GarbleOK
<1>4. PICK c \in 0 .. CcMod - 1, s \in BOOLEAN :
        /\ feed = [base |-> << >>, secbufp |-> 0, pusi_seen |-> s, cc |-> c, is_filtering |-> TRUE]
        /\ ResetsPusiSeen => s = FALSE
  BY SectionConstants DEF Init
<1>5. << >> \in Seq(Byte) /\ Len(<< >>) = 0 /\ 0 <= SecFeedSize  BY SecFeedSizeNat
<1>6. feed \in Feeds /\ feed.pusi_seen = s  BY <1>4, <1>5 DEF Feeds
<1>. QED  BY <1>1, <1>2, <1>3, <1>4, <1>6

(* A packet that is sent, whether it arrives or not.                       *)
LEMMA SendState ==
  ASSUME mux \in Muxes, NEW x \in Sendable, Send(x)
  PROVE  /\ Sent(mux, x) /\ (Carries(mux, x) \/ Opens(mux, x)) /\ mux' = x.mux /\ mux' \in Muxes
         /\ x.pkt \in Packets /\ (air' # << >> => air' = <<x.pkt>>)
<1>1. Sent(mux, x) /\ (Carries(mux, x) \/ Opens(mux, x))  BY SendableRight
<1>2. mux' = x.mux /\ (air' # << >> => air' = <<x.pkt>>)  BY DEF Send
<1>. QED  BY <1>1, <1>2 DEF Sent

(* Every step keeps tsfeedp and seclen inside secbuf_base.                 *)
LEMMA BufferStep ==
  ASSUME BufferInv, [Next]_vars
  PROVE  BufferInv'
<1>. USE DEF BufferInv
<1>g. garble' = garble => GarbleOK'  BY DEF GarbleOK
<1>1. ASSUME NEW x \in Sendable, Packet(x) PROVE BufferInv'
  <2>1. Send(x) /\ Deliver(x.pkt) /\ garble' = garble  BY <1>1 DEF Packet
  <2>2. mux' \in Muxes /\ x.pkt \in Packets /\ (air' # << >> => air' = <<x.pkt>>)  BY <2>1, SendState
  <2>3. feed' \in Feeds  BY <2>1, <2>2, DeliverFeed
  <2>4. air' # << >> => air'[1] \in Packets  BY <2>2
  <2>. QED  BY <1>g, <2>1, <2>2, <2>3, <2>4
<1>2. ASSUME NEW x \in Sendable, Lose(x) PROVE BufferInv'
  <2>1. Send(x) /\ garble' = garble /\ feed' = feed  BY <1>2 DEF Lose
  <2>2. mux' \in Muxes /\ x.pkt \in Packets /\ (air' # << >> => air' = <<x.pkt>>)  BY <2>1, SendState
  <2>4. air' # << >> => air'[1] \in Packets  BY <2>2
  <2>. QED  BY <1>g, <2>1, <2>2, <2>4
<1>3. CASE Duplicate
  <2>1. /\ air # << >> /\ Deliver(air[1]) /\ mux' = mux /\ air' = air /\ garble' = garble
    BY <1>3 DEF Duplicate
  <2>2. feed' \in Feeds  BY <2>1, DeliverFeed
  <2>. QED  BY <1>g, <2>1, <2>2
<1>4. CASE Empty
  <2>1. feed' = [feed EXCEPT !.secbufp = 0] /\ mux' = mux /\ air' = air /\ garble' = garble
    BY <1>4 DEF Empty
  <2>2. feed' \in Feeds  BY <2>1, FeedChanges
  <2>. QED  BY <1>g, <2>1, <2>2
<1>5. CASE StopFiltering
  <2>1. feed' = [feed EXCEPT !.is_filtering = FALSE] /\ mux' = mux /\ air' = air /\ garble' = garble
    BY <1>5 DEF StopFiltering
  <2>2. feed' \in Feeds  BY <2>1, FeedChanges
  <2>. QED  BY <1>g, <2>1, <2>2
<1>6. CASE StartFiltering
  <2>1. mux' = mux /\ air' = air /\ garble' = garble  BY <1>6 DEF StartFiltering
  <2>2. feed' \in Feeds
    <3>1. ResetsPusiSeen \in BOOLEAN  BY SectionConstants
    <3>2. feed' = [SectionNew(feed) EXCEPT !.is_filtering = TRUE,
                                          !.pusi_seen = IF ResetsPusiSeen THEN FALSE ELSE @]
      BY <1>6 DEF StartFiltering
    <3>. QED  BY <3>1, <3>2, FeedChanges
  <2>. QED  BY <1>g, <2>1, <2>2
<1>7. CASE UNCHANGED vars
  <2>1. mux' = mux /\ air' = air /\ garble' = garble /\ feed' = feed  BY <1>7 DEF vars
  <2>. QED  BY <1>g, <2>1
<1>. QED  BY <1>1, <1>2, <1>3, <1>4, <1>5, <1>6, <1>7 DEF Next

(* secbuf_base is never written behind its end, secbufp never passes what  *)
(* is in it, and the continuity counter stays one: whatever packets        *)
(* arrive, are lost, repeated or empty, whatever the lengths in them read  *)
(* as, and wherever the feed is stopped and started.                       *)
THEOREM SectionBuffer == Spec => []BufferOK
<1>1. Init => BufferInv  BY InitState DEF BufferInv
<1>2. BufferInv /\ [Next]_vars => BufferInv'  BY BufferStep
<1>3. BufferInv => BufferOK  BY DEF BufferInv, BufferOK, Feeds
<1>. QED  BY <1>1, <1>2, <1>3, PTL DEF Spec

(* What the feed delivers is right if the card resets pusi_seen: the last  *)
(* packet can be taken again, a feed that filters and has seen a section   *)
(* start is in step, what it delivered are sections that have begun, in    *)
(* their order, and from owed on all that are complete.                    *)
AirInv ==
  air # << >> =>
    \E pkt \in Packets, n0 \in Nat :
      /\ air = <<pkt>> /\ pkt.cc = mux.cc /\ n0 <= mux.n
      /\ pkt.pusi => Fresh(AfterPointer(pkt), n0, mux)

FilterInv == feed.is_filtering => Tracks(feed, mux, missed)

OrderInv ==
  {"dup", "empty"} \intersect events = {} =>
    Rising(delivered) /\ (feed.is_filtering => Ordered(delivered, feed))

OwedInv ==
  /\ owed \in Nat
  /\ owed > 0 => /\ feed.is_filtering /\ feed.pusi_seen /\ missed = 0
                 /\ \A s \in owed .. Done(mux) : Has(delivered, s)

SectionInv ==
  /\ mux \in Muxes /\ feed \in Feeds /\ GarbleOK /\ missed \in Nat
  /\ AirInv /\ FilterInv /\ OrderInv /\ OwedInv
  /\ Sound(delivered, mux.n)

(* Nothing is in flight at first.                                          *)
LEMMA SectionInit == ASSUME ResetsPusiSeen, Init PROVE SectionInv
<1>1. /\ mux \in Muxes /\ feed \in Feeds /\ GarbleOK /\ air = << >> /\ missed = 0
      /\ delivered = << >> /\ owed = 0 /\ feed.pusi_seen = FALSE
  BY InitState
<1>2. delivered \in Seq(Nat) /\ Len(delivered) = 0  BY <1>1
<1>3. \A i \in 1 .. Len(delivered) : FALSE  BY <1>2
<1>4. AirInv  BY <1>1 DEF AirInv
<1>5. FilterInv  BY <1>1 DEF FilterInv, Tracks
<1>6. OrderInv  BY <1>1, <1>3, Zenon DEF OrderInv, Ordered, Rising
<1>7. OwedInv  BY <1>1 DEF OwedInv
<1>8. Sound(delivered, mux.n)  BY <1>2, <1>3, Zenon DEF Sound
<1>. QED  BY <1>1, <1>4, <1>5, <1>6, <1>7, <1>8 DEF SectionInv

(* The packet just sent can be repeated.                                   *)
LEMMA AirSent ==
  ASSUME mux \in Muxes, NEW x \in Sendable, Send(x)
  PROVE  AirInv'
<1>1. /\ Sent(mux, x) /\ (Carries(mux, x) \/ Opens(mux, x)) /\ mux' = x.mux
      /\ x.pkt \in Packets /\ (air' # << >> => air' = <<x.pkt>>)
  BY SendState
<1>2. x.pkt.cc = x.mux.cc /\ mux.n <= x.mux.n  BY <1>1 DEF Sent
<1>3. x.pkt.pusi => Fresh(AfterPointer(x.pkt), mux.n, x.mux)  BY <1>1 DEF Carries, Opens
<1>4. mux.n \in Nat  BY DEF Muxes
<1>. QED  BY <1>1, <1>2, <1>3, <1>4 DEF AirInv

(* A packet arrives while the feed does not filter.                        *)
LEMMA PacketOff ==
  ASSUME SectionInv, NEW x \in Sendable, Packet(x), ~feed.is_filtering
  PROVE  SectionInv'
<1>1. /\ mux \in Muxes /\ feed \in Feeds /\ GarbleOK /\ OrderInv /\ Sound(delivered, mux.n)
  BY DEF SectionInv
<1>2. /\ Send(x) /\ Deliver(x.pkt) /\ missed' = 0 /\ owed' = 0 /\ garble' = garble /\ events' = events
  BY DEF Packet
<1>3. feed' = feed /\ delivered' = delivered  BY <1>2 DEF Deliver
<1>4. mux' = x.mux /\ mux' \in Muxes /\ Sent(mux, x)  BY <1>1, <1>2, SendState
<1>5. AirInv'  BY <1>1, <1>2, AirSent
<1>6. FilterInv'  BY <1>3 DEF FilterInv
<1>7. OrderInv'  BY <1>1, <1>2, <1>3 DEF OrderInv
<1>8. OwedInv'  BY <1>2 DEF OwedInv
<1>9. Sound(delivered', mux'.n)
  <2>1. mux.n \in Nat /\ mux'.n \in Nat /\ mux.n <= mux'.n  BY <1>1, <1>4 DEF Muxes, Sent
  <2>. QED  BY <1>1, <1>3, <2>1, SoundMore
<1>10. GarbleOK'  BY <1>1, <1>2 DEF GarbleOK
<1>. QED  BY <1>1, <1>2, <1>3, <1>4, <1>5, <1>6, <1>7, <1>8, <1>9, <1>10 DEF SectionInv

(* A packet arrives at the feed.                                           *)
LEMMA PacketOn ==
  ASSUME SectionInv, NEW x \in Sendable, Packet(x), feed.is_filtering
  PROVE  SectionInv'
<1>1. /\ mux \in Muxes /\ feed \in Feeds /\ GarbleOK /\ OrderInv /\ Sound(delivered, mux.n)
      /\ OwedInv /\ Tracks(feed, mux, missed)
  BY DEF SectionInv, FilterInv
<1>2. /\ Send(x) /\ Deliver(x.pkt) /\ missed' = 0 /\ garble' = garble /\ events' = events
      /\ owed' = IF owed > 0 /\ ~x.pkt.dci THEN owed ELSE IF x.pkt.pusi THEN mux.n + 1 ELSE 0
  BY DEF Packet
<1>3. PICK r : r = SectionPacket(feed, x.pkt)  OBVIOUS
<1>4. feed' = r[1] /\ delivered' = delivered \o r[2]  BY <1>2, <1>3 DEF Deliver
<1>5. /\ mux' = x.mux /\ mux' \in Muxes /\ Sent(mux, x) /\ (Carries(mux, x) \/ Opens(mux, x))
      /\ x.pkt \in Packets
  BY <1>1, <1>2, SendState
<1>6. Advanced(r, feed, mux, missed, delivered, x)  BY <1>1, <1>3, <1>5, Advance
<1>7. /\ r[1] \in Feeds /\ r[1].is_filtering = feed.is_filtering /\ (x.pkt.pusi => r[1].pusi_seen)
  BY <1>1, <1>3, <1>5, PacketAny
<1>8. AirInv'  BY <1>1, <1>2, AirSent
<1>9. FilterInv'  BY <1>2, <1>4, <1>5, <1>6 DEF Advanced, FilterInv
<1>10. Sound(delivered', mux'.n)  BY <1>4, <1>5, <1>6 DEF Advanced
<1>11. OrderInv'
  <2>. SUFFICES ASSUME {"dup", "empty"} \intersect events = {}
                PROVE  Rising(delivered') /\ Ordered(delivered', feed')
    BY <1>2 DEF OrderInv
  <2>1. Ordered(delivered, feed)  BY <1>1 DEF OrderInv
  <2>2. Ordered(delivered', feed')  BY <1>4, <1>6, <2>1 DEF Advanced
  <2>. QED  BY <2>2 DEF Ordered
<1>12. OwedInv'
  <2>0. mux.n \in Nat /\ owed \in Nat  BY <1>1 DEF Muxes, OwedInv
  <2>1. CASE owed > 0 /\ ~x.pkt.dci
    <3>1. owed' = owed  BY <1>2, <2>1
    <3>2. /\ feed.pusi_seen /\ missed = 0 /\ \A s \in owed .. Done(mux) : Has(delivered, s)
      BY <1>1, <2>1 DEF OwedInv
    <3>3. /\ r[1].pusi_seen /\ r[2] \in Seq(Nat)
          /\ \A s \in Done(mux) + 1 .. Done(x.mux) : Has(delivered \o r[2], s)
      BY <1>6, <2>1, <3>2, Zenon DEF Advanced
    <3>4. delivered \in Seq(Nat) /\ Done(mux) \in Int /\ Done(x.mux) \in Int
      BY <1>1, <1>5, DoneRange DEF Sound
    <3>5. ASSUME NEW s \in owed .. Done(x.mux) PROVE Has(delivered \o r[2], s)
      <4>1. CASE s <= Done(mux)
        <5>1. s \in owed .. Done(mux)  BY <2>0, <3>4, <4>1
        <5>. QED  BY <3>2, <3>3, <3>4, <5>1, ConcatHas
      <4>2. CASE ~(s <= Done(mux))
        <5>1. s \in Done(mux) + 1 .. Done(x.mux)  BY <2>0, <3>4, <4>2
        <5>. QED  BY <3>3, <5>1
      <4>. QED  BY <4>1, <4>2
    <3>. QED  BY <1>2, <1>4, <1>5, <1>7, <2>0, <3>1, <3>3, <3>5 DEF OwedInv
  <2>2. CASE ~(owed > 0 /\ ~x.pkt.dci) /\ x.pkt.pusi
    <3>1. owed' = mux.n + 1  BY <1>2, <2>2
    <3>2. \A s \in mux.n + 1 .. Done(x.mux) : Has(delivered \o r[2], s)  BY <1>6, <2>2 DEF Advanced
    <3>3. mux.n + 1 \in Nat  BY <2>0
    <3>. QED  BY <1>2, <1>4, <1>5, <1>7, <2>2, <3>1, <3>2, <3>3 DEF OwedInv
  <2>3. CASE ~(owed > 0 /\ ~x.pkt.dci) /\ ~x.pkt.pusi
    <3>1. owed' = 0  BY <1>2, <2>3
    <3>. QED  BY <3>1 DEF OwedInv
  <2>. QED  BY <2>1, <2>2, <2>3
<1>13. GarbleOK'  BY <1>1, <1>2 DEF GarbleOK
<1>. QED  BY <1>2, <1>4, <1>5, <1>7, <1>8, <1>9, <1>10, <1>11, <1>12, <1>13 DEF SectionInv

(* One packet more is missing.                                             *)
LEMMA CounterMissed ==
  \A c, k, n \in 0 .. CcMod - 1 :
    (c + k) % CcMod = n => (c + (k + 1)) % CcMod = (n + 1) % CcMod
<1>. SUFFICES ASSUME NEW c \in 0 .. CcMod - 1, NEW k \in 0 .. CcMod - 1, NEW n \in 0 .. CcMod - 1,
                     (c + k) % CcMod = n
              PROVE  (c + (k + 1)) % CcMod = (n + 1) % CcMod
  OBVIOUS
<1>. QED  BY Counter

(* A packet is lost.                                                       *)
LEMMA LoseKeeps ==
  ASSUME SectionInv, NEW x \in Sendable, Lose(x)
  PROVE  SectionInv'
<1>1. /\ mux \in Muxes /\ feed \in Feeds /\ GarbleOK /\ OrderInv /\ Sound(delivered, mux.n)
      /\ FilterInv /\ missed \in Nat
  BY DEF SectionInv
<1>2. /\ Send(x) /\ missed' = missed + 1 /\ owed' = 0 /\ missed + 1 < CcMod
      /\ feed' = feed /\ garble' = garble /\ delivered' = delivered /\ events' = events
  BY DEF Lose
<1>3. mux' = x.mux /\ mux' \in Muxes /\ Sent(mux, x)  BY <1>1, <1>2, SendState
<1>4. AirInv'  BY <1>1, <1>2, AirSent
<1>5. mux.n \in Nat /\ mux'.n \in Nat /\ mux.n <= mux'.n  BY <1>1, <1>3 DEF Muxes, Sent
<1>6. ASSUME feed.is_filtering, feed.pusi_seen
      PROVE  /\ Steady(feed, x.mux) /\ missed + 1 \in 0 .. CcMod - 1
             /\ (feed.cc + (missed + 1)) % CcMod = x.mux.cc /\ missed + 1 # 0
  <2>1. Steady(feed, mux) /\ missed \in 0 .. CcMod - 1 /\ (feed.cc + missed) % CcMod = mux.cc
    BY <1>1, <1>6 DEF FilterInv, Tracks
  <2>2. feed.cc \in 0 .. CcMod - 1 /\ mux.cc \in 0 .. CcMod - 1  BY <1>1 DEF Feeds, Muxes
  <2>3. (feed.cc + (missed + 1)) % CcMod = (mux.cc + 1) % CcMod
    <3>1. PICK c \in 0 .. CcMod - 1, k \in 0 .. CcMod - 1, n \in 0 .. CcMod - 1 :
            c = feed.cc /\ k = missed /\ n = mux.cc
      BY <2>1, <2>2
    <3>2. (c + k) % CcMod = n  BY <2>1, <3>1, Zenon
    <3>3. (c + (k + 1)) % CcMod = (n + 1) % CcMod  BY <3>2, CounterMissed
    <3>. QED  BY <3>1, <3>3, Zenon
  <2>4. x.mux.cc = (mux.cc + 1) % CcMod  BY <1>3 DEF Sent
  <2>5. missed + 1 \in 0 .. CcMod - 1 /\ missed + 1 # 0  BY <1>1, <1>2, SectionConstants
  <2>6. Steady(feed, x.mux)
    <3>1. PICK b \in Seq(Byte) : b = feed.base  BY <1>1 DEF Feeds
    <3>2. ASSUME NEW k \in 1 .. Len(b) PROVE b[k][1] <= x.mux.n
      <4>1. b[k][1] <= mux.n  BY <2>1, <3>1 DEF Steady
      <4>2. b[k][1] \in Nat  BY SeqBytes DEF InByte
      <4>3. PICK y \in Nat, z \in Nat, w \in Nat : y = b[k][1] /\ z = mux.n /\ w = x.mux.n
        BY <1>3, <1>5, <4>2
      <4>4. y <= w  BY <1>3, <1>5, <4>1, <4>3
      <4>. QED  BY <4>3, <4>4
    <3>. QED  BY <2>1, <3>1, <3>2, Zenon DEF Steady
  <2>. QED  BY <2>3, <2>4, <2>5, <2>6
<1>7. FilterInv'  BY <1>2, <1>3, <1>6 DEF FilterInv, Tracks
<1>8. OrderInv'  BY <1>1, <1>2 DEF OrderInv
<1>9. OwedInv'  BY <1>2 DEF OwedInv
<1>10. Sound(delivered', mux'.n)  BY <1>1, <1>2, <1>5, SoundMore
<1>11. GarbleOK' /\ missed' \in Nat  BY <1>1, <1>2 DEF GarbleOK
<1>. QED  BY <1>1, <1>2, <1>3, <1>4, <1>7, <1>8, <1>9, <1>10, <1>11 DEF SectionInv

(* The last packet arrives again.                                          *)
LEMMA DuplicateKeeps ==
  ASSUME SectionInv, Duplicate
  PROVE  SectionInv'
<1>1. /\ mux \in Muxes /\ feed \in Feeds /\ GarbleOK /\ AirInv /\ Sound(delivered, mux.n)
      /\ FilterInv /\ missed \in Nat
  BY DEF SectionInv
<1>2. /\ "dup" \in events /\ air # << >> /\ missed = 0 /\ Deliver(air[1]) /\ owed' = 0
      /\ mux' = mux /\ air' = air /\ missed' = missed /\ garble' = garble /\ events' = events
  BY DEF Duplicate
<1>3. PICK pkt \in Packets, n0 \in Nat :
        /\ air = <<pkt>> /\ pkt.cc = mux.cc /\ n0 <= mux.n
        /\ pkt.pusi => Fresh(AfterPointer(pkt), n0, mux)
  BY <1>1, <1>2 DEF AirInv
<1>4. Deliver(pkt)  BY <1>2, <1>3
<1>5. PICK r : r = SectionPacket(feed, pkt)  OBVIOUS
<1>6. /\ feed' = IF feed.is_filtering THEN r[1] ELSE feed
      /\ delivered' = IF feed.is_filtering THEN delivered \o r[2] ELSE delivered
  BY <1>4, <1>5 DEF Deliver
<1>7. feed' \in Feeds /\ feed'.is_filtering = feed.is_filtering  BY <1>1, <1>3, <1>4, DeliverFeed
<1>8. ASSUME feed.is_filtering PROVE Tracks(r[1], mux, 0) /\ Sound(delivered \o r[2], mux.n)
  <2>1. Tracks(feed, mux, 0)  BY <1>1, <1>2, <1>8 DEF FilterInv
  <2>. QED  BY <1>1, <1>3, <1>5, <2>1, Repeat
<1>9. FilterInv'  BY <1>2, <1>6, <1>7, <1>8 DEF FilterInv
<1>10. Sound(delivered', mux'.n)  BY <1>1, <1>2, <1>6, <1>8
<1>11. AirInv'  BY <1>1, <1>2 DEF AirInv
<1>12. OrderInv'  BY <1>2 DEF OrderInv
<1>13. OwedInv'  BY <1>2 DEF OwedInv
<1>14. GarbleOK'  BY <1>1, <1>2 DEF GarbleOK
<1>. QED  BY <1>1, <1>2, <1>7, <1>9, <1>10, <1>11, <1>12, <1>13, <1>14 DEF SectionInv

(* A packet without payload.                                               *)
LEMMA EmptyKeeps ==
  ASSUME SectionInv, Empty
  PROVE  SectionInv'
<1>1. /\ mux \in Muxes /\ feed \in Feeds /\ GarbleOK /\ AirInv /\ Sound(delivered, mux.n)
      /\ FilterInv /\ missed \in Nat /\ OwedInv
  BY DEF SectionInv
<1>2. /\ "empty" \in events /\ feed' = [feed EXCEPT !.secbufp = 0]
      /\ mux' = mux /\ air' = air /\ missed' = missed /\ garble' = garble /\ events' = events
      /\ delivered' = delivered /\ owed' = owed
  BY DEF Empty
<1>3. /\ feed' \in Feeds /\ feed'.base = feed.base /\ feed'.secbufp = 0
      /\ feed'.pusi_seen = feed.pusi_seen /\ feed'.cc = feed.cc /\ feed'.is_filtering = feed.is_filtering
  BY <1>1, <1>2, FeedChanges
<1>4. FilterInv'  BY <1>1, <1>2, <1>3, Zenon DEF FilterInv, Tracks, Steady
<1>5. AirInv'  BY <1>1, <1>2 DEF AirInv
<1>6. OrderInv'  BY <1>2 DEF OrderInv
<1>7. OwedInv'  BY <1>1, <1>2, <1>3, Zenon DEF OwedInv
<1>8. GarbleOK'  BY <1>1, <1>2 DEF GarbleOK
<1>. QED  BY <1>1, <1>2, <1>3, <1>4, <1>5, <1>6, <1>7, <1>8 DEF SectionInv

(* The feed is stopped,                                                    *)
LEMMA StopKeeps ==
  ASSUME SectionInv, StopFiltering
  PROVE  SectionInv'
<1>1. /\ mux \in Muxes /\ feed \in Feeds /\ GarbleOK /\ AirInv /\ Sound(delivered, mux.n)
      /\ missed \in Nat /\ OrderInv
  BY DEF SectionInv
<1>2. /\ feed' = [feed EXCEPT !.is_filtering = FALSE] /\ owed' = 0
      /\ mux' = mux /\ air' = air /\ missed' = missed /\ garble' = garble /\ events' = events
      /\ delivered' = delivered
  BY DEF StopFiltering
<1>3. feed' \in Feeds /\ feed'.is_filtering = FALSE  BY <1>1, <1>2, FeedChanges
<1>4. FilterInv'  BY <1>3 DEF FilterInv
<1>5. AirInv'  BY <1>1, <1>2 DEF AirInv
<1>6. OrderInv'  BY <1>1, <1>2, <1>3 DEF OrderInv
<1>7. OwedInv'  BY <1>2 DEF OwedInv
<1>8. GarbleOK'  BY <1>1, <1>2 DEF GarbleOK
<1>. QED  BY <1>1, <1>2, <1>3, <1>4, <1>5, <1>6, <1>7, <1>8 DEF SectionInv

(* and started again.                                                      *)
LEMMA StartKeeps ==
  ASSUME ResetsPusiSeen, SectionInv, StartFiltering
  PROVE  SectionInv'
<1>1. /\ mux \in Muxes /\ feed \in Feeds /\ GarbleOK /\ AirInv /\ Sound(delivered, mux.n)
      /\ missed \in Nat /\ OrderInv /\ OwedInv
  BY DEF SectionInv
<1>2. /\ ~feed.is_filtering
      /\ feed' = [SectionNew(feed) EXCEPT !.is_filtering = TRUE,
                                          !.pusi_seen = IF ResetsPusiSeen THEN FALSE ELSE @]
      /\ mux' = mux /\ air' = air /\ missed' = missed /\ garble' = garble /\ events' = events
      /\ delivered' = delivered /\ owed' = owed
  BY DEF StartFiltering
<1>3. feed' \in Feeds /\ feed'.pusi_seen = FALSE
  <2>1. ResetsPusiSeen \in BOOLEAN  BY SectionConstants
  <2>. QED  BY <1>1, <1>2, <2>1, FeedChanges
<1>4. FilterInv'  BY <1>3 DEF FilterInv, Tracks
<1>5. AirInv'  BY <1>1, <1>2 DEF AirInv
<1>6. OrderInv'  BY <1>1, <1>2, <1>3 DEF OrderInv, Ordered
<1>7. OwedInv'
  <2>1. owed \in Nat /\ ~(owed > 0)  BY <1>1, <1>2 DEF OwedInv
  <2>. QED  BY <1>2, <2>1 DEF OwedInv
<1>8. GarbleOK'  BY <1>1, <1>2 DEF GarbleOK
<1>. QED  BY <1>1, <1>2, <1>3, <1>4, <1>5, <1>6, <1>7, <1>8 DEF SectionInv

(* Every step keeps the section invariant.                                 *)
LEMMA SectionStep ==
  ASSUME ResetsPusiSeen, SectionInv, [Next]_vars
  PROVE  SectionInv'
<1>1. ASSUME NEW x \in Sendable, Packet(x) PROVE SectionInv'  BY <1>1, PacketOn, PacketOff
<1>2. ASSUME NEW x \in Sendable, Lose(x) PROVE SectionInv'  BY <1>2, LoseKeeps
<1>3. CASE UNCHANGED vars
  BY <1>3 DEF vars, SectionInv, GarbleOK, AirInv, FilterInv, OrderInv, OwedInv
<1>. QED  BY <1>1, <1>2, <1>3, DuplicateKeeps, EmptyKeeps, StopKeeps, StartKeeps DEF Next

(* The invariant holds.                                                    *)
LEMMA SectionHolds == ResetsPusiSeen => (Spec => []SectionInv)
<1>. SUFFICES ASSUME ResetsPusiSeen PROVE Spec => []SectionInv  OBVIOUS
<1>1. Init => SectionInv  BY SectionInit
<1>2. SectionInv /\ [Next]_vars => SectionInv'  BY SectionStep
<1>. QED  BY <1>1, <1>2, PTL DEF Spec

(* With a card that resets pusi_seen, whatever is lost, repeated or empty, *)
(* and wherever in a section the feed is stopped and started: what         *)
(* copy_dump hands to the callback is always one whole section of the      *)
(* stream, and, unless packets are repeated or empty, sections are         *)
(* delivered in the order of the stream and never twice.                   *)
THEOREM SectionsDelivered == ResetsPusiSeen => (Spec => []SectionsRight)
<1>. SUFFICES ASSUME ResetsPusiSeen PROVE Spec => []SectionsRight  OBVIOUS
<1>1. SectionInv => SectionsRight
  <2>. SUFFICES ASSUME SectionInv PROVE SectionsRight  OBVIOUS
  <2>1. delivered \in Seq(Nat) /\ \A i \in 1 .. Len(delivered) : delivered[i] \in 1 .. mux.n
    BY DEF SectionInv, Sound
  <2>2. mux.n \in Nat  BY DEF SectionInv, Muxes
  <2>3. \A y \in 1 .. mux.n : y # 0  BY <2>2
  <2>4. NoGarbage  BY <2>1, <2>3, Zenon DEF NoGarbage
  <2>5. InOrder  BY DEF SectionInv, OrderInv, Rising, InOrder
  <2>. QED  BY <2>4, <2>5 DEF SectionsRight
<1>2. Spec => []SectionInv  BY SectionHolds
<1>. QED  BY <1>1, <1>2, PTL

(* The losless section demux: with such a card, from the first section     *)
(* start the feed sees after a disturbance on, every section that has been *)
(* sent completely has been delivered.                                     *)
THEOREM SectionsLossless == ResetsPusiSeen => (Spec => []Lossless)
<1>. SUFFICES ASSUME ResetsPusiSeen PROVE Spec => []Lossless  OBVIOUS
<1>1. SectionInv => Lossless
  <2>. SUFFICES ASSUME SectionInv, owed > 0
                PROVE  \A s \in owed .. Completed : \E i \in 1 .. Len(delivered) : delivered[i] = s
    BY DEF Lossless
  <2>1. \A s \in owed .. Done(mux) : Has(delivered, s)  BY DEF SectionInv, OwedInv
  <2>2. Completed = Done(mux)  BY DEF Completed, Done, Remaining
  <2>. QED  BY <2>1, <2>2 DEF Has
<1>2. Spec => []SectionInv  BY SectionHolds
<1>. QED  BY <1>1, <1>2, PTL
=============================================================================
