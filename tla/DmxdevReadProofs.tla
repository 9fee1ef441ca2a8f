-------------------------- MODULE DmxdevReadProofs --------------------------
(***************************************************************************)
(* Proofs about the data path of a section filter: what the ring holds is  *)
(* the stream of sections although the callback flushes it under a reader  *)
(* that has no lock, todo and the header stay in their bounds, a filter    *)
(* that has ended stores nothing more, and a reader that keeps up gets one *)
(* section per read; for every size of the ring, of sections and of reads. *)
(***************************************************************************)
EXTENDS DmxdevRead, SequenceTheorems, TLAPS

-----------------------------------------------------------------------------
(* Bytes and sections.                                                     *)

(* What is assumed of the lengths.                                         *)
LEMMA Lengths ==
  /\ Size \in Nat /\ Size > 1 /\ HdrLen \in Nat /\ HdrLen > 0 /\ Big \in Nat
  /\ \A l \in Lens : l \in Nat /\ HdrLen < l /\ l < Size /\ l <= Big
  /\ \A c \in Counts : c \in Nat
BY SizeAssumption, ReadConstants

(* A byte of a section.                                                    *)
LEMMA ByteMade ==
  ASSUME NEW s \in Nat, NEW k \in Nat, NEW l \in Lens, s > 0, k > 0
  PROVE  <<s, k, l>> \in Byte /\ <<s, k, l>> # Junk
BY DEF Byte, Junk

(* The parts of a byte.                                                    *)
LEMMA ByteParts ==
  ASSUME NEW b \in Byte, b # Junk
  PROVE  b[1] \in Nat /\ b[1] > 0 /\ b[2] \in Nat /\ b[2] > 0 /\ b[3] \in Lens
BY DEF Byte

-----------------------------------------------------------------------------
(* The ring.                                                               *)

(* avail and free are numbers.                                             *)
LEMMA Bounded ==
  \A p, q \in Index : RbFree(p, q) \in 0 .. Size - 1 /\ RbAvail(p, q) \in 0 .. Size - 1
<1> SUFFICES ASSUME NEW p \in Index, NEW q \in Index
             PROVE  RbFree(p, q) \in 0 .. Size - 1 /\ RbAvail(p, q) \in 0 .. Size - 1
  OBVIOUS
<1>1. RbFree(p, q) \in 0 .. Size - 1
  BY SizeAssumption DEF RbFree, Index
<1>2. RbAvail(p, q) \in 0 .. Size - 1
  BY SizeAssumption DEF RbAvail, Index
<1> QED
  BY <1>1, <1>2

(* The reader takes n bytes.                                               *)
LEMMA Consumed ==
  ASSUME pread \in Index, pwrite \in Index, pwrite' = pwrite,
         NEW n \in Nat, n <= RbAvail(pread, pwrite), pread + n <= Size,
         pread' = IF pread + n = Size THEN 0 ELSE pread + n
  PROVE  /\ pread' \in Index /\ RbAvail(pread', pwrite') = RbAvail(pread, pwrite) - n
         /\ RbFree(pread', pwrite') = RbFree(pread, pwrite) + n
         /\ \A x \in Index : Unread(x)' => Unread(x)
<1>1. pread' \in Index
  BY SizeAssumption DEF Index
<1>2. RbAvail(pread', pwrite') = RbAvail(pread, pwrite) - n
  BY SizeAssumption DEF Index, RbAvail
<1>3. RbFree(pread', pwrite') = RbFree(pread, pwrite) + n
  BY SizeAssumption DEF Index, RbAvail, RbFree
<1>4. \A x \in Index : Unread(x)' => Unread(x)
  BY SizeAssumption DEF Index, RbAvail, Unread
<1> QED
  BY <1>1, <1>2, <1>3, <1>4

(* The ring is flushed.                                                    *)
LEMMA Flushed ==
  ASSUME pwrite \in Index, pread' = pwrite, pwrite' = pwrite
  PROVE  /\ RbAvail(pread', pwrite') = 0 /\ RbFree(pread', pwrite') = Size - 1
         /\ \A x \in Index : ~Unread(x)'
BY SizeAssumption DEF Index, RbAvail, RbFree, Unread

(* The callback publishes n bytes.                                         *)
LEMMA Grown ==
  ASSUME pread \in Index, pwrite \in Index, pread' = pread,
         NEW n \in Nat, 0 < n, n <= RbFree(pread, pwrite), pwrite + n <= Size,
         pwrite' = IF pwrite + n = Size THEN 0 ELSE pwrite + n
  PROVE  /\ pwrite' \in Index /\ RbAvail(pread', pwrite') = RbAvail(pread, pwrite) + n
         /\ RbFree(pread', pwrite') = RbFree(pread, pwrite) - n
         /\ \A x \in Index :
              /\ Unread(x)' <=> Unread(x) \/ (pwrite <= x /\ x < pwrite + n)
              /\ Unread(x) => /\ ~(pwrite <= x /\ x < pwrite + n) /\ After(x) # pwrite'
                              /\ After(x) \in Index
                              /\ After(x) # pwrite => Unread(After(x))
<1>1. pwrite' \in Index
  BY SizeAssumption DEF Index
<1>2. RbAvail(pread', pwrite') = RbAvail(pread, pwrite) + n
  BY SizeAssumption DEF Index, RbAvail, RbFree
<1>3. RbFree(pread', pwrite') = RbFree(pread, pwrite) - n
  BY SizeAssumption DEF Index, RbFree
<1>4. \A x \in Index : Unread(x)' <=> Unread(x) \/ (pwrite <= x /\ x < pwrite + n)
  BY SizeAssumption DEF Index, RbFree, Unread
<1>5. \A x \in Index : Unread(x) => ~(pwrite <= x /\ x < pwrite + n)
  BY SizeAssumption DEF Index, RbFree, Unread
<1>6. \A x \in Index : Unread(x) => After(x) # pwrite' /\ After(x) \in Index
  BY SizeAssumption DEF Index, RbFree, Unread, After
<1>7. \A x \in Index : Unread(x) /\ After(x) # pwrite => Unread(After(x))
  BY SizeAssumption DEF Index, Unread, After
<1> QED
  BY <1>1, <1>2, <1>3, <1>4, <1>5, <1>6, <1>7

-----------------------------------------------------------------------------
(* The callback.                                                           *)

(* The last m bytes of section sec, of length l.                           *)
End(sec, l, m) == [k \in 1 .. m |-> <<sec, l - m + k, l>>]

(* Its length.                                                             *)
LEMMA EndLength ==
  ASSUME NEW sec, NEW l, NEW m \in Nat
  PROVE  Len(End(sec, l, m)) = m
BY DEF End

(* A section is one such end.                                              *)
LEMMA WholeEnd ==
  ASSUME NEW sec, NEW l \in Nat
  PROVE  SectionBytes(sec, l) = End(sec, l, l)
BY DEF SectionBytes, End

(* Of these, the first n are stored: all, or what fits before the end of   *)
(* the array.                                                              *)
StoredEnd(sec, l, m, n) ==
  /\ pwrite + n <= Size
  /\ data' \in [Index -> Byte]
  /\ \A x \in Index :
       data'[x] = IF pwrite <= x /\ x < pwrite + n
                  THEN <<sec, l - m + (x - pwrite + 1), l>> ELSE data[x]
  /\ pwrite' = IF pwrite + n = Size THEN 0 ELSE pwrite + n
  /\ IF n < m
     THEN pwrite' = 0 /\ cb' = "rest" /\ fstate' = fstate /\ tail' = End(sec, l, m - n)
     ELSE cb' = "wake" /\ fstate' \in {fstate, "DONE"} /\ tail' = << >>
  /\ UNCHANGED <<pread, error>>

(* This is what dvb_ringbuffer_write does.                                 *)
LEMMA StoreDoes ==
  ASSUME RingTypes, NEW sec \in Nat, sec > 0, NEW l \in Lens, NEW m \in Nat, 0 < m, m <= l,
         Store(End(sec, l, m))
  PROVE  \E n \in 1 .. m : StoredEnd(sec, l, m, n)
<1>0. l \in Nat /\ m < Size /\ Size \in Nat /\ pwrite \in Nat /\ pwrite < Size /\ Size > 1
  BY Lengths DEF RingTypes, Index
<1>1. PICK n \in 1 .. m :
        /\ n = IF RbSplit(pwrite, m) > 0 THEN RbSplit(pwrite, m) ELSE m
        /\ pwrite + n <= Size /\ (n < m => pwrite + n = Size)
  <2>1. CASE pwrite + m > Size
    BY <1>0, <2>1 DEF RbSplit
  <2>2. CASE ~(pwrite + m > Size)
    BY <1>0, <2>2 DEF RbSplit
  <2> QED
    BY <2>1, <2>2
<1>b. PICK bytes : bytes = End(sec, l, m)
  OBVIOUS
<1> DEFINE now == SubSeq(bytes, 1, n)
<1>a. n \in Nat /\ n <= m /\ bytes = End(sec, l, m) /\ m - n \in Nat
  BY <1>1, <1>b
<1>c. Len(bytes) = m /\ bytes \in Seq({sec} \X Int \X {l})
  BY <1>0, <1>a DEF End
<1>d. \A k \in 1 .. m : bytes[k] = <<sec, l - m + k, l>>
  BY <1>0, <1>a DEF End
<1>2. Len(bytes) = m /\ Len(now) = n /\ \A k \in 1 .. n : now[k] = bytes[k]
  BY <1>a, <1>c
<1>3. \A k \in 1 .. n : now[k] = <<sec, l - m + k, l>>
  BY <1>a, <1>2, <1>d
<1>4. SubSeq(bytes, n + 1, m) = End(sec, l, m - n)
  <2>1. SubSeq(bytes, n + 1, m) = [k \in 1 .. m - n |-> bytes[n + k]]
    BY <1>a, <1>c
  <2>2. \A k \in 1 .. m - n : bytes[n + k] = <<sec, l - (m - n) + k, l>>
    BY <1>0, <1>a, <1>d
  <2> QED
    BY <2>1, <2>2 DEF End
<1>5. /\ data' = Stored(now) /\ pwrite' = RbAdvance(pwrite, n)
      /\ tail' = End(sec, l, m - n) /\ UNCHANGED <<pread, error>>
      /\ IF tail' = << >> THEN Finish ELSE cb' = "rest" /\ UNCHANGED fstate
  BY <1>1, <1>2, <1>4, <1>b DEF Store
<1> HIDE DEF now
<1>6. pwrite' = IF pwrite + n = Size THEN 0 ELSE pwrite + n
  <2>1. PICK z \in 0 .. Size : z = pwrite + n
    BY <1>0, <1>1
  <2>2. pwrite' = z % Size
    BY <1>5, <2>1 DEF RbAdvance
  <2>3. z % Size = IF z = Size THEN 0 ELSE z
    BY <1>0
  <2> QED
    BY <2>1, <2>2, <2>3
<1>7. \A x \in Index :
        data'[x] = IF pwrite <= x /\ x < pwrite + n
                   THEN <<sec, l - m + (x - pwrite + 1), l>> ELSE data[x]
  <2>1. \A x \in Index : data'[x] = IF x >= pwrite /\ x < pwrite + n
                                    THEN now[x - pwrite + 1] ELSE data[x]
    BY <1>2, <1>5 DEF Stored
  <2> SUFFICES ASSUME NEW x \in Index, pwrite <= x, x < pwrite + n
               PROVE  now[x - pwrite + 1] = <<sec, l - m + (x - pwrite + 1), l>>
    BY <2>1
  <2>2. x - pwrite + 1 \in 1 .. n
    BY <1>0, <1>1 DEF Index
  <2> QED
    BY <1>3, <2>2
<1>8. data' \in [Index -> Byte]
  <2>1. ASSUME NEW x \in Index PROVE data'[x] \in Byte
    <3>1. CASE pwrite <= x /\ x < pwrite + n
      <4>1. l - m + (x - pwrite + 1) \in Nat /\ l - m + (x - pwrite + 1) > 0
        BY <1>0, <3>1 DEF Index
      <4> QED
        BY <1>7, <3>1, <4>1, ByteMade
    <3>2. CASE ~(pwrite <= x /\ x < pwrite + n)
      BY <1>7, <3>2 DEF RingTypes
    <3> QED
      BY <3>1, <3>2
  <2>2. data' = [x \in Index |-> data'[x]]
    BY <1>5 DEF Stored
  <2> QED
    BY <2>1, <2>2
<1>9. IF n < m
      THEN pwrite' = 0 /\ cb' = "rest" /\ fstate' = fstate /\ tail' = End(sec, l, m - n)
      ELSE cb' = "wake" /\ fstate' \in {fstate, "DONE"} /\ tail' = << >>
  <2>1. CASE n < m
    <3>1. Len(End(sec, l, m - n)) = m - n
      BY <1>a, EndLength, Zenon
    <3>2. tail' # << >>
      BY <1>1, <1>5, <2>1, <3>1
    <3> QED
      BY <1>1, <1>5, <1>6, <2>1, <3>2
  <2>2. CASE ~(n < m)
    <3>1. m - n = 0
      BY <1>1, <2>2
    <3>2. tail' = << >>
      BY <1>5, <3>1 DEF End
    <3> QED
      BY <1>5, <2>2, <3>2 DEF Finish
  <2> QED
    BY <2>1, <2>2
<1> QED
  BY <1>1, <1>5, <1>6, <1>7, <1>8, <1>9 DEF StoredEnd

(* What is left to store is shorter than the ring.                         *)
LEMMA TailLength ==
  ASSUME WriterInv
  PROVE  Len(tail) \in Nat /\ Len(tail) <= Size - 1
<1>1. CASE cb = "rest"
  <2>1. PICK l \in Lens : \E m \in 1 .. l - 1 :
          tail = [k \in 1 .. m |-> <<nsec, l - m + k, l>>]
    BY <1>1 DEF WriterInv
  <2>2. PICK m \in 1 .. l - 1 : tail = [k \in 1 .. m |-> <<nsec, l - m + k, l>>]
    BY <2>1
  <2>3. l \in Nat /\ l < Size /\ Size \in Nat
    BY Lengths
  <2>4. m \in Nat /\ Len(tail) = m
    BY <2>2, <2>3
  <2> QED
    BY <2>3, <2>4
<1>2. CASE cb # "rest"
  BY <1>2, SizeAssumption DEF WriterInv
<1> QED
  BY <1>1, <1>2

(* What is stored continues the stream.                                    *)
LEMMA StoreKeeps ==
  ASSUME ReadInv, NEW l \in Lens, NEW m \in Nat, 0 < m, m <= l, cb # "error", fstate = "GO",
         nsec' \in Nat, nsec' > 0, nsec <= nsec', timer' \in {"off", "armed", "state", "wake"},
         Store(End(nsec', l, m)), UNCHANGED <<rd, todo, header>>,
         Live => /\ m <= RbFree(pread, pwrite)
                 /\ \A x \in Index :
                      Unread(x) /\ After(x) = pwrite
                        => Follows(data[x], <<nsec', l - m + 1, l>>)
  PROVE  ReadInv'
<1>0. /\ RingTypes /\ WriterInv /\ ReaderInv /\ StreamInv
      /\ l \in Nat /\ Size \in Nat /\ Size > 1 /\ pread \in Index /\ pwrite \in Index
  BY Lengths DEF ReadInv, RingTypes
<1>b. PICK n \in 1 .. m : StoredEnd(nsec', l, m, n)
  BY <1>0, StoreDoes, Zenon
<1>1. /\ n \in 1 .. m /\ pwrite + n <= Size
      /\ data' \in [Index -> Byte]
      /\ \A x \in Index :
           data'[x] = IF pwrite <= x /\ x < pwrite + n
                      THEN <<nsec', l - m + (x - pwrite + 1), l>> ELSE data[x]
      /\ pwrite' = IF pwrite + n = Size THEN 0 ELSE pwrite + n
      /\ IF n < m
         THEN pwrite' = 0 /\ cb' = "rest" /\ fstate' = fstate /\ tail' = End(nsec', l, m - n)
         ELSE cb' = "wake" /\ fstate' \in {fstate, "DONE"} /\ tail' = << >>
      /\ UNCHANGED <<pread, error>>
  BY <1>b DEF StoredEnd
<1>a. pwrite + n <= Size /\ pwrite' = IF pwrite + n = Size THEN 0 ELSE pwrite + n
  BY <1>1
<1>2. n \in Nat /\ 0 < n /\ n <= m /\ m - n \in Nat /\ m - n < l /\ (n < m => m - n \in 1 .. l - 1)
  BY <1>0, <1>1
<1> DEFINE new(x) == pwrite <= x /\ x < pwrite + n
<1>3. RingTypes'
  <2>1. pwrite' \in Index
    BY <1>0, <1>1, <1>2 DEF Index
  <2> QED
    BY <1>0, <1>1, <2>1 DEF RingTypes
<1>4. WriterInv'
  <2>1. CASE n < m
    BY <1>1, <1>2, <2>1 DEF WriterInv, End
  <2>2. CASE ~(n < m)
    BY <1>1, <2>2 DEF WriterInv
  <2> QED
    BY <2>1, <2>2
<1>5. ReaderInv'
  BY <1>0 DEF ReaderInv
<1>6. StreamInv'
  <2> SUFFICES ASSUME Live' PROVE StreamInv'
    BY DEF StreamInv
  <2>1. Live
    BY <1>1 DEF Live
  <2>2. n <= RbFree(pread, pwrite) /\ RbFree(pread, pwrite) \in Int
    BY <1>0, <1>2, <2>1 DEF RbFree, Index
  <2>3. /\ RbAvail(pread', pwrite') = RbAvail(pread, pwrite) + n
        /\ RbFree(pread', pwrite') = RbFree(pread, pwrite) - n
    BY <1>0, <1>1, <1>2, <2>2, Grown
  <2>4. \A x \in Index :
          /\ Unread(x)' <=> Unread(x) \/ new(x)
          /\ Unread(x) => /\ ~new(x) /\ After(x) # pwrite' /\ After(x) \in Index
                          /\ After(x) # pwrite => Unread(After(x))
    BY <1>0, <1>1, <1>2, <2>2, Grown
  <2>5. rd'.pc \in {"read", "copy"} => rd'.n <= RbAvail(pread', pwrite')
    <3>1. rd.pc \in {"read", "copy"} => rd.n <= RbAvail(pread, pwrite)
      BY <1>0, <2>1 DEF StreamInv
    <3>2. rd.pc \in {"read", "copy"} => rd.n \in Nat
      BY <1>0 DEF ReaderInv, ReadRecord
    <3>3. RbAvail(pread, pwrite) \in Int
      BY <1>0 DEF RbAvail, Index
    <3> QED
      BY <3>1, <3>2, <3>3, <2>3, <1>2
  <2>6. rd'.pc = "copy" => rd'.p = pread'
    BY <1>0, <1>1, <2>1 DEF StreamInv
  <2>7. Len(tail') <= RbFree(pread', pwrite')
    <3>1. CASE n < m
      <4>1. Len(End(nsec', l, m - n)) = m - n
        BY <1>2, EndLength, Zenon
      <4> QED
        BY <4>1, <3>1, <1>1, <1>2, <2>1, <2>2, <2>3
    <3>2. CASE ~(n < m)
      BY <3>2, <1>1, <1>2, <2>1, <2>2, <2>3
    <3> QED
      BY <3>1, <3>2
  <2>8. ASSUME NEW x \in Index, Unread(x)' PROVE Linked(x)'
    <3>1. CASE Unread(x)
      <4>1. ~new(x) /\ After(x) # pwrite' /\ After(x) \in Index
            /\ (After(x) # pwrite => Unread(After(x)))
        BY <2>4, <3>1
      <4>2. Linked(x)
        BY <1>0, <2>1, <3>1 DEF StreamInv
      <4>3. data'[x] = data[x]
        BY <1>1, <4>1
      <4>4. data[x] # Junk /\ data[x][1] <= nsec'
        <5>1. data[x] # Junk /\ data[x][1] <= nsec
          BY <4>2 DEF Linked
        <5>2. data[x][1] \in Nat
          BY <1>0, <5>1, ByteParts DEF RingTypes
        <5> QED
          BY <5>1, <5>2, <1>0 DEF RingTypes
      <4>5. Follows(data[x], data'[After(x)])
        <5>1. CASE After(x) # pwrite
          <6>1. ~new(After(x))
            BY <2>4, <4>1, <5>1
          <6>2. data'[After(x)] = data[After(x)]
            BY <1>1, <4>1, <6>1
          <6> QED
            BY <4>2, <5>1, <6>2 DEF Linked
        <5>2. CASE After(x) = pwrite
          <6>1. data'[pwrite] = <<nsec', l - m + (pwrite - pwrite + 1), l>>
            BY <1>0, <1>1, <1>2 DEF Index
          <6>2. data'[pwrite] = <<nsec', l - m + 1, l>>
            BY <6>1, <1>0 DEF Index
          <6> QED
            BY <2>1, <3>1, <5>2, <6>2
        <5> QED
          BY <5>1, <5>2
      <4>6. After(x)' = After(x)
        BY DEF After
      <4> QED
        BY <4>1, <4>3, <4>4, <4>5, <4>6 DEF Linked
    <3>2. CASE ~Unread(x)
      <4>1. new(x)
        BY <2>4, <3>2, <2>8
      <4> DEFINE j == x - pwrite + 1
      <4>2. j \in 1 .. n /\ x \in Nat /\ pwrite \in Nat
        BY <4>1, <1>0, <1>2 DEF Index
      <4>3. data'[x] = <<nsec', l - m + j, l>>
        BY <1>1, <4>1
      <4>4. l - m + j \in Nat /\ l - m + j > 0
        BY <1>0, <4>2
      <4> HIDE DEF j
      <4>5. data'[x] # Junk /\ data'[x][1] <= nsec'
        BY <4>3, <4>4, ByteMade
      <4>6. After(x)' = After(x)
        BY DEF After
      <4>7. CASE After(x) # pwrite'
        <5>1. x + 1 < pwrite + n /\ After(x) = x + 1 /\ x + 1 \in Index /\ j < n
          BY <1>0, <1>a, <1>2, <4>1, <4>2, <4>7 DEF After, Index, j
        <5>a. PICK y \in Index : y = x + 1
          BY <5>1
        <5>2. data'[y] = <<nsec', l - m + (y - pwrite + 1), l>>
          <6>1. pwrite <= y /\ y < pwrite + n
            BY <4>1, <4>2, <5>1, <5>a
          <6> QED
            BY <1>1, <6>1
        <5>3. l - m + (y - pwrite + 1) = (l - m + j) + 1 /\ l - m + j < l
          BY <1>0, <1>2, <4>2, <5>1, <5>a DEF j
        <5>4. Follows(data'[x], data'[After(x)])
          BY <4>3, <5>1, <5>a, <5>2, <5>3 DEF Follows
        <5> QED
          BY <4>5, <4>6, <4>7, <5>4 DEF Linked
      <4>8. CASE After(x) = pwrite'
        <5>1. j = n
          BY <1>0, <1>a, <1>2, <4>1, <4>2, <4>8 DEF After, Index, j
        <5>2. CASE n < m
          <6>1. tail'[1] = <<nsec', l - (m - n) + 1, l>>
            BY <1>1, <1>2, <5>2 DEF End
          <6>2. l - (m - n) + 1 = (l - m + j) + 1 /\ l - m + j < l
            BY <1>0, <1>2, <5>1, <5>2
          <6>3. Follows(data'[x], tail'[1])
            BY <4>3, <6>1, <6>2 DEF Follows
          <6> QED
            BY <1>1, <4>5, <4>6, <4>8, <5>2, <6>3 DEF Linked
        <5>3. CASE ~(n < m)
          <6>1. l - m + j = l
            BY <1>0, <1>2, <5>1, <5>3
          <6> QED
            BY <1>1, <4>3, <4>5, <4>6, <4>8, <5>3, <6>1 DEF Linked
        <5> QED
          BY <5>2, <5>3
      <4> QED
        BY <4>7, <4>8
    <3> QED
      BY <3>1, <3>2
  <2> QED
    BY <2>5, <2>6, <2>7, <2>8 DEF StreamInv
<1> QED
  BY <1>3, <1>4, <1>5, <1>6 DEF ReadInv

-----------------------------------------------------------------------------
(* What a step that stores nothing leaves of the stream.                   *)
LEMMA StreamKept ==
  ASSUME ReadInv, UNCHANGED <<data, pwrite, tail>>, pread' \in Index,
         nsec' \in Nat, nsec <= nsec', cb' = "rest" <=> cb = "rest",
         \A x \in Index : Unread(x)' => Unread(x),
         RbFree(pread, pwrite) <= RbFree(pread', pwrite'),
         Live' => /\ Live
                  /\ rd'.pc \in {"read", "copy"} => rd'.n <= RbAvail(pread', pwrite')
                  /\ rd'.pc = "copy" => rd'.p = pread'
  PROVE  StreamInv'
<1> SUFFICES ASSUME Live' PROVE StreamInv'
  BY DEF StreamInv
<1>0. RingTypes /\ WriterInv /\ StreamInv /\ Live
  BY DEF ReadInv
<1>1. Len(tail') <= RbFree(pread', pwrite')
  <2>1. Len(tail) <= RbFree(pread, pwrite)
    BY <1>0 DEF StreamInv
  <2>2. RbFree(pread, pwrite) \in Int /\ RbFree(pread', pwrite') \in Int
    <3>1. pread \in Index /\ pwrite \in Index /\ pwrite' \in Index
      BY <1>0 DEF RingTypes
    <3> QED
      BY <3>1, Bounded
  <2>3. Len(tail) \in Nat
    BY <1>0, TailLength
  <2> QED
    BY <2>1, <2>2, <2>3
<1>2. ASSUME NEW x \in Index, Unread(x)' PROVE Linked(x)'
  <2>1. Linked(x)
    BY <1>0, <1>2 DEF StreamInv
  <2>2. data[x] # Junk /\ data[x][1] <= nsec /\ data[x][1] \in Nat
    BY <1>0, <2>1, ByteParts DEF Linked, RingTypes
  <2>3. data[x][1] <= nsec'
    BY <1>0, <2>2 DEF RingTypes
  <2>4. After(x)' = After(x)
    BY DEF After
  <2> QED
    BY <2>1, <2>2, <2>3, <2>4 DEF Linked
<1> QED
  BY <1>0, <1>1, <1>2 DEF StreamInv

(* A step of the reader that moves no pointer.                             *)
LEMMA RingKept ==
  ASSUME ReadInv, UNCHANGED <<ring, side>>, ReaderInv',
         Live => /\ rd'.pc \in {"read", "copy"} => rd'.n <= RbAvail(pread, pwrite)
                 /\ rd'.pc = "copy" => rd'.p = pread
  PROVE  ReadInv'
<1>0. RingTypes /\ WriterInv
  BY DEF ReadInv
<1>1. RingTypes' /\ WriterInv'
  BY <1>0 DEF RingTypes, WriterInv, ring, side
<1>2. /\ UNCHANGED <<data, pread, pwrite, error, nsec, cb, tail>> /\ (Live' <=> Live)
      /\ \A x \in Index : Unread(x)' => Unread(x)
  BY DEF ring, side, Live, Unread
<1>3. RbFree(pread, pwrite) <= RbFree(pread', pwrite')
  BY <1>0, <1>2, Bounded DEF RingTypes
<1>4. pread' \in Index /\ nsec' \in Nat /\ nsec <= nsec'
  BY <1>0, <1>2 DEF RingTypes
<1>5. StreamInv'
  BY <1>2, <1>3, <1>4, StreamKept
<1> QED
  BY <1>1, <1>5 DEF ReadInv

-----------------------------------------------------------------------------
(* The steps of the callback and of the timer.                             *)

(* The callback has nothing to store.                                      *)
LEMMA IdleKeeps ==
  ASSUME ReadInv, cb \in {"idle", "lock"}, cb' \in {"idle", "lock", "wake", "flush"},
         nsec' \in {nsec, nsec + 1}, timer' \in {"off", "armed", "state", "wake"},
         UNCHANGED <<ring, fstate, tail, rd, todo, header>>
  PROVE  ReadInv'
<1>0. RingTypes /\ WriterInv /\ ReaderInv /\ StreamInv
  BY DEF ReadInv
<1>1. nsec' \in Nat /\ nsec <= nsec'
  BY <1>0 DEF RingTypes
<1>2. RingTypes' /\ WriterInv' /\ ReaderInv'
  BY <1>0, <1>1 DEF RingTypes, WriterInv, ReaderInv, ring
<1>3. /\ UNCHANGED <<data, pread, pwrite, error>> /\ (Live' <=> Live)
      /\ \A x \in Index : Unread(x)' => Unread(x)
  BY DEF ring, Live, Unread
<1>4. RbFree(pread, pwrite) <= RbFree(pread', pwrite') /\ pread' \in Index
  BY <1>0, <1>3, Bounded DEF RingTypes
<1>5. Live => /\ rd.pc \in {"read", "copy"} => rd.n <= RbAvail(pread, pwrite)
              /\ rd.pc = "copy" => rd.p = pread
  BY <1>0 DEF StreamInv
<1>6. StreamInv'
  BY <1>0, <1>1, <1>3, <1>4, <1>5, StreamKept
<1> QED
  BY <1>2, <1>6 DEF ReadInv

(* The test of buffer.error.                                               *)
LEMMA CallbackKeeps ==
  ASSUME ReadInv, Callback
  PROVE  ReadInv'
<1>1. /\ cb = "idle" /\ cb' \in {"lock", "wake"} /\ nsec' \in {nsec, nsec + 1}
      /\ timer' \in {"off", "armed", "state", "wake"}
      /\ UNCHANGED <<ring, fstate, tail, rd, todo, header>>
  BY DEF Callback, ReadInv, RingTypes
<1> QED
  BY <1>1, IdleKeeps

(* The section is stored, or finds no room.                                *)
LEMMA CallbackLockKeeps ==
  ASSUME ReadInv, NEW len \in Lens, CallbackLock(len)
  PROVE  ReadInv'
<1>0. /\ RingTypes /\ WriterInv /\ ReaderInv /\ StreamInv /\ cb = "lock" /\ nsec' = nsec + 1
      /\ UNCHANGED <<asleep, rd, todo, header, ret>>
  BY DEF ReadInv, CallbackLock
<1>1. nsec \in Nat /\ nsec' \in Nat /\ nsec' > 0 /\ nsec <= nsec' /\ tail = << >>
  BY <1>0 DEF RingTypes, WriterInv
<1>5. CASE cb' = "idle" /\ UNCHANGED <<ring, fstate, timer, tail>>
  BY <1>0, <1>5, IdleKeeps DEF RingTypes
<1>6. ASSUME fstate = "GO",
             timer' = IF timer = "armed" THEN "off" ELSE timer,
             len <= RbFree(pread, pwrite), Store(SectionBytes(nsec + 1, len))
      PROVE  ReadInv'
  <2>1. len \in Nat /\ 0 < len
    BY Lengths
  <2>2. Store(End(nsec', len, len))
    <3>1. SectionBytes(nsec + 1, len) = End(nsec + 1, len, len)
      BY <2>1, WholeEnd, Zenon
    <3> QED
      BY <1>0, <1>6, <3>1, Zenon
  <2>3. timer' \in {"off", "armed", "state", "wake"}
    BY <1>0, <1>6 DEF RingTypes
  <2>4. ASSUME NEW x \in Index, Live, Unread(x), After(x) = pwrite
        PROVE  Follows(data[x], <<nsec', len - len + 1, len>>)
    <3>1. data[x] # Junk /\ data[x][1] <= nsec /\ data[x][2] = data[x][3]
      BY <1>0, <2>4 DEF StreamInv, Linked
    <3>2. data[x][1] \in Nat
      BY <1>0, <3>1, ByteParts DEF RingTypes
    <3>3. nsec' > data[x][1] /\ len - len + 1 = 1
      BY <1>0, <1>1, <2>1, <3>1, <3>2
    <3> QED
      BY <3>1, <3>3 DEF Follows
  <2>5. len <= len
    BY <2>1
  <2>6. Live => /\ len <= RbFree(pread, pwrite)
                /\ \A x \in Index : Unread(x) /\ After(x) = pwrite
                     => Follows(data[x], <<nsec', len - len + 1, len>>)
    BY <1>6, <2>4
  <2> QED
    BY <1>0, <1>1, <1>6, <2>1, <2>2, <2>3, <2>5, <2>6, StoreKeeps, ZenonT(60)
<1>7. CASE /\ timer' = IF timer = "armed" THEN "off" ELSE timer
           /\ cb' = "flush" /\ UNCHANGED <<ring, fstate, tail>>
  BY <1>0, <1>7, IdleKeeps DEF RingTypes
<1> QED
  BY <1>5, <1>6, <1>7 DEF CallbackLock, Room

(* The second part of one that wraps.                                      *)
LEMMA CallbackRestKeeps ==
  ASSUME ReadInv, CallbackRest
  PROVE  ReadInv'
<1>0. /\ RingTypes /\ WriterInv /\ StreamInv /\ cb = "rest" /\ Store(tail)
      /\ UNCHANGED <<nsec, timer, rd, todo, header>>
  BY DEF ReadInv, CallbackRest
<1>1. PICK l \in Lens : \E m \in 1 .. l - 1 :
        tail = [k \in 1 .. m |-> <<nsec, l - m + k, l>>]
  BY <1>0 DEF WriterInv
<1>2. PICK m \in 1 .. l - 1 : tail = [k \in 1 .. m |-> <<nsec, l - m + k, l>>]
  BY <1>1
<1>3. /\ l \in Nat /\ m \in Nat /\ 0 < m /\ m <= l /\ cb # "error" /\ fstate = "GO"
      /\ nsec \in Nat /\ nsec > 0 /\ nsec <= nsec
  BY <1>0, Lengths DEF WriterInv, RingTypes
<1>4. nsec' = nsec /\ nsec' \in Nat /\ nsec' > 0 /\ nsec <= nsec'
  BY <1>0, <1>3
<1>5. tail = End(nsec', l, m) /\ tail[1] = <<nsec', l - m + 1, l>> /\ Len(tail) = m
  BY <1>2, <1>3, <1>4 DEF End
<1>6. Store(End(nsec', l, m))
  BY <1>0, <1>5, Zenon
<1>7. Live => /\ m <= RbFree(pread, pwrite)
              /\ \A x \in Index : Unread(x) /\ After(x) = pwrite
                   => Follows(data[x], <<nsec', l - m + 1, l>>)
  BY <1>0, <1>5 DEF StreamInv, Linked
<1>8. timer' \in {"off", "armed", "state", "wake"}
  BY <1>0 DEF RingTypes
<1>9. UNCHANGED <<rd, todo, header>>
  BY <1>0
<1> QED
  BY <1>3, <1>4, <1>6, <1>7, <1>8, <1>9, StoreKeeps, ZenonT(60)

(* The other steps of the callback, and the timer: they store nothing, and *)
(* the error stands until the reader has taken it.                         *)
LEMMA OthersKeep ==
  ASSUME ReadInv,
         CallbackFlush \/ CallbackError \/ CallbackWake
           \/ TimerExpires \/ TimerState \/ TimerWake
  PROVE  ReadInv'
<1>0. /\ RingTypes /\ WriterInv /\ ReaderInv /\ StreamInv
      /\ UNCHANGED <<data, pwrite, nsec, tail, rd, todo, header>>
  BY DEF ReadInv, CallbackFlush, CallbackError, CallbackWake, TimerExpires, TimerState,
         TimerWake, ring
<1>1. ReaderInv'
  BY <1>0 DEF ReaderInv
<1>2. CASE CallbackFlush
  <2>1. RingTypes' /\ WriterInv' /\ ~Live'
    BY <1>0, <1>2 DEF RingTypes, WriterInv, CallbackFlush, Live
  <2> QED
    BY <1>1, <2>1 DEF ReadInv, StreamInv
<1>3. CASE CallbackError
  <2>1. RingTypes' /\ WriterInv' /\ ~Live'
    BY <1>0, <1>3 DEF RingTypes, WriterInv, CallbackError, Finish, Live
  <2> QED
    BY <1>1, <2>1 DEF ReadInv, StreamInv
<1>4. CASE TimerExpires
  <2>1. RingTypes' /\ WriterInv' /\ ~Live'
    BY <1>0, <1>4 DEF RingTypes, WriterInv, TimerExpires, Live
  <2> QED
    BY <1>1, <2>1 DEF ReadInv, StreamInv
<1>5. ASSUME UNCHANGED ring, cb' = "rest" <=> cb = "rest", cb' = "error" <=> cb = "error",
             RingTypes', WriterInv'
      PROVE  ReadInv'
  <2>1. /\ UNCHANGED <<data, pread, pwrite, error>> /\ (Live' <=> Live)
        /\ \A x \in Index : Unread(x)' => Unread(x)
    BY <1>5 DEF ring, Live, Unread
  <2>2. /\ RbFree(pread, pwrite) <= RbFree(pread', pwrite') /\ pread' \in Index
        /\ nsec' \in Nat /\ nsec <= nsec'
    BY <1>0, <2>1, Bounded DEF RingTypes
  <2>3. Live => /\ rd.pc \in {"read", "copy"} => rd.n <= RbAvail(pread, pwrite)
                /\ rd.pc = "copy" => rd.p = pread
    BY <1>0 DEF StreamInv
  <2>4. StreamInv'
    BY <1>0, <1>5, <2>1, <2>2, <2>3, StreamKept
  <2> QED
    BY <1>1, <1>5, <2>4 DEF ReadInv
<1>6. CASE CallbackWake
  BY <1>0, <1>5, <1>6 DEF RingTypes, WriterInv, CallbackWake, ring
<1>7. CASE TimerState
  BY <1>0, <1>5, <1>7 DEF RingTypes, WriterInv, TimerState, Locked, ring
<1>8. CASE TimerWake
  BY <1>0, <1>5, <1>8 DEF RingTypes, WriterInv, TimerWake, ring
<1> QED
  BY <1>2, <1>3, <1>4, <1>6, <1>7, <1>8

-----------------------------------------------------------------------------
(* The steps of the reader.                                                *)

(* A read that is over.                                                    *)
LEMMA QuietOK ==
  ASSUME ReaderInv, rd' = Quiet, todo' \in -HdrLen .. Big, todo' > -HdrLen,
         header' \in [1 .. HdrLen -> Byte]
  PROVE  ReaderInv'
<1>1. Quiet \in ReadRecord
  BY SizeAssumption DEF Quiet, ReadRecord, Index
<1>2. rd'.pc = "idle" /\ rd'.left = 0 /\ rd'.want = 0 /\ rd'.count = 0
  BY DEF Quiet
<1> QED
  BY <1>1, <1>2 DEF ReaderInv

(* The fields of a read in progress.                                       *)
LEMMA ReadFields ==
  ASSUME ReaderInv
  PROVE  /\ rd \in ReadRecord /\ todo \in Int /\ -HdrLen < todo /\ todo <= Big
         /\ rd.pc \in {"idle", "enter", "wait", "queued", "sleep", "checked", "read", "copy",
                       "result"}
         /\ rd.stage \in {"header", "body"} /\ rd.count \in Nat /\ rd.want \in Nat
         /\ rd.left \in Nat /\ rd.n \in Nat /\ rd.p \in Nat /\ rd.p < Size /\ rd.split \in Nat
         /\ rd.i \in Nat /\ rd.got \in Seq(Byte) /\ rd.left <= rd.want /\ rd.want <= rd.count
BY Lengths DEF ReaderInv, ReadRecord, Index

(* A step that changes only pc, between states in which nothing is copied. *)
LEMMA PcOnly ==
  ASSUME ReaderInv, UNCHANGED <<todo, header>>, rd.pc \notin {"idle", "copy"},
         NEW c \in {"enter", "wait", "queued", "sleep", "checked", "result"},
         rd' = [rd EXCEPT !.pc = c]
  PROVE  ReaderInv' /\ rd'.pc = c
<1>1. rd \in ReadRecord
  BY DEF ReaderInv
<1>2. /\ rd' \in ReadRecord /\ rd'.pc = c /\ rd'.stage = rd.stage /\ rd'.want = rd.want
      /\ rd'.left = rd.left /\ rd'.count = rd.count /\ rd'.got = rd.got
  BY <1>1 DEF ReadRecord
<1> QED
  BY <1>2 DEF ReaderInv

(* The end of a transfer.                                                  *)
LEMMA BreakKeeps ==
  ASSUME ReaderInv, rd.pc \in {"enter", "checked", "wait", "sleep"}, NEW err, ReadBreak(err)
  PROVE  ReaderInv' /\ rd'.pc \in {"idle", "result"}
<1>1. CASE rd.left = rd.want
  <2>1. rd' = Quiet /\ todo' \in {0, todo} /\ header' = header
    BY <1>1 DEF ReadBreak, ReadFails, Return
  <2>2. todo' \in -HdrLen .. Big /\ todo' > -HdrLen /\ header' \in [1 .. HdrLen -> Byte]
    BY <2>1, Lengths DEF ReaderInv
  <2> QED
    BY <2>1, <2>2, QuietOK DEF Quiet
<1>2. CASE rd.left # rd.want
  BY <1>2, PcOnly DEF ReadBreak
<1> QED
  BY <1>1, <1>2

(* The error is taken, and the ring flushed.                               *)
LEMMA ErrorKeeps ==
  ASSUME ReadInv, ReadError
  PROVE  ReadInv'
<1>0. /\ RingTypes /\ WriterInv /\ ReaderInv /\ rd.pc \in {"enter", "checked"}
      /\ pread' = pwrite /\ error' = "none" /\ ReadBreak(error)
      /\ UNCHANGED <<data, pwrite, nsec, fstate, timer, cb, tail>>
  BY DEF ReadInv, ReadError, side
<1>1. RingTypes' /\ WriterInv'
  BY <1>0 DEF RingTypes, WriterInv
<1>2. ReaderInv' /\ rd'.pc \in {"idle", "result"}
  BY <1>0, BreakKeeps
<1>3. RbFree(pread', pwrite') = Size - 1 /\ \A x \in Index : ~Unread(x)'
  BY <1>0, Flushed DEF RingTypes
<1>4. Len(tail') <= RbFree(pread', pwrite')
  BY <1>0, <1>3, TailLength
<1>5. StreamInv'
  BY <1>2, <1>3, <1>4 DEF StreamInv
<1> QED
  BY <1>1, <1>2, <1>5 DEF ReadInv

(* Waiting.                                                                *)
LEMMA WaitKeeps ==
  ASSUME ReadInv,
         ReadEnter \/ ReadWouldBlock \/ ReadQueue \/ ReadLook \/ ReadWoken \/ ReadSignal
  PROVE  ReadInv'
<1>0. ReaderInv
  BY DEF ReadInv
<1>1. ASSUME NEW c \in {"enter", "wait", "queued", "sleep", "checked", "result"},
             rd' = [rd EXCEPT !.pc = c], rd.pc \notin {"idle", "copy"},
             UNCHANGED <<ring, side, todo, header>>
      PROVE  ReadInv'
  <2>1. ReaderInv' /\ rd'.pc = c
    BY <1>0, <1>1, PcOnly
  <2> QED
    BY <1>1, <2>1, RingKept
<1>2. ASSUME NEW err, ReadBreak(err), rd.pc \in {"wait", "sleep"}, UNCHANGED <<ring, side>>
      PROVE  ReadInv'
  <2>1. ReaderInv' /\ rd'.pc \in {"idle", "result"}
    BY <1>0, <1>2, BreakKeeps
  <2> QED
    BY <1>2, <2>1, RingKept
<1>3. CASE ReadEnter
  BY <1>1, <1>3 DEF ReadEnter
<1>4. CASE ReadWouldBlock
  BY <1>2, <1>4 DEF ReadWouldBlock
<1>5. CASE ReadQueue
  BY <1>1, <1>5 DEF ReadQueue
<1>6. CASE ReadLook
  BY <1>1, <1>6 DEF ReadLook
<1>7. CASE ReadWoken
  BY <1>1, <1>7 DEF ReadWoken
<1>8. CASE ReadSignal
  BY <1>2, <1>8 DEF ReadSignal
<1> QED
  BY <1>3, <1>4, <1>5, <1>6, <1>7, <1>8

(* What is there is counted.                                               *)
LEMMA AvailKeeps ==
  ASSUME ReadInv, ReadAvail
  PROVE  ReadInv'
<1>0. /\ RingTypes /\ ReaderInv /\ rd.pc = "checked" /\ UNCHANGED <<ring, side, todo, header>>
  BY DEF ReadInv, ReadAvail
<1>1. rd \in ReadRecord /\ rd.left \in Nat
  BY <1>0, ReadFields
<1>2. PICK a \in Nat : a = RbAvail(pread, pwrite) /\ a < Size
  BY <1>0, Bounded, Lengths DEF RingTypes
<1>3. PICK n \in Nat : n = Lesser(a, rd.left) /\ n <= a /\ n <= rd.left /\ n < Size
  BY <1>1, <1>2, Lengths DEF Lesser
<1>4. rd' = [rd EXCEPT !.pc = "read", !.n = n]
  BY <1>2, <1>3 DEF ReadAvail
<1>5. /\ rd' \in ReadRecord /\ rd'.pc = "read" /\ rd'.n = n
      /\ rd'.stage = rd.stage /\ rd'.want = rd.want
      /\ rd'.left = rd.left /\ rd'.count = rd.count /\ rd'.got = rd.got
  BY <1>1, <1>3, <1>4 DEF ReadRecord
<1>6. ReaderInv'
  BY <1>0, <1>3, <1>5 DEF ReaderInv
<1> QED
  BY <1>0, <1>2, <1>3, <1>5, <1>6, RingKept

(* pread is loaded.                                                        *)
LEMMA BeginKeeps ==
  ASSUME ReadInv, ReadBegin
  PROVE  ReadInv'
<1>0. /\ RingTypes /\ ReaderInv /\ StreamInv /\ rd.pc = "read"
      /\ UNCHANGED <<ring, side, todo, header>>
  BY DEF ReadInv, ReadBegin
<1>1. rd \in ReadRecord /\ rd.n \in Nat /\ rd.n <= rd.left /\ rd.n < Size
  BY <1>0, ReadFields DEF ReaderInv
<1>2. pread \in Index /\ pread \in Nat /\ pread < Size /\ Size \in Nat
  BY <1>0, Lengths DEF RingTypes, Index
<1>3. PICK s \in Nat : /\ s = RbSplit(pread, rd.n)
                       /\ IF s > 0 THEN pread + s = Size /\ s < rd.n
                          ELSE pread + rd.n <= Size
  <2>1. CASE pread + rd.n > Size
    BY <1>1, <1>2, <2>1 DEF RbSplit
  <2>2. CASE ~(pread + rd.n > Size)
    BY <1>1, <1>2, <2>2 DEF RbSplit
  <2> QED
    BY <2>1, <2>2
<1>4. rd' = [rd EXCEPT !.pc = "copy", !.p = pread, !.split = s, !.i = 0]
  BY <1>3 DEF ReadBegin
<1>5. /\ rd' \in ReadRecord /\ rd'.pc = "copy" /\ rd'.n = rd.n /\ rd'.p = pread
      /\ rd'.split = s /\ rd'.i = 0 /\ rd'.stage = rd.stage /\ rd'.want = rd.want
      /\ rd'.left = rd.left /\ rd'.count = rd.count /\ rd'.got = rd.got
  BY <1>1, <1>2, <1>3, <1>4 DEF ReadRecord
<1>6. ReaderInv'
  <2>1. /\ rd'.n <= rd'.left /\ rd'.n < Size
        /\ IF rd'.split > 0 THEN rd'.p + rd'.split = Size /\ rd'.i <= rd'.split /\ rd'.split < rd'.n
           ELSE rd'.p + rd'.n <= Size /\ rd'.i <= rd'.n
    BY <1>1, <1>2, <1>3, <1>5
  <2>2. IF rd'.stage = "header"
        THEN /\ todo' <= 0 /\ rd'.want <= HdrLen + todo'
             /\ Len(rd'.got) = rd'.want - rd'.left + rd'.i
        ELSE rd'.want <= todo'
    BY <1>0, <1>5, ReadFields DEF ReaderInv
  <2> QED
    BY <1>0, <1>5, <2>1, <2>2 DEF ReaderInv
<1>7. Live => rd.n <= RbAvail(pread, pwrite)
  BY <1>0 DEF StreamInv
<1> QED
  BY <1>0, <1>5, <1>6, <1>7, RingKept

(* One byte is copied.                                                     *)
LEMMA CopyKeeps ==
  ASSUME ReadInv, ReadCopy
  PROVE  ReadInv'
<1>0. /\ RingTypes /\ ReaderInv /\ StreamInv /\ rd.pc = "copy"
      /\ rd.i < (IF rd.split > 0 THEN rd.split ELSE rd.n)
      /\ UNCHANGED <<ring, side, todo, header>>
  BY DEF ReadInv, ReadCopy
<1>1. /\ rd \in ReadRecord /\ rd.n \in Nat /\ rd.split \in Nat /\ rd.i \in Nat /\ rd.p \in Nat
      /\ rd.got \in Seq(Byte) /\ rd.want \in Nat /\ rd.left \in Nat /\ Size \in Nat
  BY <1>0, ReadFields, Lengths
<1>2. IF rd.split > 0 THEN rd.p + rd.split = Size /\ rd.i <= rd.split /\ rd.split < rd.n
      ELSE rd.p + rd.n <= Size /\ rd.i <= rd.n
  BY <1>0 DEF ReaderInv
<1>3. rd.p + rd.i \in Index
  BY <1>0, <1>1, <1>2 DEF Index
<1>4. PICK b \in Byte : b = data[rd.p + rd.i]
  BY <1>0, <1>3 DEF RingTypes
<1>5. PICK g \in Seq(Byte) : g = Append(rd.got, b) /\ Len(g) = Len(rd.got) + 1
  <2>1. Append(rd.got, b) \in Seq(Byte) /\ Len(Append(rd.got, b)) = Len(rd.got) + 1
    BY <1>1
  <2> QED
    BY <2>1
<1>a. PICK i \in Nat : i = rd.i + 1
  BY <1>1
<1>6. rd' = [rd EXCEPT !.i = i, !.got = g]
  BY <1>1, <1>4, <1>5, <1>a DEF ReadCopy
<1>7. /\ rd' \in ReadRecord /\ rd'.pc = "copy" /\ rd'.n = rd.n /\ rd'.p = rd.p
      /\ rd'.split = rd.split /\ rd'.i = i /\ rd'.stage = rd.stage /\ rd'.want = rd.want
      /\ rd'.left = rd.left /\ rd'.count = rd.count /\ rd'.got = g
  BY <1>0, <1>1, <1>6 DEF ReadRecord
<1>8. ReaderInv'
  <2>1. IF rd'.split > 0 THEN rd'.p + rd'.split = Size /\ rd'.i <= rd'.split /\ rd'.split < rd'.n
        ELSE rd'.p + rd'.n <= Size /\ rd'.i <= rd'.n
    BY <1>0, <1>1, <1>2, <1>a, <1>7
  <2>2. IF rd'.stage = "header"
        THEN /\ todo' <= 0 /\ rd'.want <= HdrLen + todo'
             /\ Len(rd'.got) = rd'.want - rd'.left + rd'.i
        ELSE rd'.want <= todo'
    <3>1. IF rd.stage = "header"
          THEN /\ todo <= 0 /\ rd.want <= HdrLen + todo
               /\ Len(rd.got) = rd.want - rd.left + rd.i
          ELSE rd.want <= todo
      BY <1>0 DEF ReaderInv
    <3>2. Len(rd.got) \in Nat /\ Len(rd'.got) = Len(rd.got) + 1 /\ rd'.i = rd.i + 1
      BY <1>1, <1>5, <1>a, <1>7
    <3>3. todo' = todo /\ rd'.stage = rd.stage /\ rd'.want = rd.want /\ rd'.left = rd.left
      BY <1>0, <1>7
    <3>4. CASE rd.stage = "header"
      <4>1. Len(rd.got) + 1 = rd.want - rd.left + (rd.i + 1)
        <5>1. Len(rd.got) = rd.want - rd.left + rd.i
          BY <3>1, <3>4
        <5>2. rd.want \in Nat /\ rd.left \in Nat /\ rd.i \in Nat
          BY <1>1
        <5> QED
          BY <5>1, <5>2, SMTT(30)
      <4> QED
        BY <3>1, <3>2, <3>3, <3>4, <4>1
    <3>5. CASE rd.stage # "header"
      BY <3>1, <3>3, <3>5
    <3> QED
      BY <3>4, <3>5
  <2> QED
    BY <1>0, <1>7, <2>1, <2>2 DEF ReaderInv
<1>9. Live => rd.n <= RbAvail(pread, pwrite) /\ rd.p = pread
  BY <1>0 DEF StreamInv
<1> QED
  BY <1>0, <1>7, <1>8, <1>9, RingKept

(* The two steps that move the read pointer: by all of a transfer, or by   *)
(* what lies before the end of the array.                                  *)
LEMMA TakeKeeps ==
  ASSUME ReadInv, rd.pc = "copy", ReaderInv', UNCHANGED <<data, pwrite, error, side>>,
         pread' \in Index, NEW n \in Nat, n <= rd.n,
         rd.p + n <= Size, rd.p = pread => pread' = IF pread + n = Size THEN 0 ELSE pread + n,
         rd'.pc \in {"wait", "result"} \/ (rd'.pc = "copy" /\ rd'.n = rd.n - n /\ rd'.p = pread')
  PROVE  ReadInv'
<1>0. /\ RingTypes /\ WriterInv /\ ReaderInv /\ StreamInv
      /\ UNCHANGED <<nsec, fstate, timer, cb, tail>>
  BY DEF ReadInv, side
<1>1. RingTypes' /\ WriterInv'
  BY <1>0 DEF RingTypes, WriterInv
<1>2. CASE ~Live
  BY <1>0, <1>1, <1>2 DEF ReadInv, StreamInv, Live
<1>3. CASE Live
  <2>1. rd.p = pread /\ rd.n <= RbAvail(pread, pwrite) /\ rd.n \in Nat
    BY <1>0, <1>3, ReadFields DEF StreamInv
  <2>2. pread \in Index /\ pwrite \in Index /\ RbAvail(pread, pwrite) \in Nat
        /\ RbFree(pread, pwrite) \in Nat
    BY <1>0, Bounded DEF RingTypes
  <2>3. n <= RbAvail(pread, pwrite)
    BY <2>1, <2>2
  <2>4. /\ RbAvail(pread', pwrite') = RbAvail(pread, pwrite) - n
        /\ RbFree(pread', pwrite') = RbFree(pread, pwrite) + n
        /\ \A x \in Index : Unread(x)' => Unread(x)
    BY <2>1, <2>2, <2>3, Consumed
  <2>5. RbFree(pread, pwrite) <= RbFree(pread', pwrite')
    BY <2>2, <2>4
  <2>6. /\ rd'.pc \in {"read", "copy"} => rd'.n <= RbAvail(pread', pwrite')
        /\ rd'.pc = "copy" => rd'.p = pread'
    BY <2>1, <2>2, <2>4
  <2>7. nsec' \in Nat /\ nsec <= nsec'
    BY <1>0 DEF RingTypes
  <2>8. StreamInv'
    BY <1>0, <1>3, <2>4, <2>5, <2>6, <2>7, StreamKept
  <2> QED
    BY <1>1, <2>8 DEF ReadInv
<1> QED
  BY <1>2, <1>3

(* The part before the end of the array has been copied.                   *)
LEMMA WrapKeeps ==
  ASSUME ReadInv, ReadWrap
  PROVE  ReadInv'
<1>0. /\ RingTypes /\ ReaderInv /\ rd.pc = "copy" /\ rd.split > 0 /\ rd.i = rd.split
      /\ pread' = 0 /\ UNCHANGED <<data, pwrite, error, side, todo, header>>
  BY DEF ReadInv, ReadWrap
<1>1. /\ rd \in ReadRecord /\ rd.n \in Nat /\ rd.split \in Nat /\ rd.i \in Nat /\ rd.p \in Nat
      /\ rd.got \in Seq(Byte) /\ rd.want \in Nat /\ rd.left \in Nat /\ rd.count \in Nat
      /\ Size \in Nat /\ Size > 1 /\ rd.left <= rd.want /\ rd.want <= rd.count
  BY <1>0, ReadFields, Lengths
<1>2. /\ rd.p + rd.split = Size /\ rd.split < rd.n /\ rd.n <= rd.left /\ rd.n < Size
  BY <1>0 DEF ReaderInv
<1>3. PICK n \in Nat : n = rd.n - rd.split
  BY <1>1, <1>2
<1>4. PICK left \in Nat : left = rd.left - rd.split
  BY <1>1, <1>2
<1>5. rd' = [rd EXCEPT !.p = 0, !.i = 0, !.split = 0, !.n = n, !.left = left]
  BY <1>1, <1>3, <1>4 DEF ReadWrap, ReadRecord
<1>6. 0 \in Index
  BY <1>1 DEF Index
<1>7. /\ rd' \in ReadRecord /\ rd'.pc = "copy" /\ rd'.n = n /\ rd'.p = 0
      /\ rd'.split = 0 /\ rd'.i = 0 /\ rd'.stage = rd.stage /\ rd'.want = rd.want
      /\ rd'.left = left /\ rd'.count = rd.count /\ rd'.got = rd.got
  BY <1>1, <1>0, <1>5, <1>6 DEF ReadRecord
<1>8. ReaderInv'
  <2>1. /\ n <= left /\ n < Size /\ 0 + n <= Size /\ left <= rd.want
    BY <1>1, <1>2, <1>3, <1>4, SMTT(30)
  <2>2. IF rd'.stage = "header"
        THEN /\ todo' <= 0 /\ rd'.want <= HdrLen + todo'
             /\ Len(rd'.got) = rd'.want - rd'.left + rd'.i
        ELSE rd'.want <= todo'
    <3>1. IF rd.stage = "header"
          THEN /\ todo <= 0 /\ rd.want <= HdrLen + todo
               /\ Len(rd.got) = rd.want - rd.left + rd.i
          ELSE rd.want <= todo
      BY <1>0 DEF ReaderInv
    <3> QED
      BY <1>0, <1>1, <1>4, <1>7, <3>1
  <2> QED
    BY <1>0, <1>1, <1>7, <2>1, <2>2 DEF ReaderInv
<1>9. /\ rd.split <= rd.n /\ rd.p + rd.split <= Size /\ rd'.n = rd.n - rd.split
      /\ (rd.p = pread => pread' = IF pread + rd.split = Size THEN 0 ELSE pread + rd.split)
  BY <1>0, <1>1, <1>2, <1>3, <1>7
<1> QED
  BY <1>0, <1>1, <1>6, <1>7, <1>8, <1>9, TakeKeeps

(* The transfer is complete.                                               *)
LEMMA AdvanceKeeps ==
  ASSUME ReadInv, ReadAdvance
  PROVE  ReadInv'
<1>0. /\ RingTypes /\ ReaderInv /\ rd.pc = "copy" /\ rd.split = 0 /\ rd.i = rd.n
      /\ pread' = RbAdvance(pread, rd.n) /\ UNCHANGED <<data, pwrite, error, side, todo, header>>
  BY DEF ReadInv, ReadAdvance
<1>1. /\ rd \in ReadRecord /\ rd.n \in Nat /\ rd.i \in Nat /\ rd.p \in Nat
      /\ rd.got \in Seq(Byte) /\ rd.want \in Nat /\ rd.left \in Nat /\ rd.count \in Nat
      /\ Size \in Nat /\ Size > 1 /\ rd.left <= rd.want /\ rd.want <= rd.count
  BY <1>0, ReadFields, Lengths
<1>2. /\ rd.p + rd.n <= Size /\ rd.n <= rd.left /\ rd.n < Size
  BY <1>0 DEF ReaderInv
<1>3. PICK left \in Nat : left = rd.left - rd.n
  BY <1>1, <1>2
<1>4. PICK c \in {"wait", "result"} : rd' = [rd EXCEPT !.left = left, !.pc = c]
  BY <1>1, <1>3 DEF ReadAdvance, ReadRecord
<1>5. /\ rd' \in ReadRecord /\ rd'.pc = c /\ rd'.stage = rd.stage /\ rd'.want = rd.want
      /\ rd'.left = left /\ rd'.count = rd.count /\ rd'.got = rd.got
  BY <1>1, <1>4 DEF ReadRecord
<1>6. ReaderInv'
  <2>1. left <= rd.want
    BY <1>1, <1>2, <1>3
  <2>2. IF rd'.stage = "header"
        THEN /\ todo' <= 0 /\ rd'.want <= HdrLen + todo'
             /\ Len(rd'.got) = rd'.want - rd'.left
        ELSE rd'.want <= todo'
    <3>1. IF rd.stage = "header"
          THEN /\ todo <= 0 /\ rd.want <= HdrLen + todo
               /\ Len(rd.got) = rd.want - rd.left + rd.i
          ELSE rd.want <= todo
      BY <1>0 DEF ReaderInv
    <3> QED
      BY <1>0, <1>1, <1>3, <1>5, <3>1
  <2> QED
    BY <1>0, <1>1, <1>5, <2>1, <2>2 DEF ReaderInv
<1>7. pread \in Nat /\ pread < Size
  BY <1>0, <1>1 DEF RingTypes, Index
<1>8. pread' \in Index
  BY <1>0, <1>1, <1>7 DEF RbAdvance, Index
<1>9. rd.p = pread => pread' = IF pread + rd.n = Size THEN 0 ELSE pread + rd.n
  <2> SUFFICES ASSUME rd.p = pread
               PROVE  pread' = IF pread + rd.n = Size THEN 0 ELSE pread + rd.n
    OBVIOUS
  <2>1. PICK z \in 0 .. Size : z = pread + rd.n
    BY <1>1, <1>2, <1>7
  <2>2. pread' = z % Size
    BY <1>0, <2>1 DEF RbAdvance
  <2>3. z % Size = IF z = Size THEN 0 ELSE z
    BY <1>1
  <2> QED
    BY <2>1, <2>2, <2>3
<1> QED
  BY <1>0, <1>1, <1>2, <1>5, <1>6, <1>8, <1>9, TakeKeeps

-----------------------------------------------------------------------------
(* dvb_dmxdev_read_sec.                                                    *)

(* A system call begins.                                                   *)
LEMMA CallKeeps ==
  ASSUME ReadInv, NEW count \in Counts, ReadCall(count)
  PROVE  ReadInv'
<1>0. ReaderInv /\ UNCHANGED <<ring, side, todo, header>>
  BY DEF ReadInv, ReadCall
<1>1. /\ todo \in Int /\ -HdrLen < todo /\ count \in Nat /\ HdrLen \in Nat
  BY <1>0, ReadFields, Lengths
<1>2. PICK rest \in Nat : rest = IF todo <= 0 THEN HdrLen + todo ELSE todo
  BY <1>1
<1>3. PICK want \in Nat : want = Lesser(count, rest) /\ want <= count /\ want <= rest
  BY <1>1, <1>2 DEF Lesser
<1>4. PICK stage \in {"header", "body"} : stage = IF todo <= 0 THEN "header" ELSE "body"
  OBVIOUS
<1>5. PICK big \in BOOLEAN : big = (count = Big)
  BY Zenon
<1>6. PICK fresh \in BOOLEAN : fresh = (todo = 0)
  BY Zenon
<1>7. rd' = [Quiet EXCEPT !.pc = "enter", !.stage = stage, !.count = count, !.want = want,
                          !.left = want, !.big = big, !.fresh = fresh]
  BY <1>2, <1>3, <1>4, <1>5, <1>6, Zenon DEF ReadCall
<1>8. Quiet \in ReadRecord /\ Quiet.got = << >>
  BY SizeAssumption DEF Quiet, ReadRecord, Index
<1>9. /\ rd' \in ReadRecord /\ rd'.pc = "enter" /\ rd'.stage = stage /\ rd'.count = count
      /\ rd'.want = want /\ rd'.left = want /\ rd'.got = << >>
  <2> HIDE DEF Quiet
  <2> QED
    BY <1>1, <1>3, <1>7, <1>8 DEF ReadRecord
<1>10. ReaderInv'
  <2>1. IF stage = "header" THEN todo <= 0 /\ want <= HdrLen + todo /\ 0 = want - want
        ELSE want <= todo
    BY <1>1, <1>2, <1>3, <1>4
  <2> QED
    BY <1>0, <1>3, <1>9, <2>1 DEF ReaderInv
<1> QED
  BY <1>0, <1>9, <1>10, RingKept

(* What a header spells.                                                   *)
LEMMA BodyBounds ==
  ASSUME NEW h \in [1 .. HdrLen -> Byte]
  PROVE  BodyLength(h) \in 0 .. Big
<1>0. 1 \in 1 .. HdrLen
  BY Lengths
<1>1. CASE \A k \in 1 .. HdrLen : h[k] = <<h[1][1], k, h[1][3]>>
  <2>1. h[1] = <<h[1][1], 1, h[1][3]>>
    BY <1>0, <1>1
  <2>2. h[1] # Junk
    BY <2>1 DEF Junk
  <2>3. h[1][3] \in Lens
    BY <1>0, <2>2, ByteParts
  <2>4. PICK l \in Lens : l = h[1][3]
    BY <2>3
  <2>5. l - HdrLen \in 0 .. Big
    BY Lengths
  <2> QED
    BY <1>1, <2>4, <2>5 DEF BodyLength
<1>2. CASE ~\A k \in 1 .. HdrLen : h[k] = <<h[1][1], k, h[1][3]>>
  BY <1>2, ReadConstants DEF BodyLength
<1> QED
  BY <1>1, <1>2

(* The header part is over.                                                *)
LEMMA HeaderKeeps ==
  ASSUME ReadInv, HeaderResult
  PROVE  ReadInv'
<1>0. ReaderInv /\ rd.pc = "result" /\ rd.stage = "header" /\ UNCHANGED <<ring, side>>
  BY DEF ReadInv, HeaderResult
<1>1. /\ rd \in ReadRecord /\ rd.got \in Seq(Byte) /\ rd.want \in Nat /\ rd.left \in Nat
      /\ rd.count \in Nat /\ rd.left <= rd.want /\ rd.want <= rd.count
      /\ todo \in Int /\ -HdrLen < todo /\ HdrLen \in Nat /\ HdrLen > 0 /\ Big \in Nat
  BY <1>0, ReadFields, Lengths
<1>2. todo <= 0 /\ rd.want <= HdrLen + todo /\ Len(rd.got) = rd.want - rd.left
  <2>1. todo <= 0 /\ rd.want <= HdrLen + todo /\ Len(rd.got) = rd.want - rd.left + 0
    BY <1>0 DEF ReaderInv
  <2> QED
    BY <1>1, <2>1
<1>3. PICK result \in Nat : result = rd.want - rd.left /\ Len(rd.got) = result
  BY <1>1, <1>2
<1>4. PICK h : h = [k \in 1 .. HdrLen |-> IF k > -todo /\ k <= result - todo
                                          THEN rd.got[k + todo] ELSE header[k]]
  OBVIOUS
<1>5. h \in [1 .. HdrLen -> Byte]
  <2>1. ASSUME NEW k \in 1 .. HdrLen, k > -todo, k <= result - todo
        PROVE  rd.got[k + todo] \in Byte
    <3>1. PICK j \in 1 .. Len(rd.got) : j = k + todo
      BY <1>1, <1>3, <2>1
    <3>2. rd.got[j] \in Byte
      BY <1>1
    <3> QED
      BY <3>1, <3>2
  <2>2. header \in [1 .. HdrLen -> Byte]
    BY <1>0 DEF ReaderInv
  <2> QED
    BY <1>4, <2>1, <2>2
<1>6. PICK body \in 0 .. Big : body = BodyLength(h)
  BY <1>5, BodyBounds
<1>7. PICK count \in Nat : count = rd.count - result
  BY <1>1, <1>3
<1>8. PICK want \in Nat : want = Lesser(count, body) /\ want <= count /\ want <= body
  BY <1>1 DEF Lesser
<1>9. /\ header' = h
      /\ IF todo - result > -HdrLen
         THEN todo' = todo - result /\ rd' = Quiet
         ELSE /\ todo' = body
              /\ IF count = 0 THEN rd' = Quiet
                 ELSE rd' = [rd EXCEPT !.pc = "enter", !.stage = "body",
                                       !.count = count, !.want = want, !.left = want]
  BY <1>3, <1>4, <1>6, <1>7, <1>8, Zenon DEF HeaderResult, Return
<1>10. todo' \in -HdrLen .. Big /\ todo' > -HdrLen
  <2>1. CASE todo - result > -HdrLen
    BY <1>1, <1>2, <1>9, <2>1
  <2>2. CASE ~(todo - result > -HdrLen)
    BY <1>1, <1>9, <2>2
  <2> QED
    BY <2>1, <2>2
<1>11. CASE rd' = Quiet
  <2>1. ReaderInv'
    BY <1>0, <1>5, <1>9, <1>10, <1>11, QuietOK
  <2> QED
    BY <1>0, <1>11, <2>1, RingKept DEF Quiet
<1>12. CASE rd' # Quiet
  <2>1. /\ todo' = body
        /\ rd' = [rd EXCEPT !.pc = "enter", !.stage = "body",
                            !.count = count, !.want = want, !.left = want]
    BY <1>9, <1>12
  <2>2. /\ rd' \in ReadRecord /\ rd'.pc = "enter" /\ rd'.stage = "body" /\ rd'.count = count
        /\ rd'.want = want /\ rd'.left = want
    BY <1>1, <2>1 DEF ReadRecord
  <2>3. ReaderInv'
    BY <1>5, <1>8, <1>9, <1>10, <2>1, <2>2 DEF ReaderInv
  <2> QED
    BY <1>0, <2>2, <2>3, RingKept
<1> QED
  BY <1>11, <1>12

(* The body part is over.                                                  *)
LEMMA BodyKeeps ==
  ASSUME ReadInv, BodyResult
  PROVE  ReadInv'
<1>0. /\ ReaderInv /\ rd.pc = "result" /\ rd.stage = "body" /\ UNCHANGED <<ring, side, header>>
      /\ rd' = Quiet /\ todo' = todo - (rd.want - rd.left)
  BY DEF ReadInv, BodyResult, Return
<1>1. /\ rd.want \in Nat /\ rd.left \in Nat /\ rd.left <= rd.want
      /\ todo \in Int /\ todo <= Big /\ HdrLen \in Nat /\ HdrLen > 0 /\ Big \in Nat
  BY <1>0, ReadFields, Lengths
<1>2. rd.want <= todo
  BY <1>0 DEF ReaderInv
<1>3. todo' \in -HdrLen .. Big /\ todo' > -HdrLen
  BY <1>0, <1>1, <1>2
<1>4. ReaderInv'
  BY <1>0, <1>3, QuietOK DEF ReaderInv
<1> QED
  BY <1>0, <1>4, RingKept DEF Quiet

-----------------------------------------------------------------------------
(* The invariant.                                                          *)

(* A filter that has just been started.                                    *)
LEMMA InitOK == Init => ReadInv
<1> SUFFICES ASSUME Init PROVE ReadInv
  OBVIOUS
<1>1. pread \in Index /\ pwrite = pread
  BY ReadConstants DEF Init
<1>2. RingTypes
  BY <1>1 DEF Init, RingTypes, Byte
<1>3. WriterInv
  BY DEF Init, WriterInv
<1>4. ReaderInv
  <2>1. Quiet \in ReadRecord
    BY SizeAssumption DEF Quiet, ReadRecord, Index
  <2>2. Quiet.pc = "idle" /\ Quiet.left = 0 /\ Quiet.want = 0 /\ Quiet.count = 0
    BY DEF Quiet
  <2>3. 0 \in -HdrLen .. Big /\ 0 > -HdrLen
    BY Lengths
  <2>4. header \in [1 .. HdrLen -> Byte]
    BY DEF Init, Byte
  <2>5. rd = Quiet /\ todo = 0
    BY DEF Init
  <2> QED
    BY <2>1, <2>2, <2>3, <2>4, <2>5 DEF ReaderInv
<1>5. StreamInv
  <2>1. Len(tail) = 0 /\ rd.pc = "idle"
    BY DEF Init, Quiet
  <2>2. RbFree(pread, pwrite) \in Nat
    BY <1>1, Bounded
  <2>3. \A x \in Index : ~Unread(x)
    BY <1>1, SizeAssumption DEF Unread, Index
  <2> QED
    BY <2>1, <2>2, <2>3 DEF StreamInv
<1> QED
  BY <1>2, <1>3, <1>4, <1>5 DEF ReadInv

(* Each step preserves it.                                                 *)
LEMMA StepOK == ReadInv /\ [Next]_vars => ReadInv'
<1> SUFFICES ASSUME ReadInv, [Next]_vars PROVE ReadInv'
  OBVIOUS
<1>1. CASE Callbacks
  BY <1>1, CallbackLockKeeps, CallbackRestKeeps, OthersKeep DEF Callbacks
<1>2. CASE Timers
  BY <1>2, OthersKeep DEF Timers
<1>3. CASE Reading
  BY <1>3, ErrorKeeps, WaitKeeps, AvailKeeps, BeginKeeps, CopyKeeps, WrapKeeps, AdvanceKeeps,
     HeaderKeeps, BodyKeeps DEF Reading
<1>4. CASE Input
  BY <1>4, CallbackKeeps, OthersKeep, CallKeeps, WaitKeeps DEF Input
<1>5. CASE UNCHANGED vars
  <2>1. UNCHANGED <<ring, side, rd, todo, header>>
    BY <1>5 DEF vars
  <2>2. ReaderInv'
    BY <2>1 DEF ReadInv, ReaderInv
  <2>3. Live => /\ rd.pc \in {"read", "copy"} => rd.n <= RbAvail(pread, pwrite)
                /\ rd.pc = "copy" => rd.p = pread
    BY DEF ReadInv, StreamInv
  <2> QED
    BY <2>1, <2>2, <2>3, RingKept
<1> QED
  BY <1>1, <1>2, <1>3, <1>4, <1>5 DEF Next

(* The bytes between the pointers, counted as Coherent counts them.        *)
LEMMA Counted ==
  ASSUME pread \in Index, pwrite \in Index,
         NEW k \in 0 .. RbAvail(pread, pwrite) - 1, NEW x, x = (pread + k) % Size
  PROVE  /\ x \in Index /\ Unread(x) /\ (pread + k + 1) % Size = After(x)
         /\ k + 1 < RbAvail(pread, pwrite) <=> After(x) # pwrite
<1>0. /\ Size \in Nat /\ Size > 1 /\ pread \in Nat /\ pread < Size /\ pwrite \in Nat
      /\ pwrite < Size
  BY Lengths DEF Index
<1>1. PICK a \in 0 .. Size - 1 : /\ a = RbAvail(pread, pwrite)
                                 /\ a = IF pread <= pwrite THEN pwrite - pread
                                        ELSE pwrite - pread + Size
  <2>1. CASE pread <= pwrite
    BY <1>0, <2>1 DEF RbAvail
  <2>2. CASE ~(pread <= pwrite)
    BY <1>0, <2>2 DEF RbAvail
  <2> QED
    BY <2>1, <2>2
<1>2. k \in Nat /\ k < a
  BY <1>1
<1>a. PICK y \in 0 .. 2 * Size - 1 : y = pread + k
  BY <1>0, <1>2
<1>b. PICK z \in 0 .. 2 * Size - 1 : z = pread + k + 1
  BY <1>0, <1>2
<1>c. \A i \in 0 .. 2 * Size - 1 : i % Size = IF i < Size THEN i ELSE i - Size
  BY <1>0
<1>d. x = y % Size /\ (pread + k + 1) % Size = z % Size
  BY <1>a, <1>b
<1>3. x = IF pread + k < Size THEN pread + k ELSE pread + k - Size
  <2>1. x = IF y < Size THEN y ELSE y - Size
    BY <1>c, <1>d
  <2> QED
    BY <1>0, <1>2, <1>a, <2>1
<1>4. (pread + k + 1) % Size = IF pread + k + 1 < Size THEN pread + k + 1
                               ELSE pread + k + 1 - Size
  <2>1. (pread + k + 1) % Size = IF z < Size THEN z ELSE z - Size
    BY <1>c, <1>d
  <2> QED
    BY <1>0, <1>2, <1>b, <2>1
<1>5. x \in Index
  BY <1>0, <1>2, <1>3 DEF Index
<1>6. Unread(x)
  BY <1>0, <1>1, <1>2, <1>3 DEF Unread
<1>7. (pread + k + 1) % Size = After(x)
  BY <1>0, <1>2, <1>3, <1>4 DEF After
<1>8. k + 1 < a <=> After(x) # pwrite
  BY <1>0, <1>1, <1>2, <1>3 DEF After
<1> QED
  BY <1>1, <1>5, <1>6, <1>7, <1>8

(* The invariant gives the property the run checks.                        *)
LEMMA InvCoherent == ReadInv => RingCoherent
<1> SUFFICES ASSUME ReadInv PROVE RingCoherent
  OBVIOUS
<1>0. RingTypes /\ ReaderInv /\ StreamInv
  BY DEF ReadInv
<1>1. TypeOK
  BY <1>0, ReadFields DEF TypeOK, RingTypes, ReaderInv
<1>2. Coherent
  <2> SUFFICES ASSUME error = "none", cb \notin {"rest", "error"},
                      NEW k \in 0 .. RbAvail(pread, pwrite) - 1
               PROVE  /\ data[(pread + k) % Size][1] > 0
                      /\ IF k + 1 < RbAvail(pread, pwrite)
                         THEN Follows(data[(pread + k) % Size], data[(pread + k + 1) % Size])
                         ELSE data[(pread + k) % Size][2] = data[(pread + k) % Size][3]
    BY DEF Coherent
  <2>1. PICK x : x = (pread + k) % Size
    OBVIOUS
  <2>2. /\ x \in Index /\ Unread(x) /\ (pread + k + 1) % Size = After(x)
        /\ k + 1 < RbAvail(pread, pwrite) <=> After(x) # pwrite
    BY <1>0, <2>1, Counted DEF RingTypes
  <2>3. Linked(x)
    BY <1>0, <2>2 DEF StreamInv, Live
  <2>4. data[x][1] > 0
    BY <1>0, <2>2, <2>3, ByteParts DEF Linked, RingTypes
  <2> QED
    BY <2>1, <2>2, <2>3, <2>4 DEF Linked
<1> QED
  BY <1>1, <1>2 DEF RingCoherent

-----------------------------------------------------------------------------
(* In every reachable state the stream invariant of the section filter's   *)
(* data path holds: whatever the callback, the timer and the reader do.    *)
THEOREM ReadSafe == Spec => []ReadInv
BY InitOK, StepOK, PTL DEF Spec

(* The pointers stay inside the ring, dfil->todo inside the header and the *)
(* longest section, and whenever buffer.error is clear the ring holds      *)
(* consecutive bytes of the stream up to the end of a section, although    *)
(* the callback flushes it under a read that holds no lock.                *)
THEOREM CoherentAlways == Spec => []RingCoherent
BY ReadSafe, InvCoherent, PTL

(* A filter that is DONE or TIMEDOUT stores nothing more.                  *)
THEOREM StopsAlways == Spec => StopsStoring
<1>1. ReadInv /\ [Next]_vars => [fstate # "GO" => pwrite' = pwrite]_vars
  <2> SUFFICES ASSUME ReadInv, Next, fstate # "GO" PROVE pwrite' = pwrite
    OBVIOUS
  <2>1. CASE Callbacks
    BY <2>1 DEF Callbacks, CallbackLock, CallbackRest, CallbackFlush, CallbackError,
                CallbackWake, ring, ReadInv, WriterInv
  <2>2. CASE Timers
    BY <2>2 DEF Timers, TimerState, TimerWake, ring
  <2>3. CASE Reading
    BY <2>3 DEF Reading, ReadError, ReadEnter, ReadWouldBlock, ReadQueue, ReadLook, ReadWoken,
                ReadAvail, ReadBegin, ReadCopy, ReadWrap, ReadAdvance, HeaderResult, BodyResult,
                ring
  <2>4. CASE Input
    BY <2>4 DEF Input, Callback, TimerExpires, ReadCall, ReadSignal, ring
  <2> QED
    BY <2>1, <2>2, <2>3, <2>4 DEF Next
<1> QED
  BY <1>1, ReadSafe, PTL DEF Spec, StopsStoring

-----------------------------------------------------------------------------
(* One section per read, for a reader that keeps up.                       *)

(* What a read in mode {} has stored so far says where it stands.          *)
Standing(s, l, q) ==
  /\ s \in 1 .. nsec + 1 /\ l \in Lens /\ q \in 0 .. l
  /\ NextIs(s, l, q) /\ Held(s, l, q)
  /\ (rd.pc # "idle" /\ rd.fresh) => Len(rd.got) = q

(* KeptUp in these terms.                                                  *)
LEMMA Stands ==
  KeptUp <=> /\ error = "none" /\ timer = "off" /\ cb \notin {"flush", "error"}
             /\ Asked /\ OneSectionPerRead
             /\ \E s, l, q : Standing(s, l, q)
BY Zenon DEF KeptUp, Standing

(* A bound that grows.                                                     *)
LEMMA Widened ==
  ASSUME NEW a \in Nat, NEW b \in Nat, a <= b, NEW s \in 1 .. a + 1
  PROVE  s \in 1 .. b + 1
OBVIOUS

(* A step that copies nothing and stores nothing.                          *)
LEMMA SameStands ==
  ASSUME RingTypes, KeptUp, UNCHANGED <<todo, header, ret, data, pwrite, tail, error, timer>>,
         nsec' \in Nat, nsec <= nsec', cb' \notin {"flush", "error"},
         cb' = "rest" <=> cb = "rest", Cursor' = Cursor, Copied' = Copied,
         rd'.got = rd.got, rd'.fresh = rd.fresh, rd'.pc = "idle" <=> rd.pc = "idle", Asked'
  PROVE  KeptUp'
<1>1. PICK s, l, q : Standing(s, l, q)
  BY Stands
<1>2. s \in 1 .. nsec' + 1
  <2>1. s \in 1 .. nsec + 1 /\ nsec \in Nat
    BY <1>1 DEF Standing, RingTypes
  <2> QED
    BY <2>1, Widened, Zenon
<1>3. NextIs(s, l, q)'
  BY <1>1 DEF Standing, NextIs
<1>4. Held(s, l, q)'
  BY <1>1 DEF Standing, Held
<1>5. Standing(s, l, q)'
  BY <1>1, <1>2, <1>3, <1>4 DEF Standing
<1>6. OneSectionPerRead'
  BY Stands DEF OneSectionPerRead
<1>7. error' = "none" /\ timer' = "off"
  BY Stands
<1>8. KeptUp' <=> /\ error' = "none" /\ timer' = "off" /\ cb' \notin {"flush", "error"}
                  /\ Asked' /\ OneSectionPerRead'
                  /\ \E t, m, r : Standing(t, m, r)'
  BY Zenon DEF KeptUp, Standing
<1> QED
  BY <1>5, <1>6, <1>7, <1>8

(* Where the next byte is copied from.                                     *)
LEMMA CursorWhere ==
  ASSUME RingTypes, ReaderInv, StreamInv, Live
  PROVE  /\ Cursor \in Index /\ (Cursor # pwrite => Unread(Cursor))
         /\ rd.pc = "copy" /\ rd.i < (IF rd.split > 0 THEN rd.split ELSE rd.n)
              => Cursor = rd.p + rd.i /\ Cursor # pwrite
<1>0. /\ Size \in Nat /\ Size > 1 /\ pread \in Nat /\ pread < Size /\ pwrite \in Nat
      /\ pwrite < Size
  BY Lengths DEF RingTypes, Index
<1>1. CASE rd.pc # "copy"
  BY <1>0, <1>1 DEF Cursor, Unread, Index
<1>2. CASE rd.pc = "copy"
  <2>1. rd.n \in Nat /\ rd.i \in Nat /\ rd.split \in Nat
    BY ReadFields
  <2>2. rd.p = pread /\ rd.n <= RbAvail(pread, pwrite)
    BY <1>2 DEF StreamInv
  <2>3. IF rd.split > 0 THEN rd.p + rd.split = Size /\ rd.i <= rd.split /\ rd.split < rd.n
        ELSE rd.p + rd.n <= Size /\ rd.i <= rd.n
    BY <1>2 DEF ReaderInv
  <2>4. PICK a \in Nat : a = RbAvail(pread, pwrite)
                         /\ a = IF pread <= pwrite THEN pwrite - pread
                                ELSE pwrite - pread + Size
    <3>1. CASE pread <= pwrite
      BY <1>0, <3>1 DEF RbAvail
    <3>2. CASE ~(pread <= pwrite)
      BY <1>0, <3>2 DEF RbAvail
    <3> QED
      BY <3>1, <3>2
  <2>5. PICK i \in Nat : i = rd.i /\ i <= a /\ pread + i <= Size
    BY <1>0, <2>1, <2>2, <2>3, <2>4
  <2>6. Cursor = IF pread + i = Size THEN 0 ELSE pread + i
    BY <1>2, <2>2, <2>5 DEF Cursor
  <2>7. Cursor \in Index
    BY <1>0, <2>5, <2>6 DEF Index
  <2>8. Cursor # pwrite => Unread(Cursor)
    BY <1>0, <2>4, <2>5, <2>6 DEF Unread
  <2>9. ASSUME rd.i < (IF rd.split > 0 THEN rd.split ELSE rd.n)
        PROVE  Cursor = rd.p + rd.i /\ Cursor # pwrite
    <3>1. i < a /\ pread + i < Size
      BY <1>0, <2>1, <2>2, <2>3, <2>4, <2>5, <2>9
    <3>2. Cursor = pread + i
      BY <2>5, <2>6, <3>1, <1>0
    <3>3. Cursor # pwrite
      BY <1>0, <2>4, <2>5, <3>1, <3>2
    <3> QED
      BY <2>2, <2>5, <3>2, <3>3
  <2> QED
    BY <2>7, <2>8, <2>9
<1> QED
  BY <1>1, <1>2

(* A stored byte that is waited for is the one that comes next.            *)
LEMMA StoreStands ==
  ASSUME ReadInv, Live, NEW l \in Lens, NEW m \in Nat, 0 < m, m <= l,
         nsec' \in Nat, nsec' > 0, Store(End(nsec', l, m)), UNCHANGED rd,
         m <= RbFree(pread, pwrite), NEW s, NEW k, NEW q, NextIs(s, k, q),
         Cursor = pwrite => IF 0 < q /\ q < k THEN <<nsec', l - m + 1, l>> = <<s, q + 1, k>>
                            ELSE l - m + 1 = 1
  PROVE  NextIs(s, k, q)' /\ cb' \in {"rest", "wake"}
<1>0. /\ RingTypes /\ ReaderInv /\ StreamInv /\ pread \in Index /\ pwrite \in Index
      /\ RbFree(pread, pwrite) \in Nat
  BY Bounded DEF ReadInv, RingTypes
<1>1. PICK n \in 1 .. m : StoredEnd(nsec', l, m, n)
  BY <1>0, StoreDoes, Zenon
<1>2. /\ n \in Nat /\ 0 < n /\ n <= RbFree(pread, pwrite) /\ pwrite + n <= Size /\ pread' = pread
      /\ pwrite' = IF pwrite + n = Size THEN 0 ELSE pwrite + n
      /\ cb' \in {"rest", "wake"}
  BY <1>0, <1>1 DEF StoredEnd
<1>3. \A x \in Index : Unread(x)' <=> Unread(x) \/ (pwrite <= x /\ x < pwrite + n)
  BY <1>0, <1>2, Grown
<1>4. \A x \in Index : Unread(x) => ~(pwrite <= x /\ x < pwrite + n)
  BY <1>0, <1>2, Grown
<1>5. \A x \in Index : Unread(x)' => x # pwrite'
  BY SizeAssumption, <1>0, <1>2 DEF Unread, Index
<1>6. Cursor' = Cursor /\ Cursor \in Index /\ (Cursor # pwrite => Unread(Cursor))
  BY <1>0, <1>2, CursorWhere DEF Cursor
<1>7. CASE Cursor # pwrite
  <2>1. data'[Cursor] = data[Cursor] /\ Cursor # pwrite'
    BY <1>1, <1>3, <1>4, <1>5, <1>6, <1>7 DEF StoredEnd
  <2> QED
    BY <1>2, <1>6, <1>7, <2>1 DEF NextIs
<1>8. CASE Cursor = pwrite
  <2>1. pwrite <= pwrite /\ pwrite < pwrite + n
    BY <1>0, <1>2, SizeAssumption DEF Index
  <2>2. Cursor # pwrite'
    BY <1>0, <1>3, <1>5, <1>8, <2>1
  <2>3. data'[Cursor] = <<nsec', l - m + (pwrite - pwrite + 1), l>>
    BY <1>0, <1>1, <1>8, <2>1 DEF StoredEnd
  <2>4. pwrite - pwrite + 1 = 1
    BY <1>0, SizeAssumption DEF Index
  <2>5. data'[Cursor] = <<nsec', l - m + 1, l>>
    BY <2>3, <2>4, Zenon
  <2> QED
    BY <1>2, <1>6, <1>8, <2>2, <2>5 DEF NextIs
<1> QED
  BY <1>2, <1>7, <1>8

(* A section arrives and is stored, in one part or two.                    *)
LEMMA CallbackStands ==
  ASSUME ReadInv, mode = {}, KeptUp,
         Callback \/ (\E len \in Lens : CallbackLock(len)) \/ CallbackRest
  PROVE  KeptUp'
<1>0. /\ RingTypes /\ WriterInv /\ ReaderInv /\ StreamInv /\ Live /\ nsec \in Nat
      /\ error = "none" /\ timer = "off" /\ cb \notin {"flush", "error"}
      /\ Asked /\ OneSectionPerRead /\ UNCHANGED <<rd, todo, header, ret>>
  BY DEF ReadInv, KeptUp, Live, RingTypes, Callback, CallbackLock, CallbackRest
<1>1. Asked' /\ Copied' = Copied /\ rd'.got = rd.got /\ rd'.fresh = rd.fresh
  BY <1>0 DEF Asked, Copied
<1>2. PICK s, k, q : Standing(s, k, q)
  BY Stands
<1>3. ASSUME NEW l \in Lens, NEW m \in Nat, 0 < m, m <= l, nsec' \in Nat, nsec' > 0,
             nsec <= nsec', Store(End(nsec', l, m)), m <= RbFree(pread, pwrite), timer' = timer,
             Cursor = pwrite => IF 0 < q /\ q < k THEN <<nsec', l - m + 1, l>> = <<s, q + 1, k>>
                                ELSE l - m + 1 = 1
      PROVE  KeptUp'
  <2>1. NextIs(s, k, q) /\ UNCHANGED rd
    BY <1>0, <1>2 DEF Standing
  <2>2. NextIs(s, k, q)' /\ cb' \in {"rest", "wake"}
    BY <1>0, <1>3, <2>1, StoreStands, ZenonT(60)
  <2>3. error' = "none"
    BY <1>0, <1>3 DEF Store
  <2>4. Held(s, k, q)'
    BY <1>0, <1>1, <1>2 DEF Standing, Held
  <2>5. s \in 1 .. nsec' + 1 /\ k \in Lens /\ q \in 0 .. k
    <3>1. s \in 1 .. nsec + 1 /\ k \in Lens /\ q \in 0 .. k
      BY <1>2 DEF Standing
    <3> QED
      BY <1>0, <1>3, <3>1, Widened, Zenon
  <2>6. (rd'.pc # "idle" /\ rd'.fresh) => Len(rd'.got) = q
    BY <1>0, <1>2 DEF Standing
  <2>7. OneSectionPerRead'
    BY <1>0 DEF OneSectionPerRead
  <2> QED
    BY <1>0, <1>1, <1>3, <2>2, <2>3, <2>4, <2>5, <2>6, <2>7 DEF KeptUp
<1>a. ASSUME UNCHANGED <<ring, timer, tail>>, cb \in {"idle", "lock"}, cb' \in {"idle", "lock"},
             nsec' \in Nat, nsec <= nsec'
      PROVE  KeptUp'
  <2>1. UNCHANGED <<data, pread, pwrite, error, timer, tail>> /\ Cursor' = Cursor
    BY <1>0, <1>a DEF ring, Cursor
  <2> QED
    BY <1>0, <1>1, <1>a, <2>1, SameStands
<1>b. ASSUME Callback PROVE KeptUp'
  BY <1>0, <1>a, <1>b DEF Callback
<1>4. ASSUME NEW len \in Lens, CallbackLock(len) PROVE KeptUp'
  <2>0. cb = "lock" /\ nsec' = nsec + 1 /\ nsec' \in Nat /\ nsec' > 0 /\ nsec <= nsec'
    BY <1>0, <1>4 DEF CallbackLock
  <2>1. CASE cb' = "idle" /\ UNCHANGED <<ring, fstate, timer, tail>>
    BY <1>a, <2>0, <2>1
  <2>2. ASSUME len <= RbFree(pread, pwrite), Store(SectionBytes(nsec + 1, len)), timer' = timer
        PROVE  KeptUp'
    <3>1. len \in Nat /\ 0 < len /\ len <= len /\ len - len + 1 = 1
      BY Lengths
    <3>2. Store(End(nsec', len, len))
      <4>1. SectionBytes(nsec + 1, len) = End(nsec + 1, len, len)
        BY <3>1, WholeEnd, Zenon
      <4> QED
        BY <2>0, <2>2, <4>1, Zenon
    <3>3. Cursor = pwrite => ~(0 < q /\ q < k)
      BY <1>2, <2>0 DEF Standing, NextIs
    <3> QED
      BY <1>3, <2>0, <2>2, <3>1, <3>2, <3>3, Zenon
  <2> QED
    BY <1>0, <1>4, <2>1, <2>2 DEF CallbackLock, Room
<1>5. ASSUME CallbackRest PROVE KeptUp'
  <2>0. cb = "rest" /\ Store(tail) /\ nsec' = nsec /\ nsec <= nsec' /\ timer' = timer
    BY <1>0, <1>5 DEF CallbackRest
  <2>1. PICK l \in Lens : \E m \in 1 .. l - 1 :
          tail = [i \in 1 .. m |-> <<nsec, l - m + i, l>>]
    BY <1>0, <2>0 DEF WriterInv
  <2>2. PICK m \in 1 .. l - 1 : tail = [i \in 1 .. m |-> <<nsec, l - m + i, l>>]
    BY <2>1
  <2>3. l \in Nat /\ m \in Nat /\ 0 < m /\ m <= l /\ nsec' \in Nat /\ nsec' > 0
    BY <1>0, <2>0, Lengths DEF WriterInv
  <2>4. tail = End(nsec', l, m) /\ tail[1] = <<nsec', l - m + 1, l>> /\ Len(tail) = m
    BY <2>0, <2>2, <2>3 DEF End
  <2>5. Store(End(nsec', l, m))
    BY <2>0, <2>4, Zenon
  <2>6. m <= RbFree(pread, pwrite)
    BY <1>0, <2>4 DEF StreamInv
  <2>7. Cursor = pwrite => 0 < q /\ q < k /\ <<nsec', l - m + 1, l>> = <<s, q + 1, k>>
    BY <1>2, <2>0, <2>4 DEF Standing, NextIs
  <2>8. Cursor = pwrite => IF 0 < q /\ q < k THEN <<nsec', l - m + 1, l>> = <<s, q + 1, k>>
                           ELSE l - m + 1 = 1
    BY <2>7, Zenon
  <2> QED
    BY <1>3, <2>0, <2>3, <2>5, <2>6, <2>8, Zenon
<1> QED
  BY <1>b, <1>4, <1>5

(* The other steps of the callback; the timer is off.                      *)
LEMMA OthersStand ==
  ASSUME ReadInv, KeptUp,
         CallbackFlush \/ CallbackError \/ CallbackWake
           \/ TimerExpires \/ TimerState \/ TimerWake
  PROVE  KeptUp'
<1>0. /\ RingTypes /\ timer = "off" /\ cb \notin {"flush", "error"} /\ Asked
  BY DEF ReadInv, KeptUp
<1>1. CallbackWake
  BY <1>0 DEF CallbackFlush, CallbackError, TimerExpires, TimerState, TimerWake
<1>2. /\ UNCHANGED <<data, pread, pwrite, error, nsec, timer, tail, rd, todo, header, ret>>
      /\ cb = "wake" /\ cb' = "idle"
  BY <1>1 DEF CallbackWake, ring
<1>3. Asked' /\ Copied' = Copied /\ Cursor' = Cursor /\ nsec' \in Nat /\ nsec <= nsec'
  BY <1>0, <1>2 DEF Asked, Copied, Cursor, RingTypes
<1> QED
  BY <1>0, <1>2, <1>3, SameStands

(* The reader waits and moves on, without copying.                         *)
LEMMA WaitStands ==
  ASSUME ReadInv, mode = {}, KeptUp,
         ReadError \/ ReadEnter \/ ReadWouldBlock \/ ReadQueue \/ ReadLook \/ ReadWoken
           \/ ReadSignal \/ ReadAvail \/ ReadBegin
  PROVE  KeptUp'
<1>0. /\ RingTypes /\ ReaderInv /\ error = "none" /\ cb \notin {"flush", "error"} /\ Asked
      /\ rd \in ReadRecord /\ rd.want \in Nat /\ rd.left \in Nat
  BY ReadFields DEF ReadInv, KeptUp
<1>1. ASSUME rd' \in ReadRecord, rd'.got = rd.got, rd'.fresh = rd.fresh, rd'.big = rd.big,
             rd'.stage = rd.stage, rd'.count = rd.count, rd'.want = rd.want,
             rd'.left = rd.left, rd.pc \notin {"idle", "copy"}, rd'.pc # "idle",
             rd'.pc = "result" => rd.left = 0,
             rd'.pc = "copy" => rd'.p = pread /\ rd'.i = 0,
             UNCHANGED <<ring, side, todo, header, ret>>
      PROVE  KeptUp'
  <2>1. UNCHANGED <<data, pread, pwrite, error, nsec, timer, cb, tail>>
    BY <1>1 DEF ring, side
  <2>2. Asked'
    BY <1>0, <1>1 DEF Asked
  <2>3. Copied' = Copied
    BY <1>0, <1>1 DEF Copied
  <2>4. Cursor' = Cursor
    <3>1. pread \in Nat /\ pread < Size /\ Size \in Nat
      BY <1>0, Lengths DEF RingTypes, Index
    <3>2. CASE rd'.pc = "copy"
      <4>1. rd'.p + rd'.i = pread
        BY <1>1, <3>1, <3>2
      <4> QED
        BY <1>1, <3>1, <3>2, <4>1 DEF Cursor
    <3>3. CASE rd'.pc # "copy"
      BY <1>1, <2>1, <3>3 DEF Cursor
    <3> QED
      BY <3>2, <3>3
  <2>5. nsec' \in Nat /\ nsec <= nsec'
    BY <1>0, <2>1 DEF RingTypes
  <2> QED
    BY <1>0, <1>1, <2>1, <2>2, <2>3, <2>4, <2>5, SameStands
<1>2. ASSUME NEW c \in {"enter", "wait", "queued", "sleep", "checked", "result"},
             rd' = [rd EXCEPT !.pc = c], rd.pc \notin {"idle", "copy"},
             c = "result" => rd.left = 0, UNCHANGED <<ring, side, todo, header, ret>>
      PROVE  KeptUp'
  <2>1. /\ rd' \in ReadRecord /\ rd'.pc = c /\ rd'.stage = rd.stage /\ rd'.want = rd.want
        /\ rd'.left = rd.left /\ rd'.count = rd.count /\ rd'.got = rd.got
        /\ rd'.fresh = rd.fresh /\ rd'.big = rd.big
    BY <1>0, <1>2 DEF ReadRecord
  <2> QED
    BY <1>1, <1>2, <2>1
<1>3. CASE ReadError \/ ReadWouldBlock \/ ReadSignal
  BY <1>0, <1>3 DEF ReadError, ReadWouldBlock, ReadSignal
<1>4. CASE ReadEnter
  BY <1>2, <1>4 DEF ReadEnter
<1>5. CASE ReadQueue
  BY <1>2, <1>5 DEF ReadQueue
<1>6. CASE ReadLook
  BY <1>2, <1>6 DEF ReadLook
<1>7. CASE ReadWoken
  BY <1>2, <1>7 DEF ReadWoken
<1>8. CASE ReadAvail
  <2>1. PICK n \in Nat : n = Lesser(RbAvail(pread, pwrite), rd.left)
    BY <1>0, Bounded DEF Lesser, RingTypes
  <2>2. rd' = [rd EXCEPT !.pc = "read", !.n = n]
    BY <1>8, <2>1 DEF ReadAvail
  <2>3. /\ rd' \in ReadRecord /\ rd'.pc = "read" /\ rd'.stage = rd.stage /\ rd'.want = rd.want
        /\ rd'.left = rd.left /\ rd'.count = rd.count /\ rd'.got = rd.got
        /\ rd'.fresh = rd.fresh /\ rd'.big = rd.big
    BY <1>0, <2>2 DEF ReadRecord
  <2> QED
    BY <1>1, <1>8, <2>3 DEF ReadAvail
<1>9. CASE ReadBegin
  <2>1. PICK n \in Nat : n = RbSplit(pread, rd.n)
    <3>1. rd.n \in Nat /\ pread \in Nat /\ pread < Size /\ Size \in Nat
      BY <1>0, ReadFields, Lengths DEF RingTypes, Index
    <3>2. CASE pread + rd.n > Size
      BY <3>1, <3>2 DEF RbSplit
    <3>3. CASE ~(pread + rd.n > Size)
      BY <3>1, <3>3 DEF RbSplit
    <3> QED
      BY <3>2, <3>3
  <2>2. rd' = [rd EXCEPT !.pc = "copy", !.p = pread, !.split = n, !.i = 0]
    BY <1>9, <2>1 DEF ReadBegin
  <2>3. /\ rd' \in ReadRecord /\ rd'.pc = "copy" /\ rd'.stage = rd.stage /\ rd'.want = rd.want
        /\ rd'.left = rd.left /\ rd'.count = rd.count /\ rd'.got = rd.got
        /\ rd'.fresh = rd.fresh /\ rd'.big = rd.big /\ rd'.p = pread /\ rd'.i = 0
    BY <1>0, <2>2 DEF ReadRecord, RingTypes
  <2> QED
    BY <1>1, <1>9, <2>3 DEF ReadBegin
<1> QED
  BY <1>3, <1>4, <1>5, <1>6, <1>7, <1>8, <1>9

(* The read pointer follows what was copied.                               *)
LEMMA TakeStands ==
  ASSUME ReadInv, mode = {}, KeptUp, ReadWrap \/ ReadAdvance
  PROVE  KeptUp'
<1>0. /\ RingTypes /\ ReaderInv /\ StreamInv /\ Live
      /\ error = "none" /\ cb \notin {"flush", "error"} /\ Asked /\ rd.pc = "copy"
      /\ UNCHANGED <<data, pwrite, error, side, todo, header, ret>>
  BY DEF ReadInv, KeptUp, Live, ReadWrap, ReadAdvance
<1>1. /\ rd \in ReadRecord /\ rd.n \in Nat /\ rd.split \in Nat /\ rd.i \in Nat /\ rd.p \in Nat
      /\ rd.want \in Nat /\ rd.left \in Nat /\ Size \in Nat /\ Size > 1
      /\ rd.n <= rd.left /\ rd.p = pread /\ rd.p < Size
  BY <1>0, ReadFields, Lengths DEF ReaderInv, StreamInv
<1>2. IF rd.split > 0 THEN rd.p + rd.split = Size /\ rd.split < rd.n
      ELSE rd.p + rd.n <= Size
  BY <1>0 DEF ReaderInv
<1>3. UNCHANGED <<nsec, timer, cb, tail>> /\ nsec' \in Nat /\ nsec <= nsec'
  BY <1>0 DEF side, RingTypes
<1>4. CASE ReadWrap
  <2>0. rd.split > 0 /\ rd.i = rd.split /\ pread' = 0
    BY <1>4 DEF ReadWrap
  <2>1. PICK n \in Nat : n = rd.n - rd.split
    BY <1>1, <1>2, <2>0
  <2>2. PICK left \in Nat : left = rd.left - rd.split
    BY <1>1, <1>2, <2>0
  <2>3. rd' = [rd EXCEPT !.p = 0, !.i = 0, !.split = 0, !.n = n, !.left = left]
    BY <1>1, <1>4, <2>1, <2>2 DEF ReadWrap, ReadRecord
  <2>4. /\ rd'.pc = "copy" /\ rd'.stage = rd.stage /\ rd'.want = rd.want
        /\ rd'.left = left /\ rd'.count = rd.count /\ rd'.got = rd.got
        /\ rd'.fresh = rd.fresh /\ rd'.big = rd.big /\ rd'.p = 0 /\ rd'.i = 0
    BY <1>0, <1>1, <2>3 DEF ReadRecord
  <2>5. Asked'
    BY <1>0, <2>4 DEF Asked
  <2>6. Copied' = Copied
    <3>1. Copied = rd.want - rd.left + rd.split /\ Copied' = rd.want - left + 0
      BY <1>0, <2>0, <2>4 DEF Copied
    <3> QED
      BY <1>1, <2>2, <3>1
  <2>7. Cursor' = Cursor
    <3>1. Cursor = 0
      BY <1>0, <1>2, <2>0 DEF Cursor
    <3>2. Cursor' = 0
      BY <1>1, <2>4 DEF Cursor
    <3> QED
      BY <3>1, <3>2
  <2> QED
    BY <1>0, <1>3, <2>4, <2>5, <2>6, <2>7, SameStands
<1>5. CASE ReadAdvance
  <2>0. rd.split = 0 /\ rd.i = rd.n /\ pread' = RbAdvance(pread, rd.n)
    BY <1>5 DEF ReadAdvance
  <2>1. PICK left \in Nat : left = rd.left - rd.n
    BY <1>1
  <2>2. PICK c \in {"wait", "result"} : rd' = [rd EXCEPT !.left = left, !.pc = c]
                                        /\ (c = "result" => left = 0)
    <3>1. rd' = [rd EXCEPT !.left = left, !.pc = IF rd.left = rd.n THEN "result" ELSE "wait"]
      BY <1>1, <1>5, <2>1 DEF ReadAdvance, ReadRecord
    <3>2. rd.left = rd.n => left = 0
      BY <1>1, <2>1
    <3> QED
      BY <3>1, <3>2
  <2>3. /\ rd'.pc = c /\ rd'.stage = rd.stage /\ rd'.want = rd.want
        /\ rd'.left = left /\ rd'.count = rd.count /\ rd'.got = rd.got
        /\ rd'.fresh = rd.fresh /\ rd'.big = rd.big
    BY <1>0, <1>1, <2>2 DEF ReadRecord
  <2>4. Asked'
    BY <1>0, <2>2, <2>3 DEF Asked
  <2>5. Copied' = Copied
    <3>1. Copied = rd.want - rd.left + rd.n /\ Copied' = rd.want - left + 0
      BY <1>0, <2>0, <2>3 DEF Copied
    <3> QED
      BY <1>1, <2>1, <3>1
  <2>6. Cursor' = Cursor
    <3>1. PICK z \in 0 .. Size : z = pread + rd.n
      BY <1>1, <1>2, <2>0
    <3>2. Cursor = IF z = Size THEN 0 ELSE z
      BY <1>0, <1>1, <2>0, <3>1 DEF Cursor
    <3>3. Cursor' = z % Size
      BY <2>0, <2>3, <3>1 DEF Cursor, RbAdvance
    <3>4. z % Size = IF z = Size THEN 0 ELSE z
      BY <1>1
    <3> QED
      BY <3>2, <3>3, <3>4
  <2> QED
    BY <1>0, <1>3, <2>3, <2>4, <2>5, <2>6, SameStands
<1> QED
  BY <1>4, <1>5

(* What is left to store does not begin a section.                         *)
LEMMA TailFirst ==
  ASSUME WriterInv, cb = "rest"
  PROVE  tail[1][2] # 1
<1>1. PICK l \in Lens : \E m \in 1 .. l - 1 :
        tail = [k \in 1 .. m |-> <<nsec, l - m + k, l>>]
  BY DEF WriterInv
<1>2. PICK m \in 1 .. l - 1 : tail = [k \in 1 .. m |-> <<nsec, l - m + k, l>>]
  BY <1>1
<1>3. l \in Nat /\ m \in Nat /\ 0 < m /\ m < l
  BY Lengths
<1>4. tail[1] = <<nsec, l - m + 1, l>>
  BY <1>2, <1>3
<1> QED
  BY <1>3, <1>4

(* The byte that is copied next.                                           *)
LEMMA NextByte ==
  ASSUME ReadInv, KeptUp, ReadCopy
  PROVE  \E s, l, q : /\ Standing(s, l, q) /\ q < l
                      /\ data[rd.p + rd.i] = <<s, q + 1, l>>
<1>0. /\ RingTypes /\ ReaderInv /\ StreamInv /\ Live /\ Asked /\ rd.pc = "copy"
      /\ rd.i < (IF rd.split > 0 THEN rd.split ELSE rd.n)
  BY DEF ReadInv, KeptUp, Live, ReadCopy
<1>1. Cursor \in Index /\ Unread(Cursor) /\ Cursor # pwrite /\ Cursor = rd.p + rd.i
  BY <1>0, CursorWhere
<1>2. PICK x \in Index : x = Cursor
  BY <1>1
<1>3. data[x] \in Byte /\ data[x] # Junk /\ data[x][1] <= nsec
  BY <1>0, <1>1, <1>2 DEF StreamInv, Linked, RingTypes
<1>4. PICK s, l, q : Standing(s, l, q)
  BY Stands
<1>5. s \in 1 .. nsec + 1 /\ l \in Lens /\ q \in 0 .. l /\ NextIs(s, l, q) /\ Held(s, l, q)
  BY <1>4 DEF Standing
<1>6. /\ l \in Nat /\ HdrLen \in Nat /\ HdrLen < l /\ todo \in Int /\ rd.want \in Nat
      /\ rd.left \in Nat /\ rd.i \in Nat /\ rd.n \in Nat /\ rd.split \in Nat
  BY <1>0, <1>5, Lengths, ReadFields
<1>7. PICK c \in Nat : c = Copied /\ c < rd.want
  <2>1. rd.i < rd.left /\ rd.left <= rd.want
    BY <1>0, <1>6 DEF ReaderInv
  <2>2. Copied = rd.want - rd.left + rd.i
    BY <1>0 DEF Copied
  <2> QED
    BY <1>6, <2>1, <2>2
<1>8. q < l
  <2>1. CASE todo > 0
    <3>1. q = l - todo + c /\ rd.want <= todo
      BY <1>0, <1>5, <1>7, <2>1 DEF Held, ReaderInv, Asked
    <3> QED
      BY <1>6, <1>7, <3>1
  <2>2. CASE ~(todo > 0)
    <3>1. q = c - todo /\ rd.want <= HdrLen + todo
      BY <1>0, <1>5, <1>7, <2>2 DEF Held, ReaderInv, Asked
    <3> QED
      BY <1>6, <1>7, <3>1
  <2> QED
    BY <2>1, <2>2
<1>9. CASE q > 0
  <2>1. data[x] = <<s, q + 1, l>>
    BY <1>1, <1>2, <1>5, <1>8, <1>9 DEF NextIs
  <2> QED
    BY <1>1, <1>2, <1>4, <1>8, <2>1
<1>10. CASE ~(q > 0)
  <2>1. q = 0
    BY <1>5, <1>6, <1>10
  <2>2. data[x][2] = 1
    BY <1>1, <1>2, <1>5, <2>1 DEF NextIs
  <2>3. PICK t \in Nat, m \in Lens : t > 0 /\ data[x] = <<t, 1, m>> /\ t <= nsec
    BY <1>3, <2>2, ByteParts DEF Byte
  <2>4. todo = 0 /\ c = 0 /\ Len(rd.got) = 0
    <3>1. ~(todo > 0) /\ 0 = c - todo
      BY <1>5, <1>7, <2>1 DEF Held
    <3>2. Len(rd.got) \in Nat /\ Len(rd.got) <= 0
      BY <1>0, <1>5, <2>1, ReadFields DEF Held
    <3> QED
      BY <1>6, <3>1, <3>2
  <2>5. Held(t, m, 0)
    <3>1. 0 = Copied - todo
      BY <1>7, <2>4
    <3>2. \A k \in 1 .. -todo : FALSE
      BY <2>4
    <3>3. \A j \in 1 .. Len(rd.got) : FALSE
      BY <2>4
    <3>4. Copied <= Len(rd.got) /\ Len(rd.got) <= 0
      BY <1>7, <2>4
    <3> QED
      BY <2>4, <3>1, <3>2, <3>3, <3>4 DEF Held
  <2>6. NextIs(t, m, 0)
    BY <1>1, <1>2, <2>2 DEF NextIs
  <2>7. t \in 1 .. nsec + 1 /\ 0 \in 0 .. m /\ 0 < m
    BY <1>0, <2>3, Lengths DEF RingTypes
  <2>8. Standing(t, m, 0)
    BY <2>3, <2>4, <2>5, <2>6, <2>7 DEF Standing
  <2>9. data[rd.p + rd.i] = <<t, 0 + 1, m>>
    BY <1>1, <1>2, <2>3
  <2> QED
    BY <2>7, <2>8, <2>9
<1> QED
  BY <1>9, <1>10

(* One byte is copied.                                                     *)
LEMMA CopyStands ==
  ASSUME ReadInv, mode = {}, KeptUp, ReadCopy
  PROVE  KeptUp'
<1>0. /\ RingTypes /\ WriterInv /\ ReaderInv /\ StreamInv /\ Live /\ rd.pc = "copy"
      /\ rd.i < (IF rd.split > 0 THEN rd.split ELSE rd.n)
      /\ error = "none" /\ timer = "off" /\ cb \notin {"flush", "error"} /\ Asked
      /\ OneSectionPerRead
      /\ UNCHANGED <<data, pread, pwrite, error, nsec, timer, cb, tail, todo, header, ret>>
  BY DEF ReadInv, KeptUp, Live, ReadCopy, ring, side
<1>1. /\ rd \in ReadRecord /\ rd.i \in Nat /\ rd.p \in Nat /\ rd.got \in Seq(Byte)
      /\ rd.want \in Nat /\ rd.left \in Nat /\ Size \in Nat /\ Len(rd.got) \in Nat
      /\ todo \in Int
  BY <1>0, ReadFields, Lengths
<1>2. PICK s, l, q : Standing(s, l, q) /\ q < l /\ data[rd.p + rd.i] = <<s, q + 1, l>>
  BY NextByte
<1>3. /\ s \in 1 .. nsec + 1 /\ l \in Lens /\ q \in 0 .. l /\ Held(s, l, q) /\ l \in Nat
      /\ q \in Nat
  BY <1>2, Lengths DEF Standing
<1>4. PICK x \in Index : x = rd.p + rd.i /\ Unread(x) /\ Linked(x) /\ data[x] = <<s, q + 1, l>>
  BY <1>0, <1>2, CursorWhere DEF StreamInv
<1>5. PICK b \in Byte : b = <<s, q + 1, l>> /\ b = data[rd.p + rd.i]
  BY <1>0, <1>4 DEF RingTypes
<1>6. PICK g \in Seq(Byte) : /\ g = Append(rd.got, b) /\ Len(g) = Len(rd.got) + 1
                             /\ \A j \in 1 .. Len(rd.got) : g[j] = rd.got[j]
                             /\ g[Len(rd.got) + 1] = b
  <2>1. Append(rd.got, b) \in Seq(Byte) /\ Len(Append(rd.got, b)) = Len(rd.got) + 1
    BY <1>1
  <2>2. \A j \in 1 .. Len(rd.got) : Append(rd.got, b)[j] = rd.got[j]
    BY <1>1
  <2>3. Append(rd.got, b)[Len(rd.got) + 1] = b
    BY <1>1
  <2> QED
    BY <2>1, <2>2, <2>3
<1>a. PICK i \in Nat : i = rd.i + 1
  BY <1>1
<1>7. rd' = [rd EXCEPT !.i = i, !.got = g]
  BY <1>1, <1>5, <1>6, <1>a DEF ReadCopy
<1>8. /\ rd'.pc = "copy" /\ rd'.p = rd.p /\ rd'.i = i /\ rd'.stage = rd.stage
      /\ rd'.want = rd.want /\ rd'.left = rd.left /\ rd'.count = rd.count /\ rd'.got = g
      /\ rd'.fresh = rd.fresh /\ rd'.big = rd.big
  BY <1>0, <1>1, <1>7 DEF ReadRecord
<1>9. Asked' /\ OneSectionPerRead'
  BY <1>0, <1>8 DEF Asked, OneSectionPerRead
<1>10. Cursor' = After(x) /\ After(x) \in Index
  <2>1. rd'.p + rd'.i = x + 1 /\ x \in Nat /\ x < Size
    <3>1. x = rd.p + rd.i /\ rd'.p = rd.p /\ rd'.i = rd.i + 1
      BY <1>4, <1>8, <1>a
    <3> QED
      BY <1>1, <3>1 DEF Index
  <2> QED
    BY <1>1, <1>8, <2>1 DEF Cursor, After, Index
<1>11. NextIs(s, l, q + 1)'
  <2>1. data'[After(x)] = data[After(x)] /\ pwrite' = pwrite /\ cb' = cb /\ tail' = tail
    BY <1>0
  <2>2. CASE After(x) # pwrite
    <3>1. Follows(<<s, q + 1, l>>, data[After(x)])
      BY <1>4, <2>2 DEF Linked
    <3>2. IF q + 1 < l THEN data[After(x)] = <<s, q + 1 + 1, l>> ELSE data[After(x)][2] = 1
      BY <1>2, <1>3, <3>1 DEF Follows
    <3> QED
      BY <1>3, <1>10, <2>1, <2>2, <3>2 DEF NextIs
  <2>3. CASE After(x) = pwrite /\ cb = "rest"
    <3>1. Follows(<<s, q + 1, l>>, tail[1])
      BY <1>4, <2>3 DEF Linked
    <3>2. q + 1 < l /\ tail[1] = <<s, q + 1 + 1, l>>
      BY <1>0, <1>2, <1>3, <2>3, <3>1, TailFirst DEF Follows
    <3> QED
      BY <1>3, <1>10, <2>1, <2>3, <3>2 DEF NextIs
  <2>4. CASE After(x) = pwrite /\ cb # "rest"
    <3>1. q + 1 = l
      BY <1>4, <2>4 DEF Linked
    <3> QED
      BY <1>3, <1>10, <2>1, <2>4, <3>1 DEF NextIs
  <2> QED
    BY <2>2, <2>3, <2>4
<1>12. Held(s, l, q + 1)'
  <2>1. PICK c \in Int : Copied = c /\ Copied' = c + 1
    <3>1. Copied = rd.want - rd.left + rd.i /\ Copied' = rd.want - rd.left + i
      BY <1>0, <1>8 DEF Copied
    <3> QED
      BY <1>1, <1>a, <3>1
  <2>2. PICK r \in Nat : r = q + 1
    BY <1>3
  <2>3. IF todo' > 0 THEN r = l - todo' + Copied' /\ r > 0
        ELSE r = Copied' - todo' /\ \A k \in 1 .. -todo' : header'[k] = <<s, k, l>>
    BY <1>0, <1>1, <1>3, <2>1, <2>2 DEF Held
  <2>4. Len(g) <= r /\ Copied' <= Len(g)
    <3>1. c <= Len(rd.got) /\ Len(rd.got) <= q
      BY <1>3, <2>1 DEF Held
    <3> QED
      BY <1>1, <1>3, <1>6, <2>1, <2>2, <3>1
  <2>5. ASSUME NEW j \in 1 .. Len(g) PROVE g[j] = <<s, r - Len(g) + j, l>>
    <3>1. CASE j \in 1 .. Len(rd.got)
      <4>1. g[j] = <<s, q - Len(rd.got) + j, l>>
        BY <1>3, <1>6, <3>1 DEF Held
      <4>2. q - Len(rd.got) + j = r - Len(g) + j
        BY <1>1, <1>3, <1>6, <2>2, <3>1
      <4> QED
        BY <4>1, <4>2
    <3>2. CASE j \notin 1 .. Len(rd.got)
      <4>1. j = Len(rd.got) + 1 /\ r - Len(g) + j = q + 1
        <5>1. Len(rd.got) \in Nat /\ Len(g) = Len(rd.got) + 1 /\ q \in Nat
          BY <1>1, <1>3, <1>6
        <5>2. j = Len(rd.got) + 1
          BY <3>2, <5>1
        <5>3. Len(g) = j /\ j \in Nat
          BY <5>1, <5>2
        <5>4. r - j + j = r
          BY <5>3
        <5> QED
          BY <2>2, <5>2, <5>3, <5>4, Zenon
      <4> QED
        BY <1>5, <1>6, <4>1
    <3> QED
      BY <3>1, <3>2
  <2>6. /\ Copied' <= Len(rd'.got) /\ Len(rd'.got) <= r
        /\ \A j \in 1 .. Len(rd'.got) : rd'.got[j] = <<s, r - Len(rd'.got) + j, l>>
    BY <1>8, <2>4, <2>5, Zenon
  <2>7. Held(s, l, r)'
    BY <2>3, <2>6, Zenon DEF Held
  <2> QED
    BY <2>2, <2>7
<1>13. q + 1 \in 0 .. l /\ (rd'.fresh => Len(rd'.got) = q + 1)
  BY <1>0, <1>2, <1>3, <1>6, <1>8 DEF Standing
<1> QED
  BY <1>0, <1>3, <1>9, <1>11, <1>12, <1>13 DEF KeptUp

(* A system call begins.                                                   *)
LEMMA CallStands ==
  ASSUME ReadInv, mode = {}, KeptUp, NEW count \in Counts, ReadCall(count)
  PROVE  KeptUp'
<1>0. /\ ReaderInv /\ error = "none" /\ timer = "off" /\ cb \notin {"flush", "error"}
      /\ OneSectionPerRead /\ rd.pc = "idle" /\ rd = Quiet
      /\ UNCHANGED <<data, pread, pwrite, error, nsec, timer, cb, tail, todo, header, ret>>
  BY DEF ReadInv, KeptUp, Asked, ReadCall, ring, side
<1>1. /\ todo \in Int /\ -HdrLen < todo /\ todo <= Big /\ count \in Nat /\ HdrLen \in Nat
      /\ Big \in Nat
  BY <1>0, ReadFields, Lengths
<1>2. PICK rest \in Nat : rest = IF todo <= 0 THEN HdrLen + todo ELSE todo
  BY <1>1
<1>3. PICK want \in Nat : want = Lesser(count, rest)
  BY <1>1, <1>2 DEF Lesser
<1>4. PICK stage \in {"header", "body"} : stage = IF todo <= 0 THEN "header" ELSE "body"
  OBVIOUS
<1>5. PICK big \in BOOLEAN : big = (count = Big)
  BY Zenon
<1>6. PICK fresh \in BOOLEAN : fresh = (todo = 0)
  BY Zenon
<1>7. rd' = [Quiet EXCEPT !.pc = "enter", !.stage = stage, !.count = count, !.want = want,
                          !.left = want, !.big = big, !.fresh = fresh]
  BY <1>2, <1>3, <1>4, <1>5, <1>6, Zenon DEF ReadCall
<1>8. /\ rd'.pc = "enter" /\ rd'.stage = stage /\ rd'.count = count
      /\ rd'.want = want /\ rd'.left = want /\ rd'.got = << >> /\ rd'.big = big
      /\ rd'.fresh = fresh
  BY <1>7 DEF Quiet
<1>9. Cursor' = Cursor /\ Copied = 0 /\ Copied' = 0 /\ Len(rd'.got) = 0 /\ rd.got = << >>
  <2>1. Copied = 0 - 0 + 0 /\ Copied' = want - want + 0 /\ rd.got = << >>
    BY <1>0, <1>8 DEF Copied, Quiet
  <2>2. Cursor' = Cursor
    BY <1>0, <1>8 DEF Cursor
  <2> QED
    BY <1>8, <2>1, <2>2
<1>10. Asked'
  <2>1. todo <= 0 => want = Lesser(count, HdrLen + todo)
    BY <1>2, <1>3
  <2>2. big => IF todo > 0 THEN want = todo ELSE count = Big
    <3>1. big => count = Big
      BY <1>5, Zenon
    <3> QED
      BY <1>1, <1>2, <1>3, <3>1 DEF Lesser
  <2>3. stage = IF todo > 0 THEN "body" ELSE "header"
    BY <1>1, <1>4
  <2> QED
    BY <1>0, <1>8, <2>1, <2>2, <2>3 DEF Asked
<1>11. PICK s, l, q : Standing(s, l, q)
  BY Stands
<1>12. NextIs(s, l, q)'
  BY <1>0, <1>9, <1>11 DEF Standing, NextIs
<1>13. Held(s, l, q)' /\ (fresh => q = 0)
  <2>1. /\ IF todo > 0 THEN q = l - todo + 0 /\ q > 0
           ELSE q = 0 - todo /\ \A k \in 1 .. -todo : header[k] = <<s, k, l>>
        /\ 0 <= q
    BY <1>9, <1>11 DEF Standing, Held
  <2>2. fresh => q = 0
    <3>1. fresh => todo = 0
      BY <1>6, Zenon
    <3> QED
      BY <2>1, <3>1
  <2>3. \A j \in 1 .. Len(rd'.got) : rd'.got[j] = <<s, q - Len(rd'.got) + j, l>>
    BY <1>9
  <2> QED
    BY <1>0, <1>9, <2>1, <2>2, <2>3 DEF Held
<1>14. OneSectionPerRead'
  BY <1>0 DEF OneSectionPerRead
<1>15. s \in 1 .. nsec' + 1 /\ l \in Lens /\ q \in 0 .. l
  BY <1>0, <1>11 DEF Standing
<1> QED
  BY <1>0, <1>8, <1>9, <1>10, <1>12, <1>13, <1>14, <1>15 DEF KeptUp

(* A read that returns no error ends where the reader stands.              *)
LEMMA QuietStands ==
  ASSUME RingTypes, KeptUp, rd.pc = "result", rd' = Quiet,
         UNCHANGED <<data, pread, pwrite, error, nsec, timer, cb, tail>>,
         NEW s, NEW l \in Lens, NEW q \in Nat, s \in 1 .. nsec + 1, q <= l, NextIs(s, l, q),
         IF todo' > 0 THEN q = l - todo' /\ q > 0
         ELSE q = 0 - todo' /\ \A k \in 1 .. -todo' : header'[k] = <<s, k, l>>,
         todo' \in Int, OneSectionPerRead'
  PROVE  KeptUp'
<1>1. /\ rd'.pc = "idle" /\ rd'.got = << >> /\ rd'.want = 0 /\ rd'.left = 0
  BY DEF Quiet
<1>2. Cursor' = Cursor
  BY <1>1 DEF Cursor
<1>3. Copied' = 0 /\ Len(rd'.got) = 0
  BY <1>1 DEF Copied
<1>4. NextIs(s, l, q)'
  BY <1>2 DEF NextIs
<1>5. Held(s, l, q)'
  <2>1. IF todo' > 0 THEN q = l - todo' + Copied' /\ q > 0
        ELSE q = Copied' - todo' /\ \A k \in 1 .. -todo' : header'[k] = <<s, k, l>>
    BY <1>3, Lengths
  <2>2. /\ Copied' <= Len(rd'.got) /\ Len(rd'.got) <= q
        /\ \A j \in 1 .. Len(rd'.got) : rd'.got[j] = <<s, q - Len(rd'.got) + j, l>>
    BY <1>3
  <2> QED
    BY <2>1, <2>2, Zenon DEF Held
<1>6. Asked'
  BY <1>1 DEF Asked
<1>7. error' = "none" /\ timer' = "off" /\ cb' \notin {"flush", "error"}
  BY DEF KeptUp
<1>8. s \in 1 .. nsec' + 1 /\ l \in Lens /\ q \in 0 .. l
  BY Lengths
<1> QED
  BY <1>1, <1>4, <1>5, <1>6, <1>7, <1>8 DEF KeptUp

(* What the user has is the end of a section.                              *)
EndFrom(g, s, l, k) ==
  Len(g) = l - k + 1 /\ \A j \in 1 .. l : k <= j => g[j - k + 1] = <<s, j, l>>

EndSeq(g, s, l, k) ==
  /\ g # << >> /\ g[1][1] = s /\ g[1][3] = l
  /\ g = SubSeq(SectionBytes(s, l), k, l)

(* Byte by byte, and as OneSectionPerRead says it.                         *)
LEMMA WholeRead ==
  ASSUME NEW s, NEW l \in Lens, NEW k \in Nat, 0 < k, k <= l,
         NEW g \in Seq(Byte), EndFrom(g, s, l, k)
  PROVE  EndSeq(g, s, l, k)
<1>0. l \in Nat
  BY Lengths
<1>a. Len(g) = l - k + 1 /\ \A j \in 1 .. l : k <= j => g[j - k + 1] = <<s, j, l>>
  BY DEF EndFrom
<1>1. g[1] = <<s, k, l>>
  <2>1. k \in 1 .. l /\ k <= k /\ k - k + 1 = 1
    BY <1>0
  <2>2. g[k - k + 1] = <<s, k, l>>
    BY <1>a, <2>1, Zenon
  <2> QED
    BY <2>1, <2>2
<1>2. g # << >>
  <2>1. Len(g) # 0
    BY <1>0, <1>a
  <2> QED
    BY <2>1
<1>3. PICK e : e = SectionBytes(s, l)
  OBVIOUS
<1>4. /\ e \in Seq({s} \X Nat \X {l}) /\ Len(e) = l
      /\ \A i \in 1 .. l : e[i] = <<s, i, l>>
  BY <1>0, <1>3 DEF SectionBytes
<1>5. SubSeq(e, k, l) = [i \in 1 .. l - k + 1 |-> e[k + i - 1]]
  BY <1>0, <1>4
<1>6. \A i \in 1 .. l - k + 1 : e[k + i - 1] = g[i]
  <2> SUFFICES ASSUME NEW i \in 1 .. l - k + 1 PROVE e[k + i - 1] = g[i]
    OBVIOUS
  <2>1. k + i - 1 \in 1 .. l /\ k <= k + i - 1 /\ k + i - 1 - k + 1 = i
    BY <1>0
  <2>2. PICK j \in 1 .. l : j = k + i - 1 /\ k <= j /\ j - k + 1 = i
    BY <2>1
  <2>3. e[j] = <<s, j, l>> /\ g[j - k + 1] = <<s, j, l>>
    BY <1>4, <1>a, <2>2
  <2> QED
    BY <2>2, <2>3
<1>7. g = [i \in 1 .. l - k + 1 |-> g[i]]
  BY <1>a
<1>8. g = SubSeq(e, k, l)
  BY <1>5, <1>6, <1>7
<1> QED
  BY <1>1, <1>2, <1>3, <1>8 DEF EndSeq

(* The body part is over.                                                  *)
LEMMA BodyStands ==
  ASSUME ReadInv, mode = {}, KeptUp, BodyResult
  PROVE  KeptUp'
<1>0. /\ RingTypes /\ ReaderInv /\ Asked /\ rd.pc = "result" /\ rd.stage = "body" /\ rd' = Quiet
      /\ todo' = todo - (rd.want - rd.left)
      /\ ret' = [err |-> "none", got |-> rd.got, big |-> rd.big, fresh |-> rd.fresh]
      /\ UNCHANGED <<data, pread, pwrite, error, nsec, timer, cb, tail, header>>
  BY DEF ReadInv, KeptUp, BodyResult, Return, ring, side
<1>1. /\ todo \in Int /\ rd.want \in Nat /\ rd.left = 0 /\ todo > 0 /\ rd.want <= todo
      /\ rd.got \in Seq(Byte) /\ Len(rd.got) \in Nat
  BY <1>0, ReadFields DEF Asked, ReaderInv
<1>2. PICK s, l, q : Standing(s, l, q)
  BY Stands
<1>3. /\ s \in 1 .. nsec + 1 /\ l \in Lens /\ q \in 0 .. l /\ NextIs(s, l, q) /\ Held(s, l, q)
      /\ l \in Nat /\ q \in Nat /\ q <= l /\ l <= Big /\ Big \in Nat /\ s \in Nat /\ s > 0
  <2>1. s \in 1 .. nsec + 1 /\ l \in Lens /\ q \in 0 .. l /\ NextIs(s, l, q) /\ Held(s, l, q)
    BY <1>2 DEF Standing
  <2>2. nsec \in Nat
    BY <1>0 DEF RingTypes
  <2> QED
    BY <2>1, <2>2, Lengths
<1>4. /\ q = l - todo + rd.want /\ q > 0 /\ todo' = todo - rd.want /\ todo' \in Int
      /\ rd.want <= Len(rd.got)
  <2>1. Copied = rd.want
    <3>1. Copied = rd.want - 0 + 0
      BY <1>0, <1>1 DEF Copied
    <3> QED
      BY <1>1, <3>1
  <2>2. q = l - todo + Copied /\ q > 0 /\ Copied <= Len(rd.got)
    BY <1>1, <1>3 DEF Held
  <2> QED
    BY <1>0, <1>1, <2>1, <2>2
<1>5. OneSectionPerRead'
  <2>0. ret'.got = rd.got /\ ret'.big = rd.big /\ ret'.fresh = rd.fresh
    BY <1>0
  <2> SUFFICES ASSUME rd.big PROVE OneSectionPerRead'
    BY <2>0, Zenon DEF OneSectionPerRead
  <2>1. rd.want = todo /\ q = l
    BY <1>0, <1>1, <1>3, <1>4 DEF Asked
  <2>2. PICK n \in Nat : n = Len(rd.got)
    BY <1>1
  <2>3. n <= l /\ \A j \in 1 .. n : rd.got[j] = <<s, l - n + j, l>>
    BY <1>3, <2>1, <2>2 DEF Held
  <2>4. 0 < n
    BY <1>1, <1>4, <2>1, <2>2
  <2>5. rd.fresh => n = l
    BY <1>0, <1>2, <2>1, <2>2 DEF Standing
  <2>a. PICK k \in Nat : /\ k = l - n + 1 /\ 0 < k /\ k <= l /\ k \in 1 .. Big /\ n = l - k + 1
                         /\ n = l => k = 1
    BY <1>3, <2>3, <2>4
  <2>b. ASSUME NEW j \in 1 .. l, k <= j PROVE rd.got[j - k + 1] = <<s, j, l>>
    <3>1. PICK i \in 1 .. n : i = j - k + 1 /\ l - n + i = j
      BY <1>3, <2>3, <2>4, <2>a, <2>b
    <3> QED
      BY <2>3, <3>1
  <2>6. /\ rd.got # << >> /\ rd.got[1][1] = s /\ rd.got[1][3] = l
        /\ rd.got = SubSeq(SectionBytes(s, l), k, l)
    <3>1. Len(rd.got) = l - k + 1
      BY <2>2, <2>a
    <3>2. \A j \in 1 .. l : k <= j => rd.got[j - k + 1] = <<s, j, l>>
      BY <2>b
    <3>3. l \in Lens /\ k \in Nat /\ 0 < k /\ k <= l /\ rd.got \in Seq(Byte)
      BY <1>1, <1>3, <2>a
    <3>4. EndFrom(rd.got, s, l, k)
      BY <3>1, <3>2, Zenon DEF EndFrom
    <3>5. EndSeq(rd.got, s, l, k)
      BY <3>3, <3>4, WholeRead, Zenon
    <3> QED
      BY <3>5, Zenon DEF EndSeq
  <2>7. (rd.fresh => k = 1) /\ Len(rd.got) = l - k + 1
    BY <2>2, <2>5, <2>a
  <2>8. \E i \in 1 .. Big :
          /\ s > 0 /\ Len(rd.got) = l - i + 1
          /\ rd.got = SubSeq(SectionBytes(s, l), i, l)
          /\ rd.fresh => i = 1
    BY <1>3, <2>a, <2>6, <2>7, Zenon
  <2> QED
    BY <2>0, <2>6, <2>8, Zenon DEF OneSectionPerRead
<1>6. CASE todo' > 0
  <2>1. q = l - todo' /\ q > 0
    BY <1>1, <1>3, <1>4
  <2> QED
    BY <1>0, <1>3, <1>4, <1>5, <1>6, <2>1, QuietStands
<1>7. CASE ~(todo' > 0)
  <2>1. todo' = 0 /\ q = l
    BY <1>1, <1>3, <1>4, <1>7
  <2>2. NextIs(s, l, 0)
    BY <1>3, <2>1 DEF NextIs
  <2>3. 0 \in Nat /\ 0 <= l /\ 0 = 0 - todo' /\ \A k \in 1 .. -todo' : header'[k] = <<s, k, l>>
    BY <1>3, <2>1
  <2> QED
    BY <1>0, <1>3, <1>4, <1>5, <1>7, <2>2, <2>3, QuietStands
<1> QED
  BY <1>6, <1>7

(* The header part is over.                                                *)
LEMMA HeaderStands ==
  ASSUME ReadInv, mode = {}, KeptUp, HeaderResult
  PROVE  KeptUp'
<1>0. /\ RingTypes /\ ReaderInv /\ Asked /\ rd.pc = "result" /\ rd.stage = "header"
      /\ error = "none" /\ timer = "off" /\ cb \notin {"flush", "error"} /\ OneSectionPerRead
      /\ UNCHANGED <<data, pread, pwrite, error, nsec, timer, cb, tail>>
  BY DEF ReadInv, KeptUp, HeaderResult, ring, side
<1>1. /\ rd \in ReadRecord /\ rd.got \in Seq(Byte) /\ rd.want \in Nat /\ rd.left = 0
      /\ rd.count \in Nat /\ rd.want <= rd.count /\ todo \in Int /\ todo <= 0
      /\ -HdrLen < todo /\ HdrLen \in Nat /\ HdrLen > 0 /\ Big \in Nat
      /\ rd.want = Lesser(rd.count, HdrLen + todo) /\ rd.want <= HdrLen + todo
  BY <1>0, ReadFields, Lengths DEF Asked, ReaderInv
<1>2. PICK s, l, q : Standing(s, l, q)
  BY Stands
<1>3. /\ s \in 1 .. nsec + 1 /\ l \in Lens /\ q \in 0 .. l /\ NextIs(s, l, q) /\ Held(s, l, q)
      /\ l \in Nat /\ q \in Nat /\ q <= l /\ HdrLen < l /\ l <= Big
  <2>1. s \in 1 .. nsec + 1 /\ l \in Lens /\ q \in 0 .. l /\ NextIs(s, l, q) /\ Held(s, l, q)
    BY <1>2 DEF Standing
  <2> QED
    BY <2>1, Lengths
<1>4. PICK result \in Nat : /\ result = rd.want /\ result = rd.want - rd.left
                            /\ Copied = result /\ Len(rd.got) = result
  <2>1. Copied = rd.want - 0 + 0 /\ Len(rd.got) = rd.want - 0 + 0 /\ rd.want - rd.left = rd.want - 0
    BY <1>0, <1>1 DEF Copied, ReaderInv
  <2> QED
    BY <1>1, <2>1
<1>5. /\ q = result - todo /\ \A k \in 1 .. -todo : header[k] = <<s, k, l>>
      /\ \A j \in 1 .. result : rd.got[j] = <<s, q - result + j, l>>
  BY <1>1, <1>3, <1>4 DEF Held
<1>6. PICK h : h = [k \in 1 .. HdrLen |-> IF k > -todo /\ k <= result - todo
                                          THEN rd.got[k + todo] ELSE header[k]]
  OBVIOUS
<1>7. \A k \in 1 .. q : h[k] = <<s, k, l>>
  <2> SUFFICES ASSUME NEW k \in 1 .. q PROVE h[k] = <<s, k, l>>
    OBVIOUS
  <2>1. k \in 1 .. HdrLen /\ k <= result - todo
    BY <1>1, <1>3, <1>4, <1>5
  <2>2. CASE k > -todo
    <3>1. PICK j \in 1 .. result : j = k + todo /\ q - result + j = k
      <4>1. q = result - todo /\ todo \in Int /\ k \in Nat /\ k <= result - todo
        BY <1>1, <1>3, <1>5, <2>1
      <4>2. k + todo \in 1 .. result /\ q - result + (k + todo) = k
        BY <2>2, <4>1
      <4> QED
        BY <4>2
    <3>2. h[k] = rd.got[j]
      BY <1>6, <2>1, <2>2, <3>1
    <3> QED
      BY <1>5, <3>1, <3>2
  <2>3. CASE ~(k > -todo)
    <3>1. k \in 1 .. -todo
      BY <1>1, <2>1, <2>3
    <3>2. h[k] = header[k]
      BY <1>6, <2>1, <2>3
    <3> QED
      BY <1>5, <3>1, <3>2
  <2> QED
    BY <2>2, <2>3
<1>8. PICK count \in Nat : count = rd.count - result
  BY <1>1, <1>4
<1>9. /\ header' = h
      /\ IF todo - result > -HdrLen
         THEN todo' = todo - result /\ Return("none", rd.got)
         ELSE /\ todo' = BodyLength(h)
              /\ IF count = 0 THEN Return("none", rd.got)
                 ELSE /\ rd' = [rd EXCEPT !.pc = "enter", !.stage = "body", !.count = count,
                                          !.want = Lesser(count, BodyLength(h)),
                                          !.left = Lesser(count, BodyLength(h))]
                      /\ UNCHANGED ret
  BY <1>4, <1>6, <1>8, Zenon DEF HeaderResult
<1>10. ASSUME Return("none", rd.got), ~rd.big PROVE rd' = Quiet /\ OneSectionPerRead'
  <2>1. rd' = Quiet /\ ret'.big = rd.big
    BY <1>10 DEF Return
  <2> QED
    BY <1>10, <2>1, Zenon DEF OneSectionPerRead
<1>11. rd.big => rd.count = Big /\ result = HdrLen + todo
  <2>1. rd.big => rd.count = Big
    BY <1>0, <1>1 DEF Asked
  <2> QED
    BY <1>1, <1>3, <1>4, <2>1 DEF Lesser
<1>12. CASE todo - result > -HdrLen
  <2>1. ~rd.big
    BY <1>1, <1>4, <1>11, <1>12
  <2>2. todo' = todo - result /\ rd' = Quiet /\ OneSectionPerRead'
    BY <1>9, <1>10, <1>12, <2>1
  <2>3. /\ todo' \in Int /\ ~(todo' > 0) /\ q = 0 - todo' /\ -todo' = q
    BY <1>1, <1>4, <1>5, <2>2
  <2>4. \A k \in 1 .. -todo' : header'[k] = <<s, k, l>>
    BY <1>7, <1>9, <2>3
  <2> QED
    BY <1>0, <1>3, <2>2, <2>3, <2>4, QuietStands
<1>13. CASE ~(todo - result > -HdrLen)
  <2>1. q = HdrLen
    BY <1>1, <1>4, <1>5, <1>13
  <2>2. PICK body \in Nat : body = BodyLength(h) /\ body = l - HdrLen /\ body > 0
    <3>1. h[1] = <<s, 1, l>>
      BY <1>1, <1>7, <2>1
    <3>2. \A k \in 1 .. HdrLen : h[k] = <<h[1][1], k, h[1][3]>>
      BY <1>7, <2>1, <3>1
    <3>3. BodyLength(h) = l - HdrLen
      BY <3>1, <3>2 DEF BodyLength
    <3> QED
      BY <1>1, <1>3, <3>3
  <2>3. todo' = body
    BY <1>9, <1>13, <2>2
  <2>4. rd.big => count >= body
    BY <1>1, <1>3, <1>8, <1>11, <2>2
  <2>5. CASE count = 0
    <3>1. ~rd.big
      BY <2>2, <2>4, <2>5
    <3>2. rd' = Quiet /\ OneSectionPerRead'
      BY <1>9, <1>10, <1>13, <2>5, <3>1
    <3>3. todo' \in Int /\ todo' > 0 /\ q = l - todo' /\ q > 0
      BY <1>1, <1>3, <2>1, <2>2, <2>3
    <3> QED
      BY <1>0, <1>3, <3>2, <3>3, QuietStands
  <2>6. CASE count # 0
    <3>1. PICK want \in Nat : want = Lesser(count, body) /\ (count >= body => want = body)
      BY <2>2 DEF Lesser
    <3>2. /\ rd' = [rd EXCEPT !.pc = "enter", !.stage = "body", !.count = count,
                              !.want = want, !.left = want]
          /\ ret' = ret
      BY <1>9, <1>13, <2>2, <2>6, <3>1
    <3>3. /\ rd'.pc = "enter" /\ rd'.stage = "body" /\ rd'.count = count /\ rd'.want = want
          /\ rd'.left = want /\ rd'.got = rd.got /\ rd'.fresh = rd.fresh /\ rd'.big = rd.big
      BY <1>1, <3>2 DEF ReadRecord
    <3>4. Asked'
      BY <2>2, <2>3, <2>4, <3>1, <3>3 DEF Asked
    <3>5. Cursor' = Cursor /\ Copied' = 0
      <4>1. Copied' = want - want + 0
        BY <3>3 DEF Copied
      <4>2. Cursor' = Cursor
        BY <1>0, <3>3 DEF Cursor
      <4> QED
        BY <4>1, <4>2
    <3>6. NextIs(s, l, q)'
      BY <1>0, <1>3, <3>5 DEF NextIs
    <3>7. Held(s, l, q)'
      <4>1. todo' > 0 /\ q = l - todo' + Copied' /\ q > 0
        BY <1>1, <1>3, <2>1, <2>2, <2>3, <3>5
      <4>2. Copied' <= Len(rd'.got) /\ Len(rd'.got) <= q
        BY <1>1, <1>3, <1>4, <1>5, <3>3, <3>5
      <4>3. \A j \in 1 .. Len(rd'.got) : rd'.got[j] = <<s, q - Len(rd'.got) + j, l>>
        BY <1>4, <1>5, <3>3
      <4> QED
        BY <4>1, <4>2, <4>3, Zenon DEF Held
    <3>8. OneSectionPerRead'
      BY <1>0, <3>2 DEF OneSectionPerRead
    <3>9. rd'.fresh => Len(rd'.got) = q
      BY <1>0, <1>2, <3>3 DEF Standing
    <3> QED
      BY <1>0, <1>3, <3>4, <3>6, <3>7, <3>8, <3>9 DEF KeptUp
  <2> QED
    BY <2>5, <2>6
<1> QED
  BY <1>12, <1>13

(* A filter that has just been started.                                    *)
LEMMA InitWhole == Init => WholeInv
<1> SUFFICES ASSUME Init, mode = {} PROVE KeptUp
  BY InitOK DEF WholeInv
<1>0. /\ error = "none" /\ timer = "off" /\ cb = "idle" /\ rd = Quiet /\ todo = 0 /\ nsec = 0
      /\ pwrite = pread /\ ret.big = FALSE
  BY DEF Init
<1>1. /\ rd.pc = "idle" /\ rd.got = << >> /\ rd.want = 0 /\ rd.left = 0
  BY <1>0 DEF Quiet
<1>2. PICK l \in Lens : l \in Nat
  BY Lengths, ReadConstants
<1>3. Asked /\ OneSectionPerRead
  BY <1>0, <1>1 DEF Asked, OneSectionPerRead
<1>4. Cursor = pread /\ Copied = 0 /\ Len(rd.got) = 0
  BY <1>1 DEF Cursor, Copied
<1>5. NextIs(1, l, 0)
  BY <1>0, <1>4 DEF NextIs
<1>6. Held(1, l, 0)
  <2>1. ~(todo > 0) /\ 0 = Copied - todo /\ \A k \in 1 .. -todo : FALSE
    BY <1>0, <1>4
  <2>2. \A j \in 1 .. Len(rd.got) : FALSE
    BY <1>4
  <2> QED
    BY <1>4, <2>1, <2>2 DEF Held
<1>7. 1 \in 1 .. nsec + 1 /\ 0 \in 0 .. l
  BY <1>0, <1>2
<1> QED
  BY <1>0, <1>1, <1>3, <1>5, <1>6, <1>7 DEF KeptUp

(* Each step preserves it.                                                 *)
LEMMA StepWhole == WholeInv /\ [Next]_vars => WholeInv'
<1>a. [Next]_vars => mode' = mode
  BY DEF Next, Callbacks, Timers, Reading, Input, vars
<1> SUFFICES ASSUME ReadInv, mode = {}, KeptUp, [Next]_vars PROVE KeptUp'
  BY <1>a, StepOK DEF WholeInv
<1>1. CASE Callbacks
  BY <1>1, CallbackStands, OthersStand DEF Callbacks
<1>2. CASE Timers
  BY <1>2, OthersStand DEF Timers
<1>3. CASE Reading
  BY <1>3, WaitStands, CopyStands, TakeStands, HeaderStands, BodyStands DEF Reading
<1>4. CASE Input
  BY <1>4, CallbackStands, OthersStand, CallStands, WaitStands DEF Input
<1>5. CASE UNCHANGED vars
  <2>1. UNCHANGED <<data, pread, pwrite, error, nsec, timer, cb, tail, rd, todo, header, ret>>
    BY <1>5 DEF vars, ring, side
  <2>2. RingTypes /\ Asked /\ cb \notin {"flush", "error"}
    BY DEF ReadInv, KeptUp
  <2>3. Asked' /\ Cursor' = Cursor /\ Copied' = Copied /\ nsec' \in Nat /\ nsec <= nsec'
    BY <2>1, <2>2 DEF Asked, Cursor, Copied, RingTypes
  <2> QED
    BY <2>1, <2>2, <2>3, SameStands
<1> QED
  BY <1>1, <1>2, <1>3, <1>4, <1>5 DEF Next

(* A blocking reader that keeps up, is not interrupted and has no timeout  *)
(* gets, with a buffer that is large enough, the rest of exactly one       *)
(* section from each read, and a whole one when the last read ended at the *)
(* end of a section, whatever smaller reads it has mixed in between.       *)
THEOREM WholeAlways == Spec => []WholeSections
<1>1. WholeInv => WholeSections
  BY DEF WholeInv, KeptUp, WholeSections
<1> QED
  BY InitWhole, StepWhole, <1>1, PTL DEF Spec
=============================================================================
