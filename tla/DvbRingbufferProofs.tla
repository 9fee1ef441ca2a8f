------------------------ MODULE DvbRingbufferProofs ------------------------
(***************************************************************************)
(* The ring buffer is correct for every size, every transfer length and    *)
(* every interleaving of its writer and its reader.                        *)
(***************************************************************************)
EXTENDS DvbRingbuffer, TLAPS, SequenceTheorems

(* The only remainders the code takes are of indices that reach the end of *)
(* the array at most: % is then the wrap to 0.                             *)
LEMMA AdvanceWraps ==
  ASSUME NEW p \in Nat, NEW n \in Nat, p + n <= Size
  PROVE  RbAdvance(p, n) = IF p + n = Size THEN 0 ELSE p + n
  BY SizeAssumption DEF RbAdvance

(* dvb_ringbuffer_free and dvb_ringbuffer_avail share out the array, one   *)
(* slot apart.                                                             *)
LEMMA FreePlusAvail ==
  ASSUME NEW pr \in Index, NEW pw \in Index
  PROVE  /\ RbAvail(pr, pw) \in 0 .. Size - 1
         /\ RbFree(pr, pw) = Size - 1 - RbAvail(pr, pw)
  BY SizeAssumption DEF RbAvail, RbFree, Index

(* What a transfer that begins at index p looks like.                      *)
LEMMA BegunTransfer ==
  ASSUME NEW p \in Index, NEW len \in Nat, 0 < len, len < Size
  PROVE  /\ Begun(p, len) \in Transfer
         /\ Begun(p, len).pc # "idle"
         /\ Begun(p, len).todo = len
         /\ Begun(p, len).i = 0
         /\ Begun(p, len).pc = "split" =>
              Begun(p, len).split = Size - p /\ Begun(p, len).split < len
         /\ Begun(p, len).pc = "rest" => p + len <= Size
  <1>1. CASE p + len > Size
    BY <1>1, SizeAssumption DEF Begun, Transfer, RbSplit, Index
  <1>2. CASE p + len <= Size
    BY <1>2, SizeAssumption DEF Begun, Transfer, RbSplit, Index
  <1> QED BY <1>1, <1>2, SizeAssumption DEF Index

(* The empty ring satisfies the invariant.                                 *)
LEMMA InitRingInv == Init => RingInv
  <1> SUFFICES ASSUME Init PROVE RingInv
    OBVIOUS
  <1>1. TypeOK
    BY SizeAssumption DEF Init, TypeOK, Idle, Transfer, Junk, Index
  <1>2. RbAvail(pread, pwrite) = 0
    BY SizeAssumption DEF Init, RbAvail
  <1>3. Accounting /\ Contents
    BY <1>2 DEF Init, Accounting, Contents
  <1>4. WriterInv /\ ReaderInv /\ ReadsStream
    BY DEF Init, Idle, WriterInv, ReaderInv, ReadsStream
  <1> QED BY <1>1, <1>3, <1>4 DEF RingInv

(* A write that begins reserves free space in front of pwrite.             *)
LEMMA WriteBeginInv ==
  ASSUME RingInv, NEW len \in 1 .. MaxLen, WriteBegin(len) PROVE RingInv'
  <1>1. pread \in Index /\ pwrite \in Index
    BY DEF RingInv, TypeOK
  <1>2. len \in Nat /\ 0 < len /\ len <= RbFree(pread, pwrite) /\ len < Size
    BY <1>1, SizeAssumption, BoundsAssumption, FreePlusAvail DEF WriteBegin
  <1>3. /\ wr' = Begun(pwrite, len)
        /\ UNCHANGED <<data, pread, pwrite, rd, produced, consumed, ubuf>>
    BY DEF WriteBegin
  <1>4. /\ wr' \in Transfer /\ wr'.pc # "idle" /\ wr'.todo = len /\ wr'.i = 0
        /\ wr'.pc = "split" => wr'.split = Size - pwrite /\ wr'.split < len
        /\ wr'.pc = "rest" => pwrite + len <= Size
    BY <1>1, <1>2, <1>3, BegunTransfer
  <1>5. TypeOK'
    BY <1>3, <1>4 DEF RingInv, TypeOK
  <1>6. WriterInv'
    <2>1. wr'.todo <= RbFree(pread', pwrite')
      BY <1>2, <1>3, <1>4
    <2>2. wr'.pc = "split" => wr'.i <= wr'.split
      BY <1>1, <1>4, SizeAssumption DEF Index
    <2> QED BY <1>2, <1>3, <1>4, <2>1, <2>2 DEF WriterInv
  <1>7. ReaderInv' /\ Accounting' /\ Contents' /\ ReadsStream'
    BY <1>3 DEF RingInv, ReaderInv, Accounting, Contents, ReadsStream, At
  <1> QED BY <1>5, <1>6, <1>7 DEF RingInv

(* A byte is stored outside what the reader may look at.                   *)
LEMMA WriteByteInv ==
  ASSUME RingInv, WriteByte PROVE RingInv'
  <1>1. /\ pread \in Index /\ pwrite \in Index /\ produced \in Nat
        /\ data \in [Index -> Int] /\ wr \in Transfer
    BY DEF RingInv, TypeOK
  <1>2. /\ wr.i \in Nat /\ wr.todo \in Nat /\ wr.split \in Nat
        /\ wr.pc \in {"split", "rest"} /\ wr.i < Part(wr)
        /\ data' = [data EXCEPT ![pwrite + wr.i] = produced + wr.i]
        /\ wr' = [wr EXCEPT !.i = wr.i + 1]
        /\ UNCHANGED <<pread, pwrite, rd, produced, consumed, ubuf>>
    BY <1>1 DEF WriteByte, Transfer
  <1>3. /\ wr'.pc = wr.pc /\ wr'.todo = wr.todo /\ wr'.split = wr.split
        /\ wr'.i = wr.i + 1 /\ wr' \in Transfer
    <2>1. wr \in Transfer /\ wr' = [wr EXCEPT !.i = wr.i + 1]
      BY <1>1, <1>2
    <2> QED BY <2>1 DEF Transfer
  <1>4. /\ wr.todo <= RbFree(pread, pwrite)
        /\ wr.i < wr.todo
        /\ pwrite + wr.i \in Index
        /\ \A k \in 0 .. wr.i - 1 : data[pwrite + k] = produced + k
        /\ wr.pc = "split" => wr.split = Size - pwrite /\ wr.split < wr.todo
        /\ wr.pc = "rest" => pwrite + wr.todo <= Size
    BY <1>1, <1>2, SizeAssumption, SMTT(30) DEF RingInv, WriterInv, Part, Index
  <1>5. TypeOK'
    BY <1>1, <1>2, <1>3, <1>4 DEF RingInv, TypeOK
  <1>6. WriterInv'
    <2>0. wr.i \in Nat /\ pwrite + wr.i \in Index
      BY <1>2, <1>4
    <2>1. ASSUME NEW k \in 0 .. wr.i PROVE data'[pwrite + k] = produced + k
      <3>1. pwrite + k \in Index /\ (pwrite + k = pwrite + wr.i <=> k = wr.i)
        BY <1>1, <2>0, SizeAssumption DEF Index
      <3>2. CASE k = wr.i
        BY <1>1, <1>2, <3>1, <3>2
      <3>3. CASE k # wr.i
        <4>1. k \in 0 .. wr.i - 1
          BY <2>0, <3>3
        <4> QED BY <1>1, <1>2, <1>4, <3>1, <3>3, <4>1
      <3> QED BY <3>2, <3>3
    <2>2. wr'.i - 1 = wr.i
      BY <1>3, <2>0
    <2> QED BY <1>2, <1>3, <1>4, <2>1, <2>2 DEF WriterInv, Part
  <1>7. Contents'
    <2> SUFFICES ASSUME NEW k \in 0 .. RbAvail(pread, pwrite) - 1
                 PROVE  data'[At(k)] = consumed + k
      BY <1>2 DEF Contents, At
    <2>a. wr.i \in Nat /\ wr.todo \in Nat /\ wr.i < wr.todo
          /\ wr.todo <= RbFree(pread, pwrite)
      BY <1>2, <1>4
    <2>b. RbFree(pread, pwrite) \in Int
      BY <1>1, SizeAssumption DEF RbFree, Index
    <2>0. wr.i \in Nat /\ wr.i < RbFree(pread, pwrite)
      BY <2>a, <2>b
    <2>1. At(k) \in Index /\ At(k) # pwrite + wr.i
      BY <1>1, <2>0, SizeAssumption DEF At, RbAvail, RbFree, Index
    <2> QED BY <1>1, <1>2, <2>1 DEF RingInv, Contents
  <1>8. ReaderInv' /\ Accounting' /\ ReadsStream'
    BY <1>2 DEF RingInv, ReaderInv, Accounting, ReadsStream
  <1> QED BY <1>5, <1>6, <1>7, <1>8 DEF RingInv

(* Moving pwrite by the n bytes just stored publishes exactly these bytes: *)
(* shared by the wrap in the middle of a write and by its end.             *)
LEMMA Publish ==
  ASSUME RingInv, NEW n \in Nat, n <= RbFree(pread, pwrite),
         pwrite + n <= Size,
         \A k \in 0 .. n - 1 : data[pwrite + k] = produced + k,
         pwrite' = (IF pwrite + n = Size THEN 0 ELSE pwrite + n),
         produced' = produced + n,
         UNCHANGED <<data, pread, rd, consumed, ubuf>>
  PROVE  /\ pwrite' \in Index /\ produced' \in Nat
         /\ RbFree(pread', pwrite') = RbFree(pread, pwrite) - n
         /\ Accounting' /\ Contents' /\ ReaderInv' /\ ReadsStream'
  <1>1. /\ pread \in Index /\ pwrite \in Index
        /\ produced \in Nat /\ consumed \in Nat /\ rd \in Transfer
    BY DEF RingInv, TypeOK
  <1>2. pwrite' \in Index /\ produced' \in Nat
    BY <1>1, SizeAssumption DEF Index
  <1>3. /\ RbAvail(pread, pwrite) \in Nat
        /\ RbAvail(pread', pwrite') = RbAvail(pread, pwrite) + n
        /\ RbFree(pread', pwrite') = RbFree(pread, pwrite) - n
    BY <1>1, SizeAssumption DEF RbAvail, RbFree, Index
  <1>4. Accounting'
    BY <1>1, <1>3 DEF RingInv, Accounting
  <1>5. Contents'
    <2> SUFFICES ASSUME NEW k \in 0 .. RbAvail(pread, pwrite) + n - 1
                 PROVE  data[At(k)] = consumed + k
      BY <1>3 DEF Contents, At
    <2>1. CASE k < RbAvail(pread, pwrite)
      BY <1>3, <2>1 DEF RingInv, Contents
    <2>2. CASE k >= RbAvail(pread, pwrite)
      <3> DEFINE j == k - RbAvail(pread, pwrite)
      <3>1. j \in 0 .. n - 1
        BY <1>3, <2>2
      <3>2. At(k) = pwrite + j
        BY <1>1, <2>2, <3>1, SizeAssumption DEF At, RbAvail, RbFree, Index
      <3>3. data[pwrite + j] = produced + j
        BY <3>1
      <3>4. produced - consumed = RbAvail(pread, pwrite)
        BY DEF RingInv, Accounting
      <3> HIDE DEF j
      <3>5. k = RbAvail(pread, pwrite) + j
        BY <1>3 DEF j
      <3> QED BY <1>1, <1>3, <3>1, <3>2, <3>3, <3>4, <3>5
    <2> QED BY <1>3, <2>1, <2>2
  <1>6. ReaderInv' /\ ReadsStream'
    <2>1. rd.todo \in Nat
      BY <1>1 DEF Transfer
    <2> QED BY <1>3, <2>1 DEF RingInv, ReaderInv, ReadsStream
  <1> QED BY <1>2, <1>3, <1>4, <1>5, <1>6

(* The end of the first part of a wrapping write.                          *)
LEMMA WriteWrapInv ==
  ASSUME RingInv, WriteWrap PROVE RingInv'
  <1>1. /\ pread \in Index /\ pwrite \in Index /\ wr \in Transfer
    BY DEF RingInv, TypeOK
  <1>2. /\ wr.pc = "split" /\ wr.i = wr.split
        /\ wr.split \in Nat /\ wr.todo \in Nat
        /\ pwrite' = 0 /\ produced' = produced + wr.split
        /\ wr' = Wrapped(wr) /\ UNCHANGED <<data, pread, rd, consumed, ubuf>>
    BY <1>1 DEF WriteWrap, Transfer
  <1>3. /\ wr.split = Size - pwrite /\ wr.split < wr.todo
        /\ wr.todo <= RbFree(pread, pwrite)
        /\ \A k \in 0 .. wr.split - 1 : data[pwrite + k] = produced + k
    BY <1>2 DEF RingInv, WriterInv
  <1>4. RbFree(pread, pwrite) \in Nat
    BY <1>1, SizeAssumption DEF RbFree, Index
  <1>5. /\ pwrite' \in Index /\ produced' \in Nat
        /\ RbFree(pread', pwrite') = RbFree(pread, pwrite) - wr.split
        /\ Accounting' /\ Contents' /\ ReaderInv' /\ ReadsStream'
    <2>1. wr.split <= RbFree(pread, pwrite)
      BY <1>2, <1>3, <1>4
    <2>2. pwrite + wr.split = Size
      BY <1>1, <1>2, <1>3, SizeAssumption DEF Index
    <2>3. pwrite' = IF pwrite + wr.split = Size THEN 0 ELSE pwrite + wr.split
      BY <1>2, <2>2
    <2>4. pwrite + wr.split <= Size
      BY <2>2, SizeAssumption
    <2> QED BY <1>2, <1>3, <2>1, <2>3, <2>4, Publish
  <1>6. /\ wr' \in Transfer /\ wr'.pc = "rest"
        /\ wr'.todo = wr.todo - wr.split /\ wr'.i = 0
    <2>1. wr.todo - wr.split \in Nat
      BY <1>2, <1>3
    <2> QED BY <1>1, <1>2, <2>1 DEF Wrapped, Transfer
  <1>7. WriterInv'
    <2>1. wr'.todo <= RbFree(pread', pwrite')
      BY <1>2, <1>3, <1>4, <1>5, <1>6
    <2>2. pwrite' + wr'.todo <= Size /\ wr'.i <= wr'.todo
      BY <1>1, <1>2, <1>3, <1>6, SizeAssumption DEF RbFree, Index
    <2> QED BY <1>6, <2>1, <2>2 DEF WriterInv
  <1>8. TypeOK'
    BY <1>2, <1>5, <1>6 DEF RingInv, TypeOK
  <1> QED BY <1>5, <1>7, <1>8 DEF RingInv

(* The end of a write.                                                     *)
LEMMA WriteEndInv ==
  ASSUME RingInv, WriteEnd PROVE RingInv'
  <1>1. pread \in Index /\ pwrite \in Index /\ wr \in Transfer
    BY DEF RingInv, TypeOK
  <1>2. /\ wr.pc = "rest" /\ wr.i = wr.todo /\ wr.todo \in Nat
        /\ pwrite' = RbAdvance(pwrite, wr.todo)
        /\ produced' = produced + wr.todo /\ wr' = Idle
        /\ UNCHANGED <<data, pread, rd, consumed, ubuf>>
    BY <1>1 DEF WriteEnd, Transfer
  <1>3. /\ wr.todo <= RbFree(pread, pwrite) /\ pwrite + wr.todo <= Size
        /\ \A k \in 0 .. wr.todo - 1 : data[pwrite + k] = produced + k
    BY <1>2 DEF RingInv, WriterInv
  <1>4. pwrite' = IF pwrite + wr.todo = Size THEN 0 ELSE pwrite + wr.todo
    BY <1>1, <1>2, <1>3, AdvanceWraps DEF Index
  <1>5. /\ pwrite' \in Index /\ produced' \in Nat
        /\ Accounting' /\ Contents' /\ ReaderInv' /\ ReadsStream'
    BY <1>2, <1>3, <1>4, Publish
  <1>6. wr' \in Transfer /\ WriterInv'
    BY <1>2 DEF Idle, Transfer, WriterInv
  <1>7. TypeOK'
    BY <1>2, <1>5, <1>6 DEF RingInv, TypeOK
  <1> QED BY <1>5, <1>6, <1>7 DEF RingInv

-----------------------------------------------------------------------------

(* A read that begins reserves bytes behind pread.                         *)
LEMMA ReadBeginInv ==
  ASSUME RingInv, NEW len \in 1 .. MaxLen, ReadBegin(len) PROVE RingInv'
  <1>1. pread \in Index /\ pwrite \in Index
    BY DEF RingInv, TypeOK
  <1>2. len \in Nat /\ 0 < len /\ len <= RbAvail(pread, pwrite) /\ len < Size
    BY <1>1, SizeAssumption, BoundsAssumption, FreePlusAvail DEF ReadBegin
  <1>3. /\ rd' = Begun(pread, len) /\ ubuf' = << >>
        /\ UNCHANGED <<data, pread, pwrite, wr, produced, consumed>>
    BY DEF ReadBegin
  <1>4. /\ rd' \in Transfer /\ rd'.pc # "idle" /\ rd'.todo = len /\ rd'.i = 0
        /\ rd'.pc = "split" => rd'.split = Size - pread /\ rd'.split < len
        /\ rd'.pc = "rest" => pread + len <= Size
    BY <1>1, <1>2, <1>3, BegunTransfer
  <1>5. TypeOK'
    BY <1>3, <1>4 DEF RingInv, TypeOK
  <1>6. ReaderInv'
    <2>1. rd'.todo <= RbAvail(pread', pwrite')
      BY <1>2, <1>3, <1>4
    <2>2. rd'.pc = "split" => rd'.i <= rd'.split
      BY <1>1, <1>4, SizeAssumption DEF Index
    <2> QED BY <1>2, <1>3, <1>4, <2>1, <2>2 DEF ReaderInv
  <1>7. WriterInv' /\ Accounting' /\ Contents' /\ ReadsStream'
    BY <1>3 DEF RingInv, WriterInv, Accounting, Contents, ReadsStream, At
  <1> QED BY <1>5, <1>6, <1>7 DEF RingInv

(* A byte is copied out: it is the next one of the stream.                 *)
LEMMA ReadByteInv ==
  ASSUME RingInv, ReadByte PROVE RingInv'
  <1>1. /\ pread \in Index /\ pwrite \in Index /\ consumed \in Nat
        /\ data \in [Index -> Int] /\ rd \in Transfer /\ ubuf \in Seq(Int)
    BY DEF RingInv, TypeOK
  <1>2. /\ rd.i \in Nat /\ rd.todo \in Nat /\ rd.split \in Nat
        /\ rd.pc \in {"split", "rest"} /\ rd.i < Part(rd)
        /\ ubuf' = Append(ubuf, data[pread + rd.i])
        /\ rd' = [rd EXCEPT !.i = rd.i + 1]
        /\ UNCHANGED <<data, pread, pwrite, wr, produced, consumed>>
    BY <1>1 DEF ReadByte, Transfer
  <1>3. /\ rd'.pc = rd.pc /\ rd'.todo = rd.todo /\ rd'.split = rd.split
        /\ rd'.i = rd.i + 1 /\ rd' \in Transfer
    <2>1. rd \in Transfer /\ rd' = [rd EXCEPT !.i = rd.i + 1]
      BY <1>1, <1>2
    <2> QED BY <2>1 DEF Transfer
  <1>4. /\ rd.todo <= RbAvail(pread, pwrite)
        /\ rd.pc = "split" => rd.split = Size - pread /\ rd.split < rd.todo
        /\ rd.pc = "rest" => pread + rd.todo <= Size
        /\ \A k \in 1 .. Len(ubuf) :
             ubuf[k] = consumed + rd.i - Len(ubuf) + k - 1
    BY <1>2 DEF RingInv, ReaderInv
  <1>a. rd.i < rd.todo /\ pread + rd.i \in Index
    <2>1. /\ rd.todo <= RbAvail(pread, pwrite)
          /\ rd.pc = "split" => rd.split = Size - pread /\ rd.split < rd.todo
          /\ rd.pc = "rest" => pread + rd.todo <= Size
      BY <1>4
    <2>2. /\ rd.i \in Nat /\ rd.todo \in Nat /\ rd.split \in Nat
          /\ rd.pc = "split" \/ rd.pc = "rest"
          /\ pread \in Nat
      BY <1>1, <1>2 DEF Index
    <2>3. CASE rd.pc = "split"
      <3>1. rd.i < rd.split
        BY <1>2, <2>3 DEF Part
      <3> QED BY <2>1, <2>2, <2>3, <3>1, SizeAssumption DEF Index
    <2>4. CASE rd.pc = "rest"
      <3>1. rd.i < rd.todo
        BY <1>2, <2>4 DEF Part
      <3> QED BY <2>1, <2>2, <2>4, <3>1, SizeAssumption DEF Index
    <2> QED BY <2>2, <2>3, <2>4
  <1>5. data[pread + rd.i] = consumed + rd.i
    <2>0. rd.i \in Nat /\ rd.todo \in Nat /\ rd.todo <= RbAvail(pread, pwrite)
      BY <1>2, <1>4
    <2>1. rd.i \in 0 .. RbAvail(pread, pwrite) - 1 /\ At(rd.i) = pread + rd.i
      BY <1>1, <1>a, <2>0, SizeAssumption, SMTT(30) DEF At, RbAvail, Index
    <2> QED BY <2>1 DEF RingInv, Contents
  <1>6. ubuf' \in Seq(Int) /\ Len(ubuf) \in Nat /\ Len(ubuf') = Len(ubuf) + 1
    BY <1>1, <1>2, <1>a
  <1>7. \A k \in 1 .. Len(ubuf') :
          ubuf'[k] = consumed + rd.i - Len(ubuf) + k - 1
    <2>1. /\ \A k \in 1 .. Len(ubuf) : ubuf'[k] = ubuf[k]
          /\ ubuf'[Len(ubuf) + 1] = consumed + rd.i
      BY <1>1, <1>2, <1>5
    <2>2. consumed \in Nat /\ rd.i \in Nat /\ Len(ubuf) \in Nat
      BY <1>1, <1>2, <1>6
    <2>3. ASSUME NEW k \in 1 .. Len(ubuf)
          PROVE  ubuf'[k] = consumed + rd.i - Len(ubuf) + k - 1
      BY <1>4, <2>1
    <2>4. ubuf'[Len(ubuf) + 1]
            = consumed + rd.i - Len(ubuf) + (Len(ubuf) + 1) - 1
      BY <2>1, <2>2
    <2>5. \A k \in 1 .. Len(ubuf') : k \in 1 .. Len(ubuf) \/ k = Len(ubuf) + 1
      BY <1>6
    <2> QED BY <2>3, <2>4, <2>5
  <1>8. TypeOK'
    BY <1>2, <1>3, <1>6 DEF RingInv, TypeOK
  <1>9. ReaderInv'
    <2>1. \A k \in 1 .. Len(ubuf') :
            ubuf'[k] = consumed + rd'.i - Len(ubuf') + k - 1
      <3>1. consumed \in Nat /\ rd.i \in Nat /\ rd'.i = rd.i + 1
        BY <1>1, <1>2, <1>3
      <3>2. consumed + rd'.i - Len(ubuf') = consumed + rd.i - Len(ubuf)
        BY <1>6, <3>1
      <3> QED BY <1>7, <3>2
    <2>2. rd'.i <= rd'.todo /\ (rd'.pc = "split" => rd'.i <= rd'.split)
      BY <1>2, <1>3, <1>a DEF Part
    <2>3. consumed' = consumed /\ pread' = pread /\ pwrite' = pwrite
      BY <1>2
    <2> QED BY <1>3, <1>4, <2>1, <2>2, <2>3 DEF ReaderInv
  <1>10. ReadsStream'
    <2> DEFINE base == consumed + rd.i - Len(ubuf)
    <2>1. base \in Int /\ Len(ubuf') \in Nat
      BY <1>1, <1>2, <1>6
    <2>2. \A k \in 1 .. Len(ubuf') : ubuf'[k] = base + k - 1
      BY <1>7
    <2> HIDE DEF base
    <2> QED BY <2>1, <2>2 DEF ReadsStream
  <1>11. WriterInv' /\ Accounting' /\ Contents'
    BY <1>2 DEF RingInv, WriterInv, Accounting, Contents, At
  <1> QED BY <1>8, <1>9, <1>10, <1>11 DEF RingInv

(* Moving pread by n gives up the n oldest bytes and nothing else: shared  *)
(* by the wrap in the middle of a read, its end and the flush.             *)
LEMMA Release ==
  ASSUME RingInv, NEW n \in Nat, n <= RbAvail(pread, pwrite),
         pread' = (IF pread + n < Size THEN pread + n ELSE pread + n - Size),
         consumed' = consumed + n,
         UNCHANGED <<data, pwrite, wr, produced>>
  PROVE  /\ pread' \in Index /\ consumed' \in Nat
         /\ RbAvail(pread', pwrite') = RbAvail(pread, pwrite) - n
         /\ Accounting' /\ Contents' /\ WriterInv'
  <1>1. /\ pread \in Index /\ pwrite \in Index
        /\ produced \in Nat /\ consumed \in Nat /\ wr \in Transfer
    BY DEF RingInv, TypeOK
  <1>2. /\ RbAvail(pread, pwrite) \in Nat /\ RbFree(pread, pwrite) \in Nat
        /\ pread' \in Index /\ consumed' \in Nat
        /\ RbAvail(pread', pwrite') = RbAvail(pread, pwrite) - n
        /\ RbFree(pread', pwrite') = RbFree(pread, pwrite) + n
    BY <1>1, SizeAssumption DEF RbAvail, RbFree, Index
  <1>3. Accounting'
    BY <1>1, <1>2 DEF RingInv, Accounting
  <1>4. Contents'
    <2> SUFFICES ASSUME NEW k \in 0 .. RbAvail(pread, pwrite) - n - 1
                 PROVE  data[At(k)'] = consumed + n + k
      BY <1>2 DEF Contents
    <2>1. n + k \in 0 .. RbAvail(pread, pwrite) - 1
      BY <1>2
    <2>2. At(k)' = At(n + k)
      BY <1>1, <2>1, SizeAssumption DEF At, RbAvail, Index
    <2>3. data[At(n + k)] = consumed + (n + k)
      BY <2>1 DEF RingInv, Contents
    <2> QED BY <1>1, <1>2, <2>2, <2>3
  <1>5. WriterInv'
    <2>1. wr.todo \in Nat
      BY <1>1 DEF Transfer
    <2> QED BY <1>2, <2>1 DEF RingInv, WriterInv
  <1> QED BY <1>2, <1>3, <1>4, <1>5

(* The end of the first part of a wrapping read.                           *)
LEMMA ReadWrapInv ==
  ASSUME RingInv, ReadWrap PROVE RingInv'
  <1>1. /\ pread \in Index /\ pwrite \in Index /\ rd \in Transfer
        /\ consumed \in Nat
    BY DEF RingInv, TypeOK
  <1>2. /\ rd.pc = "split" /\ rd.i = rd.split
        /\ rd.split \in Nat /\ rd.todo \in Nat
        /\ pread' = 0 /\ consumed' = consumed + rd.split
        /\ rd' = Wrapped(rd) /\ UNCHANGED <<data, pwrite, wr, produced, ubuf>>
    BY <1>1 DEF ReadWrap, Transfer
  <1>3. /\ rd.split = Size - pread /\ rd.split < rd.todo
        /\ rd.todo <= RbAvail(pread, pwrite)
        /\ \A k \in 1 .. Len(ubuf) :
             ubuf[k] = consumed + rd.i - Len(ubuf) + k - 1
    BY <1>2 DEF RingInv, ReaderInv
  <1>4. RbAvail(pread, pwrite) \in Nat
    BY <1>1, SizeAssumption DEF RbAvail, Index
  <1>5. /\ pread' \in Index /\ consumed' \in Nat
        /\ RbAvail(pread', pwrite') = RbAvail(pread, pwrite) - rd.split
        /\ Accounting' /\ Contents' /\ WriterInv'
    <2>1. rd.split <= RbAvail(pread, pwrite)
      BY <1>2, <1>3, <1>4
    <2>2. pread' = IF pread + rd.split < Size THEN pread + rd.split
                   ELSE pread + rd.split - Size
      BY <1>1, <1>2, <1>3, SizeAssumption DEF Index
    <2> QED BY <1>2, <2>1, <2>2, Release
  <1>6. /\ rd' \in Transfer /\ rd'.pc = "rest"
        /\ rd'.todo = rd.todo - rd.split /\ rd'.i = 0
    <2>1. rd.todo - rd.split \in Nat
      BY <1>2, <1>3
    <2> QED BY <1>1, <1>2, <2>1 DEF Wrapped, Transfer
  <1>7. ReaderInv'
    <2>1. rd'.todo <= RbAvail(pread', pwrite')
      BY <1>2, <1>3, <1>4, <1>5, <1>6
    <2>2. pread' + rd'.todo <= Size /\ rd'.i <= rd'.todo
      BY <1>1, <1>2, <1>3, <1>6, SizeAssumption DEF RbAvail, Index
    <2>3. Len(ubuf) \in Nat
      BY DEF RingInv, TypeOK
    <2>4. \A k \in 1 .. Len(ubuf) :
            ubuf[k] = consumed' + rd'.i - Len(ubuf) + k - 1
      BY <1>1, <1>2, <1>3, <1>6, <2>3
    <2> QED BY <1>2, <1>6, <2>1, <2>2, <2>4 DEF ReaderInv
  <1>8. TypeOK' /\ ReadsStream'
    BY <1>2, <1>5, <1>6 DEF RingInv, TypeOK, ReadsStream
  <1> QED BY <1>5, <1>7, <1>8 DEF RingInv

(* The end of a read.                                                      *)
LEMMA ReadEndInv ==
  ASSUME RingInv, ReadEnd PROVE RingInv'
  <1>1. pread \in Index /\ pwrite \in Index /\ rd \in Transfer
    BY DEF RingInv, TypeOK
  <1>2. /\ rd.pc = "rest" /\ rd.todo \in Nat
        /\ pread' = RbAdvance(pread, rd.todo)
        /\ consumed' = consumed + rd.todo /\ rd' = Idle
        /\ UNCHANGED <<data, pwrite, wr, produced, ubuf>>
    BY <1>1 DEF ReadEnd, Transfer
  <1>3. pread + rd.todo <= Size /\ rd.todo <= RbAvail(pread, pwrite)
    BY <1>2 DEF RingInv, ReaderInv
  <1>4. pread' = IF pread + rd.todo < Size THEN pread + rd.todo
                 ELSE pread + rd.todo - Size
    BY <1>1, <1>2, <1>3, AdvanceWraps, SizeAssumption DEF Index
  <1>5. /\ pread' \in Index /\ consumed' \in Nat
        /\ Accounting' /\ Contents' /\ WriterInv'
    BY <1>2, <1>3, <1>4, Release
  <1>6. rd' \in Transfer /\ ReaderInv'
    BY <1>2 DEF Idle, Transfer, ReaderInv
  <1>7. TypeOK' /\ ReadsStream'
    BY <1>2, <1>5, <1>6 DEF RingInv, TypeOK, ReadsStream
  <1> QED BY <1>5, <1>6, <1>7 DEF RingInv

(* A flush gives up everything that is published.                          *)
LEMMA FlushInv ==
  ASSUME RingInv, Flush PROVE RingInv'
  <1> DEFINE n == RbAvail(pread, pwrite)
  <1>1. /\ pread \in Index /\ pwrite \in Index
        /\ produced \in Nat /\ consumed \in Nat
        /\ produced - consumed = n
    BY DEF RingInv, TypeOK, Accounting
  <1>2. /\ rd.pc = "idle" /\ pread' = pwrite /\ consumed' = produced
        /\ UNCHANGED <<data, pwrite, wr, rd, produced, ubuf>>
    BY DEF Flush
  <1>3. /\ n \in Nat /\ consumed' = consumed + n
        /\ pread' = IF pread + n < Size THEN pread + n ELSE pread + n - Size
    BY <1>1, <1>2, SizeAssumption DEF RbAvail, Index
  <1>4. /\ pread' \in Index /\ consumed' \in Nat
        /\ Accounting' /\ Contents' /\ WriterInv'
    BY <1>2, <1>3, Release
  <1>5. ReaderInv' /\ ReadsStream' /\ TypeOK'
    BY <1>2, <1>4 DEF RingInv, ReaderInv, ReadsStream, TypeOK
  <1> QED BY <1>4, <1>5 DEF RingInv

(* A read that ends with -EFAULT leaves the ring alone.                    *)
LEMMA ReadFaultInv ==
  ASSUME RingInv, ReadFault PROVE RingInv'
  <1>1. TypeOK' /\ ReaderInv'
    BY DEF RingInv, ReadFault, TypeOK, Idle, Transfer, ReaderInv
  <1>2. WriterInv' /\ Accounting' /\ Contents' /\ ReadsStream'
    BY DEF RingInv, ReadFault, WriterInv, Accounting, Contents, ReadsStream, At
  <1> QED BY <1>1, <1>2 DEF RingInv

(* One obligation per action, and the stuttering step.                     *)
LEMMA NextRingInv == RingInv /\ [Next]_ringvars => RingInv'
  <1> SUFFICES ASSUME RingInv, [Next]_ringvars PROVE RingInv'
    OBVIOUS
  <1>1. CASE Writer
    BY <1>1, WriteBeginInv, WriteByteInv, WriteWrapInv, WriteEndInv DEF Writer
  <1>2. CASE Reader
    BY <1>2, ReadBeginInv, ReadByteInv, ReadWrapInv, ReadFaultInv, ReadEndInv,
       FlushInv DEF Reader
  <1>3. CASE UNCHANGED ringvars
    <2>1. TypeOK' /\ Accounting' /\ Contents' /\ ReadsStream'
      BY <1>3 DEF ringvars, RingInv, TypeOK, Accounting, Contents,
         ReadsStream, At
    <2>2. WriterInv' /\ ReaderInv'
      BY <1>3 DEF ringvars, RingInv, WriterInv, ReaderInv
    <2> QED BY <2>1, <2>2 DEF RingInv
  <1> QED BY <1>1, <1>2, <1>3 DEF Next

-----------------------------------------------------------------------------
(* For every buffer size the inductive invariant holds in every reachable  *)
(* state of dvb_ringbuffer_read, _write and _flush.                        *)
THEOREM RingInvariant == Spec => []RingInv
  BY InitRingInv, NextRingInv, PTL DEF Spec

(* The indices stay inside the array and the locals keep their types.      *)
THEOREM TypeCorrect == Spec => []TypeOK
  <1>1. RingInv => TypeOK BY DEF RingInv
  <1> QED BY <1>1, RingInvariant, PTL

(* dvb_ringbuffer_avail counts exactly the bytes written and not yet read. *)
THEOREM AccountingHolds == Spec => []Accounting
  <1>1. RingInv => Accounting BY DEF RingInv
  <1> QED BY <1>1, RingInvariant, PTL

(* No unread byte is overwritten and no byte is visible before it is       *)
(* stored, without a lock: note (2) of dvb_ringbuffer.h.                   *)
THEOREM ContentsHold == Spec => []Contents
  <1>1. RingInv => Contents BY DEF RingInv
  <1> QED BY <1>1, RingInvariant, PTL

(* A reader receives consecutive bytes of the stream.                      *)
THEOREM ReadsStreamHolds == Spec => []ReadsStream
  <1>1. RingInv => ReadsStream BY DEF RingInv
  <1> QED BY <1>1, RingInvariant, PTL

-----------------------------------------------------------------------------
(* The bytes a .. b - 1 of the stream.                                     *)
Window(a, b) == [k \in 1 .. b - a |-> a + k - 1]

(* A window is a sequence as long as the distance of its ends.             *)
LEMMA WindowSeq ==
  ASSUME NEW a \in Nat, NEW b \in Nat, a <= b
  PROVE  Window(a, b) \in Seq(Int) /\ Len(Window(a, b)) = b - a
BY DEF Window

(* A window grows at its end by appending the next bytes of the stream.    *)
LEMMA WindowAppend ==
  ASSUME NEW a \in Nat, NEW b \in Nat, a <= b, NEW n \in Nat
  PROVE  Window(a, b + n) = Window(a, b) \o [k \in 1 .. n |-> b + k - 1]
<1> DEFINE s == Window(a, b)  t == [k \in 1 .. n |-> b + k - 1]  w == Window(a, b + n)
<1>1. /\ s \in Seq(Int) /\ Len(s) = b - a
      /\ \A i \in 1 .. b - a : s[i] = a + i - 1
  BY WindowSeq DEF Window
<1>2. /\ w \in Seq(Int) /\ Len(w) = b + n - a
      /\ \A i \in 1 .. b + n - a : w[i] = a + i - 1
  <2>1. b + n \in Nat /\ a <= b + n
    OBVIOUS
  <2> QED
    BY <2>1, WindowSeq DEF Window
<1>3. t \in Seq(Int) /\ Len(t) = n /\ \A i \in 1 .. n : t[i] = b + i - 1
  OBVIOUS
<1> HIDE DEF s, t, w
<1>4. s \o t \in Seq(Int) /\ Len(s \o t) = b + n - a
  BY <1>1, <1>3, SMTT(30)
<1>5. ASSUME NEW i \in 1 .. b + n - a PROVE w[i] = (s \o t)[i]
  <2>1. CASE i <= b - a
    BY <1>1, <1>2, <1>3, <2>1
  <2>2. CASE i > b - a
    <3>1. i - (b - a) \in 1 .. n /\ (s \o t)[i] = t[i - (b - a)]
      BY <1>1, <1>3, <2>2
    <3> QED
      BY <1>2, <1>3, <3>1
  <2>3. i <= b - a \/ i > b - a
    OBVIOUS
  <2> QED
    BY <2>1, <2>2, <2>3, Zenon
<1> QED
  BY <1>2, <1>4, <1>5, SeqEqual DEF s, t, w

(* A window shrinks at its front by a SubSeq.                              *)
LEMMA WindowDrop ==
  ASSUME NEW a \in Nat, NEW b \in Nat, a <= b, NEW n \in 0 .. b - a
  PROVE  Window(a + n, b) = SubSeq(Window(a, b), n + 1, Len(Window(a, b)))
<1>1. Len(Window(a, b)) = b - a
  BY WindowSeq
<1> QED
  BY <1>1 DEF Window

(* What pread and pwrite delimit is the window consumed .. produced - 1.   *)
AsWindow ==
  /\ consumed \in Nat /\ produced \in Nat /\ consumed <= produced
  /\ produced - consumed <= Size - 1
  /\ Stored = Window(consumed, produced)

(* Contents and Accounting, read as a statement about the abstract queue.  *)
LEMMA StoredWindow == RingInv => AsWindow
<1> HAVE RingInv
<1>1. /\ consumed \in Nat /\ produced \in Nat /\ pread \in Index /\ pwrite \in Index
      /\ produced - consumed = RbAvail(pread, pwrite)
  BY DEF RingInv, TypeOK, Accounting
<1>2. RbAvail(pread, pwrite) \in 0 .. Size - 1
  BY <1>1, FreePlusAvail
<1>3. ASSUME NEW k \in 1 .. RbAvail(pread, pwrite)
      PROVE  data[At(k - 1)] = consumed + k - 1
  <2>1. k - 1 \in 0 .. RbAvail(pread, pwrite) - 1
    BY <1>2
  <2>2. data[At(k - 1)] = consumed + (k - 1)
    BY <2>1 DEF RingInv, Contents
  <2> QED
    BY <1>1, <1>2, <2>2
<1>4. Stored = Window(consumed, produced)
  BY <1>1, <1>3 DEF Stored, Window
<1> QED
  BY <1>1, <1>2, <1>4, SizeAssumption DEF AsWindow

(* Only publishing and giving up bytes move an end of the window, one at a *)
(* time; every other step leaves both where they are.                      *)
LEMMA StepMoves ==
  ASSUME RingInv, [Next]_ringvars
  PROVE  \/ UNCHANGED <<consumed, produced>>
         \/ \E n \in Nat : produced' = produced + n /\ UNCHANGED consumed
         \/ \E n \in Nat : consumed' = consumed + n /\ UNCHANGED produced
<1>0. /\ wr.split \in Nat /\ wr.todo \in Nat /\ rd.split \in Nat /\ rd.todo \in Nat
      /\ consumed \in Nat /\ produced \in Nat /\ consumed <= produced
  BY StoredWindow DEF AsWindow, RingInv, TypeOK, Transfer
<1>1. CASE WriteWrap
  BY <1>0, <1>1 DEF WriteWrap
<1>2. CASE WriteEnd
  BY <1>0, <1>2 DEF WriteEnd
<1>3. CASE ReadWrap
  BY <1>0, <1>3 DEF ReadWrap
<1>4. CASE ReadEnd
  BY <1>0, <1>4 DEF ReadEnd
<1>5. CASE Flush
  <2>1. produced - consumed \in Nat /\ consumed + (produced - consumed) = produced
    BY <1>0
  <2> QED
    BY <1>5, <2>1 DEF Flush
<1>6. CASE \/ \E len \in 1 .. MaxLen : WriteBegin(len) \/ ReadBegin(len)
           \/ WriteByte \/ ReadByte \/ ReadFault \/ UNCHANGED ringvars
  BY <1>6 DEF WriteBegin, ReadBegin, WriteByte, ReadByte, ReadFault, ringvars
<1> QED
  BY <1>1, <1>2, <1>3, <1>4, <1>5, <1>6 DEF Next, Writer, Reader

(* Every step is a Put, a Take or a stuttering step of the queue.          *)
LEMMA StepRefines ==
  ASSUME RingInv, RingInv', [Next]_ringvars
  PROVE  [Queue!Next]_<<Stored, produced>>
<1>1. /\ consumed \in Nat /\ produced \in Nat /\ consumed <= produced
      /\ Stored = Window(consumed, produced)
      /\ Len(Stored) = produced - consumed
  BY StoredWindow, WindowSeq DEF AsWindow
<1>2. /\ consumed' \in Nat /\ produced' \in Nat /\ consumed' <= produced'
      /\ produced' - consumed' <= Size - 1
      /\ Stored' = Window(consumed', produced')
  <2>1. AsWindow'
    BY StoredWindow, PTL
  <2> QED
    BY <2>1 DEF AsWindow
<1>3. CASE UNCHANGED <<consumed, produced>>
  BY <1>1, <1>2, <1>3
<1>4. ASSUME NEW n \in Nat, n > 0, produced' = produced + n, UNCHANGED consumed
      PROVE  Queue!Put
  <2>1. n \in 1 .. (Size - 1) - Len(Stored)
    BY <1>1, <1>2, <1>4, SizeAssumption
  <2>2. Stored' = Stored \o [k \in 1 .. n |-> produced + k - 1]
    BY <1>1, <1>2, <1>4, WindowAppend
  <2> QED
    BY <1>4, <2>1, <2>2 DEF Queue!Put
<1>5. ASSUME NEW n \in Nat, n > 0, consumed' = consumed + n, UNCHANGED produced
      PROVE  Queue!Take
  <2>1. n \in 1 .. Len(Stored) /\ n \in 0 .. produced - consumed
    BY <1>1, <1>2, <1>5
  <2>2. Stored' = SubSeq(Stored, n + 1, Len(Stored))
    BY <1>1, <1>2, <1>5, <2>1, WindowDrop
  <2> QED
    BY <1>5, <2>1, <2>2 DEF Queue!Take
<1>6. ASSUME NEW n \in Nat, produced' = produced + n, UNCHANGED consumed
      PROVE  Queue!Put \/ UNCHANGED <<consumed, produced>>
  BY <1>1, <1>4, <1>6
<1>7. ASSUME NEW n \in Nat, consumed' = consumed + n, UNCHANGED produced
      PROVE  Queue!Take \/ UNCHANGED <<consumed, produced>>
  BY <1>1, <1>5, <1>7
<1> QED
  BY <1>3, <1>6, <1>7, StepMoves DEF Queue!Next

(* For every size and every length of a transfer, dvb_ringbuffer_write is  *)
(* seen as one Put per move of pwrite and dvb_ringbuffer_read and _flush   *)
(* as one Take per move of pread, with no lock between them: the ring      *)
(* implements a bounded FIFO of Size - 1 bytes (notes (1) and (2) of       *)
(* dvb_ringbuffer.h).                                                      *)
THEOREM RingIsByteQueue == Spec => IsByteQueue
<1>1. Init => Queue!Init
  BY SizeAssumption DEF Init, Queue!Init, Stored, RbAvail
<1>2. RingInv /\ RingInv' /\ [Next]_ringvars => [Queue!Next]_<<Stored, produced>>
  BY StepRefines
<1> QED
  BY <1>1, <1>2, RingInvariant, PTL DEF Spec, IsByteQueue, Queue!Spec
=============================================================================
