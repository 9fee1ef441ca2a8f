----------------------------- MODULE DmxdevRead -----------------------------
(***************************************************************************)
(* The data path of a section filter (dvb-core/dmxdev.c):                  *)
(* dvb_dmxdev_section_callback, in the demux tasklet and under dev->lock,  *)
(* against dvb_demux_read -> dvb_dmxdev_read_sec -> dvb_dmxdev_buffer_read *)
(* in a process that holds only the filter's mutex.                        *)
(*                                                                         *)
(* A section is stored in one step, or in two when it wraps, because       *)
(* dvb_ringbuffer_write publishes the first part with "pwrite = 0"; that   *)
(* the copies themselves take time makes no difference (DvbRingbuffer).    *)
(* Byte k of section s of length l is <<s, k, l>>; a header has HdrLen     *)
(* bytes (3 in the code) and its last one spells the length.               *)
(***************************************************************************)
EXTENDS RingOps, Sequences, SequencesExt

CONSTANTS
  HdrLen,       \* bytes of the section header
  Lens,         \* section lengths
  Counts,       \* sizes user processes read with
  Big,          \* one of them, "large enough" for every section
  Garble,       \* body length that bytes which are no header spell
  Modes,        \* how the filter is used, a set of subsets of
                \* overflow (the reader may be too slow), nonblock
                \* (O_NONBLOCK), signals (the process receives some),
                \* oneshot (DMX_ONESHOT), timed (sec.timeout # 0)
  Starts,       \* where the empty ring stands when the filter is started
  MaxSections   \* bound: sections received

ASSUME ReadConstants ==
  /\ HdrLen \in Nat \ {0}
  /\ \A m \in Modes : m \subseteq {"overflow", "nonblock", "signals", "oneshot", "timed"}
  /\ Lens # {} /\ Lens \subseteq HdrLen + 1 .. Size - 1 /\ \A l \in Lens : l <= Big
  /\ Counts \subseteq Nat /\ Big \in Counts /\ Garble \in 0 .. Big
  /\ Starts \subseteq Index

VARIABLES
  mode,
  data, pread, pwrite, error,   \* struct dvb_ringbuffer of the filter
  nsec,       \* sections the callback has taken or dropped
  fstate,     \* state of the filter: GO, DONE or TIMEDOUT
  timer,      \* off, armed, or where dvb_dmxdev_filter_timeout has got to
  cb,         \* program counter of the section callback
  tail,       \* the part of a section it has still to store
  asleep,     \* the reader is on buffer.queue and not woken
  rd,         \* the reading process, see Quiet
  todo,       \* dfil->todo: bytes left of the section, <= 0 in its header
  header,     \* dfil->secheader
  ret         \* what the last read returned

ring == <<data, pread, pwrite, error>>
side == <<nsec, fstate, timer, cb, tail>>
vars == <<mode, ring, side, asleep, rd, todo, header, ret>>

Junk == <<0, 0, 0>>

SectionBytes(s, len) == [k \in 1 .. len |-> <<s, k, len>>]

(* count: what the caller still wants, want and left: the count and todo   *)
(* of dvb_dmxdev_buffer_read, n, p, split, i: dvb_ringbuffer_read, got:    *)
(* the user's buffer.                                                      *)
Quiet == [pc |-> "idle", stage |-> "header", count |-> 0, want |-> 0, left |-> 0,
          n |-> 0, p |-> 0, split |-> 0, i |-> 0, got |-> << >>, big |-> FALSE,
          fresh |-> FALSE]

Init ==
  /\ mode \in Modes
  /\ data = [x \in Index |-> Junk] /\ pread \in Starts /\ pwrite = pread
  /\ error = "none"
  /\ nsec = 0 /\ cb = "idle" /\ tail = << >> /\ asleep = FALSE
  /\ fstate = "GO" /\ timer = IF "timed" \in mode THEN "armed" ELSE "off"
  /\ rd = Quiet /\ todo = 0 /\ header = [k \in 1 .. HdrLen |-> Junk]
  /\ ret = [err |-> "none", got |-> << >>, big |-> FALSE, fresh |-> FALSE]

-----------------------------------------------------------------------------
(* dvb_dmxdev_section_callback                                             *)

Stored(bytes) ==
  [x \in Index |-> IF x >= pwrite /\ x < pwrite + Len(bytes)
                   THEN bytes[x - pwrite + 1] ELSE data[x]]

(* dev->lock, which the callback holds while it stores.                    *)
Locked == cb \in {"rest", "flush", "error"}

(* The end of the part under the lock.                                     *)
Finish ==
  /\ cb' = "wake"
  /\ fstate' = IF "oneshot" \in mode THEN "DONE" ELSE fstate

(* dvb_ringbuffer_write of the section.                                    *)
Store(bytes) ==
  LET split == RbSplit(pwrite, Len(bytes))
      now   == SubSeq(bytes, 1, IF split > 0 THEN split ELSE Len(bytes))
  IN /\ data' = Stored(now)
     /\ pwrite' = RbAdvance(pwrite, Len(now))
     /\ tail' = SubSeq(bytes, Len(now) + 1, Len(bytes))
     /\ IF tail' = << >> THEN Finish ELSE cb' = "rest" /\ UNCHANGED fstate
     /\ UNCHANGED <<pread, error>>

(* There is room for a section.  A reader that keeps up sees to it before  *)
(* one comes.                                                              *)
Room(len) == len <= RbFree(pread, pwrite)

(* buffer.error is tested before the lock is taken: until CallbackLock the *)
(* timer may set it, or the reader clear it, and the callback goes on.     *)
Callback ==
  /\ cb = "idle" /\ nsec < MaxSections
  /\ \/ /\ error # "none"                      \* dropped until the error is read
        /\ cb' = "wake" /\ nsec' = nsec + 1
     \/ /\ error = "none" /\ ("overflow" \in mode \/ \E len \in Lens : Room(len))
        /\ cb' = "lock" /\ UNCHANGED nsec
  /\ UNCHANGED <<ring, fstate, timer, tail, asleep, rd, todo, header, ret>>

(* Under dev->lock: a section of length len, which nothing before depends  *)
(* on.                                                                     *)
CallbackLock(len) ==
  /\ cb = "lock" /\ nsec' = nsec + 1
  /\ \/ /\ fstate # "GO"
        /\ cb' = "idle" /\ UNCHANGED <<ring, fstate, timer, tail>>
     \/ /\ fstate = "GO"
        /\ timer' = IF timer = "armed" THEN "off" ELSE timer      \* del_timer
        /\ \/ Room(len) /\ Store(SectionBytes(nsec + 1, len))
           \/ /\ ~Room(len) /\ "overflow" \in mode
              /\ cb' = "flush" /\ UNCHANGED <<ring, fstate, tail>>
  /\ UNCHANGED <<asleep, rd, todo, header, ret>>

CallbackRest ==
  /\ cb = "rest"
  /\ Store(tail)
  /\ UNCHANGED <<nsec, timer, asleep, rd, todo, header, ret>>

(* dvb_ringbuffer_flush by the writer.                                     *)
CallbackFlush ==
  /\ cb = "flush"
  /\ pread' = pwrite /\ error' = "none" /\ cb' = "error"
  /\ UNCHANGED <<data, pwrite, nsec, fstate, timer, tail, asleep, rd, todo, header, ret>>

CallbackError ==
  /\ cb = "error"
  /\ error' = "EOVERFLOW" /\ Finish
  /\ UNCHANGED <<data, pread, pwrite, nsec, timer, tail, asleep, rd, todo, header, ret>>

(* wake_up called on the error path only.                                  *)
CallbackWakeOnError ==
  /\ cb = "wake"
  /\ asleep' = (asleep /\ error = "none") /\ cb' = "idle"
  /\ UNCHANGED <<ring, nsec, fstate, timer, tail, rd, todo, header, ret>>

(* wake_up, after the lock has been released.                              *)
CallbackWake ==
  /\ cb = "wake"
  /\ asleep' = FALSE /\ cb' = "idle"
  /\ UNCHANGED <<ring, nsec, fstate, timer, tail, rd, todo, header, ret>>

-----------------------------------------------------------------------------
(* dvb_dmxdev_filter_timeout, in the timer interrupt: error is set without *)
(* the lock, state with it.                                                *)

TimerExpires ==
  /\ timer = "armed"
  /\ error' = "ETIMEDOUT" /\ timer' = "state"
  /\ UNCHANGED <<data, pread, pwrite, nsec, fstate, cb, tail, asleep, rd, todo, header, ret>>

(* spin_lock_irq around the assignment left out.                           *)
TimerStateUnlocked ==
  /\ timer = "state"
  /\ fstate' = "TIMEDOUT" /\ timer' = "wake"
  /\ UNCHANGED <<ring, nsec, cb, tail, asleep, rd, todo, header, ret>>

TimerState ==
  /\ timer = "state" /\ ~Locked
  /\ fstate' = "TIMEDOUT" /\ timer' = "wake"
  /\ UNCHANGED <<ring, nsec, cb, tail, asleep, rd, todo, header, ret>>

TimerWake ==
  /\ timer = "wake"
  /\ asleep' = FALSE /\ timer' = "off"
  /\ UNCHANGED <<ring, nsec, fstate, cb, tail, rd, todo, header, ret>>

-----------------------------------------------------------------------------
(* dvb_dmxdev_buffer_read                                                  *)

Lesser(a, b) == IF a < b THEN a ELSE b

Return(err, bytes) ==
  /\ ret' = [err |-> err, got |-> bytes, big |-> rd.big, fresh |-> rd.fresh]
  /\ rd' = Quiet

(* Error behind dvb_dmxdev_buffer_read: the header part clears todo, the   *)
(* body part returns at once.                                              *)
ReadFails(err) ==
  /\ todo' = IF rd.stage = "header" THEN 0 ELSE todo
  /\ Return(err, << >>)
  /\ UNCHANGED header

(* The transfer ends early, with a negative result if nothing was copied.  *)
ReadBreak(err) ==
  IF rd.left = rd.want
  THEN ReadFails(err)
  ELSE rd' = [rd EXCEPT !.pc = "result"] /\ UNCHANGED <<todo, header, ret>>

(* The flush forgotten when the error is taken.                            *)
ReadErrorKeeps ==
  /\ rd.pc \in {"enter", "checked"} /\ error # "none"
  /\ error' = "none"
  /\ ReadBreak(error)
  /\ UNCHANGED <<data, pread, pwrite, side, asleep>>

(* The first test of buffer_read, and the one in the loop: the error ends  *)
(* the transfer; if bytes were copied before, their number is returned and *)
(* the error is forgotten.                                                 *)
ReadError ==
  /\ rd.pc \in {"enter", "checked"} /\ error # "none"
  /\ pread' = pwrite /\ error' = "none"
  /\ ReadBreak(error)
  /\ UNCHANGED <<data, pwrite, side, asleep>>

ReadEnter ==
  /\ rd.pc = "enter" /\ error = "none"
  /\ rd' = [rd EXCEPT !.pc = IF rd.left = 0 THEN "result" ELSE "wait"]
  /\ UNCHANGED <<ring, side, asleep, todo, header, ret>>

ReadWouldBlock ==
  /\ rd.pc = "wait" /\ "nonblock" \in mode /\ RbEmpty(pread, pwrite)
  /\ ReadBreak("EWOULDBLOCK")
  /\ UNCHANGED <<ring, side, asleep>>

(* wait_event_interruptible: go onto the queue, look, sleep.               *)
ReadQueue ==
  /\ rd.pc = "wait" /\ ~("nonblock" \in mode /\ RbEmpty(pread, pwrite))
  /\ asleep' = TRUE /\ rd' = [rd EXCEPT !.pc = "queued"]
  /\ UNCHANGED <<ring, side, todo, header, ret>>

ReadLook ==
  /\ rd.pc = "queued"
  /\ IF ~RbEmpty(pread, pwrite) \/ error # "none"
     THEN asleep' = FALSE /\ rd' = [rd EXCEPT !.pc = "checked"]
     ELSE rd' = [rd EXCEPT !.pc = "sleep"] /\ UNCHANGED asleep
  /\ UNCHANGED <<ring, side, todo, header, ret>>

ReadWoken ==
  /\ rd.pc = "sleep" /\ ~asleep
  /\ rd' = [rd EXCEPT !.pc = "wait"]
  /\ UNCHANGED <<ring, side, asleep, todo, header, ret>>

(* A signal ends the wait.                                                 *)
ReadSignal ==
  /\ rd.pc = "sleep" /\ "signals" \in mode
  /\ asleep' = FALSE
  /\ ReadBreak("ERESTARTSYS")
  /\ UNCHANGED <<ring, side>>

ReadAvail ==
  /\ rd.pc = "checked" /\ error = "none"
  /\ rd' = [rd EXCEPT !.pc = "read", !.n = Lesser(RbAvail(pread, pwrite), rd.left)]
  /\ UNCHANGED <<ring, side, asleep, todo, header, ret>>

(* dvb_ringbuffer_read: pread is loaded again here.                        *)
ReadBegin ==
  /\ rd.pc = "read"
  /\ rd' = [rd EXCEPT !.pc = "copy", !.p = pread, !.split = RbSplit(pread, rd.n), !.i = 0]
  /\ UNCHANGED <<ring, side, asleep, todo, header, ret>>

ReadCopy ==
  /\ rd.pc = "copy" /\ rd.i < (IF rd.split > 0 THEN rd.split ELSE rd.n)
  /\ rd' = [rd EXCEPT !.i = @ + 1, !.got = Append(@, data[rd.p + rd.i])]
  /\ UNCHANGED <<ring, side, asleep, todo, header, ret>>

ReadWrap ==
  /\ rd.pc = "copy" /\ rd.split > 0 /\ rd.i = rd.split
  /\ pread' = 0
  /\ rd' = [rd EXCEPT !.p = 0, !.i = 0, !.split = 0, !.n = @ - rd.split,
                      !.left = @ - rd.split]
  /\ UNCHANGED <<data, pwrite, error, side, asleep, todo, header, ret>>

ReadAdvance ==
  /\ rd.pc = "copy" /\ rd.split = 0 /\ rd.i = rd.n
  /\ pread' = RbAdvance(pread, rd.n)
  /\ rd' = [rd EXCEPT !.left = @ - rd.n,
                      !.pc = IF rd.left = rd.n THEN "result" ELSE "wait"]
  /\ UNCHANGED <<data, pwrite, error, side, asleep, todo, header, ret>>

-----------------------------------------------------------------------------
(* dvb_dmxdev_read_sec                                                     *)

ReadCall(count) ==
  /\ rd.pc = "idle"
  /\ LET stage == IF todo <= 0 THEN "header" ELSE "body"
         want  == Lesser(count, IF todo <= 0 THEN HdrLen + todo ELSE todo)
     IN rd' = [Quiet EXCEPT !.pc = "enter", !.stage = stage, !.count = count,
                            !.want = want, !.left = want, !.big = (count = Big),
                            !.fresh = (todo = 0)]
  /\ UNCHANGED <<ring, side, asleep, todo, header, ret>>

(* The length the header spells.                                           *)
BodyLength(h) ==
  IF \A k \in 1 .. HdrLen : h[k] = <<h[1][1], k, h[1][3]>> THEN h[1][3] - HdrLen ELSE Garble

HeaderResult ==
  /\ rd.pc = "result" /\ rd.stage = "header"
  /\ LET result == rd.want - rd.left
         h == [k \in 1 .. HdrLen |-> IF k > -todo /\ k <= result - todo
                                     THEN rd.got[k + todo] ELSE header[k]]
         count == rd.count - result
         body  == BodyLength(h)
         want  == Lesser(count, body)
     IN /\ header' = h
        /\ IF todo - result > -HdrLen
           THEN todo' = todo - result /\ Return("none", rd.got)
           ELSE /\ todo' = body
                /\ IF count = 0 THEN Return("none", rd.got)
                   ELSE /\ rd' = [rd EXCEPT !.pc = "enter", !.stage = "body",
                                            !.count = count, !.want = want, !.left = want]
                        /\ UNCHANGED ret
  /\ UNCHANGED <<ring, side, asleep>>

(* todo counted by what was asked for instead of by what was read.         *)
BodyResultWant ==
  /\ rd.pc = "result" /\ rd.stage = "body"
  /\ todo' = todo - rd.count
  /\ Return("none", rd.got)
  /\ UNCHANGED <<ring, side, asleep, header>>

BodyResult ==
  /\ rd.pc = "result" /\ rd.stage = "body"
  /\ todo' = todo - (rd.want - rd.left)
  /\ Return("none", rd.got)
  /\ UNCHANGED <<ring, side, asleep, header>>

-----------------------------------------------------------------------------
Callbacks ==
  /\ \/ \E len \in Lens : CallbackLock(len)
     \/ CallbackRest \/ CallbackFlush \/ CallbackError \/ CallbackWake
  /\ UNCHANGED mode

Timers == (TimerState \/ TimerWake) /\ UNCHANGED mode

Reading ==
  /\ \/ ReadError \/ ReadEnter \/ ReadWouldBlock \/ ReadQueue \/ ReadLook \/ ReadWoken
     \/ ReadAvail \/ ReadBegin \/ ReadCopy \/ ReadWrap \/ ReadAdvance
     \/ HeaderResult \/ BodyResult
  /\ UNCHANGED mode

(* What comes from outside: a section, the time, a system call, a signal.  *)
Input ==
  /\ \/ Callback
     \/ TimerExpires
     \/ \E count \in Counts : ReadCall(count)
     \/ ReadSignal
  /\ UNCHANGED mode

Next == Callbacks \/ Timers \/ Reading \/ Input

(* A callback or a timer handler that has begun is finished, and a         *)
(* runnable process runs.                                                  *)
Spec ==
  Init /\ [][Next]_vars
  /\ WF_vars(Callbacks) /\ WF_vars(Timers) /\ WF_vars(Reading)

-----------------------------------------------------------------------------
(* The pointers stay inside the ring, and dfil->todo inside the header and *)
(* the longest section, so that secheader - todo stays inside secheader.   *)
TypeOK ==
  /\ pread \in Index /\ pwrite \in Index
  /\ error \in {"none", "EOVERFLOW", "ETIMEDOUT"}
  /\ cb \in {"idle", "lock", "rest", "flush", "error", "wake"}
  /\ fstate \in {"GO", "DONE", "TIMEDOUT"}
  /\ timer \in {"off", "armed", "state", "wake"}
  /\ todo \in -HdrLen .. Big
  /\ rd.left \in 0 .. rd.want /\ rd.want <= rd.count

(* "the section filter API guarantess that we get one full section per     *)
(* read(), provided that the buffer is large enough" (scan.c): a read with *)
(* a large buffer returns the rest of one section, and all of it if the    *)
(* last read ended at the end of a section.                                *)
OneSectionPerRead ==
  (ret.err = "none" /\ ret.big) =>
    ret.got # << >> /\ \E k \in 1 .. Big :
      LET s == ret.got[1][1]
          l == ret.got[1][3]
      IN /\ s > 0 /\ Len(ret.got) = l - k + 1
         /\ ret.got = SubSeq(SectionBytes(s, l), k, l)
         /\ ret.fresh => k = 1

(* The part of this that holds: one section per read, and no boundary lost *)
(* by reads of any smaller size in between, for a blocking reader that     *)
(* keeps up, is not interrupted and has no timeout.                        *)
WholeSections == mode = {} => OneSectionPerRead

(* The callback's flush moves pread under a read that is running without a *)
(* lock, so the read pointer can end up anywhere.  buffer.error hides this *)
(* from both sides until the reader has flushed again: whenever it is      *)
(* clear, the ring holds consecutive bytes of the stream that end with the *)
(* end of a section.                                                       *)
Follows(here, next) ==
  \/ here[2] < here[3] /\ next = <<here[1], here[2] + 1, here[3]>>
  \/ here[2] = here[3] /\ next[1] > here[1] /\ next[2] = 1

Coherent ==
  (error = "none" /\ cb \notin {"rest", "error"}) =>
    \A k \in 0 .. RbAvail(pread, pwrite) - 1 :
      LET here == data[(pread + k) % Size]
          next == data[(pread + k + 1) % Size]
      IN /\ here[1] > 0
         /\ IF k + 1 < RbAvail(pread, pwrite)
            THEN Follows(here, next)
            ELSE here[2] = here[3]

(* The ring and the reader's bookkeeping agree: todo and the header stay   *)
(* in their bounds, and the ring holds sections in order.                  *)
RingCoherent == TypeOK /\ Coherent

(* Once a filter is DONE (its one section has come) or TIMEDOUT, nothing   *)
(* more is stored for it: the timer cannot end it in the middle of a       *)
(* section.                                                                *)
StopsStoring == [][fstate # "GO" => pwrite' = pwrite]_vars

(* A reader is never left asleep: once there is data or an error, it comes *)
(* out of its wait.                                                        *)
ReaderServed ==
  (rd.pc = "sleep" /\ (~RbEmpty(pread, pwrite) \/ error # "none")) ~> rd.pc # "sleep"

-----------------------------------------------------------------------------
(* The inductive invariant.                                                *)

Byte == {Junk} \union ((Nat \ {0}) \X (Nat \ {0}) \X Lens)

RingTypes ==
  /\ data \in [Index -> Byte] /\ pread \in Index /\ pwrite \in Index
  /\ error \in {"none", "EOVERFLOW", "ETIMEDOUT"} /\ nsec \in Nat
  /\ fstate \in {"GO", "DONE", "TIMEDOUT"} /\ timer \in {"off", "armed", "state", "wake"}
  /\ cb \in {"idle", "lock", "rest", "flush", "error", "wake"}

ReadRecord ==
  [pc : {"idle", "enter", "wait", "queued", "sleep", "checked", "read", "copy", "result"},
   stage : {"header", "body"}, count : Nat, want : Nat, left : Nat, n : Nat, p : Index,
   split : Nat, i : Nat, got : Seq(Byte), big : BOOLEAN, fresh : BOOLEAN]

(* What the callback has still to store is the end of the last section; it *)
(* goes to the beginning of the ring, and the filter is not ended before.  *)
WriterInv ==
  IF cb = "rest"
  THEN /\ pwrite = 0 /\ fstate = "GO" /\ nsec > 0
       /\ \E l \in Lens : \E m \in 1 .. l - 1 :
            tail = [k \in 1 .. m |-> <<nsec, l - m + k, l>>]
  ELSE tail = << >>

(* The read in progress: todo and the header it fills, and a copy that     *)
(* stays inside the ring.                                                  *)
ReaderInv ==
  /\ rd \in ReadRecord /\ todo \in -HdrLen .. Big /\ todo > -HdrLen
  /\ header \in [1 .. HdrLen -> Byte]
  /\ rd.left <= rd.want /\ rd.want <= rd.count
  /\ rd.pc # "idle" =>
       IF rd.stage = "header"
       THEN /\ todo <= 0 /\ rd.want <= HdrLen + todo
            /\ Len(rd.got) = rd.want - rd.left + (IF rd.pc = "copy" THEN rd.i ELSE 0)
       ELSE rd.want <= todo
  /\ rd.pc \in {"read", "copy"} => rd.n <= rd.left /\ rd.n < Size
  /\ rd.pc = "copy" =>
       IF rd.split > 0 THEN rd.p + rd.split = Size /\ rd.i <= rd.split /\ rd.split < rd.n
       ELSE rd.p + rd.n <= Size /\ rd.i <= rd.n

(* The unread bytes, while the callback has not flushed the ring behind    *)
(* the back of the reader, who is then told by buffer.error.               *)
Live == error = "none" /\ cb # "error"
Unread(x) ==
  IF pread <= pwrite THEN pread <= x /\ x < pwrite ELSE x < pwrite \/ pread <= x
After(x) == IF x + 1 = Size THEN 0 ELSE x + 1

Linked(x) ==
  /\ data[x] # Junk /\ data[x][1] <= nsec
  /\ IF After(x) # pwrite THEN Follows(data[x], data[After(x)])
     ELSE IF cb = "rest" THEN Follows(data[x], tail[1])
     ELSE data[x][2] = data[x][3]

StreamInv ==
  Live =>
    /\ rd.pc \in {"read", "copy"} => rd.n <= RbAvail(pread, pwrite)
    /\ rd.pc = "copy" => rd.p = pread
    /\ Len(tail) <= RbFree(pread, pwrite)
    /\ \A x \in Index : Unread(x) => Linked(x)

ReadInv == RingTypes /\ WriterInv /\ ReaderInv /\ StreamInv

(* Without overflow, timeout, signals and O_NONBLOCK: the next byte to be  *)
(* copied comes after the first q bytes of section s of length l, which    *)
(* todo, the header and the user's buffer agree with.                      *)
Cursor ==
  IF rd.pc # "copy" THEN pread ELSE IF rd.p + rd.i = Size THEN 0 ELSE rd.p + rd.i

NextIs(s, l, q) ==
  IF 0 < q /\ q < l
  THEN IF Cursor # pwrite THEN data[Cursor] = <<s, q + 1, l>>
       ELSE cb = "rest" /\ tail[1] = <<s, q + 1, l>>
  ELSE IF Cursor # pwrite THEN data[Cursor][2] = 1 ELSE cb # "rest"

Copied == rd.want - rd.left + (IF rd.pc = "copy" THEN rd.i ELSE 0)

Held(s, l, q) ==
  /\ IF todo > 0 THEN q = l - todo + Copied /\ q > 0
     ELSE q = Copied - todo /\ \A k \in 1 .. -todo : header[k] = <<s, k, l>>
  /\ Copied <= Len(rd.got) /\ Len(rd.got) <= q
  /\ \A j \in 1 .. Len(rd.got) : rd.got[j] = <<s, q - Len(rd.got) + j, l>>

Asked ==
  IF rd.pc = "idle" THEN rd = Quiet
  ELSE /\ rd.stage = IF todo > 0 THEN "body" ELSE "header"
       /\ todo <= 0 => rd.want = Lesser(rd.count, HdrLen + todo)
       /\ rd.big => IF todo > 0 THEN rd.want = todo ELSE rd.count = Big
       /\ rd.pc = "result" => rd.left = 0

KeptUp ==
  /\ error = "none" /\ timer = "off" /\ cb \notin {"flush", "error"}
  /\ Asked /\ OneSectionPerRead
  /\ \E s \in 1 .. nsec + 1, l \in Lens : \E q \in 0 .. l :
       /\ NextIs(s, l, q) /\ Held(s, l, q)
       /\ (rd.pc # "idle" /\ rd.fresh) => Len(rd.got) = q

WholeInv == ReadInv /\ (mode = {} => KeptUp)
=============================================================================
