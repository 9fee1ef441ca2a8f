----------------------------- MODULE DmxdevLife -----------------------------
(***************************************************************************)
(* The demux device (dvb-core/dmxdev.c) on top of DemuxFeeds: filters are  *)
(* opened, set, started, stopped and closed by processes, share section    *)
(* feeds, time out, and are read; the DVR device is opened and closed.     *)
(*                                                                         *)
(* Calls run one at a time under dmxdev->mutex, most also under the mutex  *)
(* of their filter, which a reader holds while it sleeps.  A call is split *)
(* where the timer or the tasklet can see what it has done so far: at the  *)
(* assignments of state, at stop_filtering and start_filtering.  The data  *)
(* path itself is module DmxdevRead; here a buffer is empty, holds data or *)
(* holds an error.                                                         *)
(***************************************************************************)
EXTENDS DemuxFeeds

CONSTANTS
  NDev,         \* filternum of the device
  Modes         \* the kinds of use to check, records with the fields
                \*   feednum, filternum: of the card's demux
                \*   users: bound on files open at a time
                \*   params: the filter parameters processes choose from
                \*   faults: subset of memory (vmalloc fails), signals
                \*     (during close), sleep (blocking reads)
                \*   ops: the ioctls they issue
                \*   writers: bound on concurrent writers of the DVR device

DevFilters == 1 .. NDev

(* type SEC or PES; oneshot and timed: DMX_ONESHOT and timeout # 0; dec:   *)
(* pes_type; out: where a PES filter's packets go.                         *)
Param == [type : {"SEC", "PES"}, pid : Pids \cup {"bad"}, oneshot : BOOLEAN,
          timed : BOOLEAN, dec : Pes \cup {NoPes, "bad"}, out : {"none", "tap", "dvr"}]

ASSUME LifeConstants ==
  /\ NDev \in Nat \ {0}
  /\ \A m \in Modes :
       /\ m.feednum \in Feeds /\ m.filternum \in Filters
       /\ m.users \in DevFilters /\ m.params \subseteq Param /\ m.writers \in 0 .. 2
       /\ m.ops \subseteq {"set", "setnow", "start", "stop", "size0", "size1"}
       /\ m.faults \subseteq {"memory", "signals", "sleep"}

VARIABLES
  mode,
  dmx,          \* the demux, see DemuxFeeds
  filter,       \* struct dmxdev_filter
  opened,       \* the filters that a file refers to
  timer,        \* per filter: armed, and running: its handler is about to set state
  reading,      \* filters whose mutex a sleeping reader holds
  call,         \* the call that holds dmxdev->mutex
  dvr,          \* the DVR device: its reader, its writers, dvr_orig_fe
  copies,       \* of the last packet in the DVR buffer
  past          \* history: late, a timeout has set the state of a stopped
                \*   filter; refused, the demux has refused to set a TS feed

vars == <<mode, dmx, filter, opened, timer, reading, call, dvr, copies, past>>

NoParam == [type |-> "NONE", pid |-> NoPid, oneshot |-> FALSE, timed |-> FALSE,
            dec |-> NoPes, out |-> "none"]

Idle == [pc |-> "idle", op |-> "none", f |-> 0, par |-> NoParam]

(* sec and feed are filter.sec and feed.sec or feed.ts; mem: buffer.data   *)
(* is not NULL; sized: buffer.size is not 0.                               *)
Init ==
  /\ mode \in Modes
  /\ dmx = DemuxInit(mode.feednum, mode.filternum)
  /\ filter = [f \in DevFilters |->
                 [state |-> "FREE", par |-> NoParam, sec |-> 0, feed |-> 0,
                  mem |-> FALSE, sized |-> FALSE, buf |-> "empty"]]
  /\ opened = {} /\ reading = {}
  /\ timer = [f \in DevFilters |-> [armed |-> FALSE, running |-> FALSE]]
  /\ call = Idle
  /\ dvr = [reader |-> "none", writers |-> 0, orig |-> "hw"]
  /\ copies = 0 /\ past = [late |-> FALSE, refused |-> FALSE]

Active(f) == filter[f].state \in {"GO", "DONE", "TIMEDOUT"}    \* >= STATE_GO

-----------------------------------------------------------------------------
(* dvb_demux_open, the ioctls and dvb_demux_release: up to the point where *)
(* the filter's mutex is held.                                             *)

Open(f) ==
  /\ call.pc = "idle" /\ Cardinality(opened) < mode.users
  /\ f = Min({g \in DevFilters : filter[g].state = "FREE"} \cup {NDev + 1})
  /\ filter' = [filter EXCEPT ![f] = [@ EXCEPT !.state = "ALLOCATED", !.par = NoParam, !.feed = 0,
                                                !.mem = FALSE, !.sized = TRUE, !.buf = "empty"]]
  /\ opened' = opened \cup {f}
  /\ timer' = [timer EXCEPT ![f].armed = FALSE]                 \* init_timer
  /\ UNCHANGED <<mode, dmx, reading, call, dvr, copies, past>>

Call(f, op, par) ==
  /\ call.pc = "idle" /\ f \in opened
  /\ call' = [pc |-> "lock", op |-> op, f |-> f, par |-> par]
  /\ UNCHANGED <<mode, dmx, filter, opened, timer, reading, dvr, copies, past>>

(* release is called when no read is running on the file.                  *)
Close(f) ==
  /\ f \notin reading
  /\ Call(f, "free", NoParam)

(* A signal while filter_free waits: release is not called again.          *)
CloseInterrupted ==
  /\ call.pc = "lock" /\ call.op = "free" /\ "signals" \in mode.faults
  /\ opened' = opened \ {call.f} /\ call' = Idle
  /\ UNCHANGED <<mode, dmx, filter, timer, reading, dvr, copies, past>>

(* Where an operation goes from here.                                      *)
Enter(op) ==
  IF op \in {"size0", "size1"} THEN "size" ELSE "stop"

Lock ==
  /\ call.pc = "lock" /\ call.f \notin reading
  /\ call' = IF call.op = "start" /\ filter[call.f].state \in {"FREE", "ALLOCATED"}
             THEN Idle                                           \* -EINVAL
             ELSE [call EXCEPT !.pc = Enter(call.op)]
  /\ UNCHANGED <<mode, dmx, filter, opened, timer, reading, dvr, copies, past>>

-----------------------------------------------------------------------------
(* dvb_dmxdev_filter_stop                                                  *)

(* What follows it.                                                        *)
AfterStop ==
  CASE call.op = "stop" -> Idle
    [] call.op = "start" -> [call EXCEPT !.pc = "alloc"]
    [] call.op = "free" -> [call EXCEPT !.pc = "free"]
    [] OTHER -> [call EXCEPT !.pc = "set"]

(* A stopped filter is left alone, and so, but for its buffer, is one      *)
(* without a feed.  feed_stop begins by setting the state.                 *)
Stop ==
  /\ call.pc = "stop"
  /\ LET f == call.f IN
     IF ~Active(f)
     THEN call' = AfterStop /\ UNCHANGED filter
     ELSE IF filter[f].feed = 0
          THEN /\ filter' = [filter EXCEPT ![f].buf = IF filter[f].par.type = "NONE" THEN @ ELSE "empty"]
               /\ call' = AfterStop
          ELSE /\ filter' = [filter EXCEPT ![f].state = "SET"]
               /\ call' = [call EXCEPT !.pc = "feed_stop"]
  /\ UNCHANGED <<mode, dmx, opened, timer, reading, dvr, copies, past>>

(* The call of stop_filtering left out.                                    *)
StopFeedForgets ==
  /\ call.pc \in {"feed_stop", "share_stop"}
  /\ timer' = [timer EXCEPT ![call.f].armed = FALSE]
  /\ call' = [call EXCEPT !.pc = IF @ = "feed_stop" THEN "release" ELSE "get_filter"]
  /\ UNCHANGED <<mode, dmx, filter, opened, reading, dvr, copies, past>>

(* The rest of dvb_dmxdev_feed_stop, on behalf of filter_stop or of a      *)
(* filter_start that is going to share the feed.                           *)
StopFeed ==
  /\ call.pc \in {"feed_stop", "share_stop"}
  /\ timer' = [timer EXCEPT ![call.f].armed = FALSE]             \* del_timer
  /\ dmx' = IF filter[call.f].par.type = "SEC"
            THEN section_stop_filtering(dmx, filter[call.f].feed)
            ELSE ts_stop_filtering(dmx, filter[call.f].feed)
  /\ call' = [call EXCEPT !.pc = IF @ = "feed_stop" THEN "release" ELSE "get_filter"]
  /\ UNCHANGED <<mode, filter, opened, reading, dvr, copies, past>>

(* Found whether started or not.                                           *)
SharingAny(pid) ==
  {g \in DevFilters : filter[g].par.type = "SEC" /\ filter[g].par.pid = pid}

(* The filters that dvb_dmxdev_feed_restart finds for a PID.               *)
Sharing(pid) ==
  {g \in DevFilters : Active(g) /\ filter[g].par.type = "SEC" /\ filter[g].par.pid = pid}

TryStart(d, i) == IF CanStartSection(d, i) THEN start_filtering(d, i) ELSE d

(* The feed released, whoever shares it.                                   *)
FeedRestartNot(d, f, fs, then) ==
  dmx' = release_section_feed(d, fs[f].feed) /\ filter' = fs /\ call' = then

(* The feed kept when nobody shares it.                                    *)
FeedRestartKeep(d, f, fs, then) ==
  /\ dmx' = IF Sharing(filter[f].par.pid) = {} THEN d ELSE TryStart(d, fs[f].feed)
  /\ filter' = fs /\ call' = then

(* dvb_dmxdev_feed_restart for f: the first filter found is set to GO,     *)
(* whatever its state was, and its feed started; without one the feed of f *)
(* is released.  d, fs: demux and filters as changed so far.               *)
FeedRestart(d, f, fs, then) ==
  LET found == Sharing(filter[f].par.pid)
      g == Min(found)
  IN IF found = {}
     THEN /\ dmx' = release_section_feed(d, fs[f].feed)
          /\ filter' = fs /\ call' = then
     ELSE /\ filter' = [fs EXCEPT ![g].state = "GO"]
          /\ IF filter[g].feed = 0
             THEN dmx' = d /\ call' = [call EXCEPT !.pc = "oops"]
             ELSE dmx' = TryStart(d, filter[g].feed) /\ call' = then

Release ==
  /\ call.pc = "release"
  /\ LET f == call.f
         i == filter[f].feed
         k == filter[f].sec
     IN IF filter[f].par.type = "SEC"
        THEN IF k # 0 /\ (ReleaseHangs(dmx, i, k) \/ ReleaseOops(dmx, i, k))
             THEN /\ call' = [call EXCEPT !.pc = IF ReleaseHangs(dmx, i, k) THEN "hung" ELSE "oops"]
                  /\ UNCHANGED <<dmx, filter>>
             ELSE FeedRestart(IF k = 0 THEN dmx ELSE release_filter(dmx, i, k),
                              f, filter, [call EXCEPT !.pc = "stopped"])
        ELSE IF TsReleaseOops(dmx, i)
             THEN call' = [call EXCEPT !.pc = "oops"] /\ UNCHANGED <<dmx, filter>>
             ELSE /\ dmx' = release_ts_feed(dmx, i)
                  /\ call' = [call EXCEPT !.pc = "stopped"] /\ UNCHANGED filter
  /\ UNCHANGED <<mode, opened, timer, reading, dvr, copies, past>>

Stopped ==
  /\ call.pc = "stopped"
  /\ filter' = [filter EXCEPT ![call.f].feed = 0, ![call.f].buf = "empty"]
  /\ call' = AfterStop
  /\ UNCHANGED <<mode, dmx, opened, timer, reading, dvr, copies, past>>

-----------------------------------------------------------------------------
(* dvb_dmxdev_filter_set, _pes_filter_set and _capture_set after the stop; *)
(* "setnow" is DMX_IMMEDIATE_START, and what capture_set always does.      *)

Set ==
  /\ call.pc = "set"
  /\ IF call.par.type = "PES" /\ call.par.dec = "bad"
     THEN call' = Idle /\ UNCHANGED filter
     ELSE /\ filter' = [filter EXCEPT ![call.f].par = call.par, ![call.f].state = "SET"]
          /\ call' = IF call.op = "set" THEN Idle ELSE [call EXCEPT !.pc = "alloc"]
  /\ UNCHANGED <<mode, dmx, opened, timer, reading, dvr, copies, past>>

(* The size changed under a started filter.                                *)
SetSizeRunning ==
  /\ call.pc = "size" /\ call' = Idle
  /\ filter' = [filter EXCEPT ![call.f] = [@ EXCEPT !.sized = call.op = "size1", !.mem = @ /\ call.op = "size1"]]
  /\ UNCHANGED <<mode, dmx, opened, timer, reading, dvr, copies, past>>

(* dvb_dmxdev_set_buffer_size                                              *)
SetSize ==
  /\ call.pc = "size" /\ call' = Idle
  /\ LET f == call.f
         want == call.op = "size1"
     IN IF filter[f].sized = want \/ Active(f) THEN UNCHANGED filter
        ELSE \E mem \in {want} \cup (IF "memory" \in mode.faults THEN {FALSE} ELSE {}) :
               filter' = [filter EXCEPT ![f] = [@ EXCEPT !.sized = want, !.mem = mem,
                                                          !.buf = "empty"]]
  /\ UNCHANGED <<mode, dmx, opened, timer, reading, dvr, copies, past>>

(* The end of dvb_dmxdev_filter_free.                                      *)
Free ==
  /\ call.pc = "free" /\ call' = Idle
  /\ filter' = [filter EXCEPT ![call.f] = [@ EXCEPT !.state = "FREE", !.mem = FALSE,
                                                      !.par = NoParam, !.sec = 0]]
  /\ opened' = opened \ {call.f}
  /\ UNCHANGED <<mode, dmx, timer, reading, dvr, copies, past>>

-----------------------------------------------------------------------------
(* dvb_dmxdev_filter_start                                                 *)

(* Does the filter have a buffer afterwards?                               *)
StartMemory(f) ==
  IF filter[f].mem THEN {TRUE}
  ELSE IF "memory" \in mode.faults THEN {FALSE, filter[f].sized} ELSE {filter[f].sized}

(* Up to the point where the feed is allocated and set, or a shared one is *)
(* about to be stopped.                                                    *)
StartSection(f, fs) ==
  LET pid == filter[f].par.pid
      shared == IF Sharing(pid) = {} THEN 0 ELSE filter[Min(Sharing(pid))].feed
      i == IF shared # 0 THEN shared ELSE IF CanAllocateSection(dmx) THEN feed_alloc(dmx) ELSE 0
      gs == [fs EXCEPT ![f].sec = 0, ![f].feed = i]
  IN IF shared # 0
     THEN /\ filter' = [gs EXCEPT ![f].state = "SET"]
          /\ call' = [call EXCEPT !.pc = "share_stop"] /\ UNCHANGED dmx
     ELSE IF i = 0 THEN filter' = gs /\ call' = Idle /\ UNCHANGED dmx
     ELSE IF CanSetSection(pid)
          THEN /\ dmx' = section_feed_set(allocate_section_feed(dmx), i, pid)
               /\ filter' = gs /\ call' = [call EXCEPT !.pc = "get_filter"]
          ELSE FeedRestart(allocate_section_feed(dmx), f, gs, Idle)

StartPes(f, fs) ==
  LET par == filter[f].par
      i == feed_alloc(dmx)
      d == allocate_ts_feed(dmx, f)
  IN IF ~CanAllocateTs(dmx)
     THEN filter' = [fs EXCEPT ![f].feed = 0] /\ call' = Idle /\ UNCHANGED <<dmx, past>>
     ELSE /\ filter' = [fs EXCEPT ![f].feed = i]
          /\ IF CanSetTs(d, i, par.pid, par.dec)
             THEN /\ dmx' = ts_feed_set(d, i, par.pid, par.dec, par.out)
                  /\ call' = [call EXCEPT !.pc = "ts_start"] /\ UNCHANGED past
             ELSE /\ dmx' = release_ts_feed(d, i) /\ call' = Idle
                  /\ past' = [past EXCEPT !.refused = TRUE]

Start ==
  /\ call.pc = "alloc"
  /\ LET f == call.f
     IN \E mem \in StartMemory(f) :
          LET fs == [filter EXCEPT ![f].mem = mem, ![f].buf = "empty"]
          IN IF ~mem THEN call' = Idle /\ UNCHANGED <<dmx, filter, past>>   \* -ENOMEM
             ELSE CASE filter[f].par.type = "SEC" -> StartSection(f, fs) /\ UNCHANGED past
                    [] filter[f].par.type = "PES" -> StartPes(f, fs)
                    [] OTHER -> filter' = fs /\ call' = Idle /\ UNCHANGED <<dmx, past>>
  /\ UNCHANGED <<mode, opened, timer, reading, dvr, copies>>

(* allocate_filter, or its failure.                                        *)
GetFilter ==
  /\ call.pc = "get_filter"
  /\ LET f == call.f
     IN IF CanAllocateFilter(dmx)
        THEN /\ dmx' = allocate_filter(dmx, filter[f].feed)
             /\ filter' = [filter EXCEPT ![f].sec = filter_alloc(dmx)]
             /\ call' = [call EXCEPT !.pc = "start_filtering"]
        ELSE FeedRestart(dmx, f, filter, [call EXCEPT !.pc = "retry"])
  /\ UNCHANGED <<mode, opened, timer, reading, dvr, copies, past>>

(* After that failure the feed is started in any case, even if             *)
(* feed_restart has released it.                                           *)
Retry ==
  /\ call.pc = "retry" /\ call' = Idle
  /\ dmx' = TryStart(dmx, filter[call.f].feed)
  /\ UNCHANGED <<mode, filter, opened, timer, reading, dvr, copies, past>>

(* The filter becomes the owner and the feed is started; when that fails   *)
(* the call returns and leaves both behind.                                *)
StartFiltering ==
  /\ call.pc = "start_filtering"
  /\ LET f == call.f
         d == [dmx EXCEPT !.filter[filter[f].sec].priv = f]
     IN /\ dmx' = TryStart(d, filter[f].feed)
        /\ call' = IF CanStartSection(d, filter[f].feed) THEN [call EXCEPT !.pc = "arm"] ELSE Idle
  /\ UNCHANGED <<mode, filter, opened, timer, reading, dvr, copies, past>>

(* dvb_dmxdev_filter_timer                                                 *)
ArmTimer ==
  /\ call.pc = "arm"
  /\ timer' = [timer EXCEPT ![call.f].armed = filter[call.f].par.timed]
  /\ call' = [call EXCEPT !.pc = "go"]
  /\ UNCHANGED <<mode, dmx, filter, opened, reading, dvr, copies, past>>

StartTs ==
  /\ call.pc = "ts_start"
  /\ LET i == filter[call.f].feed
     IN IF CanStartTs(dmx, i)
        THEN dmx' = start_filtering(dmx, i) /\ call' = [call EXCEPT !.pc = "go"]
        ELSE dmx' = release_ts_feed(dmx, i) /\ call' = Idle
  /\ UNCHANGED <<mode, filter, opened, timer, reading, dvr, copies, past>>

Go ==
  /\ call.pc = "go" /\ call' = Idle
  /\ filter' = [filter EXCEPT ![call.f].state = "GO"]
  /\ UNCHANGED <<mode, dmx, opened, timer, reading, dvr, copies, past>>

-----------------------------------------------------------------------------
(* The tasklet: a packet is dispatched, and may complete a section.        *)

(* dvb_dmxdev_section_callback and dvb_dmxdev_ts_callback: a full buffer   *)
(* may overflow.                                                           *)
Stored(f) ==
  IF ~filter[f].mem THEN {filter[f].buf}
  ELSE IF filter[f].buf = "empty" THEN {"data"} ELSE {"data", "error"}

Packet(pid) ==
  /\ dmx.dma \/ dmx.frontend = "mem"
  /\ copies' = IF dvr.reader = "open" THEN DvrCopies(dmx, pid) ELSE 0
  /\ LET owners == {dmx.filter[k].priv : k \in
                      UNION {Range(dmx.feed[i].filters) : i \in SectionFeeds(dmx, pid)}} \ {0}
         secs == {f \in owners : filter[f].buf # "error" /\ filter[f].state = "GO"}
         taps == {f \in {dmx.feed[i].priv : i \in {j \in OtherTs(dmx, pid) : dmx.feed[j].out = "tap"}} :
                    filter[f].buf # "error"}
     IN \E got \in [secs \cup taps -> {"data", "error", "empty"}] :
          /\ \A f \in DOMAIN got : got[f] \in Stored(f)
          /\ filter' = [f \in DevFilters |->
               IF f \in DOMAIN got
               THEN [filter[f] EXCEPT !.buf = got[f],
                       !.state = IF f \in secs /\ filter[f].par.oneshot THEN "DONE" ELSE @]
               ELSE filter[f]]
          /\ timer' = [f \in DevFilters |->
               IF f \in secs THEN [timer[f] EXCEPT !.armed = FALSE] ELSE timer[f]]
  /\ UNCHANGED <<mode, dmx, opened, reading, call, dvr, past>>

-----------------------------------------------------------------------------
(* dvb_dmxdev_filter_timeout                                               *)

TimerExpires(f) ==
  /\ timer[f].armed /\ ~timer[f].running
  /\ timer' = [timer EXCEPT ![f] = [armed |-> FALSE, running |-> TRUE]]
  /\ filter' = [filter EXCEPT ![f].buf = "error"]
  /\ UNCHANGED <<mode, dmx, opened, reading, call, dvr, copies, past>>

TimerState(f) ==
  /\ timer[f].running
  /\ timer' = [timer EXCEPT ![f].running = FALSE]
  /\ filter' = [filter EXCEPT ![f].state = "TIMEDOUT"]
  /\ past' = [past EXCEPT !.late = @ \/ (~Active(f) /\ ~(call.f = f /\ call.pc = "go"))]
  /\ UNCHANGED <<mode, dmx, opened, reading, call, dvr, copies>>

-----------------------------------------------------------------------------
(* dvb_demux_read: holds the filter's mutex, and sleeps with it when there *)
(* is nothing to read.  A file that is being closed is not read.           *)

Took(f) == IF filter[f].buf = "data" THEN {"data", "empty"} ELSE {"empty"}

Read(f) ==
  /\ f \in opened \ reading /\ ~(call.f = f /\ (call.pc # "lock" \/ call.op = "free"))
  /\ filter[f].mem
  /\ IF filter[f].buf = "empty"
     THEN "sleep" \in mode.faults /\ reading' = reading \cup {f} /\ UNCHANGED filter
     ELSE \E b \in Took(f) : filter' = [filter EXCEPT ![f].buf = b] /\ UNCHANGED reading
  /\ UNCHANGED <<mode, dmx, opened, timer, call, dvr, copies, past>>

ReadWakes(f) ==
  /\ f \in reading /\ filter[f].buf # "empty"
  /\ \E b \in Took(f) : filter' = [filter EXCEPT ![f].buf = b]
  /\ reading' = reading \ {f}
  /\ UNCHANGED <<mode, dmx, opened, timer, call, dvr, copies, past>>

-----------------------------------------------------------------------------
(* dvb_dvr_open and dvb_dvr_release                                        *)

DvrOpenRead ==
  /\ call.pc = "idle" /\ mode.writers > 0 /\ dvr.reader = "none"
  /\ dvr' = [dvr EXCEPT !.reader = "open"]
  /\ UNCHANGED <<mode, dmx, filter, opened, timer, reading, call, copies, past>>

DvrCloseRead ==
  /\ call.pc = "idle" /\ dvr.reader = "open"
  /\ dvr' = [dvr EXCEPT !.reader = "none"]
  /\ UNCHANGED <<mode, dmx, filter, opened, timer, reading, call, copies, past>>

DvrOpenWrite ==
  /\ call.pc = "idle" /\ dvr.writers < mode.writers
  /\ dvr' = [dvr EXCEPT !.writers = @ + 1, !.orig = dmx.frontend]
  /\ dmx' = [dmx EXCEPT !.frontend = "mem"]
  /\ UNCHANGED <<mode, filter, opened, timer, reading, call, copies, past>>

(* The memory frontend left connected.                                     *)
DvrCloseWriteStays ==
  /\ call.pc = "idle" /\ dvr.writers > 0
  /\ dvr' = [dvr EXCEPT !.writers = @ - 1]
  /\ UNCHANGED <<mode, dmx, filter, opened, timer, reading, call, copies, past>>

DvrCloseWrite ==
  /\ call.pc = "idle" /\ dvr.writers > 0
  /\ dvr' = [dvr EXCEPT !.writers = @ - 1]
  /\ dmx' = [dmx EXCEPT !.frontend = dvr.orig]
  /\ UNCHANGED <<mode, filter, opened, timer, reading, call, copies, past>>

-----------------------------------------------------------------------------
CallStep ==
  \/ Lock \/ Stop \/ StopFeed \/ Release \/ Stopped \/ Set \/ SetSize \/ Free
  \/ Start \/ GetFilter \/ Retry \/ StartFiltering \/ ArmTimer \/ StartTs \/ Go

Begin ==
  \/ \E f \in DevFilters :
       \/ Open(f) \/ Close(f)
       \/ \E op \in mode.ops \ {"set", "setnow"} : Call(f, op, NoParam)
       \/ \E op \in mode.ops \cap {"set", "setnow"}, par \in mode.params : Call(f, op, par)
  \/ CloseInterrupted

Reader == \E f \in DevFilters : ReadWakes(f)

Timers == \E f \in DevFilters : TimerExpires(f) \/ TimerState(f)

Environment ==
  \/ \E pid \in Pids \ {AllPids} : Packet(pid)
  \/ \E f \in DevFilters : Read(f)
  \/ DvrOpenRead \/ DvrCloseRead \/ DvrOpenWrite \/ DvrCloseWrite

Next == CallStep \/ Begin \/ Reader \/ Timers \/ Environment

(* A call that can go on does, a woken reader runs, a timer that stays     *)
(* armed expires and its handler ends.                                     *)
Spec ==
  /\ Init /\ [][Next]_vars
  /\ WF_vars(CallStep)
  /\ \A f \in DevFilters : WF_vars(ReadWakes(f)) /\ WF_vars(TimerExpires(f)) /\ WF_vars(TimerState(f))

-----------------------------------------------------------------------------
FeedStates == {"FREE", "ALLOCATED", "READY", "GO"}

TypeOK ==
  /\ \A i \in DOMAIN dmx.feed :
       dmx.feed[i].state \in FeedStates /\ Range(dmx.feed[i].filters) \subseteq DOMAIN dmx.filter
  /\ dmx.feed_list \subseteq DOMAIN dmx.feed /\ dmx.pesfilter \in [Pes -> Feeds \cup {0}]
  /\ dmx.feeds \in Int /\ dmx.dma \in BOOLEAN /\ dmx.frontend \in {"hw", "mem", "none"}
  /\ \A f \in DevFilters :
       /\ filter[f].state \in {"FREE", "ALLOCATED", "SET", "GO", "DONE", "TIMEDOUT"}
       /\ filter[f].feed \in Feeds \cup {0} /\ filter[f].sec \in Filters \cup {0}
       /\ filter[f].buf \in {"empty", "data", "error"}
  /\ opened \subseteq DevFilters /\ reading \subseteq opened

(* "restart section feed if it has filters left associated with it": while *)
(* no call is running, every filter that has been started and not stopped  *)
(* has a feed of its PID that is filtering, and is entered in it, however  *)
(* many others have joined and left that feed.                             *)
ActiveServed ==
  (~past.late /\ call.pc = "idle") =>
    \A f \in DevFilters : Active(f) =>
      LET i == filter[f].feed IN
      /\ i # 0
      /\ dmx.feed[i].filtering /\ i \in dmx.feed_list
      /\ dmx.feed[i].pid = filter[f].par.pid
      /\ IF filter[f].par.type = "SEC"
         THEN filter[f].sec \in Range(dmx.feed[i].filters) /\ dmx.filter[filter[f].sec].priv = f
         ELSE dmx.feed[i].priv = f

(* "otherwise release the feed": a feed or filter of the demux that is not *)
(* free belongs to a started filter of the device, so none is ever lost.   *)
NoLeak ==
  (~past.late /\ call.pc = "idle") =>
    /\ \A i \in DOMAIN dmx.feed \ FreeFeeds(dmx) : \E f \in DevFilters : Active(f) /\ filter[f].feed = i
    /\ \A k \in DOMAIN dmx.filter \ FreeFilters(dmx) :
         \E i \in DOMAIN dmx.feed \ FreeFeeds(dmx) : k \in Range(dmx.feed[i].filters)

(* The card counts starts and stops of feeds: it streams exactly while     *)
(* some feed is filtering.                                                 *)
CardStreams ==
  (~past.late /\ call.pc = "idle") =>
    /\ dmx.dma = (\E i \in DOMAIN dmx.feed : dmx.feed[i].filtering)
    /\ dmx.feeds = Cardinality({i \in DOMAIN dmx.feed : dmx.feed[i].filtering})

(* At any moment, in the middle of a call too, the tasklet can follow the  *)
(* pointers: a filter it meets in a filtering feed belongs to a filter of  *)
(* the device that belongs to this feed, and a feed in feed_list is not    *)
(* free.                                                                   *)
CallbackSafe ==
  \A i \in DOMAIN dmx.feed :
    /\ i \in dmx.feed_list => dmx.feed[i].state # "FREE"
    /\ (~past.late /\ dmx.feed[i].filtering /\ dmx.feed[i].type = "SEC") =>
         \A k \in Range(dmx.feed[i].filters) :
           LET f == dmx.filter[k].priv
           IN f # 0 /\ filter[f].feed = i /\ filter[f].sec = k

(* Only a timeout that overtakes the stop of its filter can make a call go *)
(* through a null feed; failures of memory and of the card cannot.         *)
NoOops == call.pc = "oops" => past.late

(* A call comes to its end, whatever fails: it never waits for a mutex it  *)
(* holds itself, and is only held up, and the device with it, by a reader  *)
(* that sleeps on the same filter and has no timeout running that will     *)
(* wake it.                                                                *)
CallsReturn ==
  (call.pc # "idle") ~>
    \/ call.pc \in {"idle", "oops"}
    \/ call.f \in reading /\ ~timer[call.f].armed

(* A started filter has a buffer, although the buffer can be taken away or *)
(* fail to be allocated at any time before.                                *)
StartedHasBuffer == ~past.late => \A f \in DevFilters : Active(f) => filter[f].mem

(* An entry of pesfilter is a live feed for that stream; and as long as no *)
(* start was refused, two live feeds never write to the same decoder       *)
(* stream.  (The release of a refused feed clears the entry of what that   *)
(* feed was used for before, and with it the claim of another feed.)       *)
DecoderOwned ==
  ~past.late => \A p \in Pes :
    LET users == {i \in DOMAIN dmx.feed : /\ dmx.feed[i].type = "TS" /\ dmx.feed[i].dec = p
                                /\ dmx.feed[i].state \in {"READY", "GO"}}
    IN /\ dmx.pesfilter[p] # 0 => /\ dmx.feed[dmx.pesfilter[p]].state # "FREE"
                                  /\ dmx.feed[dmx.pesfilter[p]].dec = p
       /\ ~past.refused =>
            (Cardinality(users) <= 1 /\ (users # {} => users = {dmx.pesfilter[p]}))

(* "copy each packet only once to the dvr device, even if a PID is in      *)
(* multiple filters", as long as none of them takes the whole stream.      *)
DvrOnce ==
  (\A par \in mode.params : par.pid # AllPids) => copies <= 1

(* A closed file has given its filter back, unless a signal interrupted    *)
(* the close; and with one writer at a time, the DVR device leaves the     *)
(* demux connected to the frontend it found.                               *)
ClosedIsFree ==
  call.pc = "idle" =>
    /\ ("signals" \notin mode.faults /\ ~past.late) =>
         \A f \in DevFilters : f \notin opened => filter[f].state = "FREE"
    /\ (mode.writers < 2 /\ dvr.writers = 0) => dmx.frontend = "hw"

(* Nothing of the demux is lost and nothing is kept: each table entry is   *)
(* of its type and has its owner, the card's count of feeds is right, and  *)
(* what is closed is free.                                                 *)
Accounted == TypeOK /\ NoLeak /\ CardStreams /\ ClosedIsFree

(* No call, packet or timer follows a pointer that is NULL or stale.       *)
PointersSafe == CallbackSafe /\ NoOops /\ StartedHasBuffer

(* A decoder stream has one feed, and a packet goes to the DVR once.       *)
StreamsOnce == DecoderOwned /\ DvrOnce
-----------------------------------------------------------------------------
(* The inductive invariant                                                 *)

(* The tables have the types of the code, and hold nothing but what some   *)
(* caller chose.                                                           *)
Pars == mode.params \cup {NoParam}

FeedRec ==
  [state : FeedStates, type : {"TS", "SEC"}, pid : {NoPid} \cup {par.pid : par \in mode.params},
   filtering : BOOLEAN, filters : Seq(1 .. mode.filternum), dec : Pes \cup {NoPes, "bad"},
   out : {"none", "tap", "dvr"}, priv : 0 .. NDev]

FilterRec == [free : BOOLEAN, feed : 0 .. mode.feednum, priv : 0 .. NDev]

Demux ==
  [feed : [1 .. mode.feednum -> FeedRec], filter : [1 .. mode.filternum -> FilterRec],
   feed_list : SUBSET (1 .. mode.feednum), pesfilter : [Pes -> 0 .. mode.feednum],
   frontend : {"hw", "mem"}, feeds : Int, dma : BOOLEAN]

DevFilter ==
  [state : {"FREE", "ALLOCATED", "SET", "GO", "DONE", "TIMEDOUT"}, par : Pars,
   sec : 0 .. mode.filternum, feed : 0 .. mode.feednum,
   mem : BOOLEAN, sized : BOOLEAN, buf : {"empty", "data", "error"}]

Ops == {"set", "setnow", "start", "stop", "size0", "size1", "free"}

Stages ==
  {"lock", "stop", "feed_stop", "release", "stopped", "set", "size", "free", "alloc", "share_stop",
   "get_filter", "retry", "start_filtering", "arm", "ts_start", "go", "oops", "hung"}

Types ==
  /\ mode \in Modes /\ dmx \in Demux /\ filter \in [DevFilters -> DevFilter]
  /\ timer \in [DevFilters -> [armed : BOOLEAN, running : BOOLEAN]]
  /\ opened \subseteq DevFilters /\ reading \subseteq opened
  /\ call = Idle \/ call \in [pc : Stages, op : Ops, f : opened, par : Pars]
  /\ dvr \in [reader : {"none", "open"}, writers : Nat, orig : {"hw", "mem"}]
  /\ past \in [late : BOOLEAN, refused : BOOLEAN]

(* A call that is past its lock holds the filter's mutex; what it was      *)
(* called for decides where it goes.                                       *)
CallInv ==
  /\ (call.pc \notin {"idle", "lock"} \/ call.op = "free") => call.f \notin reading
  /\ call.pc \in {"stop", "feed_stop", "release", "stopped"} => call.op \notin {"size0", "size1"}
  /\ call.pc = "set" => call.op \in {"set", "setnow"}
  /\ call.op \in {"set", "setnow"} => call.par \in mode.params
  /\ call.pc \in {"feed_stop", "release", "share_stop", "get_filter", "retry", "start_filtering",
                  "ts_start"} => filter[call.f].feed # 0
  /\ call.pc = "start_filtering" => filter[call.f].sec # 0

(* With one writer the frontend it found is that of the card.              *)
FrontendInv ==
  mode.writers < 2 =>
    /\ dvr.writers = 0 => dmx.frontend = "hw"
    /\ dvr.writers = 1 => dvr.orig = "hw"
    /\ dvr.writers < 2

Listed(d) == \A i \in d.feed_list : d.feed[i].state # "FREE"

Used(d) == {i \in DOMAIN d.feed : d.feed[i].state # "FREE"}

(* Below, d and fs are a state of the demux and of the device's filters, H *)
(* the filters that have a feed, w the feed that a call has stopped or not *)
(* yet started, b the section filter that has no owner yet.                *)

(* Every feed that is used is filtering, but for w.                        *)
Runs(d, w) ==
  \A i \in DOMAIN d.feed :
    /\ d.feed[i].filtering <=> d.feed[i].state = "GO"
    /\ d.feed[i].state \in {"ALLOCATED", "READY"} <=> i = w

Filtering(d) == {i \in DOMAIN d.feed : d.feed[i].filtering}

Counts(d) == d.feeds = Cardinality(Filtering(d)) /\ d.dma = (Filtering(d) # {})

(* A section filter that is used is in the list of its feed, once, and in  *)
(* no other.                                                               *)
Lists(d) ==
  /\ \A i \in Used(d) :
       /\ IsInjective(d.feed[i].filters)
       /\ \A k \in Range(d.feed[i].filters) : ~d.filter[k].free /\ d.filter[k].feed = i
  /\ \A k \in DOMAIN d.filter : ~d.filter[k].free =>
       d.filter[k].feed \in Used(d) /\ k \in Range(d.feed[d.filter[k].feed].filters)

(* A section feed has filters, whose owners know it, and is the only one   *)
(* of its PID.                                                             *)
SecFeeds(d, fs, H, w, b) ==
  \A i \in Used(d) : d.feed[i].type = "SEC" =>
    /\ d.feed[i].filters = << >> => i = w
    /\ \A k \in Range(d.feed[i].filters) \ {b} :
         /\ d.filter[k].priv \in H /\ fs[d.filter[k].priv].par.type = "SEC"
         /\ fs[d.filter[k].priv].feed = i /\ fs[d.filter[k].priv].sec = k
    /\ \A j \in Used(d) : (d.feed[j].type = "SEC" /\ d.feed[j].pid = d.feed[i].pid) => i = j

TsFeeds(d, fs, H) ==
  \A i \in Used(d) : d.feed[i].type = "TS" =>
    /\ d.feed[i].priv \in H /\ fs[d.feed[i].priv].par.type = "PES"
    /\ fs[d.feed[i].priv].feed = i /\ Len(d.feed[i].filters) = 1

(* A filter that has a feed is served by it.                               *)
Served(d, fs, f, b) ==
  /\ fs[f].mem
  /\ fs[f].feed \in d.feed_list /\ d.feed[fs[f].feed].pid = fs[f].par.pid
  /\ \/ /\ fs[f].par.type = "SEC" /\ d.feed[fs[f].feed].type = "SEC"
        /\ fs[f].sec \in Range(d.feed[fs[f].feed].filters) \ {b}
        /\ d.filter[fs[f].sec].priv = f
     \/ /\ fs[f].par.type = "PES" /\ d.feed[fs[f].feed].type = "TS"
        /\ d.feed[fs[f].feed].priv = f

Decoders(d, refused) ==
  /\ \A p \in Pes : d.pesfilter[p] # 0 =>
       /\ d.pesfilter[p] \in Used(d) /\ d.feed[d.pesfilter[p]].type = "TS"
       /\ d.feed[d.pesfilter[p]].dec = p
  /\ ~refused =>
       \A i \in Used(d) : (d.feed[i].type = "TS" /\ d.feed[i].dec \in Pes) =>
         d.pesfilter[d.feed[i].dec] = i

Live(d, fs, H, w, b) ==
  /\ Runs(d, w) /\ Counts(d) /\ Lists(d)
  /\ SecFeeds(d, fs, H, w, b) /\ TsFeeds(d, fs, H)
  /\ \A f \in H : Served(d, fs, f, b)

Holding ==
  {f \in DevFilters : Active(f)} \cup
  (IF call.pc \in {"feed_stop", "release", "arm", "ts_start", "go"} THEN {call.f} ELSE {})

Worked ==
  IF call.pc \in {"release", "get_filter", "start_filtering", "ts_start"} THEN filter[call.f].feed ELSE 0

Nameless == IF call.pc = "start_filtering" THEN filter[call.f].sec ELSE 0

(* What a call relies on from one of its steps to the next.                *)
StageInv ==
  LET f == call.f
      i == filter[f].feed
  IN
  /\ call.pc \notin {"oops", "hung"}
  /\ call.pc \in {"alloc", "feed_stop", "release", "stopped", "share_stop", "get_filter", "retry",
                  "start_filtering", "arm", "ts_start"} => filter[f].state = "SET"
  /\ call.pc = "go" => filter[f].state \in {"SET", "TIMEDOUT"}
  /\ call.pc \in {"set", "free"} => ~Active(f)
  /\ (call.pc = "stop" /\ call.op = "start") => filter[f].state \notin {"FREE", "ALLOCATED"}
  /\ call.pc \in {"share_stop", "get_filter", "start_filtering"} =>
       /\ filter[f].mem /\ filter[f].par.type = "SEC" /\ i \in dmx.feed_list
       /\ dmx.feed[i].type = "SEC" /\ dmx.feed[i].pid = filter[f].par.pid
  /\ call.pc = "start_filtering" => filter[f].sec \in Range(dmx.feed[i].filters)
  /\ call.pc = "ts_start" => filter[f].par.type = "PES" /\ dmx.feed[i].state = "READY"
  /\ call.pc = "arm" => filter[f].par.type = "SEC"
  /\ call.pc = "retry" =>
       /\ i \in DOMAIN dmx.feed
       /\ dmx.feed[i].state = "GO" \/ (dmx.feed[i].state = "FREE" /\ dmx.feed[i].filters = << >>)

SetInv == \A f \in DevFilters : filter[f].state = "SET" => filter[f].par # NoParam

OpenInv == "signals" \notin mode.faults => \A f \in DevFilters \ opened : filter[f].state = "FREE"

LifeInv ==
  /\ Types /\ CallInv /\ FrontendInv /\ Listed(dmx) /\ DvrOnce
  /\ ~past.late =>
       /\ Live(dmx, filter, Holding, Worked, Nameless) /\ Decoders(dmx, past.refused)
       /\ StageInv /\ SetInv /\ OpenInv
=============================================================================
