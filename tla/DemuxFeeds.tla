----------------------------- MODULE DemuxFeeds -----------------------------
(***************************************************************************)
(* The tables of the software demultiplexer (dvb-core/dvb_demux.c) and the *)
(* Mantis hooks below it: which feeds and filters are allocated, set and   *)
(* filtering, who is entered in pesfilter, how often the card was started. *)
(*                                                                         *)
(* Every call runs under demux->mutex, and its changes that the tasklet    *)
(* can see under demux->lock, so a call is one function from the state of  *)
(* the demux, a record d, to the next.  A feed or filter is its index; 0   *)
(* is the null pointer.                                                    *)
(***************************************************************************)
EXTENDS Integers, Sequences, FiniteSets, FiniteSetsExt, SequencesExt

CONSTANTS
  NFeeds, NFilters,   \* bounds on feednum and filternum
  Pes,                \* the decoder streams: enum dmx_ts_pes below OTHER
  Pids                \* PIDs within DMX_MAX_PID

NoPes == "other"
NoPid == "0xffff"
AllPids == "0x2000"   \* the PID that stands for the whole stream

ASSUME DemuxConstants ==
  /\ NFeeds \in Nat \ {0} /\ NFilters \in Nat \ {0}
  /\ NoPes \notin Pes /\ NoPid \notin Pids

Feeds == 1 .. NFeeds
Filters == 1 .. NFilters

(* filters is the list that starts at feed->filter.  ts_type and pes_type  *)
(* are dec, the decoder stream, and out: TS_PACKET is "dvr", with          *)
(* TS_PAYLOAD_ONLY it is "tap".                                            *)
FreeFeed ==
  [state |-> "FREE", type |-> "TS", pid |-> NoPid, filtering |-> FALSE,
   filters |-> << >>, dec |-> NoPes, out |-> "none", priv |-> 0]

(* What a free filter still points to is read by nobody.                   *)
NoFilter == [free |-> TRUE, feed |-> 0, priv |-> 0]

(* dvb_dmx_init, and the frontend that mantis_dvb_init connects.           *)
DemuxInit(feednum, filternum) ==
  [feed |-> [i \in 1 .. feednum |-> FreeFeed],
   filter |-> [k \in 1 .. filternum |-> NoFilter],
   feed_list |-> {},
   pesfilter |-> [p \in Pes |-> 0],
   frontend |-> "hw",
   feeds |-> 0, dma |-> FALSE]

FreeFeeds(d) == {i \in DOMAIN d.feed : d.feed[i].state = "FREE"}
FreeFilters(d) == {k \in DOMAIN d.filter : d.filter[k].free}

(* The search runs to the end of the table.                                *)
filter_alloc_end(d) == Cardinality(DOMAIN d.filter) + 1

(* dvb_dmx_feed_alloc and dvb_dmx_filter_alloc take the first free entry.  *)
feed_alloc(d) == Min(FreeFeeds(d))
filter_alloc(d) == Min(FreeFilters(d))

-----------------------------------------------------------------------------
(* mantis_dvb_start_feed and mantis_dvb_stop_feed                          *)

start_feed(d) == [d EXCEPT !.feeds = @ + 1, !.dma = @ \/ d.feeds = 0]

(* The count tested before it is lowered.                                  *)
stop_feed_late(d) == [d EXCEPT !.feeds = @ - 1, !.dma = @ /\ d.feeds # 0]

stop_feed(d) ==
  IF d.frontend = "none" THEN d
  ELSE [d EXCEPT !.feeds = @ - 1, !.dma = @ /\ d.feeds # 1]

-----------------------------------------------------------------------------
(* dmx_ts_feed                                                             *)

CanAllocateTs(d) == FreeFeeds(d) # {} /\ FreeFilters(d) # {}

(* ts_type and pes_type are those of the feed's last use.                  *)
allocate_ts_feed(d, priv) ==
  LET i == feed_alloc(d)
      k == filter_alloc(d)
  IN [d EXCEPT !.feed[i] = [@ EXCEPT !.state = "ALLOCATED", !.type = "TS", !.pid = NoPid,
                                     !.filtering = FALSE, !.filters = <<k>>, !.priv = priv],
               !.filter[k] = [@ EXCEPT !.free = FALSE, !.feed = i]]

CanSetTs(d, i, pid, dec) ==
  /\ pid \in Pids
  /\ dec \in Pes => d.pesfilter[dec] \in {0, i}

ts_feed_set(d, i, pid, dec, out) ==
  [d EXCEPT !.feed[i] = [@ EXCEPT !.state = "READY", !.pid = pid, !.dec = dec, !.out = out],
            !.feed_list = @ \cup {i},
            !.pesfilter = [p \in Pes |-> IF p = dec THEN i ELSE @[p]]]

CanStartTs(d, i) ==
  d.feed[i].state = "READY" /\ d.feed[i].type = "TS" /\ d.frontend # "none"

start_filtering(d, i) ==
  [start_feed(d) EXCEPT !.feed[i] = [@ EXCEPT !.filtering = TRUE, !.state = "GO"]]

ts_stop_filtering(d, i) ==
  IF d.feed[i].state # "GO" THEN d
  ELSE [stop_feed(d) EXCEPT !.feed[i] = [@ EXCEPT !.filtering = FALSE, !.state = "ALLOCATED"]]

(* release_ts_feed follows feed->filter, which a section feed need not     *)
(* have.                                                                   *)
TsReleaseOops(d, i) == d.feed[i].state # "FREE" /\ d.feed[i].filters = << >>

(* The entry of pesfilter left alone.                                      *)
release_ts_feed_keep(d, i) ==
  IF d.feed[i].state = "FREE" THEN d
  ELSE [d EXCEPT !.feed[i] = [@ EXCEPT !.state = "FREE", !.pid = NoPid, !.priv = 0],
                 !.filter[Head(d.feed[i].filters)] = NoFilter,
                 !.feed_list = @ \ {i}]

(* The entry of pesfilter is cleared by what the feed was set to last,     *)
(* whoever is entered there.                                               *)
release_ts_feed(d, i) ==
  IF d.feed[i].state = "FREE" THEN d
  ELSE [d EXCEPT !.feed[i] = [@ EXCEPT !.state = "FREE", !.pid = NoPid, !.priv = 0],
                 !.filter[Head(d.feed[i].filters)] = NoFilter,
                 !.feed_list = @ \ {i},
                 !.pesfilter = [p \in Pes |-> IF p = d.feed[i].dec THEN 0 ELSE @[p]]]

-----------------------------------------------------------------------------
(* dmx_section_feed                                                        *)

CanAllocateSection(d) == FreeFeeds(d) # {}

allocate_section_feed(d) ==
  LET i == feed_alloc(d)
  IN [d EXCEPT !.feed[i] = [@ EXCEPT !.state = "ALLOCATED", !.type = "SEC", !.pid = NoPid,
                                     !.filtering = FALSE, !.filters = << >>]]

CanSetSection(pid) == pid \in Pids \ {AllPids}

section_feed_set(d, i, pid) ==
  [d EXCEPT !.feed[i] = [@ EXCEPT !.state = "READY", !.pid = pid],
            !.feed_list = @ \cup {i}]

CanAllocateFilter(d) == FreeFilters(d) # {}

(* Puts a filter without priv at the head of the list.                     *)
allocate_filter(d, i) ==
  LET k == filter_alloc(d)
  IN [d EXCEPT !.feed[i].filters = <<k>> \o @,
               !.filter[k] = [free |-> FALSE, feed |-> i, priv |-> 0]]

CanStartSection(d, i) ==
  ~d.feed[i].filtering /\ d.feed[i].filters # << >> /\ d.frontend # "none"

section_stop_filtering(d, i) ==
  [stop_feed(d) EXCEPT !.feed[i] = [@ EXCEPT !.filtering = FALSE, !.state = "READY"]]

(* release_filter holds demux->mutex when it calls stop_filtering, which   *)
(* takes it again.                                                         *)
ReleaseHangs(d, i, k) == d.filter[k].feed = i /\ d.feed[i].filtering

(* The filter is looked for in the feed's list, to the end and beyond.     *)
ReleaseOops(d, i, k) == d.filter[k].feed = i /\ k \notin Range(d.feed[i].filters)

release_filter(d, i, k) ==
  IF d.filter[k].feed # i THEN d
  ELSE [d EXCEPT !.feed[i].filters = RemoveFirst(@, k),
                 !.filter[k] = NoFilter]

release_section_feed(d, i) ==
  IF d.feed[i].state = "FREE" THEN d
  ELSE [d EXCEPT !.feed[i] = [@ EXCEPT !.state = "FREE", !.pid = NoPid, !.priv = 0],
                 !.feed_list = @ \ {i}]

-----------------------------------------------------------------------------
(* dvb_dmx_swfilter_packet                                                 *)

Matching(d, pid) == {i \in d.feed_list : d.feed[i].pid \in {pid, AllPids}}

DVR_FEED(d, i) ==
  d.feed[i].type = "TS" /\ d.feed[i].filtering /\ d.feed[i].out = "dvr"

(* The other feeds whose callback is called, one for the whole stream even *)
(* when it does not filter.                                                *)
OtherTs(d, pid) ==
  {i \in Matching(d, pid) :
     /\ d.feed[i].type = "TS" /\ ~DVR_FEED(d, i)
     /\ d.feed[i].pid = AllPids \/ (d.feed[i].filtering /\ d.feed[i].out = "tap")}

(* Every DVR feed handed on.                                               *)
DvrCopiesAll(d, pid) ==
  Cardinality({i \in Matching(d, pid) : DVR_FEED(d, i)})
    + Cardinality({i \in OtherTs(d, pid) : d.feed[i].out = "dvr"})

(* How many copies of a packet reach the DVR buffer: dvr_done lets the     *)
(* first DVR feed through.                                                 *)
DvrCopies(d, pid) ==
  (IF \E i \in Matching(d, pid) : DVR_FEED(d, i) THEN 1 ELSE 0)
    + Cardinality({i \in OtherTs(d, pid) : d.feed[i].out = "dvr"})

SectionFeeds(d, pid) ==
  {i \in Matching(d, pid) : d.feed[i].type = "SEC" /\ d.feed[i].filtering}
=============================================================================
