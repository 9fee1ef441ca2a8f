---------------------------- MODULE MCDmxdevLife ----------------------------
(* Instances of DmxdevLife for TLC.                                        *)
EXTENDS DmxdevLife

Sec(pid) == [type |-> "SEC", pid |-> pid, oneshot |-> FALSE, timed |-> FALSE,
             dec |-> NoPes, out |-> "none"]
OneShot(pid) == [Sec(pid) EXCEPT !.oneshot = TRUE]
Timed(pid) == [Sec(pid) EXCEPT !.timed = TRUE]
Ts(pid, dec, out) == [Sec(pid) EXCEPT !.type = "PES", !.dec = dec, !.out = out]

Use(users, params, faults, ops, writers) ==
  [feednum |-> NFeeds, filternum |-> NFilters, users |-> users, params |-> params,
   faults |-> faults, ops |-> ops, writers |-> writers]

Brief == {"setnow", "stop"}

(* Section filters that share a PID; tables that run out; interrupted      *)
(* closes; one-shot filters and bad PIDs; failing memory and sleeping      *)
(* readers; timeouts, of shared feeds and of sleeping readers; decoder and *)
(* DVR streams; sections and decoder streams mixed; the whole stream with  *)
(* two DVR writers.                                                        *)
Shared == Use(3, {Sec("a")}, {}, {"setnow"}, 0)
FewFeeds == [Use(2, {Sec("a"), Sec("b"), Ts("b", NoPes, "tap")}, {}, {"setnow"}, 0) EXCEPT !.feednum = 1]
FewFilters == [Use(2, {Sec("a"), Sec("b")}, {}, Brief, 0) EXCEPT !.filternum = 1]
Interrupted == Use(1, {Sec("a")}, {"signals"}, Brief, 0)
Several == Use(2, {OneShot("a"), Sec("b"), Sec("bad")}, {}, {"set", "start"}, 0)
NoMemory == Use(2, {Sec("a"), Ts("b", "bad", "none")}, {"memory", "sleep"},
                {"setnow", "start", "size0", "size1"}, 0)
Timeouts == Use(2, {Timed("a")}, {}, {"setnow"}, 0)
TimedRead == Use(1, {Timed("a")}, {"sleep"}, Brief, 0)
Streams == Use(2, {Ts("a", "video", "dvr"), Ts("b", "video", "none"), Ts("a", NoPes, "dvr")},
               {}, {"setnow"}, 1)
Mixed == Use(2, {Sec("a"), Ts("a", "video", "none")}, {}, {"setnow"}, 0)
Whole == Use(2, {Ts("0x2000", NoPes, "dvr"), Ts("a", NoPes, "tap")}, {}, {"setnow"}, 2)

AllModes == {Shared, FewFeeds, FewFilters, Interrupted, Several, NoMemory, Timeouts, TimedRead,
             Streams, Mixed, Whole}
=============================================================================
