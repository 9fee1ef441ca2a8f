-------------------------- MODULE MCFrontendThread --------------------------
(* Instances of FrontendThread for TLC.                                    *)
EXTENDS FrontendThread

Place(drifts) == [drift : drifts, inv : Inversions]

(* A zigzag of one step either way, for both inversions.                   *)
Zigzag ==
  [step_size |-> 1, max_drift |-> 1, algo |-> "sw", recover |-> FALSE, powerdown |-> TRUE,
   reqs |-> {"a"}, invs |-> {"auto", "off"}, places |-> Place({-1, 0, 1}),
   max_event |-> 1, callers |-> {"p"}, ops |-> {}]

(* No zigzag (step_size 0), as for cable and for the zl10353.              *)
NoZigzag == [Zigzag EXCEPT !.step_size = 0, !.max_drift = 0, !.places = Place({0})]
Resumed == [NoZigzag EXCEPT !.invs = {"auto"}, !.ops = {"reinit"}]
Recovering == [NoZigzag EXCEPT !.recover = TRUE]

(* One setting only, and so a slow search at once.                         *)
Fixed == [Zigzag EXCEPT !.max_drift = 0, !.invs = {"off"},
                        !.places = {[drift |-> 0, inv |-> "off"]}]
Dish == [Fixed EXCEPT !.reqs = {"a", "b"}, !.ops = {"diseqc", "oneshot"}]
Reopened == [Fixed EXCEPT !.ops = {"oneshot", "close"}]
Removed == [Fixed EXCEPT !.ops = {"signals", "close", "remove"}]

(* dvb_shutdown_timeout = 0: the hardware stays tuned.                     *)
Awake == [Fixed EXCEPT !.powerdown = FALSE, !.reqs = {"a", "b"}, !.ops = {"signals", "close"}]

(* FE_ALGO_HW, and what does not depend on the scan.                       *)
Hardware == [Fixed EXCEPT !.reqs = {"a", "b"}, !.algo = "hw", !.ops = {"close", "diseqc"}]
Events == [Fixed EXCEPT !.algo = "hw", !.max_event = 3, !.ops = {"event"}]
Emptied == [Events EXCEPT !.max_event = 2, !.ops = {"event", "close"}]
Shared == [Events EXCEPT !.max_event = 2, !.callers = {"p", "q"}]
Signals == [Events EXCEPT !.max_event = 2, !.ops = {"event", "signals"}]

AllModes == {Zigzag, Resumed, Recovering, Dish, Reopened, Removed, Awake, Hardware, Events,
             Emptied, Shared, Signals}
=============================================================================
