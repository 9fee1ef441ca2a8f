--------------------------- MODULE FrontendThread ---------------------------
(***************************************************************************)
(* A frontend's device (dvb_frontend.c): the tuning thread, the ioctls of  *)
(* the one process that may have it open for writing (several threads may  *)
(* share that file), open, close and unregister.                           *)
(*                                                                         *)
(* fepriv->sem is a counting semaphore, held by the thread for an          *)
(* iteration and by an ioctl for the call, except while FE_GET_EVENT       *)
(* sleeps.  A call that changes nothing visible in between is one step.    *)
(* FESTATE_SEARCHING_SLOW has both slow bits, and so is one state, "SLOW". *)
(* How long the thread waits (delay, quality, wakeup) is left open: it     *)
(* always wakes.  Frequencies are a request and a drift; the frontend      *)
(* driver locks when drift and inversion are those of the signal.          *)
(***************************************************************************)
EXTENDS Integers, Sequences, FiniteSetsExt, SequencesExt

CONSTANTS
  Width,        \* values of the unsigned auto_step, 2^32 in the code
  Modes         \* records with the fields
                \*   step_size, max_drift: the tune settings
                \*   algo: "sw" or "hw" (FE_ALGO_HW)
                \*   recover: the frontend has FE_CAN_RECOVER
                \*   powerdown: dvb_shutdown_timeout is not 0
                \*   reqs, invs: the tunings and inversions that are asked for
                \*   places: the drifts and inversions a signal can have
                \*   max_event: MAX_EVENT, 8 in the code
                \*   callers: the threads sharing the file
                \*   ops \subseteq {"event", "diseqc", "oneshot", "reinit",
                \*     "close", "remove", "signals"}

Inversions == {"off", "on"}
Untuned == [req |-> "none", drift |-> 0, inv |-> "off"]
Thread == "kdvb-fe"

ASSUME FrontendConstants ==
  /\ Width \in Nat \ {0}
  /\ \A m \in Modes :
       /\ m.step_size \in Nat /\ m.max_drift \in Nat /\ m.max_event \in Nat \ {0}
       /\ m.max_drift < Width * m.step_size \/ m.step_size = 0
       /\ m.invs \subseteq Inversions \union {"auto"} /\ "none" \notin m.reqs
       /\ m.powerdown \in BOOLEAN
       /\ Thread \notin m.callers

VARIABLES
  mode,       \* which member of Modes this behaviour is in
  sem,        \* the count of fepriv->sem
  at,         \* where the tuning thread is; thread_pid # 0 iff not "none"
  leaving,    \* a thread that has set thread_pid = 0 has still to call
              \*   dvb_frontend_wakeup (bound: one at a time)
  fe,         \* the rest of dvb_frontend_private: state, status (locked or
              \*   not), parameters (req, inv), the scan, the tune mode
  s,          \* the thread's local status
  hw,         \* what the driver has set the hardware to
  sig,        \* the signal on the air: at most one place
  ev,         \* the event queue: w, r, overflow, slots
  cell,       \* the slot that the thread, or a caller, is filling
  call,       \* where each caller is in its ioctl
  dev,        \* "closed", "opening", "open": the file open for writing;
              \*   "stopping" (fepriv->exit) and "freed"
  expired,    \* dvb_shutdown_timeout has passed since the last close
  added,      \* history: the unread events, as they were added
  tried,      \* history: the trials since the last request
  past        \* history: see below

vars == <<mode, leaving, sem, at, fe, s, hw, sig, ev, cell, call, dev, expired, added, tried, past>>

-----------------------------------------------------------------------------
(* past: orphan: a file was opened while the thread was on its way out;    *)
(* doubled: an interrupted FE_GET_EVENT released a semaphore it did not    *)
(* hold; raced: open emptied the queue while an event was being added;     *)
(* stale: an event was taken from an empty queue; clobbered: a switch or   *)
(* LNB command, or an open that failed, replaced a request the thread had  *)
(* not seen; hasty: stop was interrupted.                                  *)
Clean == [orphan |-> FALSE, doubled |-> FALSE, raced |-> FALSE, stale |-> FALSE,
          clobbered |-> FALSE, hasty |-> FALSE]

Callers == UNION {m.callers : m \in Modes}
Adders == Callers \union {Thread}

Searching == {"TUNING_FAST", "ZIGZAG_FAST", "SLOW"}
SEARCHING_FAST == {"TUNING_FAST", "ZIGZAG_FAST"}
WAITFORLOCK == Searching \union {"DISEQC"}
LOSTLOCK == {"ZIGZAG_FAST", "SLOW"}
States == WAITFORLOCK \union {"IDLE", "RETUNE", "TUNED"}

NoEvents(m) == [w |-> 0, r |-> 0, overflow |-> FALSE,
                slots |-> [i \in 0 .. m.max_event - 1 |-> [req |-> "none", lock |-> FALSE]]]

(* dvb_register_frontend: kzalloc leaves state 0, which start replaces.    *)
Init ==
  /\ mode \in Modes
  /\ sem = 1 /\ at = "none" /\ leaving = FALSE /\ s = FALSE /\ hw = Untuned /\ sig = {}
  /\ fe = [state |-> "IDLE", status |-> FALSE, req |-> "none", inv |-> "off",
           inversion |-> "off", auto_step |-> 0, auto_sub_step |-> 0,
           started_auto_step |-> 0, check_wrapped |-> FALSE,
           oneshot |-> FALSE, reinitialise |-> FALSE]
  /\ ev = NoEvents(mode) /\ cell = [a \in Adders |-> 0]
  /\ call = [c \in Callers |-> "idle"]
  /\ dev = "closed" /\ expired = FALSE
  /\ added = <<>> /\ tried = {} /\ past = Clean

-----------------------------------------------------------------------------
(* The hardware.                                                           *)

HasLock(h) == h.req # "none" /\ [drift |-> h.drift, inv |-> h.inv] \in sig

SignalChanges ==
  /\ dev # "freed"
  /\ sig' \in ({{}} \union {{p} : p \in mode.places}) \ {sig}
  /\ UNCHANGED <<mode, leaving, sem, at, fe, s, hw, ev, cell, call, dev, expired, added, tried, past>>

-----------------------------------------------------------------------------
(* dvb_frontend_swzigzag_autotune                                          *)

AutoInversion(f) == f.inv = "auto"
Drift(step) == step * mode.step_size

(* One step too far.                                                       *)
WrappedLate(step) == IF Drift(step) > mode.max_drift + mode.step_size THEN 0 ELSE step
Wrapped(step) == IF Drift(step) > mode.max_drift THEN 0 ELSE step

(* The sub-steps that are ready at a step.                                 *)
Ready(f, step) ==
  {n \in 0 .. 3 : (n \in {1, 3} => AutoInversion(f)) /\ (n \in {2, 3} => Drift(step) # 0)}

(* The negative drift is tried with one inversion only.                    *)
TrialOneSided(f) ==
  LET step == Wrapped(f.auto_step)
      sub == IF step # f.auto_step THEN 0 ELSE f.auto_sub_step
      later == {n \in Ready(f, step) \ {3} : n >= sub}
  IN IF later # {} THEN <<step, Min(later)>> ELSE <<Wrapped((step + 1) % Width), 0>>

(* The next step and sub-step to try.                                      *)
Trial(f) ==
  LET step == Wrapped(f.auto_step)
      sub == IF step # f.auto_step THEN 0 ELSE f.auto_sub_step
      later == {n \in Ready(f, step) : n >= sub}
  IN IF later # {} THEN <<step, Min(later)>> ELSE <<Wrapped((step + 1) % Width), 0>>

(* Complete as soon as the step is the one it started with.                *)
CompleteEarly(f, check) == Trial(f)[1] = f.started_auto_step /\ check

Complete(f, check) ==
  Trial(f) = <<f.started_auto_step, 0>> /\ check

(* fepriv once the trial is chosen, and what is given to set_frontend.     *)
Toggled(i) == IF i = "off" THEN "on" ELSE "off"
Chosen(f) ==
  [f EXCEPT !.auto_step = Trial(f)[1], !.auto_sub_step = Trial(f)[2],
            !.inversion = IF Trial(f)[2] \in {1, 3} THEN Toggled(@) ELSE @]
Setting(f) ==
  LET c == Chosen(f) IN
  [req |-> f.req,
   drift |-> IF c.auto_sub_step \in {2, 3} THEN -Drift(c.auto_step) ELSE Drift(c.auto_step),
   inv |-> IF AutoInversion(f) THEN c.inversion ELSE f.inv]

(* The drifts and inversions a scan is to cover.                           *)
Steps == {k \in 0 .. Width - 1 : Drift(k) <= mode.max_drift}
WantedInversions == IF AutoInversion(fe) THEN Inversions ELSE {fe.inv}
Scan ==
  [drift : {Drift(k) : k \in Steps} \union {-Drift(k) : k \in Steps}, inv : WantedInversions]

History ==
  CASE fe.state = "RETUNE" -> {} [] fe.state = "TUNED" -> Scan [] OTHER -> tried

(* A trial that is carried out, f being fepriv when it begins.  A request  *)
(* starts the history again; a scan for a lost lock has none.              *)
Tune(f) ==
  /\ fe' = [Chosen(f) EXCEPT !.auto_sub_step = @ + 1, !.check_wrapped = @ \/ f.state # "SLOW",
                             !.state = IF @ = "RETUNE" THEN "TUNING_FAST" ELSE @]
  /\ hw' = Setting(f)
  /\ tried' = History \union {[drift |-> hw'.drift, inv |-> hw'.inv]}

-----------------------------------------------------------------------------
(* dvb_frontend_add_event: a reserves a slot and copies the parameters,    *)
(* then publishes it, then enters the status.                              *)

Slot(i) == i % mode.max_event
Full == Slot(ev.w + 1) = ev.r

(* The oldest event is not dropped.                                        *)
DroppedNever == ev
Dropped == IF Full THEN [ev EXCEPT !.overflow = TRUE, !.r = Slot(@ + 1)] ELSE ev

(* What is unread once one more event is added.                            *)
Latest(q) == SubSeq(q, IF Len(q) >= mode.max_event THEN 2 ELSE 1, Len(q))

Reserve(a, req, lock) ==
  /\ cell' = [cell EXCEPT ![a] = ev.w]
  /\ ev' = [Dropped EXCEPT !.slots[ev.w].req = req]
  /\ added' = Latest(Append(added, [req |-> req, lock |-> lock]))

Publish(a) ==
  /\ ev' = [ev EXCEPT !.w = Slot(cell[a] + 1)]
  /\ UNCHANGED <<mode, leaving, sem, fe, s, hw, sig, cell, dev, expired, added, tried, past>>

Stamp(a, lock) ==
  /\ ev' = [ev EXCEPT !.slots[cell[a]].lock = lock]
  /\ fe' = [fe EXCEPT !.status = lock]
  /\ cell' = [cell EXCEPT ![a] = 0]
  /\ UNCHANGED <<mode, leaving, s, hw, sig, dev, expired, added, tried, past>>

-----------------------------------------------------------------------------
(* dvb_frontend_thread                                                     *)

Alive == dev # "freed"

(* The writers are not counted; exit is not looked at.                     *)
IsExitingOpen == dev = "stopping" \/ expired
IsExitingTimed == dev = "closed" /\ expired
IsExiting == dev = "stopping" \/ (dev = "closed" /\ expired)

(* Enters with sem held by start.                                          *)
ThreadInit ==
  /\ Alive /\ at = "init"
  /\ fe' = [fe EXCEPT !.check_wrapped = FALSE, !.status = FALSE, !.reinitialise = FALSE]
  /\ hw' = Untuned /\ at' = "wait" /\ sem' = sem + 1
  /\ UNCHANGED <<mode, leaving, s, sig, ev, cell, call, dev, expired, added, tried, past>>

ThreadWakes ==
  /\ Alive /\ at = "wait"
  /\ at' = IF IsExiting THEN "exit" ELSE "down"
  /\ UNCHANGED <<mode, leaving, sem, fe, s, hw, sig, ev, cell, call, dev, expired, added, tried, past>>

ThreadDown ==
  /\ Alive /\ at = "down" /\ sem > 0
  /\ sem' = sem - 1 /\ at' = "work"
  /\ IF fe.reinitialise
     THEN fe' = [fe EXCEPT !.reinitialise = FALSE] /\ hw' = Untuned
     ELSE UNCHANGED <<fe, hw>>
  /\ UNCHANGED <<mode, leaving, s, sig, ev, cell, call, dev, expired, added, tried, past>>

(* The end of an iteration.                                                *)
Up == at' = "wait" /\ sem' = sem + 1

(* The hardware is put to sleep, without sem, and thread_pid = 0.          *)
ThreadExits ==
  /\ Alive /\ at = "exit" /\ ~leaving
  /\ hw' = IF mode.powerdown THEN Untuned ELSE hw
  /\ at' = "none" /\ leaving' = TRUE
  /\ UNCHANGED <<mode, sem, fe, s, sig, ev, cell, call, dev, expired, added, tried, past>>

(* dvb_frontend_wakeup at the very end, with fepriv freed or not.          *)
LastWakeup ==
  /\ leaving /\ leaving' = FALSE
  /\ UNCHANGED <<mode, sem, at, fe, s, hw, sig, ev, cell, call, dev, expired, added, tried, past>>

(* dvb_frontend_swzigzag, in the order of its returns.                     *)

Idles ==
  /\ Alive /\ at = "work" /\ mode.algo = "sw" /\ fe.state = "IDLE"
  /\ Up
  /\ UNCHANGED <<mode, leaving, fe, s, hw, sig, ev, cell, call, dev, expired, added, tried, past>>

TunesOnce ==
  /\ Alive /\ at = "work" /\ mode.algo = "sw" /\ fe.state # "IDLE" /\ fe.oneshot
  /\ IF fe.state = "RETUNE"
     THEN /\ hw' = [req |-> fe.req, drift |-> 0, inv |-> fe.inv]
          /\ fe' = [fe EXCEPT !.state = "TUNED"]
     ELSE UNCHANGED <<hw, fe>>
  /\ Up
  /\ UNCHANGED <<mode, leaving, s, sig, ev, cell, call, dev, expired, added, tried, past>>

(* The event that a new status makes, for the rest of the iteration.       *)
Reports(lock) ==
  /\ s' = lock
  /\ IF lock # fe.status
     THEN Reserve(Thread, fe.req, lock) /\ at' = "publish"
     ELSE at' = "tune" /\ UNCHANGED <<ev, cell, added>>

ReadsStatus ==
  /\ Alive /\ at = "work" /\ mode.algo = "sw" /\ fe.state # "IDLE" /\ ~fe.oneshot
  /\ IF fe.state = "RETUNE"
     THEN s' = FALSE /\ at' = "tune" /\ UNCHANGED <<ev, cell, added>>
     ELSE Reports(HasLock(hw))
  /\ UNCHANGED <<mode, leaving, sem, fe, hw, sig, call, dev, expired, tried, past>>

ThreadPublishes == Alive /\ at = "publish" /\ Publish(Thread) /\ at' = "stamp" /\ UNCHANGED call
ThreadStamps == Alive /\ at = "stamp" /\ Stamp(Thread, s) /\ at' = "tune" /\ UNCHANGED <<sem, call>>

Tuning(alg) == Alive /\ at = "tune" /\ mode.algo = alg /\ Up /\ s' = FALSE
               /\ UNCHANGED <<mode, leaving, sig, ev, cell, call, dev, expired, added, past>>

(* A lock: the inversion that was found is entered in the parameters.      *)
GetsLock ==
  /\ Tuning("sw") /\ fe.state \in WAITFORLOCK /\ s
  /\ fe' = [fe EXCEPT !.state = "TUNED",
                      !.inv = IF AutoInversion(fe) THEN fe.inversion ELSE @]
  /\ UNCHANGED <<hw, tried>>

StaysTuned ==
  /\ Tuning("sw") /\ fe.state = "TUNED" /\ s
  /\ UNCHANGED <<fe, hw, tried>>

(* fepriv past the check for a lost lock.                                  *)
LostLock ==
  IF fe.state = "TUNED"
  THEN [fe EXCEPT !.state = "ZIGZAG_FAST", !.started_auto_step = fe.auto_step,
                  !.check_wrapped = FALSE]
  ELSE fe

Recovers(f) == f.state \in LOSTLOCK /\ mode.recover /\ mode.max_drift = 0
Unlocked == fe.state # "RETUNE" => ~s

(* Nothing is done: the frontend recovers by itself, or a dish is turning. *)
LeavesAlone ==
  /\ Tuning("sw") /\ Unlocked /\ (Recovers(LostLock) \/ fe.state = "DISEQC")
  /\ fe' = LostLock
  /\ UNCHANGED <<hw, tried>>

(* A new scan for a new request.                                           *)
NewScan(f) ==
  [f EXCEPT !.auto_step = 0, !.auto_sub_step = 0, !.started_auto_step = 0,
            !.check_wrapped = FALSE]

SearchesFast ==
  LET f == IF fe.state = "RETUNE" THEN NewScan(fe) ELSE LostLock IN
  /\ Tuning("sw") /\ Unlocked /\ ~Recovers(f)
  /\ f.state \in SEARCHING_FAST \union {"RETUNE"}
  /\ IF Complete(f, f.check_wrapped)
     THEN /\ fe' = [Chosen(f) EXCEPT !.state = "SLOW", !.started_auto_step = Chosen(f).auto_step]
          /\ UNCHANGED <<hw, tried>>
     ELSE Tune(f)

SearchesSlow ==
  /\ Tuning("sw") /\ ~s /\ fe.state = "SLOW" /\ ~Recovers(fe)
  /\ Tune(fe)

(* FE_ALGO_HW: the driver's tune reports a status of its own.              *)
HwTunes ==
  /\ Alive /\ at = "work" /\ mode.algo = "hw"
  /\ IF fe.state = "RETUNE"
     THEN /\ hw' = [req |-> fe.req, drift |-> 0, inv |-> fe.inv]
          /\ fe' = [fe EXCEPT !.state = "TUNED"]
     ELSE UNCHANGED <<hw, fe>>
  /\ Reports(HasLock(hw'))
  /\ UNCHANGED <<mode, leaving, sem, sig, call, dev, expired, tried, past>>

HwDone == Tuning("hw") /\ UNCHANGED <<fe, hw, tried>>

ThreadSteps ==
  \/ ThreadInit \/ ThreadWakes \/ ThreadExits
  \/ Idles \/ TunesOnce \/ ReadsStatus \/ ThreadPublishes \/ ThreadStamps
  \/ GetsLock \/ StaysTuned \/ LeavesAlone \/ SearchesFast \/ SearchesSlow
  \/ HwTunes \/ HwDone

-----------------------------------------------------------------------------
(* dvb_frontend_ioctl, of caller c on the file open for writing.           *)

Does(op) == op \in mode.ops
CanCall(c) == dev = "open" /\ c \in mode.callers /\ call[c] = "idle" /\ sem > 0

(* FE_SET_FRONTEND                                                         *)
SetFrontend(c) ==
  /\ CanCall(c)
  /\ \E req \in mode.reqs, inv \in mode.invs :
       /\ fe' = [fe EXCEPT !.req = req, !.inv = inv, !.state = "RETUNE"]
       /\ Reserve(c, req, FALSE)
  /\ sem' = sem - 1 /\ call' = [call EXCEPT ![c] = "publish"]
  /\ UNCHANGED <<mode, leaving, at, s, hw, sig, dev, expired, tried, past>>

SetPublishes(c) ==
  call[c] = "publish" /\ Publish(c) /\ call' = [call EXCEPT ![c] = "stamp"] /\ UNCHANGED at

SetReturns(c) ==
  /\ call[c] = "stamp" /\ Stamp(c, FALSE)
  /\ call' = [call EXCEPT ![c] = "idle"] /\ sem' = sem + 1
  /\ UNCHANGED at

(* The DISEQC, tone, voltage and switch commands.                          *)
Diseqc(c) ==
  /\ Does("diseqc") /\ CanCall(c)
  /\ fe' = [fe EXCEPT !.state = "DISEQC", !.status = FALSE]
  /\ past' = [past EXCEPT !.clobbered = @ \/ fe.state = "RETUNE"]
  /\ UNCHANGED <<mode, leaving, sem, at, s, hw, sig, ev, cell, call, dev, expired, added, tried>>

SetTuneMode(c) ==
  /\ Does("oneshot") /\ CanCall(c)
  /\ fe' = [fe EXCEPT !.oneshot = ~@]
  /\ UNCHANGED <<mode, leaving, sem, at, s, hw, sig, ev, cell, call, dev, expired, added, tried, past>>

(* FE_READ_STATUS reports a lock, once a new request has been taken up.    *)
ReadStatusAlways == sem > 0 /\ HasLock(hw)
ReadStatus == sem > 0 /\ fe.state # "RETUNE" /\ HasLock(hw)

(* FE_GET_EVENT.  The oldest event is taken, from an empty queue too.      *)
Take ==
  /\ ev' = [ev EXCEPT !.r = Slot(@ + 1)]
  /\ added' = IF added = <<>> THEN added ELSE Tail(added)
  /\ past' = [past EXCEPT !.stale = @ \/ ev.w = ev.r]

GetEvent(c) ==
  /\ Does("event") /\ CanCall(c)
  /\ \/ /\ ev.overflow
        /\ ev' = [ev EXCEPT !.overflow = FALSE]
        /\ UNCHANGED <<call, added, past>>
     \/ /\ ~ev.overflow /\ ev.w # ev.r
        /\ Take /\ UNCHANGED call
     \/ /\ ~ev.overflow /\ ev.w = ev.r          \* without O_NONBLOCK
        /\ call' = [call EXCEPT ![c] = "sleep"]
        /\ UNCHANGED <<ev, added, past>>
  /\ UNCHANGED <<mode, leaving, sem, at, fe, s, hw, sig, cell, dev, expired, tried>>

GetEventWakes(c) ==
  /\ call[c] = "sleep"
  /\ \/ ev.w # ev.r /\ call' = [call EXCEPT ![c] = "back"]
     \/ Does("signals") /\ call' = [call EXCEPT ![c] = "signalled"]
  /\ UNCHANGED <<mode, leaving, sem, at, fe, s, hw, sig, ev, cell, dev, expired, added, tried, past>>

(* The call ends without taking sem again.                                 *)
GetEventReturnsLoose(c) ==
  /\ call[c] \in {"back", "signalled"}
  /\ IF call[c] = "back" THEN Take ELSE UNCHANGED <<ev, added, past>>
  /\ call' = [call EXCEPT ![c] = "idle"] /\ sem' = sem + 1
  /\ UNCHANGED <<mode, leaving, at, fe, s, hw, sig, cell, dev, expired, tried>>

(* sem is taken again, the call ends and releases it.                      *)
GetEventReturns(c) ==
  /\ call[c] \in {"back", "signalled"} /\ sem > 0
  /\ IF call[c] = "back" THEN Take ELSE UNCHANGED <<ev, added, past>>
  /\ call' = [call EXCEPT ![c] = "idle"]
  /\ UNCHANGED <<mode, leaving, sem, at, fe, s, hw, sig, cell, dev, expired, tried>>

(* A signal when sem is not free: get_event returns without it, and the    *)
(* ioctl releases it.                                                      *)
GetEventInterrupted(c) ==
  /\ call[c] = "signalled" \/ (call[c] = "back" /\ Does("signals"))
  /\ sem = 0
  /\ sem' = sem + 1 /\ past' = [past EXCEPT !.doubled = TRUE]
  /\ call' = [call EXCEPT ![c] = "idle"]
  /\ UNCHANGED <<mode, leaving, at, fe, s, hw, sig, ev, cell, dev, expired, added, tried>>

CallerSteps(c) ==
  SetPublishes(c) \/ SetReturns(c) \/ GetEventReturns(c) \/ GetEventInterrupted(c)

-----------------------------------------------------------------------------
(* open, close, unregister, and a bridge driver that reset the card        *)

(* dvb_frontend_open up to the event queue: a thread is started unless     *)
(* there is one.                                                           *)
OpenStart ==
  /\ dev = "closed" /\ dev' = "opening"
  /\ \/ /\ at = "none" /\ sem > 0
        /\ fe' = [fe EXCEPT !.oneshot = FALSE, !.state = "IDLE"]
        /\ at' = "init" /\ sem' = sem - 1
     \/ /\ at # "none"
        /\ fe' = [fe EXCEPT !.oneshot = FALSE]
        /\ UNCHANGED <<at, sem>>
  /\ past' = [past EXCEPT !.orphan = (at = "exit")]
  /\ UNCHANGED <<mode, leaving, s, hw, sig, ev, cell, call, expired, added, tried>>

Filling == at \in {"publish", "stamp"}
OpenEnd ==
  /\ dev = "opening" /\ dev' = "open"
  /\ ev' = [ev EXCEPT !.w = 0, !.r = 0]
  /\ added' = <<>>
  /\ past' = [past EXCEPT !.raced = @ \/ Filling]
  /\ UNCHANGED <<mode, leaving, sem, at, fe, s, hw, sig, cell, call, expired, tried>>

(* start fails, by a signal or for want of a thread: in the second case it *)
(* has reset the state.                                                    *)
OpenFails ==
  /\ Does("signals") /\ dev = "closed" /\ at = "none" /\ sem > 0
  /\ fe' \in {[fe EXCEPT !.oneshot = FALSE], [fe EXCEPT !.oneshot = FALSE, !.state = "IDLE"]}
  /\ ev' = [ev EXCEPT !.w = 0, !.r = 0]
  /\ added' = <<>>
  /\ past' = [past EXCEPT !.clobbered = @ \/ (fe.state = "RETUNE" /\ fe'.state = "IDLE" /\ hw # Untuned)]
  /\ UNCHANGED <<mode, leaving, sem, at, s, hw, sig, cell, call, dev, expired, tried>>

(* dvb_frontend_release, of the last reference to the file.                *)
Release ==
  /\ Does("close") /\ dev = "open" /\ \A c \in Callers : call[c] = "idle"
  /\ dev' = "closed" /\ expired' = FALSE
  /\ UNCHANGED <<mode, leaving, sem, at, fe, s, hw, sig, ev, cell, call, added, tried, past>>

Expires ==
  /\ dev = "closed" /\ ~expired /\ expired' = TRUE
  /\ UNCHANGED <<mode, leaving, sem, at, fe, s, hw, sig, ev, cell, call, dev, added, tried, past>>

(* dvb_frontend_reinitialise                                               *)
Reinitialise ==
  /\ Does("reinit") /\ dev \in {"closed", "open"} /\ ~fe.reinitialise
  /\ fe' = [fe EXCEPT !.reinitialise = TRUE]
  /\ UNCHANGED <<mode, leaving, sem, at, s, hw, sig, ev, cell, call, dev, expired, added, tried, past>>

(* dvb_unregister_frontend: stop asks the thread to exit and waits for it. *)
Stop ==
  /\ Does("remove") /\ dev = "closed" /\ dev' = "stopping"
  /\ UNCHANGED <<mode, leaving, sem, at, fe, s, hw, sig, ev, cell, call, expired, added, tried, past>>

Unregister ==
  /\ dev = "stopping" /\ at = "none" /\ dev' = "freed"
  /\ UNCHANGED <<mode, leaving, sem, at, fe, s, hw, sig, ev, cell, call, expired, added, tried, past>>

UnregisterInterrupted ==
  /\ Does("signals") /\ dev = "stopping" /\ at # "none" /\ dev' = "freed"
  /\ past' = [past EXCEPT !.hasty = TRUE]
  /\ UNCHANGED <<mode, leaving, sem, at, fe, s, hw, sig, ev, cell, call, expired, added, tried>>

-----------------------------------------------------------------------------
Next ==
  \/ ThreadSteps \/ ThreadDown \/ LastWakeup \/ SignalChanges
  \/ \E c \in mode.callers :
       \/ SetFrontend(c) \/ Diseqc(c) \/ SetTuneMode(c)
       \/ GetEvent(c) \/ GetEventWakes(c) \/ CallerSteps(c)
  \/ OpenStart \/ OpenEnd \/ OpenFails \/ Release \/ Expires \/ Reinitialise
  \/ Stop \/ Unregister \/ UnregisterInterrupted

(* The thread waits with a timeout, so it always goes on; it gets sem in   *)
(* its turn, although others take it as well.  A call that has begun ends, *)
(* except FE_GET_EVENT, which may sleep for ever; time passes.             *)
Fairness ==
  /\ WF_vars(ThreadSteps) /\ SF_vars(ThreadDown) /\ WF_vars(LastWakeup)
  /\ \A c \in Callers : SF_vars(CallerSteps(c))
  /\ WF_vars(OpenEnd) /\ WF_vars(Expires) /\ WF_vars(Unregister)

Spec == Init /\ [][Next]_vars /\ Fairness

-----------------------------------------------------------------------------
(* Properties                                                              *)

(* The types, and the bounds of the scan and of the queue.                 *)
TypeOK ==
  /\ mode \in Modes /\ sem \in Nat
  /\ at \in {"none", "init", "wait", "down", "work", "publish", "stamp", "tune", "exit"}
  /\ fe.state \in States /\ fe.req \in mode.reqs \union {"none"}
  /\ fe.inv \in Inversions \union {"auto"} /\ fe.inversion \in Inversions
  /\ fe.auto_step \in 0 .. Width - 1 /\ Drift(fe.auto_step) <= mode.max_drift
  /\ fe.auto_sub_step \in 0 .. 4
  /\ {fe.status, fe.check_wrapped, fe.oneshot, fe.reinitialise, s, expired, leaving} \subseteq BOOLEAN
  /\ {ev.w, ev.r} \subseteq DOMAIN ev.slots /\ cell \in [Adders -> DOMAIN ev.slots]
  /\ call \in [Callers -> {"idle", "publish", "stamp", "sleep", "back", "signalled"}]
  /\ dev \in {"closed", "opening", "open", "stopping", "freed"}

(* fepriv->sem is a mutex: one holder and a count of 0, or none and 1.     *)
(* (dvb_frontend_thread, start and every path of dvb_frontend_ioctl.)      *)
Holders ==
  {c \in Callers : call[c] \in {"publish", "stamp"}}
    \union (IF at \in {"init", "work", "publish", "stamp", "tune"} THEN {Thread} ELSE {})
MutEx == past.doubled \/ sem + Cardinality(Holders) = 1

(* "if retune was requested but hasn't occured yet, prevent that user get  *)
(* signal state from previous tuning": a lock that FE_READ_STATUS reports, *)
(* or that an event reports, is one of the tuning it is reported for.      *)
OwnStatus ==
  past.clobbered \/ past.doubled \/
    /\ ReadStatus => hw.req = fe.req
    /\ at \in {"publish", "stamp"} /\ s => hw.req = fe.req

(* The slow search begins once every drift and inversion was tried for the *)
(* request, with none left out.                                            *)
SlowAfterAll == fe.state = "SLOW" => Scan \subseteq tried

(* The zigzag stays within max_drift and goes slow when it has tried all.  *)
ScanComplete == TypeOK /\ SlowAfterAll

(* The queue has the unread events with their own status, the oldest first *)
(* and without gaps, whoever adds them: a status is entered in a slot that *)
(* is already published.                                                   *)
EventsTrue ==
  LET unread == [i \in 1 .. Slot(ev.w - ev.r) |-> ev.slots[Slot(ev.r + i - 1)]] IN
  \/ past.raced \/ past.stale \/ past.doubled
  \/ Holders # {}
  \/ unread = added

(* dvb_frontend_stop: "wait until the frontend thread has exited".  When   *)
(* unregister frees fepriv no thread has any use for it, unless the wait   *)
(* was interrupted.  The code does not keep this: thread_pid is 0 before   *)
(* the thread's last call of dvb_frontend_wakeup.                          *)
ThreadExited == dev = "freed" /\ ~past.hasty => at = "none" /\ ~leaving

-----------------------------------------------------------------------------
(* The inductive invariant.                                                *)

Requests == mode.reqs \union {"none"}

FeRecord ==
  [state : States, status : BOOLEAN, req : Requests, inv : Inversions \union {"auto"},
   inversion : Inversions, auto_step : Steps, auto_sub_step : 0 .. 4,
   started_auto_step : Steps, check_wrapped : BOOLEAN, oneshot : BOOLEAN,
   reinitialise : BOOLEAN]

HwRecord == [req : Requests, drift : Int, inv : Inversions \union {"auto"}]

FeTypes == fe \in FeRecord
HwTypes == hw \in HwRecord

Cells == 0 .. mode.max_event - 1
QueueTypes ==
  /\ ev \in [w : Cells, r : Cells, overflow : BOOLEAN,
             slots : [Cells -> [req : Requests, lock : BOOLEAN]]]
  /\ cell \in [Adders -> Cells]

ControlTypes ==
  /\ mode \in Modes /\ sem \in Nat /\ s \in BOOLEAN /\ expired \in BOOLEAN /\ leaving \in BOOLEAN
  /\ at \in {"none", "init", "wait", "down", "work", "publish", "stamp", "tune", "exit"}
  /\ call \in [Callers -> {"idle", "publish", "stamp", "sleep", "back", "signalled"}]
  /\ dev \in {"closed", "opening", "open", "stopping", "freed"}
  /\ past \in [orphan : BOOLEAN, doubled : BOOLEAN, raced : BOOLEAN, stale : BOOLEAN,
              clobbered : BOOLEAN, hasty : BOOLEAN]

LockInv ==
  \/ past.doubled
  \/ sem = 1 /\ Holders = {}
  \/ sem = 0 /\ \E h \in Adders : Holders = {h}

(* What is tuned is what was last asked for, unless that is still to be    *)
(* done: a thread that begins resets the hardware before anybody gets sem. *)
RequestInv ==
  past.clobbered \/ past.doubled \/
    /\ fe.state # "RETUNE" /\ at # "init" => hw.req \in {"none", fe.req}
    /\ at \in {"publish", "stamp"} /\ s => hw.req = fe.req

(* What the first scan has tried when it gets to fe.auto_sub_step: every   *)
(* lower step, and of this one the positive drift with both inversions     *)
(* before the negative drift.                                              *)
Tried(drift, invs) == \A i \in invs : [drift |-> drift, inv |-> i] \in tried
Now == {IF AutoInversion(fe) THEN fe.inversion ELSE fe.inv}

Covered ==
  LET d == Drift(fe.auto_step)
      n == fe.auto_sub_step
  IN /\ \A k \in Steps : k < fe.auto_step =>
          Tried(Drift(k), WantedInversions) /\ Tried(-Drift(k), WantedInversions)
     /\ n > 0
     /\ n = 1 => Tried(d, Now)
     /\ n > 1 => Tried(d, WantedInversions)
     /\ n = 3 => Tried(-d, Now)
     /\ n = 4 => Tried(-d, WantedInversions)

(* A scan after a lost lock counts as complete from the start: its history *)
(* begins with Scan.                                                       *)
ScanInv ==
  /\ fe.state = "SLOW" => Scan \subseteq tried
  /\ fe.state = "ZIGZAG_FAST" => Recovers(fe) \/ Scan \subseteq tried
  /\ fe.state = "TUNING_FAST" => fe.started_auto_step = 0 /\ fe.check_wrapped /\ Covered
  /\ at = "init" => fe.state # "TUNING_FAST"

(* The queue has the events of q, the oldest first.                        *)
Event == [req : Requests, lock : BOOLEAN]
QueueHas(q) ==
  /\ Len(q) < mode.max_event /\ ev.w = Slot(ev.r + Len(q))
  /\ \A i \in 1 .. Len(q) : ev.slots[Slot(ev.r + (i - 1))] = q[i]

(* What a has still to do for the event it adds, and the status it will    *)
(* enter.                                                                  *)
Phase(a) == IF a = Thread THEN at ELSE call[a]
Due(a) == IF a = Thread THEN s ELSE FALSE

(* The slot that a fills is that of the last event, which lacks its status *)
(* only; a queue of one slot keeps no event.                               *)
Pending(a) ==
  \/ mode.max_event = 1 /\ added = <<>>
  \/ /\ Len(added) \in 1 .. mode.max_event - 1
     /\ cell[a] = Slot(ev.r + (Len(added) - 1))
     /\ \A i \in 1 .. Len(added) - 1 : ev.slots[Slot(ev.r + (i - 1))] = added[i]
     /\ ev.slots[cell[a]].req = added[Len(added)].req
     /\ added[Len(added)].lock = Due(a)

AddedInv == added \in Seq(Event)
CallerInv == dev = "open" \/ \A c \in Callers : call[c] = "idle"
EventsInv ==
  past.raced \/ past.stale \/ past.doubled \/
    /\ (\A a \in Adders : Phase(a) \notin {"publish", "stamp"}) => QueueHas(added)
    /\ \A a \in Adders :
         /\ Phase(a) = "publish" => Pending(a) /\ ev.w = cell[a]
         /\ Phase(a) = "stamp" => Pending(a) /\ ev.w = Slot(cell[a] + 1)

FrontendInv ==
  /\ ControlTypes /\ FeTypes /\ HwTypes /\ QueueTypes
  /\ LockInv /\ RequestInv /\ ScanInv
  /\ AddedInv /\ CallerInv /\ EventsInv

-----------------------------------------------------------------------------
(* A request is taken up by the thread, unless the file is closed before,  *)
(* or was opened while the thread was going.                               *)
RetuneDone ==
  (dev = "open" /\ fe.state = "RETUNE") ~> (dev # "open" \/ fe.state # "RETUNE" \/ past.orphan)

(* A signal that stays where the scan gets to is found and kept, while     *)
(* nobody disturbs the thread: from the first scan or after a lost lock.   *)
Undisturbed ==
  /\ dev = "open" /\ ~past.orphan /\ mode.algo = "sw"
  /\ ~fe.oneshot /\ ~fe.reinitialise
  /\ fe.state \in Searching \union {"TUNED"} /\ ~Recovers(LostLock)
FindsSignal ==
  \A p \in UNION {m.places : m \in Modes} :
    <>[](Undisturbed /\ sig = {p} /\ p \in Scan) => <>[](fe.state = "TUNED" /\ HasLock(hw))

(* A thread that is told to exit does, and unregister returns.             *)
StopEnds == dev = "stopping" ~> dev = "freed"

(* The thread obeys: it takes up what it is asked, and ends when told to.  *)
ThreadObeys == RetuneDone /\ StopEnds
=============================================================================
