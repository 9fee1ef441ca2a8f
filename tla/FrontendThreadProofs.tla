------------------------ MODULE FrontendThreadProofs ------------------------
(* Proofs about the tuning thread of dvb_frontend: the semaphore, the      *)
(* status that is reported, the zigzag scan, the event queue and           *)
(* unregister.  The invariant FrontendInv of FrontendThread is shown to be *)
(* inductive part by part: one lemma per part, with one case per group of  *)
(* actions.                                                                *)
EXTENDS FrontendThread, FiniteSetTheorems, SequenceTheorems, TLAPS

(* What the assumption on the constants says of the mode of a behaviour.   *)
LEMMA ModeFields ==
  ASSUME mode \in Modes
  PROVE  /\ mode.step_size \in Nat /\ mode.max_drift \in Nat /\ mode.max_event \in Nat \ {0}
         /\ mode.invs \subseteq Inversions \union {"auto"} /\ "none" \notin mode.reqs
         /\ Thread \notin mode.callers /\ mode.callers \subseteq Callers
BY FrontendConstants DEF Callers

(* The thread is not one of the callers.                                   *)
LEMMA CallersApart == Thread \notin Callers
BY FrontendConstants DEF Callers

(* The drift is a natural number and grows with the step.                  *)
LEMMA Drifts ==
  ASSUME mode \in Modes
  PROVE  /\ \A k \in Nat : Drift(k) \in Nat
         /\ Drift(0) = 0
         /\ \A j, k \in Nat : j <= k => Drift(j) <= Drift(k)
<1>1. mode.step_size \in Nat
  BY ModeFields
<1>2. \A m \in Nat : \A k \in Nat : k * m \in Nat
  OBVIOUS
<1>3. ASSUME NEW m \in Nat, NEW j \in Nat, NEW k \in Nat, j <= k PROVE j * m <= k * m
  <2>1. k - j \in Nat /\ (k - j) * m \in Nat
    BY <1>3, <1>2
  <2>2. k * m = j * m + (k - j) * m
    BY <1>3
  <2>3. j * m \in Nat
    BY <1>2
  <2> QED
    BY <2>1, <2>2, <2>3
<1> QED
  BY <1>1, <1>2, <1>3 DEF Drift

(* The first step is always within max_drift.                              *)
LEMMA FirstStep ==
  ASSUME mode \in Modes
  PROVE  0 \in Steps /\ Steps \subseteq Nat
BY Drifts, ModeFields, FrontendConstants DEF Steps

(* The least of the sub-steps that are left.                               *)
LEMMA MinOf ==
  ASSUME NEW S \in SUBSET (0 .. 3), S # {}
  PROVE  Min(S) \in S /\ \A n \in S : Min(S) <= n
<1>1. \E x \in S : \A y \in S : x <= y
  <2>1. CASE 0 \in S
    BY <2>1
  <2>2. CASE 0 \notin S /\ 1 \in S
    BY <2>2
  <2>3. CASE 0 \notin S /\ 1 \notin S /\ 2 \in S
    BY <2>3
  <2>4. CASE 0 \notin S /\ 1 \notin S /\ 2 \notin S
    <3>1. \A y \in S : y = 3
      BY <2>4
    <3>2. PICK x \in S : TRUE
      OBVIOUS
    <3> QED
      BY <3>1, <3>2
  <2> QED
    BY <2>1, <2>2, <2>3, <2>4
<1> QED
  BY <1>1 DEF Min

(* A step beyond the last one, or past the width, is the first again.      *)
LEMMA NextStep ==
  ASSUME mode \in Modes, NEW step \in Steps
  PROVE  \/ step + 1 \in Steps /\ Wrapped((step + 1) % Width) = step + 1
         \/ Wrapped((step + 1) % Width) = 0 /\ \A k \in Steps : k <= step
<1>1. step \in 0 .. Width - 1 /\ Width \in Nat \ {0}
  BY FrontendConstants DEF Steps
<1>2. CASE step = Width - 1
  <2>1. (step + 1) % Width = 0
    BY <1>1, <1>2
  <2> QED
    BY <1>1, <1>2, <2>1 DEF Wrapped, Steps
<1>3. CASE step < Width - 1
  <2>1. (step + 1) % Width = step + 1 /\ step + 1 \in 0 .. Width - 1
    BY <1>1, <1>3
  <2>2. CASE Drift(step + 1) <= mode.max_drift
    BY <2>1, <2>2, Drifts, ModeFields DEF Wrapped, Steps
  <2>3. CASE ~(Drift(step + 1) <= mode.max_drift)
    <3>1. ASSUME NEW k \in Steps, ~(k <= step) PROVE FALSE
      <4>1. k \in Nat /\ step + 1 \in Nat /\ step + 1 <= k /\ Drift(k) <= mode.max_drift
        BY <1>1, <3>1 DEF Steps
      <4> QED
        BY <2>3, <4>1, Drifts, ModeFields
    <3>2. Drift(step + 1) > mode.max_drift
      BY <2>1, <2>3, Drifts, ModeFields
    <3> QED
      BY <2>1, <3>1, <3>2 DEF Wrapped
  <2> QED
    BY <2>2, <2>3
<1> QED
  BY <1>1, <1>2, <1>3

(* The next trial: the first sub-step that is ready at this step, or the   *)
(* next step.                                                              *)
LEMMA NextTrial ==
  ASSUME mode \in Modes, NEW f, f.auto_step \in Steps, f.auto_sub_step \in 0 .. 4
  PROVE  \/ \E n \in Ready(f, f.auto_step) :
              /\ n >= f.auto_sub_step /\ Trial(f) = <<f.auto_step, n>>
              /\ \A m \in Ready(f, f.auto_step) : m >= f.auto_sub_step => m >= n
         \/ /\ \A m \in Ready(f, f.auto_step) : m < f.auto_sub_step
            /\ Trial(f) = <<Wrapped((f.auto_step + 1) % Width), 0>>
<1> DEFINE later == {n \in Ready(f, f.auto_step) : n >= f.auto_sub_step}
<1>1. f.auto_step \in Nat /\ Drift(f.auto_step) <= mode.max_drift /\ Drift(f.auto_step) \in Nat
  BY Drifts DEF Steps
<1>2. Wrapped(f.auto_step) = f.auto_step
  BY <1>1, ModeFields DEF Wrapped
<1>3. Trial(f) = IF later # {} THEN <<f.auto_step, Min(later)>>
                 ELSE <<Wrapped((f.auto_step + 1) % Width), 0>>
  BY <1>2 DEF Trial
<1>4. later \in SUBSET (0 .. 3)
  BY DEF Ready
<1>5. CASE later # {}
  <2>1. Min(later) \in later /\ \A n \in later : Min(later) <= n
    BY <1>4, <1>5, MinOf
  <2>2. Trial(f) = <<f.auto_step, Min(later)>>
    BY <1>3, <1>5
  <2>3. Min(later) \in 0 .. 3
    BY <1>4, <2>1
  <2> HIDE DEF later
  <2>4. \A m \in Ready(f, f.auto_step) : m >= f.auto_sub_step => m >= Min(later)
    <3> SUFFICES ASSUME NEW m \in Ready(f, f.auto_step), m >= f.auto_sub_step PROVE m >= Min(later)
      OBVIOUS
    <3>1. m \in later /\ m \in 0 .. 3
      BY <1>4 DEF later
    <3> QED
      BY <2>1, <2>3, <3>1
  <2>5. Min(later) \in Ready(f, f.auto_step) /\ Min(later) >= f.auto_sub_step
    BY <2>1 DEF later
  <2> QED
    BY <2>2, <2>4, <2>5
<1>6. CASE later = {}
  BY <1>3, <1>4, <1>6 DEF Ready
<1> QED
  BY <1>5, <1>6

(* The next trial is again a step in reach and a sub-step.                 *)
LEMMA TrialTypes ==
  ASSUME mode \in Modes, NEW f, f.auto_step \in Steps, f.auto_sub_step \in 0 .. 4
  PROVE  Trial(f)[1] \in Steps /\ Trial(f)[2] \in 0 .. 3
<1>1. CASE \E n \in Ready(f, f.auto_step) : Trial(f) = <<f.auto_step, n>>
  BY <1>1 DEF Ready
<1>2. CASE Trial(f) = <<Wrapped((f.auto_step + 1) % Width), 0>>
  BY <1>2, NextStep, FirstStep
<1> QED
  BY <1>1, <1>2, NextTrial

(* The states that the thread sets.                                        *)
LEMMA StateNames ==
  /\ "IDLE" \in States /\ "RETUNE" \in States /\ "TUNED" \in States /\ "DISEQC" \in States
  /\ "TUNING_FAST" \in States /\ "ZIGZAG_FAST" \in States /\ "SLOW" \in States
BY DEF States, WAITFORLOCK, Searching

(* What the trial does to fepriv, and what it gives to the driver.         *)
LEMMA ChosenTypes ==
  ASSUME mode \in Modes, NEW f \in FeRecord
  PROVE  /\ Chosen(f) \in FeRecord /\ Chosen(f).auto_sub_step \in 0 .. 3
         /\ Chosen(f).auto_step = Trial(f)[1] /\ Chosen(f).auto_sub_step = Trial(f)[2]
         /\ Chosen(f).inversion = (IF Trial(f)[2] \in {1, 3} THEN Toggled(f.inversion)
                                   ELSE f.inversion)
         /\ Chosen(f).state = f.state /\ Chosen(f).inv = f.inv /\ Chosen(f).req = f.req
         /\ Chosen(f).started_auto_step = f.started_auto_step
         /\ Chosen(f).check_wrapped = f.check_wrapped
<1>1. Trial(f)[1] \in Steps /\ Trial(f)[2] \in 0 .. 3
  BY TrialTypes DEF FeRecord
<1>2. Trial(f)[2] \in 0 .. 4
  BY <1>1
<1>3. Toggled(f.inversion) \in Inversions
  BY DEF Toggled, Inversions
<1> QED
  BY <1>1, <1>2, <1>3 DEF Chosen, FeRecord

(* What a trial sets the hardware to is the present request.               *)
LEMMA SettingTypes ==
  ASSUME mode \in Modes, NEW f \in FeRecord
  PROVE  /\ Setting(f) \in HwRecord
         /\ Setting(f).req = f.req
<1>1. Chosen(f).auto_step \in Nat /\ Chosen(f).inversion \in Inversions
  BY ChosenTypes, FirstStep DEF FeRecord
<1>2. Drift(Chosen(f).auto_step) \in Nat
  BY <1>1, Drifts
<1> QED
  BY <1>1, <1>2 DEF Setting, FeRecord, HwRecord

(* fepriv when a trial begins.                                             *)
LEMMA BeginTypes ==
  ASSUME mode \in Modes, FeTypes
  PROVE  NewScan(fe) \in FeRecord /\ LostLock \in FeRecord
<1>1. 0 \in Steps
  BY FirstStep
<1>2. NewScan(fe) \in FeRecord
  <2>1. \A k \in Steps, n \in 0 .. 4 :
          [fe EXCEPT !.auto_step = k, !.auto_sub_step = n, !.started_auto_step = k,
                     !.check_wrapped = FALSE] \in FeRecord
    BY DEF FeTypes, FeRecord
  <2>2. 0 \in 0 .. 4
    OBVIOUS
  <2> QED
    BY <1>1, <2>1, <2>2, Zenon DEF NewScan
<1>3. LostLock \in FeRecord
  BY StateNames DEF LostLock, FeTypes, FeRecord
<1> QED
  BY <1>2, <1>3

(* The sets the types are built of are the same before and after a step.   *)
LEMMA SameRecords ==
  ASSUME mode' = mode
  PROVE  /\ Requests' = Requests /\ Steps' = Steps /\ FeRecord' = FeRecord
         /\ HwRecord' = HwRecord /\ Cells' = Cells
<1>1. Steps' = Steps
  BY DEF Steps, Drift
<1>2. Requests' = Requests /\ Cells' = Cells
  BY DEF Requests, Cells
<1> QED
  BY <1>1, <1>2 DEF FeRecord, HwRecord

(* dvb_frontend_swzigzag_autotune keeps the types of both records.         *)
LEMMA TuneTypes ==
  ASSUME mode \in Modes, mode' = mode, NEW f \in FeRecord, Tune(f)
  PROVE  FeTypes' /\ HwTypes'
<1> DEFINE c == Chosen(f)
<1>1. c \in FeRecord /\ c.auto_sub_step + 1 \in 0 .. 4
  BY ChosenTypes
<1>2. /\ fe' = [c EXCEPT !.auto_sub_step = c.auto_sub_step + 1,
                         !.check_wrapped = c.check_wrapped \/ f.state # "SLOW",
                         !.state = IF c.state = "RETUNE" THEN "TUNING_FAST" ELSE c.state]
      /\ hw' = Setting(f)
  BY DEF Tune
<1> HIDE DEF c
<1>3. fe' \in FeRecord
  BY <1>1, <1>2, StateNames DEF FeRecord
<1> QED
  BY <1>2, <1>3, SettingTypes, SameRecords DEF FeTypes, HwTypes
(* No step changes the mode.                                               *)
LEMMA SameMode ==
  ASSUME Next
  PROVE  mode' = mode
<1>1. CASE \/ ThreadInit \/ ThreadWakes \/ ThreadExits \/ Idles \/ TunesOnce
           \/ ReadsStatus \/ ThreadPublishes \/ ThreadStamps \/ GetsLock \/ StaysTuned
           \/ LeavesAlone \/ SearchesFast \/ SearchesSlow \/ HwTunes \/ HwDone
           \/ ThreadDown \/ SignalChanges \/ LastWakeup
  BY <1>1 DEF ThreadInit, ThreadWakes, ThreadExits, Idles, Up, TunesOnce, ReadsStatus,
     Reports, ThreadPublishes, Publish, ThreadStamps, Stamp, GetsLock, Tuning, StaysTuned,
     LeavesAlone, SearchesFast, SearchesSlow, HwTunes, HwDone, ThreadDown, SignalChanges, LastWakeup
<1>2. ASSUME NEW c \in mode.callers,
             \/ SetFrontend(c) \/ Diseqc(c) \/ SetTuneMode(c) \/ GetEvent(c)
             \/ GetEventWakes(c) \/ SetPublishes(c) \/ SetReturns(c)
             \/ GetEventReturns(c) \/ GetEventInterrupted(c)
      PROVE  mode' = mode
  BY <1>2 DEF SetFrontend, CanCall, Diseqc, SetTuneMode, GetEvent, Take, GetEventWakes,
     SetPublishes, Publish, SetReturns, Stamp, GetEventReturns, GetEventInterrupted
<1>3. CASE \/ OpenStart \/ OpenEnd \/ OpenFails \/ Release \/ Expires \/ Reinitialise
           \/ Stop \/ Unregister \/ UnregisterInterrupted
  BY <1>3 DEF OpenStart, OpenEnd, OpenFails, Release, Expires, Reinitialise, Stop,
     Unregister, UnregisterInterrupted
<1> QED
  BY <1>1, <1>2, <1>3 DEF Next, ThreadSteps, CallerSteps

(* Every step keeps the types of fepriv, the step of the zigzag within     *)
(* max_drift.                                                              *)
LEMMA FeStep ==
  ASSUME ControlTypes, FeTypes, Next
  PROVE  FeTypes'
<1>0. mode \in Modes /\ s \in BOOLEAN
  BY DEF ControlTypes
<1> USE <1>0
<1>1. CASE \/ ThreadWakes \/ ThreadExits \/ Idles \/ ReadsStatus \/ ThreadPublishes
           \/ StaysTuned \/ HwDone \/ SignalChanges \/ LastWakeup \/ OpenEnd \/ Release \/ Expires
           \/ Stop \/ Unregister \/ UnregisterInterrupted
  BY <1>1, SameRecords, SameMode DEF ThreadWakes, ThreadExits, Idles, Up, ReadsStatus,
     Reports, ThreadPublishes, Publish, StaysTuned, Tuning, HwDone, SignalChanges, LastWakeup, OpenEnd,
     Release, Expires, Stop, Unregister, UnregisterInterrupted, FeTypes
<1>2. ASSUME NEW c \in mode.callers,
             \/ GetEvent(c) \/ GetEventWakes(c) \/ SetPublishes(c) \/ GetEventReturns(c)
             \/ GetEventInterrupted(c)
      PROVE  FeTypes'
  BY <1>2, SameRecords, SameMode DEF GetEvent, CanCall, Take, GetEventWakes, SetPublishes,
     Publish, GetEventReturns, GetEventInterrupted, FeTypes
<1>3. CASE ThreadInit
  BY <1>3, SameRecords, SameMode, StateNames DEF ThreadInit, FeTypes, FeRecord
<1>4. CASE TunesOnce
  BY <1>4, SameRecords, SameMode, StateNames DEF TunesOnce, Up, FeTypes, FeRecord
<1>5. CASE ThreadStamps
  BY <1>5, SameRecords, SameMode, StateNames DEF ThreadStamps, Stamp, FeTypes, FeRecord
<1>6. CASE ThreadDown
  BY <1>6, SameRecords, SameMode, StateNames, ZenonT(60) DEF ThreadDown, FeTypes, FeRecord
<1>7. CASE HwTunes
  BY <1>7, SameRecords, SameMode, StateNames DEF HwTunes, Reports, FeTypes, FeRecord
<1>8. ASSUME NEW c \in mode.callers,
             Diseqc(c)
      PROVE  FeTypes'
  BY <1>8, SameRecords, SameMode, StateNames DEF Diseqc, CanCall, FeTypes, FeRecord
<1>9. ASSUME NEW c \in mode.callers,
             SetTuneMode(c)
      PROVE  FeTypes'
  BY <1>9, SameRecords, SameMode, StateNames DEF SetTuneMode, CanCall, FeTypes, FeRecord
<1>10. ASSUME NEW c \in mode.callers,
             SetReturns(c)
      PROVE  FeTypes'
  BY <1>10, SameRecords, SameMode, StateNames DEF SetReturns, Stamp, FeTypes, FeRecord
<1>11. CASE OpenStart
  BY <1>11, SameRecords, SameMode, StateNames DEF OpenStart, FeTypes, FeRecord
<1>12. CASE OpenFails
  BY <1>12, SameRecords, SameMode, StateNames DEF OpenFails, FeTypes, FeRecord
<1>13. CASE Reinitialise
  BY <1>13, SameRecords, SameMode, StateNames DEF Reinitialise, FeTypes, FeRecord
<1>14. ASSUME NEW c \in mode.callers,
             SetFrontend(c)
      PROVE  FeTypes'
  <2>1. PICK req \in mode.reqs, inv \in mode.invs :
               fe' = [fe EXCEPT !.req = req, !.inv = inv, !.state = "RETUNE"]
    BY <1>14 DEF SetFrontend
  <2>2. req \in Requests /\ inv \in Inversions \union {"auto"}
    BY ModeFields DEF ControlTypes, Requests
  <2> QED
    BY <2>1, <2>2, SameRecords, SameMode, StateNames DEF FeTypes, FeRecord
<1>15. CASE GetsLock
  BY <1>15, SameRecords, SameMode, StateNames DEF GetsLock, Tuning, Up, FeTypes, FeRecord
<1>16. CASE LeavesAlone
  BY <1>16, SameRecords, SameMode, BeginTypes DEF LeavesAlone, Tuning, Up, FeTypes
<1>17. CASE SearchesFast
  <2> DEFINE f == IF fe.state = "RETUNE" THEN NewScan(fe) ELSE LostLock
  <2>1. f \in FeRecord
    BY BeginTypes
  <2>2. CASE Tune(f)
    BY <2>1, <2>2, SameMode, TuneTypes
  <2>3. CASE fe' = [Chosen(f) EXCEPT !.state = "SLOW", !.started_auto_step = Chosen(f).auto_step]
    <3>1. Chosen(f) \in FeRecord
      BY <2>1, ChosenTypes
    <3> QED
      BY <2>3, <3>1, StateNames, SameMode, SameRecords DEF FeTypes, FeRecord
  <2> QED
    BY <1>17, <2>2, <2>3 DEF SearchesFast
<1>18. CASE SearchesSlow
  BY <1>18, SameMode, TuneTypes DEF SearchesSlow, Tuning, Up, FeTypes
<1> QED
  BY <1>1, <1>2, <1>3, <1>4, <1>5, <1>6, <1>7, <1>8, <1>9, <1>10, <1>11, <1>12, <1>13,
     <1>14, <1>15, <1>16, <1>17, <1>18 DEF Next, ThreadSteps, CallerSteps

(* What the thread may set the hardware to, other than a trial.            *)
LEMMA HwValues ==
  ASSUME FeTypes
  PROVE  Untuned \in HwRecord /\ [req |-> fe.req, drift |-> 0, inv |-> fe.inv] \in HwRecord
BY DEF FeTypes, FeRecord, HwRecord, Untuned, Requests, Inversions

(* Every step leaves the hardware at rest or set to something that was     *)
(* asked for.                                                              *)
LEMMA HwStep ==
  ASSUME mode \in Modes, FeTypes, HwTypes, Next
  PROVE  HwTypes'
<1>1. CASE \/ ThreadWakes \/ Idles \/ ReadsStatus \/ ThreadPublishes \/ ThreadStamps
           \/ GetsLock \/ StaysTuned \/ LeavesAlone \/ HwDone \/ SignalChanges \/ LastWakeup
           \/ OpenStart \/ OpenEnd \/ OpenFails \/ Release \/ Expires \/ Reinitialise
           \/ Stop \/ Unregister \/ UnregisterInterrupted
  BY <1>1, SameRecords, SameMode DEF ThreadWakes, Idles, Up, ReadsStatus, Reports,
     ThreadPublishes, Publish, ThreadStamps, Stamp, GetsLock, Tuning, StaysTuned,
     LeavesAlone, HwDone, SignalChanges, LastWakeup, OpenStart, OpenEnd, OpenFails, Release, Expires,
     Reinitialise, Stop, Unregister, UnregisterInterrupted, HwTypes
<1>2. ASSUME NEW c \in mode.callers,
             SetFrontend(c)
      PROVE  HwTypes'
  BY <1>2, SameRecords, SameMode DEF SetFrontend, CanCall, HwTypes
<1>3. ASSUME NEW c \in mode.callers,
             Diseqc(c) \/ SetTuneMode(c) \/ GetEvent(c)
      PROVE  HwTypes'
  BY <1>3, SameRecords, SameMode DEF Diseqc, CanCall, SetTuneMode, GetEvent, Take, HwTypes
<1>4. ASSUME NEW c \in mode.callers,
             \/ GetEventWakes(c) \/ SetPublishes(c) \/ SetReturns(c)
             \/ GetEventReturns(c) \/ GetEventInterrupted(c)
      PROVE  HwTypes'
  BY <1>4, SameRecords, SameMode DEF GetEventWakes, SetPublishes, Publish, SetReturns,
     Stamp, GetEventReturns, Take, GetEventInterrupted, HwTypes
<1>5. CASE ThreadInit \/ ThreadExits \/ ThreadDown \/ TunesOnce \/ HwTunes
  BY <1>5, SameRecords, SameMode, HwValues DEF ThreadInit, ThreadExits, ThreadDown,
     TunesOnce, Up, HwTunes, Reports, HwTypes
<1>6. CASE SearchesFast
  BY <1>6, SameRecords, SameMode, BeginTypes, TuneTypes DEF SearchesFast, Tuning, Up,
     HwTypes
<1>7. CASE SearchesSlow
  BY <1>7, SameRecords, SameMode, TuneTypes DEF SearchesSlow, Tuning, Up, HwTypes, FeTypes
<1> QED
  BY <1>1, <1>2, <1>3, <1>4, <1>5, <1>6, <1>7 DEF Next, ThreadSteps, CallerSteps

(* Every step keeps the types of the locals, the semaphore and the file.   *)
LEMMA ControlStep ==
  ASSUME ControlTypes, Next
  PROVE  ControlTypes'
<1>1. CASE ThreadInit \/ ThreadWakes \/ Idles \/ TunesOnce
  BY <1>1, SameMode DEF ThreadInit, ThreadWakes, Idles, Up, TunesOnce, ControlTypes
<1>2. CASE ThreadDown \/ SignalChanges \/ ThreadPublishes \/ ThreadStamps
  BY <1>2, SameMode DEF ThreadDown, SignalChanges, ThreadPublishes, Publish, ThreadStamps,
     Stamp, ControlTypes
<1>3. CASE \/ GetsLock \/ StaysTuned \/ LeavesAlone \/ SearchesFast \/ SearchesSlow
           \/ HwDone
  <2>1. Tuning("sw") \/ Tuning("hw")
    BY <1>3 DEF GetsLock, StaysTuned, LeavesAlone, SearchesFast, SearchesSlow, HwDone
  <2>2. /\ s' = FALSE /\ at' = "wait" /\ sem' = sem + 1
        /\ UNCHANGED <<mode, leaving, call, dev, expired, past>>
    BY <2>1, SameMode DEF Tuning, Up
  <2>3. s' \in BOOLEAN
    BY <2>2
  <2>4. sem' \in Nat
    BY <2>2 DEF ControlTypes
  <2> QED
    BY <2>2, <2>3, <2>4 DEF ControlTypes
<1>4. CASE ReadsStatus \/ HwTunes
  BY <1>4, SameMode DEF ReadsStatus, Reports, HwTunes, ControlTypes, HasLock
<1>5. ASSUME NEW c \in mode.callers,
             SetFrontend(c)
      PROVE  ControlTypes'
  BY <1>5, SameMode, ModeFields DEF SetFrontend, CanCall, ControlTypes
<1>6. ASSUME NEW c \in mode.callers,
             Diseqc(c)
      PROVE  ControlTypes'
  BY <1>6, SameMode, ModeFields DEF Diseqc, CanCall, ControlTypes
<1>7. ASSUME NEW c \in mode.callers,
             SetTuneMode(c)
      PROVE  ControlTypes'
  BY <1>7, SameMode, ModeFields DEF SetTuneMode, CanCall, ControlTypes
<1>8. ASSUME NEW c \in mode.callers,
             GetEvent(c)
      PROVE  ControlTypes'
  BY <1>8, SameMode, ModeFields DEF GetEvent, CanCall, Take, ControlTypes
<1>9. ASSUME NEW c \in mode.callers,
             GetEventWakes(c)
      PROVE  ControlTypes'
  BY <1>9, SameMode, ModeFields DEF GetEventWakes, ControlTypes
<1>10. ASSUME NEW c \in mode.callers,
             SetPublishes(c)
      PROVE  ControlTypes'
  BY <1>10, SameMode, ModeFields DEF SetPublishes, Publish, ControlTypes
<1>11. ASSUME NEW c \in mode.callers,
             SetReturns(c)
      PROVE  ControlTypes'
  BY <1>11, SameMode, ModeFields DEF SetReturns, Stamp, ControlTypes
<1>12. ASSUME NEW c \in mode.callers,
             GetEventReturns(c)
      PROVE  ControlTypes'
  BY <1>12, SameMode, ModeFields, ZenonT(60) DEF GetEventReturns, Take, ControlTypes
<1>13. ASSUME NEW c \in mode.callers,
             GetEventInterrupted(c)
      PROVE  ControlTypes'
  <2>1. past' \in [orphan : BOOLEAN, doubled : BOOLEAN, raced : BOOLEAN, stale : BOOLEAN,
                   clobbered : BOOLEAN, hasty : BOOLEAN]
    BY <1>13 DEF GetEventInterrupted, ControlTypes
  <2> QED
    BY <1>13, <2>1, SameMode, ModeFields DEF GetEventInterrupted, ControlTypes
<1>14. CASE OpenStart
  <2>1. past' \in [orphan : BOOLEAN, doubled : BOOLEAN, raced : BOOLEAN, stale : BOOLEAN,
                   clobbered : BOOLEAN, hasty : BOOLEAN]
    BY <1>14 DEF OpenStart, ControlTypes
  <2> QED
    BY <1>14, <2>1, SameMode, ModeFields DEF OpenStart, ControlTypes
<1>15. CASE OpenEnd \/ OpenFails
  BY <1>15, SameMode DEF OpenEnd, OpenFails, ControlTypes
<1>16. CASE Release \/ Expires \/ Reinitialise
  BY <1>16, SameMode DEF Release, Expires, Reinitialise, ControlTypes
<1>17. CASE Stop \/ Unregister \/ UnregisterInterrupted
  BY <1>17, SameMode DEF Stop, Unregister, UnregisterInterrupted, ControlTypes
<1>18. CASE ThreadExits \/ LastWakeup
  <2>1. leaving' \in BOOLEAN
    BY <1>18 DEF ThreadExits, LastWakeup
  <2>2. at' \in {at, "none"} /\ UNCHANGED <<mode, sem, s, call, dev, expired, past>>
    BY <1>18 DEF ThreadExits, LastWakeup
  <2> QED
    BY <2>1, <2>2 DEF ControlTypes
<1> QED
  BY <1>1, <1>2, <1>3, <1>4, <1>5, <1>6, <1>7, <1>8, <1>9, <1>10, <1>11, <1>12, <1>13,
     <1>14, <1>15, <1>16, <1>17, <1>18 DEF Next, ThreadSteps, CallerSteps

(* An index taken modulo MAX_EVENT is one of the cells.                    *)
LEMMA SlotInCells ==
  ASSUME mode \in Modes, NEW i \in Int
  PROVE  Slot(i) \in Cells
BY ModeFields DEF Slot, Cells

(* Reserving a cell, whether or not the oldest event has to go for it.     *)
LEMMA ReserveTypes ==
  ASSUME mode \in Modes, mode' = mode, QueueTypes, NEW a \in Adders, NEW req \in Requests,
         NEW lock, Reserve(a, req, lock)
  PROVE  QueueTypes'
<1>0. ev.r \in Int
  BY DEF QueueTypes, Cells
<1>1. Slot(ev.r + 1) \in Cells
  BY <1>0, SlotInCells
<1>2. Dropped \in [w : Cells, r : Cells, overflow : BOOLEAN,
                   slots : [Cells -> [req : Requests, lock : BOOLEAN]]]
  BY <1>1 DEF Dropped, QueueTypes
<1>3. ev' \in [w : Cells, r : Cells, overflow : BOOLEAN,
               slots : [Cells -> [req : Requests, lock : BOOLEAN]]]
  <2>1. ev.w \in Cells
    BY DEF QueueTypes
  <2>2. ASSUME NEW C, NEW R, NEW q \in [w : C, r : C, overflow : BOOLEAN,
                                       slots : [C -> [req : R, lock : BOOLEAN]]],
               NEW i \in C, NEW x \in R
        PROVE  [q EXCEPT !.slots[i].req = x] \in
                 [w : C, r : C, overflow : BOOLEAN, slots : [C -> [req : R, lock : BOOLEAN]]]
    <3>1. [q.slots[i] EXCEPT !.req = x] \in [req : R, lock : BOOLEAN]
      OBVIOUS
    <3>2. [q.slots EXCEPT ![i] = [q.slots[i] EXCEPT !.req = x]]
            \in [C -> [req : R, lock : BOOLEAN]]
      BY <3>1
    <3> QED
      BY <3>2
  <2>3. ev' = [Dropped EXCEPT !.slots[ev.w].req = req]
    BY DEF Reserve
  <2> QED
    BY <1>2, <2>1, <2>2, <2>3
<1>4. cell' \in [Adders -> Cells]
  BY DEF Reserve, QueueTypes
<1> QED
  BY <1>3, <1>4, SameRecords DEF QueueTypes

(* Publishing a cell and entering a status in it.                          *)
LEMMA FillTypes ==
  ASSUME mode \in Modes, mode' = mode, QueueTypes, NEW a \in Adders, NEW lock \in BOOLEAN,
         Publish(a) \/ Stamp(a, lock)
  PROVE  QueueTypes'
<1>1. cell[a] \in Cells /\ cell[a] \in Int
  BY DEF QueueTypes, Cells
<1>2. Slot(cell[a] + 1) \in Cells
  BY <1>1, SlotInCells
<1>3. 0 \in Cells
  BY ModeFields DEF Cells
<1>4. CASE Publish(a)
  BY <1>2, <1>4, SameRecords DEF Publish, QueueTypes
<1>5. CASE Stamp(a, lock)
  <2>1. [ev.slots[cell[a]] EXCEPT !.lock = lock] \in [req : Requests, lock : BOOLEAN]
    BY <1>1 DEF QueueTypes
  <2>2. ev' \in [w : Cells, r : Cells, overflow : BOOLEAN,
                 slots : [Cells -> [req : Requests, lock : BOOLEAN]]]
    BY <1>1, <1>5, <2>1 DEF Stamp, QueueTypes
  <2>3. cell' \in [Adders -> Cells]
    BY <1>3, <1>5 DEF Stamp, QueueTypes
  <2> QED
    BY <2>2, <2>3, SameRecords DEF QueueTypes
<1> QED
  BY <1>4, <1>5

(* Every step keeps the indices of the event queue inside the array.       *)
LEMMA QueueStep ==
  ASSUME ControlTypes, FeTypes, QueueTypes, Next
  PROVE  QueueTypes'
<1>0. mode \in Modes /\ s \in BOOLEAN
  BY DEF ControlTypes
<1> USE <1>0
<1>1. CASE \/ ThreadInit \/ ThreadWakes \/ ThreadExits \/ Idles \/ TunesOnce \/ GetsLock
           \/ StaysTuned \/ LeavesAlone \/ SearchesFast \/ SearchesSlow \/ HwDone
           \/ ThreadDown \/ SignalChanges \/ LastWakeup \/ OpenStart \/ Release \/ Expires
           \/ Reinitialise \/ Stop \/ Unregister \/ UnregisterInterrupted
  BY <1>1, SameRecords, SameMode DEF ThreadInit, ThreadWakes, ThreadExits, Idles, Up,
     TunesOnce, GetsLock, Tuning, StaysTuned, LeavesAlone, SearchesFast, SearchesSlow,
     HwDone, ThreadDown, SignalChanges, LastWakeup, OpenStart, Release, Expires, Reinitialise, Stop,
     Unregister, UnregisterInterrupted, QueueTypes
<1>2. ASSUME NEW c \in mode.callers,
             Diseqc(c) \/ SetTuneMode(c) \/ GetEventWakes(c) \/ GetEventInterrupted(c)
      PROVE  QueueTypes'
  BY <1>2, SameRecords, SameMode DEF Diseqc, CanCall, SetTuneMode, GetEventWakes,
     GetEventInterrupted, QueueTypes
<1>3. CASE ReadsStatus \/ HwTunes
  <2>1. QueueTypes' \/ (\E lock : Reserve(Thread, fe.req, lock))
    BY <1>3, SameRecords, SameMode DEF ReadsStatus, HwTunes, Reports, QueueTypes
  <2> QED
    BY <2>1, SameMode, ReserveTypes DEF FeTypes, FeRecord, Adders
<1>4. CASE ThreadPublishes \/ ThreadStamps
  BY <1>4, SameMode, FillTypes DEF ThreadPublishes, Publish, ThreadStamps, Stamp,
     ControlTypes, Adders
<1>5. ASSUME NEW c \in mode.callers,
             SetFrontend(c)
      PROVE  QueueTypes'
  <2>1. PICK req \in mode.reqs : Reserve(c, req, FALSE)
    BY <1>5 DEF SetFrontend
  <2>2. req \in Requests /\ c \in Adders
    BY ModeFields DEF Requests, Adders
  <2> QED
    BY <2>1, <2>2, SameMode, ReserveTypes
<1>6. ASSUME NEW c \in mode.callers,
             SetPublishes(c) \/ SetReturns(c)
      PROVE  QueueTypes'
  BY <1>6, SameMode, FillTypes, ModeFields DEF SetPublishes, Publish, SetReturns, Stamp,
     Adders
<1>7. ASSUME NEW c \in mode.callers,
             GetEvent(c)
      PROVE  QueueTypes'
  <2>1. ev.r \in Cells /\ Slot(ev.r + 1) \in Cells
    BY SlotInCells, SMTT(30) DEF QueueTypes, Cells
  <2> QED
    BY <1>7, <2>1, SameRecords, SameMode DEF QueueTypes, GetEvent, Take
<1>8. ASSUME NEW c \in mode.callers,
             GetEventReturns(c)
      PROVE  QueueTypes'
  <2>1. ev.r \in Cells /\ Slot(ev.r + 1) \in Cells
    BY SlotInCells, SMTT(30) DEF QueueTypes, Cells
  <2> QED
    BY <1>8, <2>1, SameRecords, SameMode DEF QueueTypes, GetEventReturns, Take
<1>9. CASE OpenEnd \/ OpenFails
  <2>1. 0 \in Cells
    BY ModeFields DEF Cells
  <2> QED
    BY <1>9, <2>1, SameRecords, SameMode DEF QueueTypes, OpenEnd, OpenFails
<1> QED
  BY <1>1, <1>2, <1>3, <1>4, <1>5, <1>6, <1>7, <1>8, <1>9 DEF Next, ThreadSteps, CallerSteps

-----------------------------------------------------------------------------
(* fepriv->sem                                                             *)

(* Who holds the semaphore is seen from where they are.                    *)
LEMMA HoldersAre ==
  \A h : h \in Holders <=>
    \/ h \in Callers /\ call[h] \in {"publish", "stamp"}
    \/ h = Thread /\ at \in {"init", "work", "publish", "stamp", "tune"}
BY DEF Holders

(* The same after a step.                                                  *)
LEMMA HoldersWill ==
  \A h : h \in Holders' <=>
    \/ h \in Callers /\ call'[h] \in {"publish", "stamp"}
    \/ h = Thread /\ at' \in {"init", "work", "publish", "stamp", "tune"}
BY DEF Holders

(* The count stays right when the semaphore is left alone, ...             *)
LEMMA LockKept ==
  ASSUME LockInv, sem' = sem, Holders' = Holders, past'.doubled = past.doubled
  PROVE  LockInv'
BY DEF LockInv

(* ... taken by someone who waited until it was free, ...                  *)
LEMMA LockTaken ==
  ASSUME LockInv, NEW x \in Adders, sem > 0, sem' = sem - 1, Holders' = Holders \union {x},
         past'.doubled = past.doubled
  PROVE  LockInv'
BY DEF LockInv

(* ... and released by its holder.                                         *)
LEMMA LockReleased ==
  ASSUME LockInv, NEW x \in Holders, sem' = sem + 1, Holders' = Holders \ {x},
         past'.doubled = past.doubled
  PROVE  LockInv'
BY DEF LockInv

(* Every step keeps the count of the semaphore and its holder in line,     *)
(* unless a get_event that was interrupted released what it did not hold.  *)
LEMMA LockStep ==
  ASSUME ControlTypes, LockInv, Next
  PROVE  LockInv'
<1>0. mode \in Modes
  BY DEF ControlTypes
<1> USE <1>0
<1>1. CASE ThreadWakes \/ ThreadExits \/ SignalChanges \/ LastWakeup
  <2>1. Holders' = Holders
    BY <1>1, HoldersAre, HoldersWill, CallersApart, ModeFields
    DEF ThreadWakes, ThreadExits, SignalChanges, LastWakeup, ControlTypes
  <2>2. sem' = sem /\ past'.doubled = past.doubled
    BY <1>1 DEF ThreadWakes, ThreadExits, SignalChanges, LastWakeup, ControlTypes
  <2> QED
    BY <2>1, <2>2, LockKept
<1>2. CASE ReadsStatus \/ HwTunes
  <2>1. Holders' = Holders
    BY <1>2, HoldersAre, HoldersWill, CallersApart, ModeFields
    DEF ReadsStatus, Reports, HwTunes, ControlTypes
  <2>2. sem' = sem /\ past'.doubled = past.doubled
    BY <1>2 DEF ReadsStatus, Reports, HwTunes, ControlTypes
  <2> QED
    BY <2>1, <2>2, LockKept
<1>3. CASE ThreadPublishes \/ ThreadStamps
  <2>1. Holders' = Holders
    BY <1>3, HoldersAre, HoldersWill, CallersApart, ModeFields
    DEF ThreadPublishes, Publish, ThreadStamps, Stamp, ControlTypes
  <2>2. sem' = sem /\ past'.doubled = past.doubled
    BY <1>3 DEF ThreadPublishes, Publish, ThreadStamps, Stamp, ControlTypes
  <2> QED
    BY <2>1, <2>2, LockKept
<1>4. ASSUME NEW c \in mode.callers,
             Diseqc(c) \/ SetTuneMode(c) \/ SetPublishes(c)
      PROVE  LockInv'
  <2>1. Holders' = Holders
    BY <1>4, HoldersAre, HoldersWill, CallersApart, ModeFields
    DEF Diseqc, CanCall, SetTuneMode, SetPublishes, Publish, ControlTypes
  <2>2. sem' = sem /\ past'.doubled = past.doubled
    BY <1>4 DEF Diseqc, CanCall, SetTuneMode, SetPublishes, Publish, ControlTypes
  <2> QED
    BY <2>1, <2>2, LockKept
<1>5. ASSUME NEW c \in mode.callers,
             GetEvent(c)
      PROVE  LockInv'
  <2>1. /\ c \in Callers /\ at' = at /\ call[c] \notin {"publish", "stamp"}
        /\ \/ call' = call
           \/ \E x \in {"idle", "sleep", "back", "signalled"} : call' = [call EXCEPT ![c] = x]
    BY <1>5, ModeFields DEF GetEvent, CanCall, Take
  <2>2. \A a \in Callers : call'[a] \in {"publish", "stamp"} <=> call[a] \in {"publish", "stamp"}
    BY <2>1 DEF ControlTypes
  <2>3. Holders' = Holders
    BY <2>1, <2>2, HoldersAre, HoldersWill
  <2>4. sem' = sem /\ past'.doubled = past.doubled
    BY <1>5 DEF GetEvent, CanCall, Take, ControlTypes
  <2> QED
    BY <2>3, <2>4, LockKept
<1>6. ASSUME NEW c \in mode.callers,
             GetEventWakes(c) \/ GetEventReturns(c)
      PROVE  LockInv'
  <2>1. /\ c \in Callers /\ at' = at /\ call[c] \notin {"publish", "stamp"}
        /\ \/ call' = call
           \/ \E x \in {"idle", "sleep", "back", "signalled"} : call' = [call EXCEPT ![c] = x]
    BY <1>6, ModeFields DEF GetEventWakes, GetEventReturns, Take
  <2>2. \A a \in Callers : call'[a] \in {"publish", "stamp"} <=> call[a] \in {"publish", "stamp"}
    BY <2>1 DEF ControlTypes
  <2>3. Holders' = Holders
    BY <2>1, <2>2, HoldersAre, HoldersWill
  <2>4. sem' = sem /\ past'.doubled = past.doubled
    BY <1>6 DEF GetEventWakes, GetEventReturns, Take, ControlTypes
  <2> QED
    BY <2>3, <2>4, LockKept
<1>7. CASE OpenEnd \/ OpenFails \/ Release \/ Expires \/ Reinitialise
  <2>same. at' = at /\ call' = call
    BY <1>7 DEF OpenEnd, OpenFails, Release, Expires, Reinitialise
  <2>1. Holders' = Holders
    BY <2>same DEF Holders
  <2>2. sem' = sem /\ past'.doubled = past.doubled
    BY <1>7 DEF OpenEnd, OpenFails, Release, Expires, Reinitialise, ControlTypes
  <2> QED
    BY <2>1, <2>2, LockKept
<1>8. CASE Stop \/ Unregister \/ UnregisterInterrupted
  <2>1. Holders' = Holders
    BY <1>8, HoldersAre, HoldersWill, CallersApart, ModeFields
    DEF Stop, Unregister, UnregisterInterrupted, ControlTypes
  <2>2. sem' = sem /\ past'.doubled = past.doubled
    BY <1>8 DEF Stop, Unregister, UnregisterInterrupted, ControlTypes
  <2> QED
    BY <2>1, <2>2, LockKept
<1>9. CASE ThreadInit \/ Idles \/ TunesOnce
  <2>1. Thread \in Holders /\ Holders' = Holders \ {Thread}
    BY <1>9, HoldersAre, HoldersWill, CallersApart, ModeFields
    DEF ThreadInit, Idles, Up, TunesOnce, ControlTypes
  <2>2. sem' = sem + 1 /\ past'.doubled = past.doubled
    BY <1>9 DEF ThreadInit, Idles, Up, TunesOnce
  <2> QED
    BY <2>1, <2>2, LockReleased
<1>10. CASE \/ GetsLock \/ StaysTuned \/ LeavesAlone \/ SearchesFast \/ SearchesSlow
           \/ HwDone
  <2>1. Tuning("sw") \/ Tuning("hw")
    BY <1>10 DEF GetsLock, StaysTuned, LeavesAlone, SearchesFast, SearchesSlow, HwDone
  <2>2. Thread \in Holders /\ Holders' = Holders \ {Thread}
    BY <2>1, HoldersAre, HoldersWill, CallersApart, ModeFields DEF Tuning, Up, ControlTypes
  <2>3. sem' = sem + 1 /\ past'.doubled = past.doubled
    BY <2>1 DEF Tuning, Up
  <2> QED
    BY <2>2, <2>3, LockReleased
<1>11. ASSUME NEW c \in mode.callers,
             SetReturns(c)
      PROVE  LockInv'
  <2>1. c \in Holders /\ Holders' = Holders \ {c}
    BY <1>11, HoldersAre, HoldersWill, CallersApart, ModeFields
    DEF SetReturns, Stamp, ControlTypes
  <2>2. sem' = sem + 1 /\ past'.doubled = past.doubled
    BY <1>11 DEF SetReturns, Stamp
  <2> QED
    BY <2>1, <2>2, LockReleased
<1>12. CASE ThreadDown
  <2>1. Holders' = Holders \union {Thread}
    BY <1>12, HoldersAre, HoldersWill, CallersApart, ModeFields DEF ThreadDown, ControlTypes
  <2>2. sem > 0 /\ sem' = sem - 1 /\ past'.doubled = past.doubled /\ Thread \in Adders
    BY <1>12, ModeFields DEF ThreadDown, Adders, ControlTypes
  <2> QED
    BY <2>1, <2>2, LockTaken
<1>13. ASSUME NEW c \in mode.callers,
             SetFrontend(c)
      PROVE  LockInv'
  <2>1. Holders' = Holders \union {c}
    BY <1>13, HoldersAre, HoldersWill, CallersApart, ModeFields
    DEF SetFrontend, CanCall, ControlTypes
  <2>2. sem > 0 /\ sem' = sem - 1 /\ past'.doubled = past.doubled /\ c \in Adders
    BY <1>13, ModeFields DEF SetFrontend, CanCall, Adders, ControlTypes
  <2> QED
    BY <2>1, <2>2, LockTaken
<1>14. CASE OpenStart
  <2>1. CASE at = "none"
    <3>1. Holders' = Holders \union {Thread}
      BY <1>14, <2>1, HoldersAre, HoldersWill, CallersApart, ModeFields
      DEF OpenStart, ControlTypes
    <3>2. sem > 0 /\ sem' = sem - 1 /\ past'.doubled = past.doubled /\ Thread \in Adders
      BY <1>14, <2>1, ModeFields DEF OpenStart, Adders, ControlTypes
    <3> QED
      BY <3>1, <3>2, LockTaken
  <2>2. CASE at # "none"
    <3>1. Holders' = Holders
      BY <1>14, <2>2, HoldersAre, HoldersWill, CallersApart, ModeFields
      DEF OpenStart, ControlTypes
    <3>2. sem' = sem /\ past'.doubled = past.doubled
      BY <1>14, <2>2 DEF OpenStart, ControlTypes
    <3> QED
      BY <3>1, <3>2, LockKept
  <2> QED
    BY <2>1, <2>2
<1>15. ASSUME NEW c \in mode.callers,
             GetEventInterrupted(c)
      PROVE  LockInv'
  BY <1>15 DEF GetEventInterrupted, LockInv, ControlTypes
<1> QED
  BY <1>1, <1>2, <1>3, <1>4, <1>5, <1>6, <1>7, <1>8, <1>9, <1>10, <1>11, <1>12, <1>13,
     <1>14, <1>15 DEF Next, ThreadSteps, CallerSteps

-----------------------------------------------------------------------------
(* Requests                                                                *)

(* What a trial leaves behind.                                             *)
LEMMA TuneDoes ==
  ASSUME mode \in Modes, NEW f \in FeRecord, Tune(f)
  PROVE  /\ hw' = Setting(f) /\ hw'.req = f.req
         /\ fe'.req = f.req /\ fe'.inv = f.inv /\ fe'.started_auto_step = f.started_auto_step
         /\ fe'.state = (IF f.state = "RETUNE" THEN "TUNING_FAST" ELSE f.state)
         /\ fe'.check_wrapped = (f.check_wrapped \/ f.state # "SLOW")
         /\ fe'.auto_step = Trial(f)[1] /\ fe'.auto_sub_step = Trial(f)[2] + 1
         /\ fe'.inversion = Chosen(f).inversion
<1> DEFINE c == Chosen(f)
<1>1. /\ c \in FeRecord /\ c.auto_step = Trial(f)[1] /\ c.auto_sub_step = Trial(f)[2]
      /\ c.state = f.state /\ c.inv = f.inv /\ c.req = f.req
      /\ c.started_auto_step = f.started_auto_step /\ c.check_wrapped = f.check_wrapped
  BY ChosenTypes
<1>2. /\ fe' = [c EXCEPT !.auto_sub_step = c.auto_sub_step + 1,
                         !.check_wrapped = c.check_wrapped \/ f.state # "SLOW",
                         !.state = IF c.state = "RETUNE" THEN "TUNING_FAST" ELSE c.state]
      /\ hw' = Setting(f)
  BY DEF Tune
<1>3. Setting(f).req = f.req
  BY SettingTypes
<1>4. Chosen(f).inversion = c.inversion
  OBVIOUS
<1> HIDE DEF c
<1> QED
  BY <1>1, <1>2, <1>3, <1>4 DEF FeRecord

(* A scan that has just begun is not complete.                             *)
LEMMA NotComplete ==
  ASSUME FeTypes
  PROVE  /\ NewScan(fe).check_wrapped = FALSE /\ NewScan(fe).req = fe.req
         /\ NewScan(fe).inv = fe.inv /\ NewScan(fe).inversion = fe.inversion
         /\ NewScan(fe).state = fe.state /\ NewScan(fe).started_auto_step = 0
         /\ NewScan(fe).auto_step = 0 /\ NewScan(fe).auto_sub_step = 0
         /\ LostLock.req = fe.req /\ LostLock.inv = fe.inv
         /\ fe.state = "TUNED" => LostLock.check_wrapped = FALSE /\ LostLock.state = "ZIGZAG_FAST"
         /\ fe.state # "TUNED" => LostLock = fe
BY DEF FeTypes, FeRecord, NewScan, LostLock

(* While somebody else can take the semaphore the thread is elsewhere.     *)
LEMMA FreeToTake ==
  ASSUME ControlTypes, LockInv, ~past.doubled, sem > 0
  PROVE  at \notin {"init", "work", "publish", "stamp", "tune"}
<1>1. Holders = {}
  BY DEF LockInv
<1> QED
  BY <1>1, HoldersAre

(* Every step keeps what is tuned in line with what was asked for.         *)
LEMMA RequestStep ==
  ASSUME ControlTypes, FeTypes, HwTypes, LockInv, RequestInv, Next
  PROVE  RequestInv'
<1>0. mode \in Modes
  BY DEF ControlTypes
<1> USE <1>0
<1>1. CASE \/ Idles \/ ThreadWakes \/ ThreadPublishes \/ SignalChanges \/ LastWakeup \/ StaysTuned
           \/ HwDone
  BY <1>1 DEF Idles, Up, ThreadWakes, ThreadPublishes, Publish, SignalChanges, LastWakeup, StaysTuned,
     Tuning, HwDone, RequestInv
<1>2. ASSUME NEW c \in mode.callers,
             GetEventWakes(c) \/ SetPublishes(c)
      PROVE  RequestInv'
  BY <1>2 DEF GetEventWakes, SetPublishes, Publish, RequestInv
<1>3. CASE Release \/ Expires \/ Stop \/ Unregister
  BY <1>3 DEF Release, Expires, Stop, Unregister, RequestInv
<1>4. CASE UnregisterInterrupted \/ OpenEnd
  BY <1>4 DEF UnregisterInterrupted, OpenEnd, RequestInv, ControlTypes
<1>5. ASSUME NEW c \in mode.callers,
             GetEvent(c)
      PROVE  RequestInv'
  BY <1>5 DEF GetEvent, CanCall, Take, RequestInv, ControlTypes
<1>6. ASSUME NEW c \in mode.callers,
             GetEventReturns(c)
      PROVE  RequestInv'
  BY <1>6 DEF GetEventReturns, Take, RequestInv, ControlTypes
<1>7. ASSUME NEW c \in mode.callers,
             GetEventInterrupted(c)
      PROVE  RequestInv'
  BY <1>7 DEF GetEventInterrupted, RequestInv, ControlTypes
<1>8. CASE ThreadInit \/ ThreadExits \/ ThreadDown
  BY <1>8 DEF ThreadInit, ThreadExits, ThreadDown, RequestInv, FeTypes, FeRecord, Untuned
<1>9. CASE TunesOnce
  BY <1>9 DEF TunesOnce, Up, RequestInv, FeTypes, FeRecord, HwTypes, HwRecord
<1>10. CASE ReadsStatus
  BY <1>10 DEF ReadsStatus, Reports, RequestInv, HasLock
<1>11. CASE HwTunes
  <2>1. CASE fe.state = "RETUNE"
    BY <1>11, <2>1 DEF HwTunes, Reports, RequestInv, FeTypes, FeRecord
  <2>2. CASE fe.state # "RETUNE"
    BY <1>11, <2>2 DEF HwTunes, Reports, RequestInv, HasLock
  <2> QED
    BY <2>1, <2>2
<1>12. CASE ThreadStamps
  BY <1>12 DEF ThreadStamps, Stamp, RequestInv, FeTypes, FeRecord
<1>13. CASE GetsLock
  BY <1>13 DEF GetsLock, Tuning, Up, RequestInv, FeTypes, FeRecord, WAITFORLOCK, Searching
<1>14. CASE LeavesAlone
  BY <1>14, NotComplete DEF LeavesAlone, Tuning, Up, RequestInv
<1>15. CASE SearchesFast
  <2> DEFINE f == IF fe.state = "RETUNE" THEN NewScan(fe) ELSE LostLock
  <2>1. f \in FeRecord /\ f.req = fe.req /\ (fe.state = "RETUNE" => f.check_wrapped = FALSE)
    BY BeginTypes, NotComplete
  <2>2. CASE Tune(f)
    <3>1. hw'.req = fe.req /\ fe'.req = fe.req
      BY <2>1, <2>2, TuneDoes
    <3> QED
      BY <1>15, <3>1 DEF SearchesFast, Tuning, Up, RequestInv
  <2>3. CASE /\ fe.state # "RETUNE" /\ UNCHANGED hw
             /\ fe' = [Chosen(f) EXCEPT !.state = "SLOW", !.started_auto_step = Chosen(f).auto_step]
    <3>1. fe'.req = fe.req
      BY <2>1, <2>3, ChosenTypes DEF FeRecord
    <3> QED
      BY <1>15, <2>3, <3>1 DEF SearchesFast, Tuning, Up, RequestInv
  <2> QED
    BY <1>15, <2>1, <2>2, <2>3 DEF SearchesFast, Complete
<1>16. CASE SearchesSlow
  <2>1. hw'.req = fe.req /\ fe'.req = fe.req
    BY <1>16, TuneDoes DEF SearchesSlow, FeTypes
  <2> QED
    BY <1>16, <2>1 DEF SearchesSlow, Tuning, Up, RequestInv
<1>17. ASSUME NEW c \in mode.callers,
             SetFrontend(c)
      PROVE  RequestInv'
  BY <1>17, FreeToTake DEF SetFrontend, CanCall, RequestInv, FeTypes, FeRecord
<1>18. ASSUME NEW c \in mode.callers,
             Diseqc(c)
      PROVE  RequestInv'
  BY <1>18, FreeToTake DEF Diseqc, CanCall, RequestInv, FeTypes, FeRecord, ControlTypes
<1>19. ASSUME NEW c \in mode.callers,
             SetTuneMode(c)
      PROVE  RequestInv'
  BY <1>19 DEF SetTuneMode, CanCall, RequestInv, FeTypes, FeRecord
<1>20. ASSUME NEW c \in mode.callers,
             SetReturns(c)
      PROVE  RequestInv'
  BY <1>20 DEF SetReturns, Stamp, RequestInv, FeTypes, FeRecord
<1>21. CASE Reinitialise
  BY <1>21 DEF Reinitialise, RequestInv, FeTypes, FeRecord
<1>22. CASE OpenStart
  BY <1>22 DEF OpenStart, RequestInv, FeTypes, FeRecord, ControlTypes, Untuned
<1>23. CASE OpenFails
  <2>1. /\ hw' = hw /\ at' = at /\ s' = s /\ fe'.req = fe.req
        /\ fe'.state \in {fe.state, "IDLE"} /\ past'.doubled = past.doubled
        /\ past'.clobbered = (past.clobbered
             \/ (fe.state = "RETUNE" /\ fe'.state = "IDLE" /\ hw # Untuned))
    BY <1>23 DEF OpenFails, FeTypes, FeRecord, ControlTypes
  <2>2. Untuned.req = "none"
    BY DEF Untuned
  <2> QED
    BY <2>1, <2>2 DEF RequestInv
<1> QED
  BY <1>1, <1>2, <1>3, <1>4, <1>5, <1>6, <1>7, <1>8, <1>9, <1>10, <1>11, <1>12, <1>13,
     <1>14, <1>15, <1>16, <1>17, <1>18, <1>19, <1>20, <1>21, <1>22, <1>23 DEF Next,
     ThreadSteps, CallerSteps

-----------------------------------------------------------------------------
(* The zigzag                                                              *)

(* The scan's place is the same while only status, tune mode, reinitialise *)
(* or request of fepriv change.                                            *)
LEMMA ScanSame ==
  ASSUME ScanInv, mode' = mode, tried' = tried, at' = "init" => at = "init",
         fe'.state = fe.state, fe'.inv = fe.inv, fe'.inversion = fe.inversion,
         fe'.auto_step = fe.auto_step, fe'.auto_sub_step = fe.auto_sub_step,
         fe'.started_auto_step = fe.started_auto_step, fe'.check_wrapped = fe.check_wrapped
  PROVE  ScanInv'
<1>1. Scan' = Scan /\ WantedInversions' = WantedInversions /\ Steps' = Steps /\ Now' = Now
  BY DEF Scan, Steps, Drift, WantedInversions, AutoInversion, Now
<1>2. Covered => Covered'
  BY <1>1 DEF Covered, Tried, Drift
<1> QED
  BY <1>1, <1>2 DEF ScanInv, Recovers

(* Nothing is claimed of a scan that is over or has not begun.             *)
LEMMA ScanOver ==
  ASSUME fe'.state \in {"IDLE", "RETUNE", "TUNED", "DISEQC"}
  PROVE  ScanInv'
BY DEF ScanInv

(* The step that turns to the slow search.                                 *)
LEMMA SlowDoes ==
  ASSUME mode \in Modes, NEW f \in FeRecord,
         fe' = [Chosen(f) EXCEPT !.state = "SLOW", !.started_auto_step = Chosen(f).auto_step]
  PROVE  fe'.inv = f.inv /\ fe'.state = "SLOW"
<1>1. Chosen(f) \in FeRecord /\ Chosen(f).inv = f.inv
  BY ChosenTypes
<1> QED
  BY <1>1 DEF FeRecord

(* No sub-step is left at this step: all of it has been tried.             *)
LEMMA StepDone ==
  ASSUME mode \in Modes, FeTypes, Covered,
         \A m \in Ready(fe, fe.auto_step) : m < fe.auto_sub_step
  PROVE  /\ Tried(Drift(fe.auto_step), WantedInversions)
         /\ Tried(-Drift(fe.auto_step), WantedInversions)
<1> DEFINE d == Drift(fe.auto_step)  n == fe.auto_sub_step  auto == AutoInversion(fe)
<1>1. d \in Nat /\ n \in 1 .. 4
  BY Drifts, FirstStep DEF FeTypes, FeRecord, Covered
<1>2. /\ n = 1 => Tried(d, Now)
      /\ n > 1 => Tried(d, WantedInversions)
      /\ n = 3 => Tried(-d, Now)
      /\ n = 4 => Tried(-d, WantedInversions)
  BY DEF Covered
<1>3. /\ n <= 1 => ~auto
      /\ n <= 2 => d = 0
      /\ n <= 3 => ~auto \/ d = 0
  BY <1>1 DEF Ready
<1>4. ~auto => Now = WantedInversions
  BY DEF Now, WantedInversions
<1> HIDE DEF d, n, auto
<1>5. d <= 0 => -d = d
  BY <1>1
<1>6. Tried(d, WantedInversions)
  BY <1>1, <1>2, <1>3, <1>4
<1>7. Tried(-d, WantedInversions)
  <2>1. CASE d <= 0
    BY <1>5, <1>6, <2>1
  <2>2. CASE d > 0
    BY <1>1, <1>2, <1>3, <1>4, <2>2
  <2> QED
    BY <1>1, <2>1, <2>2
<1> QED
  BY <1>6, <1>7 DEF d

(* The scan is back at its first step: all steps have been tried.          *)
LEMMA CoveredAll ==
  ASSUME mode \in Modes, FeTypes, Covered, Trial(fe) = <<0, 0>>
  PROVE  Scan \subseteq tried
<1>1. fe.auto_step \in Steps /\ fe.auto_step \in Nat /\ fe.auto_sub_step \in 1 .. 4
  BY FirstStep DEF FeTypes, FeRecord, Covered
<1>2. /\ \A m \in Ready(fe, fe.auto_step) : m < fe.auto_sub_step
      /\ Wrapped((fe.auto_step + 1) % Width) = 0
  BY <1>1, NextTrial DEF Ready
<1>3. \A k \in Steps : k <= fe.auto_step
  BY <1>1, <1>2, NextStep
<1>4. \A k \in Steps : Tried(Drift(k), WantedInversions) /\ Tried(-Drift(k), WantedInversions)
  <2> SUFFICES ASSUME NEW k \in Steps
               PROVE  Tried(Drift(k), WantedInversions) /\ Tried(-Drift(k), WantedInversions)
    OBVIOUS
  <2>1. CASE k < fe.auto_step
    BY <2>1 DEF Covered
  <2>2. CASE k = fe.auto_step
    BY <1>2, <2>2, StepDone
  <2>3. k \in Nat
    BY FirstStep
  <2> QED
    BY <1>1, <1>3, <2>1, <2>2, <2>3
<1> QED
  BY <1>4 DEF Scan, Tried

(* One more trial of the first scan.                                       *)
LEMMA CoveredTune ==
  ASSUME mode \in Modes, mode' = mode, FeTypes, fe.state = "TUNING_FAST", Covered, Tune(fe),
         Trial(fe) # <<0, 0>>
  PROVE  Covered'
<1> DEFINE d == Drift(fe.auto_step)  n == fe.auto_sub_step  auto == AutoInversion(fe)
           now == IF auto THEN fe'.inversion ELSE fe.inv
<1>1. fe \in FeRecord /\ fe.auto_step \in Steps /\ fe.auto_step \in Nat /\ n \in 1 .. 4 /\ d \in Nat
  BY FirstStep, Drifts DEF FeTypes, FeRecord, Covered
<1>2. /\ fe'.inv = fe.inv /\ hw' = Setting(fe)
      /\ fe'.auto_step = Trial(fe)[1] /\ fe'.auto_sub_step = Trial(fe)[2] + 1
      /\ fe'.inversion = (IF Trial(fe)[2] \in {1, 3} THEN Toggled(fe.inversion) ELSE fe.inversion)
  BY <1>1, TuneDoes, ChosenTypes
<1>3. tried' = tried \union {[drift |-> hw'.drift, inv |-> hw'.inv]}
  BY DEF Tune, History
<1>4. /\ Steps' = Steps /\ WantedInversions' = WantedInversions /\ Now' = {now}
      /\ \A k : Drift(k)' = Drift(k)
  BY <1>2 DEF Steps, Drift, WantedInversions, Now, AutoInversion
<1>5. /\ hw'.inv = now
      /\ hw'.drift = IF Trial(fe)[2] \in {2, 3} THEN -Drift(Trial(fe)[1]) ELSE Drift(Trial(fe)[1])
  BY <1>1, <1>2, ChosenTypes DEF Setting
<1> DEFINE Will(e, I) == \A i \in I : [drift |-> e, inv |-> i] \in tried'
           step == Trial(fe)[1]  m == Trial(fe)[2]
<1>6. \A e, I : Tried(e, I) => Will(e, I)
  BY <1>3 DEF Tried
<1>7. Will(hw'.drift, {now})
  BY <1>3, <1>5
<1>8. SUFFICES /\ \A k \in Steps : k < step =>
                    Will(Drift(k), WantedInversions) /\ Will(-Drift(k), WantedInversions)
               /\ m \in 0 .. 3
               /\ m = 0 => Will(Drift(step), {now})
               /\ m > 0 => Will(Drift(step), WantedInversions)
               /\ m = 2 => Will(-Drift(step), {now})
               /\ m = 3 => Will(-Drift(step), WantedInversions)
  BY <1>2, <1>4 DEF Covered, Tried
<1>9. \A k \in Steps : k < fe.auto_step =>
        Will(Drift(k), WantedInversions) /\ Will(-Drift(k), WantedInversions)
  BY <1>6 DEF Covered
<1>10. /\ n = 1 => Will(d, Now)
       /\ n > 1 => Will(d, WantedInversions)
       /\ n = 3 => Will(-d, Now)
  BY <1>6 DEF Covered
<1>11. /\ ~auto => Now = WantedInversions /\ {now} = WantedInversions
       /\ m \in {0, 2} => {now} = Now
       /\ auto /\ m \in {1, 3} => WantedInversions = Now \union {now}
  BY <1>1, <1>2 DEF Now, WantedInversions, Inversions, Toggled, FeRecord
<1>12. CASE \E x \in Ready(fe, fe.auto_step) :
              /\ x >= n /\ Trial(fe) = <<fe.auto_step, x>>
              /\ \A y \in Ready(fe, fe.auto_step) : y >= n => y >= x
  <2>1. /\ step = fe.auto_step /\ m \in Ready(fe, fe.auto_step) /\ m >= n
        /\ \A y \in Ready(fe, fe.auto_step) : y >= n => y >= m
    BY <1>12
  <2>2. /\ m \in 1 .. 3
        /\ m \in {1, 3} => auto
        /\ m = 1 => n = 1
        /\ m = 2 => n = 2 \/ (n = 1 /\ ~auto)
        /\ m = 3 => n = 3
    BY <1>1, <2>1 DEF Ready
  <2>3. hw'.drift = IF m \in {2, 3} THEN -d ELSE d
    BY <1>5, <2>1
  <2> HIDE DEF d, n, auto, now, step, m
  <2>4. m > 0 => Will(d, WantedInversions)
    BY <1>1, <1>7, <1>10, <1>11, <2>2, <2>3
  <2>5. m = 2 => Will(-d, {now})
    BY <1>7, <2>3
  <2>6. m = 3 => Will(-d, WantedInversions)
    BY <1>7, <1>10, <1>11, <2>2, <2>3
  <2>7. Drift(step) = d
    BY <2>1 DEF d
  <2> QED
    BY <1>9, <2>1, <2>2, <2>4, <2>5, <2>6, <2>7
<1>13. CASE /\ \A y \in Ready(fe, fe.auto_step) : y < n
            /\ Trial(fe) = <<Wrapped((fe.auto_step + 1) % Width), 0>>
  <2>1. m = 0 /\ step = fe.auto_step + 1
    BY <1>1, <1>13, NextStep
  <2>2. Will(Drift(step), {now})
    BY <1>5, <1>7, <2>1
  <2>3. Will(d, WantedInversions) /\ Will(-d, WantedInversions)
    BY <1>6, <1>13, StepDone
  <2>4. ASSUME NEW k \in Steps, k < step
        PROVE  Will(Drift(k), WantedInversions) /\ Will(-Drift(k), WantedInversions)
    <3>1. k \in Nat
      BY FirstStep
    <3>2. k < fe.auto_step \/ k = fe.auto_step
      BY <1>1, <2>1, <2>4, <3>1
    <3> QED
      BY <1>9, <2>3, <3>2
  <2> QED
    BY <2>1, <2>2, <2>4
<1> QED
  BY <1>1, <1>12, <1>13, NextTrial

(* Every step keeps the promise of the scan: what is behind it has been    *)
(* tried.                                                                  *)
LEMMA ScanStep ==
  ASSUME ControlTypes, FeTypes, ScanInv, Next
  PROVE  ScanInv'
<1>0. mode \in Modes
  BY DEF ControlTypes
<1> USE <1>0
<1>1. CASE \/ ThreadWakes \/ ThreadExits \/ Idles \/ ReadsStatus \/ ThreadPublishes
           \/ StaysTuned \/ HwDone \/ SignalChanges \/ LastWakeup
  BY <1>1, ScanSame, SameMode DEF ThreadWakes, ThreadExits, Idles, Up, ReadsStatus, Reports,
     ThreadPublishes, Publish, StaysTuned, Tuning, HwDone, SignalChanges, LastWakeup
<1>2. ASSUME NEW c \in mode.callers,
             \/ GetEvent(c) \/ GetEventWakes(c) \/ SetPublishes(c) \/ GetEventReturns(c)
             \/ GetEventInterrupted(c)
      PROVE  ScanInv'
  BY <1>2, ScanSame, SameMode DEF GetEvent, CanCall, Take, GetEventWakes, SetPublishes,
     Publish, GetEventReturns, GetEventInterrupted
<1>3. CASE \/ OpenEnd \/ Release \/ Expires \/ Stop \/ Unregister
           \/ UnregisterInterrupted
  BY <1>3, ScanSame, SameMode DEF OpenEnd, Release, Expires, Stop, Unregister,
     UnregisterInterrupted
<1>4. CASE ThreadStamps
  BY <1>4, ScanSame, SameMode DEF ThreadStamps, Stamp, FeTypes, FeRecord
<1>5. CASE ThreadDown
  BY <1>5, ScanSame, SameMode DEF ThreadDown, FeTypes, FeRecord
<1>6. ASSUME NEW c \in mode.callers,
             SetTuneMode(c)
      PROVE  ScanInv'
  BY <1>6, ScanSame, SameMode DEF SetTuneMode, CanCall, FeTypes, FeRecord
<1>7. ASSUME NEW c \in mode.callers,
             SetReturns(c)
      PROVE  ScanInv'
  BY <1>7, ScanSame, SameMode DEF SetReturns, Stamp, FeTypes, FeRecord
<1>8. CASE Reinitialise
  BY <1>8, ScanSame, SameMode DEF Reinitialise, FeTypes, FeRecord
<1>9. CASE ThreadInit
  BY <1>9, SameMode DEF ThreadInit, ScanInv, FeTypes, FeRecord, Scan, Steps, Drift,
     WantedInversions, AutoInversion, Recovers
<1>10. CASE TunesOnce
  <2>1. CASE fe.state = "RETUNE"
    BY <1>10, <2>1, ScanOver DEF TunesOnce, FeTypes, FeRecord
  <2>2. CASE fe.state # "RETUNE"
    BY <1>10, <2>2, ScanSame, SameMode DEF TunesOnce, Up
  <2> QED
    BY <2>1, <2>2
<1>11. CASE HwTunes
  <2>1. CASE fe.state = "RETUNE"
    BY <1>11, <2>1, ScanOver DEF HwTunes, FeTypes, FeRecord
  <2>2. CASE fe.state # "RETUNE"
    BY <1>11, <2>2, ScanSame, SameMode DEF HwTunes, Reports
  <2> QED
    BY <2>1, <2>2
<1>12. ASSUME NEW c \in mode.callers,
             SetFrontend(c) \/ Diseqc(c)
      PROVE  ScanInv'
  BY <1>12, ScanOver DEF SetFrontend, CanCall, Diseqc, FeTypes, FeRecord
<1>13. CASE GetsLock
  BY <1>13, ScanOver DEF GetsLock, Tuning, Up, FeTypes, FeRecord
<1>14. CASE OpenStart
  <2>1. CASE at = "none"
    BY <1>14, <2>1, ScanOver DEF OpenStart, FeTypes, FeRecord
  <2>2. CASE at # "none"
    BY <1>14, <2>2, ScanSame, SameMode DEF OpenStart, FeTypes, FeRecord
  <2> QED
    BY <2>1, <2>2
<1>15. CASE OpenFails
  <2>1. CASE fe' = [fe EXCEPT !.oneshot = FALSE]
    BY <1>15, <2>1, ScanSame, SameMode DEF OpenFails, FeTypes, FeRecord
  <2>2. CASE fe' = [fe EXCEPT !.oneshot = FALSE, !.state = "IDLE"]
    BY <2>2, ScanOver DEF FeTypes, FeRecord
  <2> QED
    BY <1>15, <2>1, <2>2 DEF OpenFails
<1>16. CASE LeavesAlone
  <2>1. fe' = LostLock /\ at' = "wait" /\ tried' = tried
        /\ (Recovers(LostLock) \/ fe.state = "DISEQC")
    BY <1>16 DEF LeavesAlone, Tuning, Up
  <2>2. CASE fe.state = "TUNED"
    <3>1. fe'.state = "ZIGZAG_FAST" /\ Recovers(LostLock)
      BY <2>1, <2>2, NotComplete
    <3>2. Recovers(fe)'
      BY <2>1, <3>1, SameMode DEF Recovers
    <3> QED
      BY <2>1, <3>1, <3>2 DEF ScanInv
  <2>3. CASE fe.state # "TUNED"
    BY <2>1, <2>3, NotComplete, ScanSame, SameMode
  <2> QED
    BY <2>2, <2>3
<1>17. CASE SearchesSlow
  <2>1. Tune(fe) /\ fe.state = "SLOW" /\ at' = "wait"
    BY <1>17 DEF SearchesSlow, Tuning, Up
  <2>2. fe'.inv = fe.inv /\ fe'.state = "SLOW"
    BY <2>1, TuneDoes DEF FeTypes
  <2>3. Scan' = Scan
    BY <2>2, SameMode DEF Scan, Steps, Drift, WantedInversions, AutoInversion
  <2>4. tried \subseteq tried'
    BY <2>1 DEF Tune, History
  <2> QED
    BY <2>1, <2>2, <2>3, <2>4 DEF ScanInv
<1>18. CASE SearchesFast
  <2> DEFINE f == IF fe.state = "RETUNE" THEN NewScan(fe) ELSE LostLock
  <2>1. /\ at' = "wait" /\ ~Recovers(f) /\ f.state \in {"TUNING_FAST", "ZIGZAG_FAST", "RETUNE"}
        /\ IF Complete(f, f.check_wrapped)
           THEN /\ fe' = [Chosen(f) EXCEPT !.state = "SLOW",
                                         !.started_auto_step = Chosen(f).auto_step]
                /\ UNCHANGED <<hw, tried>>
           ELSE Tune(f)
    BY <1>18 DEF SearchesFast, Tuning, Up, SEARCHING_FAST
  <2>2. f \in FeRecord /\ f.inv = fe.inv
    BY BeginTypes, NotComplete
  <2>3. ASSUME fe'.inv = fe.inv PROVE Scan' = Scan
    BY <2>3, SameMode DEF Scan, Steps, Drift, WantedInversions, AutoInversion
  <2>4. CASE fe.state = "RETUNE"
    <3>1. /\ f = NewScan(fe) /\ Tune(f) /\ f.auto_step = 0 /\ f.auto_sub_step = 0
          /\ f.started_auto_step = 0 /\ f.state = "RETUNE"
      BY <2>1, <2>4, NotComplete DEF Complete
    <3>2. Trial(f) = <<0, 0>>
      <4>1. 0 \in Ready(f, 0)
        BY DEF Ready
      <4> QED
        BY <2>2, <3>1, <4>1, NextTrial DEF FeRecord, Ready
    <3>3. /\ fe'.state = "TUNING_FAST" /\ fe'.started_auto_step = 0 /\ fe'.check_wrapped
          /\ fe'.auto_step = 0 /\ fe'.auto_sub_step = 1 /\ fe'.inv = f.inv
          /\ fe'.inversion = f.inversion /\ hw' = Setting(f)
      <4> HIDE DEF f
      <4>1. fe'.inversion = Chosen(f).inversion /\ Chosen(f).inversion = f.inversion
        BY <2>2, <3>1, <3>2, TuneDoes, ChosenTypes
      <4>2. /\ fe'.state = "TUNING_FAST" /\ fe'.started_auto_step = 0 /\ fe'.check_wrapped
            /\ fe'.inv = f.inv /\ hw' = Setting(f)
        BY <2>2, <3>1, TuneDoes
      <4>3. fe'.auto_step = 0 /\ fe'.auto_sub_step = 1
        <5>1. fe'.auto_step = Trial(f)[1] /\ fe'.auto_sub_step = Trial(f)[2] + 1
          BY <2>2, <3>1, TuneDoes
        <5> QED
          BY <3>2, <5>1
      <4> QED
        BY <4>1, <4>2, <4>3
    <3>4. /\ hw'.drift = Drift(0)
          /\ hw'.inv = IF AutoInversion(f) THEN f.inversion ELSE f.inv
      BY <2>2, <3>2, <3>3, ChosenTypes DEF Setting
    <3>5. [drift |-> hw'.drift, inv |-> hw'.inv] \in tried'
      BY <3>1 DEF Tune
    <3>6. Covered'
      BY <3>3, <3>4, <3>5, SameMode, FirstStep
      DEF Covered, Tried, Now, AutoInversion, Drift, Steps
    <3> QED
      BY <2>1, <3>3, <3>6 DEF ScanInv
  <2>5. CASE fe.state = "TUNED"
    <3>1. f.state = "ZIGZAG_FAST" /\ Tune(f)
      BY <2>1, <2>5, NotComplete DEF Complete
    <3>2. fe'.state = "ZIGZAG_FAST" /\ fe'.inv = fe.inv
      BY <2>2, <3>1, TuneDoes
    <3>3. Scan \subseteq tried'
      BY <2>5, <3>1 DEF Tune, History
    <3> QED
      BY <2>1, <2>3, <3>2, <3>3 DEF ScanInv
  <2>6. CASE fe.state = "ZIGZAG_FAST"
    <3>1. f = fe /\ Scan \subseteq tried
      BY <2>1, <2>6, NotComplete DEF ScanInv
    <3>2. fe'.inv = fe.inv /\ fe'.state \in {"SLOW", "ZIGZAG_FAST"} /\ tried \subseteq tried'
      <4>1. CASE Complete(f, f.check_wrapped)
        BY <2>1, <2>2, <4>1, SlowDoes
      <4>2. CASE Tune(f)
        <5>1. tried \subseteq tried'
          BY <2>6, <4>2 DEF Tune, History
        <5> QED
          BY <2>2, <2>6, <3>1, <4>2, <5>1, TuneDoes
      <4> QED
        BY <2>1, <4>1, <4>2
    <3> QED
      BY <2>1, <2>3, <3>1, <3>2 DEF ScanInv
  <2>7. CASE fe.state = "TUNING_FAST"
    <3>1. f = fe /\ fe.started_auto_step = 0 /\ fe.check_wrapped /\ Covered
      BY <2>7, NotComplete DEF ScanInv
    <3>2. CASE Complete(f, f.check_wrapped)
      <4>1. Scan \subseteq tried
        BY <3>1, <3>2, CoveredAll DEF Complete
      <4>2. fe'.inv = fe.inv /\ fe'.state = "SLOW" /\ tried' = tried
        BY <2>1, <2>2, <3>2, SlowDoes
      <4> QED
        BY <2>1, <2>3, <4>1, <4>2 DEF ScanInv
    <3>3. CASE ~Complete(f, f.check_wrapped)
      <4>1. Trial(fe) # <<0, 0>> /\ Tune(fe)
        BY <2>1, <3>1, <3>3 DEF Complete
      <4>2. Covered'
        BY <2>7, <3>1, <4>1, CoveredTune, SameMode
      <4>3. fe'.state = "TUNING_FAST" /\ fe'.started_auto_step = 0 /\ fe'.check_wrapped
        BY <2>2, <2>7, <3>1, <4>1, TuneDoes
      <4> QED
        BY <2>1, <4>2, <4>3 DEF ScanInv
    <3> QED
      BY <3>2, <3>3
  <2>8. fe.state \in {"RETUNE", "TUNED", "ZIGZAG_FAST", "TUNING_FAST"}
    BY <2>1, NotComplete
  <2> QED
    BY <2>4, <2>5, <2>6, <2>7, <2>8
<1> QED
  BY <1>1, <1>2, <1>3, <1>4, <1>5, <1>6, <1>7, <1>8, <1>9, <1>10, <1>11, <1>12, <1>13,
     <1>14, <1>15, <1>16, <1>17, <1>18 DEF Next, ThreadSteps, CallerSteps


-----------------------------------------------------------------------------
(* The event queue                                                         *)

(* i slots on from r.                                                      *)
At(m, r, i) == (r + i) % m

(* The queue with MAX_EVENT m, indices w and r and slots sl has the events *)
(* of q.                                                                   *)
Has(m, w, r, sl, q) ==
  /\ Len(q) < m /\ w = At(m, r, Len(q))
  /\ \A i \in 1 .. Len(q) : sl[At(m, r, i - 1)] = q[i]

(* The parameters of an event are in its slot.                             *)
Copied(x, e) == x.req = e.req

(* It has those of q but for the status of the last, whose slot is c.      *)
Lacks(m, r, c, sl, q, lock) ==
  \/ m = 1 /\ q = <<>>
  \/ /\ Len(q) \in 1 .. m - 1
     /\ c = At(m, r, Len(q) - 1)
     /\ \A i \in 1 .. Len(q) - 1 : sl[At(m, r, i - 1)] = q[i]
     /\ Copied(sl[c], q[Len(q)])
     /\ q[Len(q)].lock = lock

(* Indices modulo MAX_EVENT.                                               *)
LEMMA Turn ==
  ASSUME NEW m \in Nat \ {0}, NEW r \in 0 .. m - 1
  PROVE  /\ \A i \in 0 .. m - 1 : (r + i) % m = IF r + i < m THEN r + i ELSE (r + i) - m
         /\ \A i \in 0 .. m - 1 : (r + i) % m \in 0 .. m - 1
         /\ (r + 1) % m \in 0 .. m - 1
         /\ (r + 1) % m = IF r + 1 = m THEN 0 ELSE r + 1
<1>1. \A y \in 0 .. m - 1 : y % m = y  OBVIOUS
<1>2. \A y \in m .. 2 * m - 1 : y % m = y - m  OBVIOUS
<1>3. ASSUME NEW i \in 0 .. m - 1
      PROVE  (r + i) % m = IF r + i < m THEN r + i ELSE (r + i) - m
  <2>1. CASE r + i < m
    <3>1. r + i \in 0 .. m - 1  BY <2>1
    <3>. QED  BY <1>1, <2>1, <3>1
  <2>2. CASE ~(r + i < m)
    <3>1. r + i \in m .. 2 * m - 1  BY <2>2
    <3>. QED  BY <1>2, <2>2, <3>1
  <2>. QED  BY <2>1, <2>2
<1>4. ASSUME NEW i \in 0 .. m - 1 PROVE (r + i) % m \in 0 .. m - 1
  BY <1>3
<1>5. (r + 1) % m = IF r + 1 = m THEN 0 ELSE r + 1
  <2>1. CASE r + 1 = m
    <3>1. m \in m .. 2 * m - 1 /\ m % m = m - m  BY <1>2
    <3>. QED  BY <2>1, <3>1
  <2>2. CASE r + 1 # m
    <3>1. r + 1 \in 0 .. m - 1  BY <2>2
    <3>. QED  BY <1>1, <2>2, <3>1
  <2>. QED  BY <2>1, <2>2
<1>. QED  BY <1>3, <1>4, <1>5

(* Different entries are in different slots.                               *)
LEMMA AtDiffer ==
  ASSUME NEW m \in Nat \ {0}, NEW r \in 0 .. m - 1, NEW i \in 0 .. m - 1, NEW j \in 0 .. m - 1,
         i # j
  PROVE  At(m, r, i) # At(m, r, j)
<1>1. (r + i) % m = IF r + i < m THEN r + i ELSE (r + i) - m  BY Turn
<1>2. (r + j) % m = IF r + j < m THEN r + j ELSE (r + j) - m  BY Turn
<1>. QED  BY <1>1, <1>2 DEF At

(* A slot is one of the queue's, and the first entry is in the slot r.     *)
LEMMA AtIn ==
  ASSUME NEW m \in Nat \ {0}, NEW r \in 0 .. m - 1
  PROVE  /\ \A i \in 0 .. m - 1 : At(m, r, i) \in 0 .. m - 1
         /\ At(m, r, 1) \in 0 .. m - 1 /\ At(m, r, 0) = r
<1>1. \A i \in 0 .. m - 1 : At(m, r, i) \in 0 .. m - 1  BY Turn, Zenon DEF At
<1>2. At(m, r, 1) \in 0 .. m - 1  BY Turn, Zenon DEF At
<1>3. r + 0 = r /\ r % m = r  OBVIOUS
<1>. QED  BY <1>1, <1>2, <1>3 DEF At

(* The slot behind that of an entry.                                       *)
LEMMA AtNext ==
  ASSUME NEW m \in Nat \ {0}, NEW r \in 0 .. m - 1, NEW i \in 0 .. m - 1, NEW j \in 0 .. m - 1,
         j = i + 1
  PROVE  At(m, At(m, r, i), 1) = At(m, r, j)
<1>1. PICK y \in 0 .. m - 1 : y = At(m, r, i) /\ y = IF r + i < m THEN r + i ELSE (r + i) - m
  BY Turn DEF At
<1>2. (y + 1) % m = IF y + 1 = m THEN 0 ELSE y + 1  BY Turn
<1>3. (r + j) % m = IF r + j < m THEN r + j ELSE (r + j) - m  BY Turn
<1>4. (y + 1) % m = (r + j) % m  BY <1>1, <1>2, <1>3
<1>. QED  BY <1>1, <1>4, Zenon DEF At

(* The slot behind that of the last.                                       *)
LEMMA AtRound ==
  ASSUME NEW m \in Nat \ {0}, NEW r \in 0 .. m - 1, NEW i \in 0 .. m - 1, i + 1 = m
  PROVE  At(m, At(m, r, i), 1) = r
<1>1. PICK y \in 0 .. m - 1 : y = At(m, r, i) /\ y = IF r + i < m THEN r + i ELSE (r + i) - m
  BY Turn DEF At
<1>2. (y + 1) % m = IF y + 1 = m THEN 0 ELSE y + 1  BY Turn
<1>3. (y + 1) % m = r  BY <1>1, <1>2
<1>. QED  BY <1>1, <1>3, Zenon DEF At

(* An entry counted from the second one.                                   *)
LEMMA AtSecond ==
  ASSUME NEW m \in Nat \ {0}, NEW r \in 0 .. m - 1, NEW i \in 0 .. m - 1, NEW j \in 0 .. m - 1,
         j = i + 1
  PROVE  At(m, At(m, r, 1), i) = At(m, r, j)
<1>1. PICK y \in 0 .. m - 1 : y = At(m, r, 1) /\ y = IF r + 1 = m THEN 0 ELSE r + 1
  BY Turn DEF At
<1>2. (y + i) % m = IF y + i < m THEN y + i ELSE (y + i) - m  BY Turn
<1>3. (r + j) % m = IF r + j < m THEN r + j ELSE (r + j) - m  BY Turn
<1>4. (y + i) % m = (r + j) % m  BY <1>1, <1>2, <1>3
<1>. QED  BY <1>1, <1>4, Zenon DEF At

(* A reserved slot: what was in the queue is there, except the oldest      *)
(* event of a full one.                                                    *)
LEMMA ReserveHas ==
  ASSUME NEW E, NEW m \in Nat \ {0}, NEW w \in 0 .. m - 1, NEW r \in 0 .. m - 1, NEW sl, NEW sl2,
         NEW q \in Seq(E), NEW e \in E, Has(m, w, r, sl, q),
         \A i \in 0 .. m - 1 : i # w => sl2[i] = sl[i], Copied(sl2[w], e)
  PROVE  Lacks(m, IF At(m, w, 1) = r THEN At(m, r, 1) ELSE r, w, sl2,
               SubSeq(Append(q, e), IF Len(Append(q, e)) >= m THEN 2 ELSE 1, Len(Append(q, e))), e.lock)
<1>1. PICK n \in Nat : n = Len(q) /\ n < m /\ w = At(m, r, n)  BY DEF Has
<1>2. \A i \in 1 .. n : sl[At(m, r, i - 1)] = q[i]  BY <1>1 DEF Has
<1>3. PICK a \in Seq(E) : a = Append(q, e)  BY AppendProperties
<1>4. Len(a) = n + 1 /\ a[n + 1] = e /\ \A i \in 1 .. n : a[i] = q[i]  BY <1>1, <1>3, AppendProperties
<1>5. n \in 0 .. m - 1  BY <1>1
<1>6. \A i \in 1 .. n : sl2[At(m, r, i - 1)] = q[i]
  <2>. SUFFICES ASSUME NEW i \in 1 .. n PROVE sl2[At(m, r, i - 1)] = q[i]  OBVIOUS
  <2>1. i - 1 \in 0 .. m - 1 /\ i - 1 # n  BY <1>5
  <2>2. PICK j \in 0 .. m - 1 : j = i - 1 /\ j # n  BY <2>1
  <2>3. At(m, r, j) \in 0 .. m - 1  BY <2>2, AtIn, Zenon
  <2>4. At(m, r, j) # At(m, r, n)  BY <1>5, <2>2, AtDiffer, Zenon
  <2>. QED  BY <1>1, <1>2, <2>2, <2>3, <2>4, Zenon
<1>7. CASE n + 1 < m
  <2>1. At(m, w, 1) # r
    <3>1. PICK k \in 0 .. m - 1 : k = n + 1 /\ 0 \in 0 .. m - 1 /\ k # 0  BY <1>7
    <3>2. At(m, At(m, r, n), 1) = At(m, r, k)  BY <1>5, <3>1, AtNext
    <3>3. At(m, r, k) # r  BY <3>1, AtIn, AtDiffer
    <3>. QED  BY <1>1, <3>2, <3>3, Zenon
  <2>2. SubSeq(a, 1, Len(a)) = a  BY <1>3, <1>4
  <2>3. ~(Len(a) >= m)  BY <1>4, <1>7
  <2>4. Lacks(m, r, w, sl2, a, e.lock)
    <3>1. Len(a) \in 1 .. m - 1  BY <1>4, <1>7
    <3>2. Len(a) - 1 = n /\ a[Len(a)] = e  BY <1>4
    <3>3. \A i \in 1 .. n : sl2[At(m, r, i - 1)] = a[i]  BY <1>4, <1>6
    <3>. QED  BY <1>1, <3>1, <3>2, <3>3 DEF Lacks
  <2>. QED  BY <1>3, <2>1, <2>2, <2>3, <2>4, Zenon
<1>8. CASE n + 1 = m
  <2>1. At(m, At(m, r, n), 1) = r  BY <1>5, <1>8, AtRound
  <2>2. Len(a) >= m /\ Len(a) = m  BY <1>4, <1>8
  <2>3. PICK b \in Seq(E) : b = SubSeq(a, 2, Len(a)) /\ Len(b) = n /\ \A i \in 1 .. n : b[i] = a[i + 1]
    <3>1. PICK l \in Nat : l = Len(a) /\ l = n + 1  BY <1>4
    <3>2. \A i \in 2 .. l : a[i] \in E
      <4>1. \A i \in 1 .. Len(a) : a[i] \in E  BY <1>3
      <4>2. \A i \in 2 .. l : i \in 1 .. l  BY <3>1
      <4>. QED  BY <3>1, <4>1, <4>2, Zenon
    <3>3. /\ SubSeq(a, 2, l) \in Seq(E)
          /\ Len(SubSeq(a, 2, l)) = IF 2 <= l THEN (l - 2) + 1 ELSE 0
          /\ \A i \in 1 .. (l - 2) + 1 : SubSeq(a, 2, l)[i] = a[i + 1]
      BY <3>1, <3>2
    <3>4. (l - 2) + 1 = n /\ (IF 2 <= l THEN (l - 2) + 1 ELSE 0) = n  BY <3>1
    <3>. QED  BY <3>1, <3>3, <3>4
  <2>4. PICK r1 \in 0 .. m - 1 : r1 = At(m, r, 1)  BY AtIn
  <2>5. Lacks(m, r1, w, sl2, b, e.lock)
    <3>1. CASE m = 1
      <4>1. b = <<>>  BY <1>8, <2>3, <3>1
      <4>. QED  BY <3>1, <4>1 DEF Lacks
    <3>2. CASE m # 1
      <4>1. Len(b) \in 1 .. m - 1 /\ n - 1 \in 0 .. m - 1 /\ n \in 0 .. m - 1 /\ n = (n - 1) + 1
        BY <1>8, <2>3, <3>2
      <4>2. w = At(m, r1, Len(b) - 1)
        <5>1. PICK y \in 0 .. m - 1 : y = n - 1 /\ n = y + 1  BY <4>1
        <5>2. At(m, At(m, r, 1), y) = At(m, r, n)  BY <1>5, <5>1, AtSecond, Zenon
        <5>. QED  BY <1>1, <2>3, <2>4, <5>1, <5>2, Zenon
      <4>3. \A i \in 1 .. n - 1 : sl2[At(m, r1, i - 1)] = b[i]
        <5>. SUFFICES ASSUME NEW i \in 1 .. n - 1 PROVE sl2[At(m, r1, i - 1)] = b[i]  OBVIOUS
        <5>1. i - 1 \in 0 .. m - 1 /\ i \in 0 .. m - 1 /\ i = (i - 1) + 1 /\ i + 1 \in 1 .. n /\ (i + 1) - 1 = i
              /\ i \in 1 .. n
          BY <1>8
        <5>2. At(m, r1, i - 1) = At(m, r, i)
          <6>1. PICK y \in 0 .. m - 1 : y = i - 1 /\ i = y + 1  BY <5>1
          <6>2. At(m, At(m, r, 1), y) = At(m, r, i)  BY <5>1, <6>1, AtSecond, Zenon
          <6>. QED  BY <2>4, <6>1, <6>2, Zenon
        <5>3. sl2[At(m, r, i)] = q[i + 1]  BY <1>6, <5>1
        <5>4. b[i] = a[i + 1] /\ a[i + 1] = q[i + 1]  BY <1>4, <2>3, <5>1, Zenon
        <5>. QED  BY <5>2, <5>3, <5>4, Zenon
      <4>4. b[Len(b)] = e  BY <1>4, <2>3, <4>1
      <4>. QED  BY <2>3, <4>1, <4>2, <4>3, <4>4 DEF Lacks
    <3>. QED  BY <3>1, <3>2
  <2>. QED  BY <1>1, <1>3, <2>1, <2>2, <2>3, <2>4, <2>5, Zenon
<1>. QED  BY <1>1, <1>7, <1>8

(* The status is entered: the queue has the event.                         *)
LEMMA StampHas ==
  ASSUME NEW R, NEW m \in Nat \ {0}, NEW w, NEW r \in 0 .. m - 1, NEW c \in 0 .. m - 1,
         NEW sl \in [0 .. m - 1 -> [req : R, lock : BOOLEAN]],
         NEW q \in Seq([req : R, lock : BOOLEAN]), NEW lock \in BOOLEAN,
         Lacks(m, r, c, sl, q, lock), w = At(m, c, 1)
  PROVE  Has(m, w, r, [sl EXCEPT ![c].lock = lock], q)
<1>. DEFINE sl2 == [sl EXCEPT ![c].lock = lock]
<1>1. \A i \in 0 .. m - 1 : i # c => sl2[i] = sl[i]  OBVIOUS
<1>2. sl2[c] = [req |-> sl[c].req, lock |-> lock]  OBVIOUS
<1>. HIDE DEF sl2
<1>3. CASE m = 1 /\ q = <<>>
  <2>1. Len(q) = 0 /\ c = 0 /\ r = 0 /\ At(1, 0, 1) = 0 /\ At(1, 0, 0) = 0  BY <1>3 DEF At
  <2>2. \A i \in 1 .. Len(q) : sl2[At(m, r, i - 1)] = q[i]  BY <2>1
  <2>3. w = At(m, r, Len(q)) /\ Len(q) < m  BY <1>3, <2>1
  <2>. QED  BY <2>2, <2>3 DEF Has, sl2
<1>4. ASSUME ~(m = 1 /\ q = <<>>) PROVE Has(m, w, r, sl2, q)
  <2>1. PICK n \in 1 .. m - 1 : n = Len(q)  BY <1>4 DEF Lacks
  <2>2. /\ c = At(m, r, n - 1)
        /\ \A i \in 1 .. n - 1 : sl[At(m, r, i - 1)] = q[i]
        /\ Copied(sl[c], q[n]) /\ q[n].lock = lock
    BY <1>4, <2>1 DEF Lacks
  <2>3. n - 1 \in 0 .. m - 1 /\ n \in 0 .. m - 1 /\ n = (n - 1) + 1  BY <2>1
  <2>4. At(m, At(m, r, n - 1), 1) = At(m, r, n)
    <3>1. PICK y \in 0 .. m - 1 : y = n - 1 /\ n = y + 1  BY <2>3
    <3>2. At(m, At(m, r, y), 1) = At(m, r, n)  BY <2>3, <3>1, AtNext
    <3>. QED  BY <3>1, <3>2, Zenon
  <2>5. q[n] \in [req : R, lock : BOOLEAN]
    <3>1. n \in 1 .. Len(q)  BY <2>1
    <3>. QED  BY <3>1, ElementOfSeq
  <2>6. sl2[c] = q[n]  BY <1>2, <2>2, <2>5 DEF Copied
  <2>7. ASSUME NEW i \in 1 .. n PROVE sl2[At(m, r, i - 1)] = q[i]
    <3>1. CASE i = n  BY <2>2, <2>6, <3>1, Zenon
    <3>2. CASE i # n
      <4>1. i - 1 \in 0 .. m - 1 /\ i - 1 # n - 1 /\ i \in 1 .. n - 1  BY <2>1, <3>2
      <4>2. At(m, r, i - 1) \in 0 .. m - 1 /\ At(m, r, i - 1) # At(m, r, n - 1)  BY <2>3, <4>1, AtIn, AtDiffer, Zenon
      <4>. QED  BY <1>1, <2>2, <4>1, <4>2, Zenon
    <3>. QED  BY <3>1, <3>2
  <2>8. n < m  BY <2>1
  <2>9. w = At(m, r, n)  BY <2>2, <2>4, Zenon
  <2>. QED  BY <2>1, <2>7, <2>8, <2>9 DEF Has
<1>. QED  BY <1>3, <1>4 DEF sl2

(* The oldest event is taken.                                              *)
LEMMA TakeHas ==
  ASSUME NEW E, NEW m \in Nat \ {0}, NEW w, NEW r \in 0 .. m - 1, NEW sl, NEW q \in Seq(E),
         Has(m, w, r, sl, q), w # r
  PROVE  q # <<>> /\ Has(m, w, At(m, r, 1), sl, Tail(q))
<1>1. PICK n \in Nat : n = Len(q) /\ n < m /\ w = At(m, r, n)  BY DEF Has
<1>2. \A i \in 1 .. n : sl[At(m, r, i - 1)] = q[i]  BY <1>1 DEF Has
<1>3. n # 0
  <2>1. At(m, r, 0) = r  BY AtIn
  <2>. QED  BY <1>1, <2>1
<1>4. q # <<>>  BY <1>1, <1>3
<1>5. PICK b \in Seq(E) : b = Tail(q) /\ Len(b) = n - 1 /\ \A i \in 1 .. n - 1 : b[i] = q[i + 1]
  BY <1>1, <1>4, HeadTailProperties
<1>6. PICK r1 \in 0 .. m - 1 : r1 = At(m, r, 1)  BY AtIn
<1>7. n - 1 \in 0 .. m - 1 /\ n \in 0 .. m - 1 /\ n = (n - 1) + 1  BY <1>1, <1>3
<1>8. w = At(m, r1, n - 1)
  <2>1. PICK y \in 0 .. m - 1 : y = n - 1 /\ n = y + 1  BY <1>7
  <2>2. At(m, At(m, r, 1), y) = At(m, r, n)  BY <1>7, <2>1, AtSecond, Zenon
  <2>. QED  BY <1>1, <1>6, <2>1, <2>2, Zenon
<1>9. ASSUME NEW i \in 1 .. n - 1 PROVE sl[At(m, r1, i - 1)] = b[i]
  <2>1. i - 1 \in 0 .. m - 1 /\ i \in 0 .. m - 1 /\ i = (i - 1) + 1 /\ i + 1 \in 1 .. n /\ (i + 1) - 1 = i
    BY <1>7
  <2>2. At(m, r1, i - 1) = At(m, r, i)
    <3>1. PICK y \in 0 .. m - 1 : y = i - 1 /\ i = y + 1  BY <2>1
    <3>2. At(m, At(m, r, 1), y) = At(m, r, i)  BY <2>1, <3>1, AtSecond, Zenon
    <3>. QED  BY <1>6, <3>1, <3>2, Zenon
  <2>3. sl[At(m, r, i)] = q[i + 1]  BY <1>2, <2>1
  <2>. QED  BY <1>5, <2>2, <2>3, Zenon
<1>10. n - 1 < m  BY <1>1
<1>11. Has(m, w, r1, sl, b)  BY <1>5, <1>8, <1>9, <1>10 DEF Has
<1>. QED  BY <1>4, <1>5, <1>6, <1>11

(* The indices are as far apart as the queue has events.                   *)
LEMMA ReadHas ==
  ASSUME NEW E, NEW m \in Nat \ {0}, NEW w, NEW r \in 0 .. m - 1, NEW sl, NEW q \in Seq(E),
         Has(m, w, r, sl, q)
  PROVE  (w - r) % m = Len(q)
<1>1. PICK n \in Nat : n = Len(q) /\ n < m /\ w = At(m, r, n)  BY DEF Has
<1>3. \A y \in 0 .. m - 1 : y % m = y  OBVIOUS
<1>4. \A y \in 0 .. m - 1 : (y - m) % m = y  OBVIOUS
<1>5. n \in 0 .. m - 1  BY <1>1
<1>6. w = IF r + n < m THEN r + n ELSE (r + n) - m  BY <1>1, <1>5, Turn DEF At
<1>7. (w - r) % m = n
  <2>1. w - r = n \/ w - r = n - m  BY <1>5, <1>6
  <2>. QED  BY <1>3, <1>4, <1>5, <2>1
<1>. QED  BY <1>1, <1>7

(* No flag excuses the queue; nobody is filling a slot.                    *)
Excused == past.raced \/ past.stale \/ past.doubled
Fills(a) == Phase(a) \in {"publish", "stamp"}
Quiet == \A a \in Adders : ~Fills(a)

(* The invariant of the queue, with the state taken apart.                 *)
LEMMA EventsAre ==
  EventsInv <=>
    \/ Excused
    \/ /\ Quiet => Has(mode.max_event, ev.w, ev.r, ev.slots, added)
       /\ \A a \in Adders :
            /\ Phase(a) = "publish" =>
                 /\ Lacks(mode.max_event, ev.r, cell[a], ev.slots, added, Due(a))
                 /\ ev.w = cell[a]
            /\ Phase(a) = "stamp" =>
                 /\ Lacks(mode.max_event, ev.r, cell[a], ev.slots, added, Due(a))
                 /\ ev.w = At(mode.max_event, cell[a], 1)
<1>1. QueueHas(added) <=> Has(mode.max_event, ev.w, ev.r, ev.slots, added)
  BY DEF QueueHas, Has, Slot, At
<1>2. ASSUME NEW a PROVE Pending(a) <=> Lacks(mode.max_event, ev.r, cell[a], ev.slots, added, Due(a))
  BY DEF Pending, Lacks, Slot, At, Copied
<1>3. \A a : Slot(cell[a] + 1) = At(mode.max_event, cell[a], 1)  BY DEF Slot, At
<1>. QED  BY <1>1, <1>2, <1>3, Zenon DEF EventsInv, Excused, Quiet, Fills

(* The same after a step.                                                  *)
LEMMA EventsWill ==
  EventsInv' <=>
    \/ Excused'
    \/ /\ Quiet' => Has(mode'.max_event, ev'.w, ev'.r, ev'.slots, added')
       /\ \A a \in Adders :
            /\ (Phase(a))' = "publish" =>
                 /\ Lacks(mode'.max_event, ev'.r, cell'[a], ev'.slots, added', (Due(a))')
                 /\ ev'.w = cell'[a]
            /\ (Phase(a))' = "stamp" =>
                 /\ Lacks(mode'.max_event, ev'.r, cell'[a], ev'.slots, added', (Due(a))')
                 /\ ev'.w = At(mode'.max_event, cell'[a], 1)
<1>1. QueueHas(added)' <=> Has(mode'.max_event, ev'.w, ev'.r, ev'.slots, added')
  BY DEF QueueHas, Has, Slot, At
<1>2. ASSUME NEW a
      PROVE  (Pending(a))' <=> Lacks(mode'.max_event, ev'.r, cell'[a], ev'.slots, added', (Due(a))')
  BY DEF Pending, Lacks, Slot, At, Copied
<1>3. \A a : (Slot(cell[a] + 1))' = At(mode'.max_event, cell'[a], 1)  BY DEF Slot, At
<1>. QED  BY <1>1, <1>2, <1>3, Zenon DEF EventsInv, Excused, Quiet, Fills

(* The parts of the queue.                                                 *)
LEMMA QueueParts ==
  ASSUME mode \in Modes, QueueTypes
  PROVE  /\ mode.max_event \in Nat \ {0} /\ Cells = 0 .. mode.max_event - 1
         /\ ev.w \in Cells /\ ev.r \in Cells /\ ev.slots \in [Cells -> Event]
         /\ \A a \in Adders : cell[a] \in Cells
BY ModeFields DEF QueueTypes, Cells, Event

(* A step that leaves the queue and those who fill it alone.               *)
LEMMA EventsKept ==
  ASSUME EventsInv, mode' = mode, ev'.w = ev.w, ev'.r = ev.r, ev'.slots = ev.slots,
         cell' = cell, added' = added, Excused => Excused',
         \A a \in Adders : Fills(a) \/ (Fills(a))' =>
                             (Phase(a))' = Phase(a) /\ (Due(a))' = Due(a)
  PROVE  EventsInv'
<1>1. CASE Excused'  BY <1>1, EventsWill
<1>2. CASE ~Excused'
  <2>1. Quiet' => Quiet  BY DEF Quiet, Fills
  <2>2. \A a \in Adders : (Phase(a))' \in {"publish", "stamp"} =>
          (Phase(a))' = Phase(a) /\ (Due(a))' = Due(a)
    BY DEF Fills
  <2>3. ~Excused  BY <1>2
  <2>. QED  BY <2>1, <2>2, <2>3, EventsAre, EventsWill, Zenon
<1>. QED  BY <1>1, <1>2

(* The semaphore keeps those who fill a slot apart.                        *)
LEMMA FillsHold ==
  ASSUME NEW a \in Adders, Fills(a)
  PROVE  a \in Holders
BY HoldersAre DEF Fills, Phase, Adders

(* Nobody fills while sem is free, or held by one who does not fill.       *)
LEMMA QuietFree ==
  ASSUME LockInv, ~past.doubled, sem > 0
  PROVE  Quiet /\ Holders = {}
BY FillsHold DEF LockInv, Quiet

(* The thread holds it and has not begun to fill, or has finished.         *)
LEMMA QuietThread ==
  ASSUME LockInv, ~past.doubled, at \in {"init", "work", "tune"}
  PROVE  Quiet
<1>1. Thread \in Holders /\ ~Fills(Thread)  BY HoldersAre DEF Fills, Phase
<1>. QED  BY <1>1, FillsHold DEF LockInv, Quiet

(* One fills.                                                              *)
LEMMA FillsAlone ==
  ASSUME LockInv, ~past.doubled, NEW a \in Adders, Fills(a)
  PROVE  \A b \in Adders : b # a => ~Fills(b)
BY FillsHold DEF LockInv

(* dvb_frontend_add_event reserves a slot.                                 *)
LEMMA Reserved ==
  ASSUME mode \in Modes, mode' = mode, QueueTypes, AddedInv, EventsInv, ~Excused, Quiet,
         NEW a \in Adders, NEW req \in Requests, NEW lock \in BOOLEAN, Reserve(a, req, lock),
         (Phase(a))' = "publish", (Due(a))' = lock,
         \A b \in Adders : b # a => ~(Fills(b))'
  PROVE  EventsInv'
<1>1. PICK m \in Nat \ {0}, w \in Cells, r \in Cells, sl \in [Cells -> Event] :
        m = mode.max_event /\ w = ev.w /\ r = ev.r /\ sl = ev.slots /\ Cells = 0 .. m - 1
  BY QueueParts
<1>2. Has(m, w, r, sl, added)  BY <1>1, EventsAre, Zenon
<1>3. PICK e \in Event : e = [req |-> req, lock |-> lock] /\ e.req = req /\ e.lock = lock
  <2>1. [req |-> req, lock |-> lock] \in Event  BY DEF Event
  <2>2. [req |-> req, lock |-> lock].req = req /\ [req |-> req, lock |-> lock].lock = lock  BY Zenon
  <2>. QED  BY <2>1, <2>2, Zenon
<1>4. PICK r2 : r2 = IF At(m, w, 1) = r THEN At(m, r, 1) ELSE r  OBVIOUS
<1>5. PICK sl2 : sl2 = [sl EXCEPT ![w].req = req]  OBVIOUS
<1>6. ev'.w = w /\ ev'.r = r2 /\ ev'.slots = sl2 /\ cell'[a] = w
  <2>1. Dropped.w = w /\ Dropped.r = r2 /\ Dropped.slots = sl
    BY <1>1, <1>4 DEF Dropped, Full, Slot, At, QueueTypes
  <2>2. Dropped \in [w : Cells, r : Cells, overflow : BOOLEAN, slots : [Cells -> Event]]
    <3>1. Slot(ev.r + 1) \in Cells
      <4>1. ev.r + 1 \in Int  BY <1>1
      <4>. QED  BY <4>1, SlotInCells
    <3>. QED  BY <3>1 DEF Dropped, QueueTypes, Event
  <2>3. ev' = [Dropped EXCEPT !.slots[w].req = req] /\ cell' = [cell EXCEPT ![a] = w]
    BY <1>1 DEF Reserve
  <2>4. cell'[a] = w  BY <2>3 DEF QueueTypes
  <2>5. ev'.w = Dropped.w /\ ev'.r = Dropped.r
        /\ ev'.slots = [Dropped.slots EXCEPT ![w].req = req]
    BY <2>2, <2>3
  <2>. QED  BY <1>5, <2>1, <2>4, <2>5, Zenon
<1>7. (\A i \in 0 .. m - 1 : i # w => sl2[i] = sl[i]) /\ Copied(sl2[w], e)
  <2>1. \A i \in 0 .. m - 1 : i # w => sl2[i] = sl[i]  BY <1>1, <1>5
  <2>2. sl2[w].req = req  BY <1>1, <1>5 DEF Event
  <2>. QED  BY <1>3, <2>1, <2>2 DEF Copied
<1>8. PICK q2 : q2 = SubSeq(Append(added, e), IF Len(Append(added, e)) >= m THEN 2 ELSE 1,
                            Len(Append(added, e)))
  OBVIOUS
<1>9. added' = q2  BY <1>1, <1>3, <1>8 DEF Reserve, Latest
<1>10. Lacks(m, r2, w, sl2, q2, lock)
  <2>1. added \in Seq(Event)  BY DEF AddedInv
  <2>2. w \in 0 .. m - 1 /\ r \in 0 .. m - 1  BY <1>1
  <2>3. Lacks(m, IF At(m, w, 1) = r THEN At(m, r, 1) ELSE r, w, sl2,
              SubSeq(Append(added, e), IF Len(Append(added, e)) >= m THEN 2 ELSE 1,
                     Len(Append(added, e))), e.lock)
    BY <1>2, <1>7, <2>1, <2>2, ReserveHas
  <2>. QED  BY <1>3, <1>4, <1>8, <2>3, Zenon
<1>11. ~Quiet'  BY DEF Quiet, Fills
<1>12. mode'.max_event = m  BY <1>1
<1>13. Lacks(mode'.max_event, ev'.r, cell'[a], ev'.slots, added', (Due(a))') /\ ev'.w = cell'[a]
  BY <1>6, <1>9, <1>10, <1>12, Zenon
<1>. QED  BY <1>11, <1>13, EventsWill, Zenon DEF Fills

(* It publishes the slot.                                                  *)
LEMMA Published ==
  ASSUME mode \in Modes, QueueTypes, EventsInv, ~Excused, NEW a \in Adders, Phase(a) = "publish",
         Publish(a), (Phase(a))' = "stamp", (Due(a))' = Due(a),
         \A b \in Adders : b # a => ~(Fills(b))'
  PROVE  EventsInv'
<1>1. Lacks(mode.max_event, ev.r, cell[a], ev.slots, added, Due(a))  BY EventsAre, Zenon
<1>2. /\ mode' = mode /\ cell' = cell /\ added' = added
      /\ ev'.r = ev.r /\ ev'.slots = ev.slots /\ ev'.w = At(mode.max_event, cell[a], 1)
  BY DEF Publish, QueueTypes, Slot, At
<1>3. ~Quiet'  BY DEF Quiet, Fills
<1>. QED  BY <1>1, <1>2, <1>3, EventsWill, Zenon DEF Fills

(* It enters the status.                                                   *)
LEMMA Stamped ==
  ASSUME mode \in Modes, QueueTypes, AddedInv, EventsInv, ~Excused, NEW a \in Adders,
         Phase(a) = "stamp", NEW lock \in BOOLEAN, lock = Due(a), Stamp(a, lock), Quiet'
  PROVE  EventsInv'
<1>1. PICK m \in Nat \ {0}, w \in Cells, r \in Cells, c \in Cells, sl \in [Cells -> Event] :
        /\ m = mode.max_event /\ w = ev.w /\ r = ev.r /\ sl = ev.slots /\ c = cell[a]
        /\ Cells = 0 .. m - 1
  BY QueueParts
<1>2. Lacks(m, r, c, sl, added, lock) /\ w = At(m, c, 1)  BY <1>1, EventsAre, Zenon
<1>3. PICK sl2 : sl2 = [sl EXCEPT ![c].lock = lock]  OBVIOUS
<1>4. mode' = mode /\ added' = added /\ ev' = [ev EXCEPT !.slots[c].lock = lock]  BY <1>1 DEF Stamp
<1>5. ev'.w = w /\ ev'.r = r /\ ev'.slots = sl2
  BY <1>1, <1>3, <1>4 DEF QueueTypes
<1>6. Has(m, w, r, sl2, added)
  <2>1. /\ added \in Seq([req : Requests, lock : BOOLEAN])
        /\ sl \in [0 .. m - 1 -> [req : Requests, lock : BOOLEAN]]
    BY <1>1 DEF AddedInv, Event
  <2>2. r \in 0 .. m - 1 /\ c \in 0 .. m - 1  BY <1>1
  <2>. QED  BY <1>2, <1>3, <2>1, <2>2, StampHas, Zenon
<1>7. Has(mode'.max_event, ev'.w, ev'.r, ev'.slots, added')  BY <1>1, <1>4, <1>5, <1>6, Zenon
<1>. QED  BY <1>7, EventsWill, Zenon DEF Quiet, Fills

(* dvb_frontend_get_event takes the oldest event.                          *)
LEMMA TakenEvent ==
  ASSUME mode \in Modes, mode' = mode, ControlTypes, QueueTypes, AddedInv, EventsInv, Quiet, Quiet',
         Take
  PROVE  EventsInv'
<1>1. CASE Excused \/ ev.w = ev.r
  <2>1. Excused'  BY <1>1 DEF Take, Excused, ControlTypes
  <2>. QED  BY <2>1, EventsWill
<1>2. CASE ~Excused /\ ev.w # ev.r
  <2>1. PICK m \in Nat \ {0}, w \in Cells, r \in Cells, sl \in [Cells -> Event] :
          m = mode.max_event /\ w = ev.w /\ r = ev.r /\ sl = ev.slots /\ Cells = 0 .. m - 1
    BY QueueParts
  <2>2. Has(m, w, r, sl, added)  BY <1>2, <2>1, EventsAre, Zenon
  <2>3. added # <<>> /\ Has(m, w, At(m, r, 1), sl, Tail(added))
    <3>1. added \in Seq(Event) /\ r \in 0 .. m - 1 /\ w # r  BY <1>2, <2>1 DEF AddedInv
    <3>. QED  BY <2>2, <3>1, TakeHas
  <2>4. added' = Tail(added)  BY <2>3 DEF Take
  <2>5. ev'.w = w /\ ev'.r = At(m, r, 1) /\ ev'.slots = sl
    BY <2>1 DEF Take, Slot, At, QueueTypes
  <2>6. Has(mode'.max_event, ev'.w, ev'.r, ev'.slots, added')  BY <2>1, <2>3, <2>4, <2>5, Zenon
  <2>. QED  BY <2>6, EventsWill, Zenon DEF Quiet, Fills
<1>. QED  BY <1>1, <1>2

(* open empties the queue.                                                 *)
LEMMA EmptiedEvents ==
  ASSUME mode \in Modes, mode' = mode, ev'.w = 0, ev'.r = 0, added' = <<>>, Quiet' \/ Excused'
  PROVE  EventsInv'
<1>1. CASE Excused'  BY <1>1, EventsWill
<1>2. CASE Quiet'
  <2>1. PICK m \in Nat \ {0} : m = mode.max_event  BY ModeFields
  <2>2. 0 \in 0 .. m - 1  OBVIOUS
  <2>3. At(m, 0, 0) = 0  BY <2>2, AtIn
  <2>4. Len(<<>>) = 0 /\ 0 < m  OBVIOUS
  <2>5. ASSUME NEW sl PROVE Has(m, 0, 0, sl, <<>>)  BY <2>3, <2>4 DEF Has
  <2>6. Has(mode'.max_event, ev'.w, ev'.r, ev'.slots, added')  BY <2>1, <2>5, Zenon
  <2>. QED  BY <1>2, <2>6, EventsWill, Zenon DEF Quiet, Fills
<1>. QED  BY <1>1, <1>2

(* The unread events are those that were added.                            *)
LEMMA EventsFact ==
  ASSUME ControlTypes, QueueTypes, AddedInv, EventsInv
  PROVE  EventsTrue
<1>. SUFFICES ASSUME ~Excused, Holders = {}
              PROVE  [i \in 1 .. Slot(ev.w - ev.r) |-> ev.slots[Slot(ev.r + i - 1)]] = added
  BY DEF EventsTrue, Excused
<1>1. Quiet  BY FillsHold DEF Quiet
<1>2. mode \in Modes  BY DEF ControlTypes
<1>3. PICK m \in Nat \ {0}, w \in Cells, r \in Cells, sl \in [Cells -> Event] :
        m = mode.max_event /\ w = ev.w /\ r = ev.r /\ sl = ev.slots /\ Cells = 0 .. m - 1
  BY <1>2, QueueParts
<1>4. Has(m, w, r, sl, added)  BY <1>1, <1>3, EventsAre, Zenon
<1>5. added \in Seq(Event) /\ r \in 0 .. m - 1  BY <1>3 DEF AddedInv
<1>6. (w - r) % m = Len(added) /\ \A i \in 1 .. Len(added) : sl[At(m, r, i - 1)] = added[i]
  <2>1. PICK q \in Seq(Event) : q = added  BY <1>5
  <2>2. Has(m, w, r, sl, q)  BY <1>4, <2>1, Zenon
  <2>3. (w - r) % m = Len(q)  BY <1>5, <2>2, ReadHas
  <2>4. \A i \in 1 .. Len(q) : sl[At(m, r, i - 1)] = q[i]  BY <2>2 DEF Has
  <2>. QED  BY <2>1, <2>3, <2>4, Zenon
<1>7. [i \in 1 .. Len(added) |-> sl[At(m, r, i - 1)]] = added  BY <1>5, <1>6
<1>8. [i \in 1 .. (w - r) % m |-> sl[At(m, r, i - 1)]] = added  BY <1>6, <1>7, Zenon
<1>. QED  BY <1>3, <1>8, Zenon DEF Slot, At

(* What was added are events.                                              *)
LEMMA AddedStep ==
  ASSUME ControlTypes, FeTypes, AddedInv, Next
  PROVE  AddedInv'
<1>0. mode \in Modes /\ mode' = mode  BY SameMode DEF ControlTypes
<1>1. Event' = Event  BY <1>0 DEF Event, Requests
<1>2. ASSUME NEW a, NEW req \in Requests, NEW lock \in BOOLEAN, Reserve(a, req, lock)
      PROVE  AddedInv'
  <2>1. PICK e \in Event : e = [req |-> req, lock |-> lock]  BY DEF Event
  <2>2. PICK q \in Seq(Event) : q = Append(added, e)  BY AppendProperties DEF AddedInv
  <2>3. \A i \in {1, 2} : SubSeq(q, i, Len(q)) \in Seq(Event)
    <3>1. Len(q) \in Nat /\ \A i \in 1 .. Len(q) : q[i] \in Event  BY <2>2, ElementOfSeq
    <3>. QED  BY <3>1, SubSeqProperties
  <2>4. added' = SubSeq(q, IF Len(q) >= mode.max_event THEN 2 ELSE 1, Len(q))
    BY <1>2, <2>1, <2>2 DEF Reserve, Latest
  <2>5. added' \in Seq(Event)  BY <2>3, <2>4
  <2>. QED  BY <1>1, <2>5 DEF AddedInv
<1>3. CASE added' = added  BY <1>1, <1>3 DEF AddedInv
<1>4. CASE added' = <<>>
  BY <1>4 DEF AddedInv
<1>5. CASE Take
  <2>1. CASE added = <<>>  BY <1>1, <1>5, <2>1 DEF Take, AddedInv
  <2>2. CASE added # <<>>
    <3>1. Tail(added) \in Seq(Event)  BY <2>2, HeadTailProperties DEF AddedInv
    <3>. QED  BY <1>1, <1>5, <2>2, <3>1 DEF Take, AddedInv
  <2>. QED  BY <2>1, <2>2
<1>6. CASE ReadsStatus \/ HwTunes
  <2>1. added' = added \/ \E lock \in BOOLEAN : Reserve(Thread, fe.req, lock)
    BY <1>6 DEF ReadsStatus, HwTunes, Reports, HasLock
  <2>2. fe.req \in Requests  BY DEF FeTypes, FeRecord
  <2>. QED  BY <1>2, <1>3, <2>1, <2>2
<1>7. ASSUME NEW c \in mode.callers, SetFrontend(c) PROVE AddedInv'
  <2>1. PICK req \in mode.reqs : Reserve(c, req, FALSE)  BY <1>7 DEF SetFrontend
  <2>2. req \in Requests  BY DEF Requests
  <2>. QED  BY <1>2, <2>1, <2>2
<1>8. ASSUME NEW c \in mode.callers, GetEvent(c) \/ GetEventReturns(c) PROVE AddedInv'
  BY <1>3, <1>5, <1>8 DEF GetEvent, GetEventReturns
<1>9. CASE OpenEnd \/ OpenFails  BY <1>4, <1>9 DEF OpenEnd, OpenFails
<1>10. CASE \/ ThreadInit \/ ThreadWakes \/ ThreadExits \/ Idles \/ TunesOnce \/ ThreadPublishes
            \/ ThreadStamps \/ ThreadDown \/ SignalChanges \/ LastWakeup
  BY <1>3, <1>10 DEF ThreadInit, ThreadWakes, ThreadExits, Idles, TunesOnce, ThreadPublishes,
     Publish, ThreadStamps, Stamp, ThreadDown, SignalChanges, LastWakeup
<1>11. CASE GetsLock \/ StaysTuned \/ LeavesAlone \/ SearchesFast \/ SearchesSlow \/ HwDone
  BY <1>3, <1>11 DEF GetsLock, StaysTuned, LeavesAlone, SearchesFast, SearchesSlow, HwDone, Tuning
<1>12. ASSUME NEW c \in mode.callers,
              \/ Diseqc(c) \/ SetTuneMode(c) \/ GetEventWakes(c) \/ SetPublishes(c)
              \/ SetReturns(c) \/ GetEventInterrupted(c)
       PROVE  AddedInv'
  BY <1>3, <1>12 DEF Diseqc, SetTuneMode, GetEventWakes, SetPublishes, Publish, SetReturns, Stamp,
     GetEventInterrupted
<1>13. CASE \/ OpenStart \/ Release \/ Expires \/ Reinitialise \/ Stop \/ Unregister
            \/ UnregisterInterrupted
  BY <1>3, <1>13 DEF OpenStart, Release, Expires, Reinitialise, Stop, Unregister,
     UnregisterInterrupted
<1>. QED
  BY <1>6, <1>7, <1>8, <1>9, <1>10, <1>11, <1>12, <1>13 DEF Next, ThreadSteps, CallerSteps

(* Calls run while the file is open only.                                  *)
LEMMA CallerStep ==
  ASSUME ControlTypes, CallerInv, Next
  PROVE  CallerInv'
<1>0. mode \in Modes /\ mode.callers \subseteq Callers /\ call \in [Callers -> {"idle", "publish", "stamp", "sleep", "back", "signalled"}]
  BY ModeFields DEF ControlTypes
<1>1. CASE \/ ThreadInit \/ ThreadWakes \/ ThreadExits \/ Idles \/ TunesOnce \/ ThreadPublishes
           \/ ThreadStamps \/ ThreadDown \/ SignalChanges \/ LastWakeup \/ ReadsStatus \/ HwTunes
  BY <1>1 DEF ThreadInit, ThreadWakes, ThreadExits, Idles, TunesOnce, ThreadPublishes,
     Publish, ThreadStamps, Stamp, ThreadDown, SignalChanges, LastWakeup, ReadsStatus, HwTunes, CallerInv
<1>2. CASE GetsLock \/ StaysTuned \/ LeavesAlone \/ SearchesFast \/ SearchesSlow \/ HwDone
  BY <1>2 DEF GetsLock, StaysTuned, LeavesAlone, SearchesFast, SearchesSlow, HwDone, Tuning, CallerInv
<1>3. ASSUME NEW c \in mode.callers, SetFrontend(c) \/ Diseqc(c) \/ SetTuneMode(c) \/ GetEvent(c)
      PROVE  CallerInv'
  BY <1>3 DEF SetFrontend, Diseqc, SetTuneMode, GetEvent, CanCall, CallerInv
<1>4. ASSUME NEW c \in mode.callers,
             \/ GetEventWakes(c) \/ SetPublishes(c) \/ SetReturns(c) \/ GetEventReturns(c)
             \/ GetEventInterrupted(c)
      PROVE  CallerInv'
  <2>1. c \in Callers /\ call[c] # "idle" /\ dev' = dev
    BY <1>0, <1>4 DEF GetEventWakes, SetPublishes, Publish, SetReturns, Stamp, GetEventReturns,
       GetEventInterrupted
  <2>. QED  BY <2>1 DEF CallerInv
<1>5. CASE OpenStart \/ OpenEnd \/ OpenFails \/ Release \/ Expires \/ Reinitialise
  BY <1>5 DEF OpenStart, OpenEnd, OpenFails, Release, Expires, Reinitialise, CallerInv
<1>6. CASE Stop \/ Unregister \/ UnregisterInterrupted
  BY <1>6 DEF Stop, Unregister, UnregisterInterrupted, CallerInv
<1>. QED  BY <1>1, <1>2, <1>3, <1>4, <1>5, <1>6 DEF Next, ThreadSteps, CallerSteps

(* Who fills a slot, after a step.                                         *)
LEMMA PhasesWill ==
  ASSUME NEW a \in Adders
  PROVE  /\ a = Thread => (Phase(a))' = at' /\ (Due(a))' = s' /\ Phase(a) = at /\ Due(a) = s
         /\ a # Thread => /\ (Phase(a))' = call'[a] /\ (Due(a))' = FALSE /\ a \in Callers
                          /\ Phase(a) = call[a] /\ Due(a) = FALSE
BY DEF Phase, Due, Adders

(* Every step keeps the queue in line with what was added.                 *)
LEMMA EventsStep ==
  ASSUME ControlTypes, FeTypes, QueueTypes, LockInv, AddedInv, CallerInv, EventsInv, Next
  PROVE  EventsInv'
<1>0. mode \in Modes /\ mode' = mode /\ s \in BOOLEAN  BY SameMode DEF ControlTypes
<1>1. CASE \/ ThreadInit \/ ThreadWakes \/ ThreadExits \/ Idles \/ TunesOnce
           \/ ThreadDown \/ SignalChanges \/ LastWakeup
  <2>1. ev' = ev /\ cell' = cell /\ added' = added /\ past' = past /\ call' = call /\ s' = s
        /\ (at' = at \/ (at \notin {"publish", "stamp"} /\ at' \notin {"publish", "stamp"}))
    BY <1>1 DEF ThreadInit, ThreadWakes, ThreadExits, Idles, TunesOnce, Up, ThreadDown, SignalChanges, LastWakeup
  <2>2. \A a \in Adders : Fills(a) \/ (Fills(a))' => (Phase(a))' = Phase(a) /\ (Due(a))' = Due(a)
    BY <2>1, PhasesWill DEF Fills
  <2>. QED  BY <1>0, <2>1, <2>2, EventsKept DEF Excused
<1>2. CASE GetsLock \/ StaysTuned \/ LeavesAlone \/ SearchesFast \/ SearchesSlow \/ HwDone
  <2>1. Tuning("sw") \/ Tuning("hw")
    BY <1>2 DEF GetsLock, StaysTuned, LeavesAlone, SearchesFast, SearchesSlow, HwDone
  <2>2. ev' = ev /\ cell' = cell /\ added' = added /\ past' = past /\ call' = call
        /\ at = "tune" /\ at' = "wait"
    BY <2>1 DEF Tuning, Up
  <2>3. \A a \in Adders : Fills(a) \/ (Fills(a))' => (Phase(a))' = Phase(a) /\ (Due(a))' = Due(a)
    BY <2>2, PhasesWill DEF Fills
  <2>. QED  BY <1>0, <2>2, <2>3, EventsKept DEF Excused
<1>3. CASE ReadsStatus \/ HwTunes
  <2>1. /\ at = "work" /\ call' = call /\ past' = past
        /\ \/ at' = "tune" /\ ev' = ev /\ cell' = cell /\ added' = added
           \/ \E lock \in BOOLEAN : s' = lock /\ Reserve(Thread, fe.req, lock) /\ at' = "publish"
    BY <1>3 DEF ReadsStatus, HwTunes, Reports, HasLock
  <2>2. CASE at' = "tune" /\ ev' = ev /\ cell' = cell /\ added' = added
    <3>1. \A a \in Adders : Fills(a) \/ (Fills(a))' => (Phase(a))' = Phase(a) /\ (Due(a))' = Due(a)
      BY <2>1, <2>2, PhasesWill DEF Fills
    <3>. QED  BY <1>0, <2>1, <2>2, <3>1, EventsKept DEF Excused
  <2>3. ASSUME NEW lock \in BOOLEAN, s' = lock, Reserve(Thread, fe.req, lock), at' = "publish"
        PROVE  EventsInv'
    <3>1. CASE Excused
      <4>1. Excused'  BY <2>1, <3>1 DEF Excused
      <4>. QED  BY <4>1, EventsWill
    <3>2. CASE ~Excused
      <4>1. ~past.doubled  BY <3>2 DEF Excused
      <4>2. Quiet  BY <2>1, <4>1, QuietThread
      <4>3. Thread \in Adders /\ (Phase(Thread))' = "publish" /\ (Due(Thread))' = lock
        BY <2>3, PhasesWill DEF Adders
      <4>4. \A b \in Adders : b # Thread => ~(Fills(b))'
        BY <2>1, <4>2, PhasesWill DEF Fills, Quiet
      <4>5. fe.req \in Requests  BY DEF FeTypes, FeRecord
      <4>. QED  BY <1>0, <2>3, <3>2, <4>2, <4>3, <4>4, <4>5, Reserved
    <3>. QED  BY <3>1, <3>2
  <2>. QED  BY <2>1, <2>2, <2>3
<1>4. ASSUME NEW a \in Adders, NEW lock \in BOOLEAN,
             \/ Phase(a) = "publish" /\ Publish(a) /\ (Phase(a))' = "stamp"
             \/ Phase(a) = "stamp" /\ lock = Due(a) /\ Stamp(a, lock) /\ ~(Fills(a))',
             \A b \in Adders : b # a => (Phase(b))' = Phase(b)
      PROVE  EventsInv'
  <2>1. past' = past /\ s' = s  BY <1>4 DEF Publish, Stamp
  <2>2. CASE Excused
    <3>1. Excused'  BY <2>1, <2>2 DEF Excused
    <3>. QED  BY <3>1, EventsWill
  <2>3. CASE ~Excused
    <3>1. ~past.doubled  BY <2>3 DEF Excused
    <3>2. Fills(a)  BY <1>4 DEF Fills
    <3>3. \A b \in Adders : b # a => ~Fills(b)  BY <3>1, <3>2, FillsAlone
    <3>4. \A b \in Adders : b # a => ~(Fills(b))'  BY <1>4, <3>3 DEF Fills
    <3>5. (Due(a))' = Due(a)  BY <2>1 DEF Due
    <3>6. CASE Phase(a) = "publish" /\ Publish(a) /\ (Phase(a))' = "stamp"
      BY <1>0, <2>3, <3>4, <3>5, <3>6, Published
    <3>7. CASE Phase(a) = "stamp" /\ lock = Due(a) /\ Stamp(a, lock) /\ ~(Fills(a))'
      <4>1. Quiet'  BY <3>4, <3>7 DEF Quiet
      <4>. QED  BY <1>0, <2>3, <3>7, <4>1, Stamped
    <3>. QED  BY <1>4, <3>6, <3>7
  <2>. QED  BY <2>2, <2>3
<1>5. CASE ThreadPublishes \/ ThreadStamps
  <2>1. Thread \in Adders /\ call' = call  BY <1>5 DEF Adders, ThreadPublishes, ThreadStamps
  <2>2. \A b \in Adders : b # Thread => (Phase(b))' = Phase(b)  BY <2>1, PhasesWill
  <2>3. \/ Phase(Thread) = "publish" /\ Publish(Thread) /\ (Phase(Thread))' = "stamp"
        \/ /\ Phase(Thread) = "stamp" /\ s = Due(Thread) /\ Stamp(Thread, s)
           /\ ~(Fills(Thread))'
    BY <1>5, <2>1, PhasesWill DEF ThreadPublishes, ThreadStamps, Fills
  <2>. QED  BY <1>0, <1>4, <2>1, <2>2, <2>3
<1>6. ASSUME NEW c \in mode.callers, SetPublishes(c) \/ SetReturns(c) PROVE EventsInv'
  <2>1. c \in Adders /\ c # Thread /\ c \in Callers  BY <1>0, ModeFields, CallersApart DEF Adders
  <2>2. at' = at /\ (call' = [call EXCEPT ![c] = "stamp"] \/ call' = [call EXCEPT ![c] = "idle"])
    BY <1>6 DEF SetPublishes, SetReturns
  <2>call. \A b \in Callers : b # c => call'[b] = call[b]
    BY <2>1, <2>2 DEF ControlTypes
  <2>3. \A b \in Adders : b # c => (Phase(b))' = Phase(b)  BY <2>call, <2>2, PhasesWill
  <2>4. \/ Phase(c) = "publish" /\ Publish(c) /\ (Phase(c))' = "stamp"
        \/ Phase(c) = "stamp" /\ FALSE = Due(c) /\ Stamp(c, FALSE) /\ ~(Fills(c))'
    BY <1>6, <2>1, PhasesWill DEF SetPublishes, SetReturns, Fills, ControlTypes
  <2>. QED  BY <1>4, <2>1, <2>3, <2>4
<1>7. ASSUME NEW c \in mode.callers, SetFrontend(c) PROVE EventsInv'
  <2>1. c \in Adders /\ c # Thread /\ c \in Callers  BY <1>0, ModeFields, CallersApart DEF Adders
  <2>2. PICK req \in mode.reqs : Reserve(c, req, FALSE)  BY <1>7 DEF SetFrontend
  <2>3. sem > 0 /\ at' = at /\ past' = past /\ call' = [call EXCEPT ![c] = "publish"]
    BY <1>7 DEF SetFrontend, CanCall
  <2>4. CASE Excused
    <3>1. Excused'  BY <2>3, <2>4 DEF Excused
    <3>. QED  BY <3>1, EventsWill
  <2>5. CASE ~Excused
    <3>1. ~past.doubled  BY <2>5 DEF Excused
    <3>2. Quiet  BY <2>3, <3>1, QuietFree
    <3>3. (Phase(c))' = "publish" /\ (Due(c))' = FALSE  BY <2>1, <2>3, PhasesWill DEF ControlTypes
    <3>4. \A b \in Adders : b # c => ~(Fills(b))'
      BY <2>1, <2>3, <3>2, PhasesWill DEF Fills, Quiet, ControlTypes
    <3>5. req \in Requests  BY DEF Requests
    <3>. QED  BY <1>0, <2>1, <2>2, <2>5, <3>2, <3>3, <3>4, <3>5, Reserved
  <2>. QED  BY <2>4, <2>5
<1>8. ASSUME NEW c \in mode.callers, GetEvent(c) \/ GetEventReturns(c), Take PROVE EventsInv'
  <2>1. c \in Callers /\ c # Thread  BY <1>0, ModeFields, CallersApart
  <2>2. /\ sem > 0 /\ at' = at
        /\ call' = call \/ call' = [call EXCEPT ![c] = "sleep"] \/ call' = [call EXCEPT ![c] = "idle"]
    BY <1>8 DEF GetEvent, CanCall, GetEventReturns
  <2>3. CASE Excused
    <3>1. Excused'  BY <1>8, <2>3 DEF Excused, Take, ControlTypes
    <3>. QED  BY <3>1, EventsWill
  <2>4. CASE ~Excused
    <3>1. ~past.doubled  BY <2>4 DEF Excused
    <3>2. Quiet  BY <2>2, <3>1, QuietFree
    <3>3. Quiet'  BY <2>1, <2>2, <3>2, PhasesWill DEF Quiet, Fills, ControlTypes
    <3>. QED  BY <1>0, <1>8, <3>2, <3>3, TakenEvent
  <2>. QED  BY <2>3, <2>4
<1>9. ASSUME NEW c \in mode.callers,
             \/ Diseqc(c) \/ SetTuneMode(c) \/ GetEventWakes(c) \/ GetEventInterrupted(c)
             \/ (GetEvent(c) \/ GetEventReturns(c)) /\ ~Take
      PROVE  EventsInv'
  <2>1. c \in Callers /\ c # Thread  BY <1>0, ModeFields, CallersApart
  <2>2. /\ ev'.w = ev.w /\ ev'.r = ev.r /\ ev'.slots = ev.slots /\ cell' = cell /\ added' = added
        /\ at' = at /\ s' = s /\ (Excused => Excused')
    BY <1>9 DEF Diseqc, SetTuneMode, GetEvent, GetEventWakes, GetEventReturns, GetEventInterrupted,
       Excused, ControlTypes, QueueTypes
  <2>3. \/ call' = call
        \/ /\ call[c] \notin {"publish", "stamp"}
           /\ \E x \in {"idle", "sleep", "back", "signalled"} : call' = [call EXCEPT ![c] = x]
    BY <1>9 DEF Diseqc, SetTuneMode, GetEvent, CanCall, GetEventWakes, GetEventReturns,
       GetEventInterrupted
  <2>4. \A a \in Adders : Fills(a) \/ (Fills(a))' => (Phase(a))' = Phase(a) /\ (Due(a))' = Due(a)
    <3>1. call \in [Callers -> {"idle", "publish", "stamp", "sleep", "back", "signalled"}]
      BY DEF ControlTypes
    <3>. SUFFICES ASSUME NEW a \in Adders, Fills(a) \/ (Fills(a))'
                  PROVE  (Phase(a))' = Phase(a) /\ (Due(a))' = Due(a)
      OBVIOUS
    <3>2. CASE a = Thread  BY <2>2, <3>2, PhasesWill
    <3>3. CASE a # Thread
      <4>1. /\ (Phase(a))' = call'[a] /\ (Due(a))' = FALSE /\ a \in Callers
            /\ Phase(a) = call[a] /\ Due(a) = FALSE
        BY <3>3, PhasesWill
      <4>2. call'[a] = call[a]
        <5>1. call[a] \in {"publish", "stamp"} \/ call'[a] \in {"publish", "stamp"}
          BY <4>1 DEF Fills
        <5>2. CASE call' = call  BY <5>2
        <5>3. CASE /\ call[c] \notin {"publish", "stamp"}
                   /\ \E x \in {"idle", "sleep", "back", "signalled"} : call' = [call EXCEPT ![c] = x]
          <6>1. PICK x \in {"idle", "sleep", "back", "signalled"} : call' = [call EXCEPT ![c] = x]
            BY <5>3
          <6>2. a # c  BY <2>1, <3>1, <5>1, <5>3, <6>1
          <6>. QED  BY <3>1, <4>1, <6>1, <6>2
        <5>. QED  BY <2>3, <5>2, <5>3
      <4>. QED  BY <4>1, <4>2
    <3>. QED  BY <3>2, <3>3
  <2>. QED  BY <1>0, <2>2, <2>4, EventsKept
<1>10. CASE OpenEnd \/ OpenFails
  <2>1. /\ dev # "open" /\ at' = at /\ call' = call /\ ev'.w = 0 /\ ev'.r = 0 /\ added' = <<>>
        /\ at \in {"publish", "stamp"} => past'.raced
    BY <1>10 DEF OpenEnd, OpenFails, Filling, ControlTypes, QueueTypes
  <2>2. \A c \in Callers : call[c] = "idle"  BY <2>1 DEF CallerInv
  <2>3. Quiet' \/ Excused'  BY <2>1, <2>2, PhasesWill DEF Quiet, Fills, Excused
  <2>. QED  BY <1>0, <2>1, <2>3, EmptiedEvents
<1>11. CASE \/ OpenStart \/ Release \/ Expires \/ Reinitialise \/ Stop \/ Unregister
            \/ UnregisterInterrupted
  <2>1. /\ ev' = ev /\ cell' = cell /\ added' = added /\ call' = call /\ s' = s
        /\ (at' = at \/ (at = "none" /\ at' = "init")) /\ (Excused => Excused')
    BY <1>11 DEF OpenStart, Release, Expires, Reinitialise, Stop, Unregister,
       UnregisterInterrupted, Excused, ControlTypes
  <2>2. \A a \in Adders : Fills(a) \/ (Fills(a))' => (Phase(a))' = Phase(a) /\ (Due(a))' = Due(a)
    BY <2>1, PhasesWill DEF Fills
  <2>. QED  BY <1>0, <2>1, <2>2, EventsKept
<1>12. ASSUME NEW c \in mode.callers,
              \/ Diseqc(c) \/ SetTuneMode(c) \/ GetEvent(c) \/ GetEventWakes(c) \/ GetEventReturns(c)
              \/ GetEventInterrupted(c)
       PROVE  EventsInv'
  <2>1. CASE (GetEvent(c) \/ GetEventReturns(c)) /\ Take  BY <1>8, <2>1
  <2>2. CASE ~((GetEvent(c) \/ GetEventReturns(c)) /\ Take)  BY <1>9, <1>12, <2>2
  <2>. QED  BY <2>1, <2>2
<1>. QED
  BY <1>1, <1>2, <1>3, <1>5, <1>6, <1>7, <1>10, <1>11, <1>12
  DEF Next, ThreadSteps, CallerSteps

-----------------------------------------------------------------------------
(* The invariant holds at the start: nothing is tuned or asked for.        *)
LEMMA FrontendInit ==
  ASSUME Init
  PROVE  FrontendInv
<1>1. mode \in Modes /\ 0 \in Steps /\ mode.max_event \in Nat \ {0}
  BY FirstStep, ModeFields DEF Init
<1>2. ControlTypes
  BY DEF Init, ControlTypes, Clean
<1>3. FeTypes
  <2>1. "none" \in Requests /\ "off" \in Inversions /\ 0 \in 0 .. 4
    BY DEF Requests, Inversions
  <2> QED
    BY <1>1, <2>1, StateNames DEF Init, FeTypes, FeRecord
<1>4. HwTypes
  BY <1>3, HwValues DEF Init, HwTypes
<1>5. QueueTypes
  <2>1. 0 \in Cells /\ "none" \in Requests
    BY <1>1 DEF Cells, Requests
  <2> QED
    BY <2>1 DEF Init, QueueTypes, NoEvents, Cells
<1>6. LockInv
  <2>1. Holders = {}
    BY HoldersAre DEF Init
  <2> QED
    BY <2>1 DEF Init, LockInv
<1>8. RequestInv
  BY DEF Init, RequestInv, Untuned
<1>9. ScanInv
  BY DEF Init, ScanInv
<1>10. AddedInv /\ CallerInv
  BY DEF Init, AddedInv, CallerInv
<1>11. EventsInv
  <2>1. PICK m \in Nat \ {0} : m = mode.max_event
    BY <1>1
  <2>2. At(m, 0, 0) = 0
    BY AtIn
  <2>3. ASSUME NEW sl PROVE Has(m, 0, 0, sl, <<>>)
    BY <2>2 DEF Has
  <2>4. ev.w = 0 /\ ev.r = 0 /\ added = <<>>
    BY DEF Init, NoEvents
  <2>5. Has(mode.max_event, ev.w, ev.r, ev.slots, added)
    BY <2>1, <2>3, <2>4, Zenon
  <2>6. Quiet
    BY DEF Init, Quiet, Fills, Phase, Adders
  <2> QED
    BY <2>5, <2>6, EventsAre DEF Quiet, Fills
<1> QED
  BY <1>2, <1>3, <1>4, <1>5, <1>6, <1>8, <1>9, <1>10, <1>11 DEF FrontendInv

(* The invariant is inductive.                                             *)
LEMMA FrontendNext ==
  ASSUME FrontendInv, [Next]_vars
  PROVE  FrontendInv'
<1>1. CASE Next
  <2>1. mode \in Modes
    BY DEF FrontendInv, ControlTypes
  <2> QED
    BY <1>1, <2>1, ControlStep, FeStep, HwStep, QueueStep, LockStep, RequestStep,
       ScanStep, AddedStep, CallerStep, EventsStep DEF FrontendInv
<1>2. CASE UNCHANGED vars
  <2>1. ControlTypes'
    BY <1>2 DEF vars, FrontendInv, ControlTypes
  <2>2. FeTypes' /\ HwTypes'
    BY <1>2, SameRecords DEF vars, FrontendInv, FeTypes, HwTypes
  <2>3. QueueTypes'
    BY <1>2, SameRecords DEF vars, FrontendInv, QueueTypes
  <2>4. LockInv'
    <3>1. Holders' = Holders
      BY <1>2 DEF vars, Holders
    <3> QED
      BY <1>2, <3>1, LockKept DEF vars, FrontendInv
  <2>5. RequestInv'
    BY <1>2 DEF vars, FrontendInv, RequestInv
  <2>6. ScanInv'
    BY <1>2, ScanSame DEF vars, FrontendInv
  <2>7. AddedInv' /\ CallerInv'
    BY <1>2 DEF vars, FrontendInv, AddedInv, CallerInv, Event, Requests
  <2>8. EventsInv'
    BY <1>2, EventsKept DEF vars, FrontendInv, Excused, Fills, Phase, Due
  <2> QED
    BY <2>1, <2>2, <2>3, <2>4, <2>5, <2>6, <2>7, <2>8 DEF FrontendInv
<1> QED
  BY <1>1, <1>2

(* What the invariant says of a state.                                     *)
LEMMA FrontendFacts ==
  ASSUME FrontendInv
  PROVE  MutEx /\ OwnStatus /\ ScanComplete /\ EventsTrue
<1>1. ControlTypes /\ FeTypes /\ HwTypes /\ QueueTypes /\ mode \in Modes
  BY DEF FrontendInv, ControlTypes
<1>2. MutEx
  <2>1. CASE sem = 1 /\ Holders = {}
    BY <2>1, FS_EmptySet DEF MutEx
  <2>2. ASSUME sem = 0, NEW h \in Adders, Holders = {h}
        PROVE  MutEx
    <3>1. Cardinality({h}) = 1
      BY FS_Singleton
    <3> QED
      BY <2>2, <3>1 DEF MutEx
  <2> QED
    BY <2>1, <2>2 DEF FrontendInv, LockInv, MutEx
<1>3. OwnStatus
  BY <1>1, FreeToTake DEF FrontendInv, RequestInv, OwnStatus, ReadStatus, HasLock
<1>4. TypeOK
  <2>1. /\ fe.state \in States /\ fe.req \in Requests /\ fe.inv \in Inversions \union {"auto"}
        /\ fe.inversion \in Inversions /\ fe.auto_step \in Steps /\ fe.auto_sub_step \in 0 .. 4
        /\ fe.status \in BOOLEAN /\ fe.check_wrapped \in BOOLEAN /\ fe.oneshot \in BOOLEAN
        /\ fe.reinitialise \in BOOLEAN
    BY <1>1 DEF FeTypes, FeRecord
  <2>2. {fe.status, fe.check_wrapped, fe.oneshot, fe.reinitialise, s, expired, leaving} \subseteq BOOLEAN
    BY <1>1, <2>1 DEF ControlTypes
  <2>3. ev.w \in Cells /\ ev.r \in Cells /\ DOMAIN ev.slots = Cells /\ cell \in [Adders -> Cells]
    BY <1>1 DEF QueueTypes
  <2>4. fe.auto_step \in 0 .. Width - 1 /\ Drift(fe.auto_step) <= mode.max_drift
    BY <2>1 DEF Steps
  <2>5. {ev.w, ev.r} \subseteq DOMAIN ev.slots /\ cell \in [Adders -> DOMAIN ev.slots]
    BY <2>3
  <2> QED
    BY <1>1, <2>1, <2>2, <2>4, <2>5 DEF TypeOK, ControlTypes, Requests
<1>5. ScanComplete
  BY <1>4 DEF FrontendInv, ScanInv, ScanComplete, SlowAfterAll
<1>6. EventsTrue
  BY <1>1, EventsFact DEF FrontendInv
<1> QED
  BY <1>2, <1>3, <1>5, <1>6 DEF FrontendInv

-----------------------------------------------------------------------------
(* Whatever the thread, the callers of the ioctls, the opener of the file  *)
(* and unregister do and in whatever order, for any number of callers, any *)
(* step and drift, any size of the event queue: the inductive invariant.   *)
THEOREM FrontendSafe == Spec => []FrontendInv
<1>1. Init => FrontendInv
  BY FrontendInit
<1>2. FrontendInv /\ [Next]_vars => FrontendInv'
  BY FrontendNext
<1> QED
  BY <1>1, <1>2, PTL DEF Spec

(* fepriv->sem is a mutex between the thread and every ioctl, except after *)
(* an interrupted FE_GET_EVENT.                                            *)
THEOREM MutExAlways == Spec => []MutEx
<1>1. FrontendInv => MutEx
  BY FrontendFacts
<1> QED
  BY <1>1, FrontendSafe, PTL

(* FE_READ_STATUS and the events that the thread adds never report the     *)
(* lock of an earlier request.                                             *)
THEOREM OwnStatusAlways == Spec => []OwnStatus
<1>1. FrontendInv => OwnStatus
  BY FrontendFacts
<1> QED
  BY <1>1, FrontendSafe, PTL

(* dvb_frontend_swzigzag_autotune: the zigzag stays within max_drift, and  *)
(* the thread turns to the slow search only after every drift in reach was *)
(* tried on both sides with every inversion that is asked for.             *)
THEOREM ScanCompleteAlways == Spec => []ScanComplete
<1>1. FrontendInv => ScanComplete
  BY FrontendFacts
<1> QED
  BY <1>1, FrontendSafe, PTL

(* dvb_frontend_add_event and get_event: whoever adds events and takes     *)
(* them, and whatever overflows, the queue has the unread ones in their    *)
(* order, each with its own parameters and status, and none of them twice, *)
(* except after one of the races that past records.                        *)
THEOREM EventsAlways == Spec => []EventsTrue
<1>1. FrontendInv => EventsTrue
  BY FrontendFacts
<1> QED
  BY <1>1, FrontendSafe, PTL
=============================================================================
