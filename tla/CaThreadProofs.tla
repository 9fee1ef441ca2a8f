--------------------------- MODULE CaThreadProofs ---------------------------
(***************************************************************************)
(* Safety of a CI slot, for every mode: changes of the CAM are counted     *)
(* right and not slept over, and a CA_RESET is not forgotten.              *)
(***************************************************************************)
EXTENDS CaThread, TLAPS

(* The loaded driver, its slot empty, satisfies the invariant.             *)
LEMMA CaInit == Init => CaInv
BY ModesAssumption DEF Init, CaInv, StateTypes, PcTypes, FlagTypes, CountInv, WakeInv,
    ResetInv, ChangeDue, Pending,
   IrqCounts, ResetCounts, Absent, States, Flags, Actors, ThreadLabels, ProcessLabels, IrqLabels

(* The fields of a mode are what they should be.                           *)
LEMMA ModeFields ==
  ASSUME StateTypes
  PROVE  /\ mode.irq \in BOOLEAN /\ mode.smp \in BOOLEAN /\ mode.faulty \in BOOLEAN
         /\ mode.changes \in Nat /\ mode.resets \in Nat
BY ModesAssumption DEF StateTypes

(* The word an actor has loaded is a word of flags, before and after a load *)
(* or a store.                                                             *)
LEMMA WordStore ==
  ASSUME NEW a \in Actors, FlagTypes
  PROVE  /\ [word EXCEPT ![a] = <<flags>>] \in [Actors -> Seq(Flags)]
         /\ [word EXCEPT ![a] = << >>] \in [Actors -> Seq(Flags)]
         /\ word[a] # << >> => word[a][1] \in Flags
<1>1. <<flags>> \in Seq(Flags) /\ << >> \in Seq(Flags)
  BY DEF FlagTypes
<1>2. word[a] \in Seq(Flags)
  BY DEF FlagTypes
<1>3. word[a] # << >> => word[a][1] \in Flags
  BY <1>2
<1> QED
  BY <1>1, <1>3 DEF FlagTypes

(* Storing one flag in a word gives a word.                                *)
LEMMA FlagStore ==
  ASSUME NEW w \in Flags, NEW f \in {"exit", "open", "wakeup"}, NEW v \in BOOLEAN
  PROVE  [w EXCEPT ![f] = v] \in Flags
BY DEF Flags

(* An assignment to a bit field, in one instruction or in two, leaves words *)
(* of flags.                                                               *)
LEMMA SetFlagTypes ==
  ASSUME FlagTypes, NEW a \in Actors, NEW f \in {"exit", "open", "wakeup"}, NEW v \in BOOLEAN,
         NEW next, SetFlag(a, f, v, next)
  PROVE  FlagTypes'
<1>1. /\ [word EXCEPT ![a] = <<flags>>] \in [Actors -> Seq(Flags)]
      /\ [word EXCEPT ![a] = << >>] \in [Actors -> Seq(Flags)]
      /\ word[a] # << >> => word[a][1] \in Flags
  BY WordStore
<1>2. \A w \in Flags : [w EXCEPT ![f] = v] \in Flags
  BY FlagStore
<1> QED
  BY <1>1, <1>2, Zenon DEF SetFlag, FlagTypes

(* The steps of the thread keep the types.                                 *)
LEMMA TypesThread ==
  ASSUME CaInv, Thread
  PROVE  StateTypes'
<1> USE DEF CaInv, StateTypes, ThreadLabels, At, Goto, slot, bounds
<1>1. CASE ThreadTop
  BY <1>1 DEF PcTypes, FlagTypes, ThreadTop
<1>2. CASE ThreadAwake
  BY <1>2 DEF PcTypes, FlagTypes, ThreadAwake
<1>3. CASE ThreadClear
  <2>1. FlagTypes'
    BY <1>3, SetFlagTypes DEF Actors, ThreadClear
  <2>2. PcTypes'
    BY <1>3 DEF PcTypes, SetFlag, ThreadClear
  <2> QED
    BY <1>3, <2>1, <2>2 DEF SetFlag, ThreadClear
<1>4. CASE ThreadCheck
  BY <1>4 DEF PcTypes, FlagTypes, ThreadCheck, CheckIrq, CheckPoll, States
<1>5. CASE ThreadShutdown
  BY <1>5 DEF PcTypes, FlagTypes, ThreadShutdown, SlotShutdown, States
<1>6. CASE ThreadInsert
  BY <1>6 DEF PcTypes, FlagTypes, ThreadInsert, States
<1>7. CASE ThreadHandled
  BY <1>7 DEF PcTypes, FlagTypes, ThreadHandled
<1>8. CASE CaseNothing
  BY <1>8 DEF PcTypes, FlagTypes, CaseNothing, Case
<1>9. CASE CaseUninitialised
  BY <1>9 DEF PcTypes, FlagTypes, CaseUninitialised, Case, States
<1>10. CASE ThreadReset
  BY <1>10 DEF PcTypes, FlagTypes, ThreadReset
<1>11. CASE CaseWait
  BY <1>11 DEF PcTypes, FlagTypes, CaseWait, Case
<1>12. CASE CaseTimedOut
  BY <1>12 DEF PcTypes, FlagTypes, CaseTimedOut, Case, Decide, States
<1>13. CASE CaseValidate
  BY <1>13 DEF PcTypes, FlagTypes, CaseValidate, Case, Decide, Failure, States
<1>14. CASE CaseWaitFr
  BY <1>14 DEF PcTypes, FlagTypes, CaseWaitFr, Case, Decide, States
<1>15. CASE CaseLinkInit
  BY <1>15 DEF PcTypes, FlagTypes, CaseLinkInit, Case, Decide, Failure, Responds, States
<1>16. CASE ThreadEnable
  BY <1>16 DEF PcTypes, FlagTypes, ThreadEnable
<1>17. CASE ThreadAssign
  BY <1>17 DEF PcTypes, FlagTypes, ThreadAssign
<1>18. CASE ThreadAgain
  <2>1. FlagTypes'
    BY <1>18, SetFlagTypes DEF Actors, ThreadAgain
  <2>2. PcTypes'
    BY <1>18 DEF PcTypes, SetFlag, ThreadAgain
  <2> QED
    BY <1>18, <2>1, <2>2 DEF SetFlag, ThreadAgain
<1>19. CASE CaseRunning
  BY <1>19, ZenonT(60) DEF PcTypes, FlagTypes, CaseRunning, Case, States
<1>20. CASE ThreadBroken
  BY <1>20 DEF PcTypes, FlagTypes, ThreadBroken
<1>21. CASE ThreadRead
  <2>1. PcTypes' /\ FlagTypes'
    BY <1>21 DEF PcTypes, FlagTypes, ThreadRead, CheckIrq, CheckPoll
  <2>2. slot_state' \in States /\ camchange_count' \in Int /\ camchange_type' \in {"INSERTED", "REMOVED"}
    BY <1>21 DEF ThreadRead, CheckIrq, CheckPoll, States
  <2> QED
    BY <1>21, <2>1, <2>2 DEF ThreadRead
<1> QED
  BY <1>1, <1>2, <1>3, <1>4, <1>5, <1>6, <1>7, <1>8, <1>9, <1>10, <1>11, <1>12, <1>13,
      <1>14, <1>15, <1>16, <1>17, <1>18, <1>19, <1>20, <1>21 DEF Thread

(* The steps of the card and its interrupts keep the types.                *)
LEMMA TypesCard ==
  ASSUME CaInv, Irq \/ CamReady \/ IrqFrDa \/ (\E present \in BOOLEAN : Change(present))
  PROVE  StateTypes'
<1> USE DEF CaInv, StateTypes, IrqLabels, At, Goto, slot, bounds
<1>1. CASE IrqChange
  BY <1>1 DEF PcTypes, FlagTypes, IrqChange, ChangeType
<1>2. CASE ChangeCount("irq")
  BY <1>2 DEF PcTypes, FlagTypes, ChangeCount
<1>3. CASE IrqWakeup
  <2>1. FlagTypes'
    BY <1>3, SetFlagTypes DEF Actors, IrqWakeup
  <2>2. PcTypes'
    BY <1>3 DEF PcTypes, SetFlag, IrqWakeup
  <2> QED
    BY <1>3, <2>1, <2>2 DEF SetFlag, IrqWakeup
<1>4. CASE IrqReady
  BY <1>4 DEF PcTypes, FlagTypes, IrqReady
<1>5. CASE IrqValidate
  BY <1>5 DEF PcTypes, FlagTypes, IrqValidate, States
<1>6. CASE CamReady
  BY <1>6 DEF PcTypes, FlagTypes, CamReady
<1>7. CASE IrqFrDa
  BY <1>7 DEF PcTypes, FlagTypes, IrqFrDa
<1>8. ASSUME NEW present \in BOOLEAN, Change(present) PROVE StateTypes'
  <2>1. PcTypes' /\ FlagTypes'
    BY <1>8 DEF PcTypes, FlagTypes, Change
  <2>2. changes' \in 0 .. mode.changes
    BY <1>8, ModeFields DEF Change
  <2>3. hw' \in [present : BOOLEAN, power : {"off", "resetting", "ready"}, ts : BOOLEAN]
    BY <1>8 DEF Change, Absent
  <2> QED
    BY <1>8, <2>1, <2>2, <2>3 DEF Change
<1> QED
  BY <1>1, <1>2, <1>3, <1>4, <1>5, <1>6, <1>7, <1>8 DEF Irq

(* The steps of the process keep the types.                                *)
LEMMA TypesProcess ==
  ASSUME CaInv, Process \/ Open \/ Release \/ Reset \/ Write \/ Unload
  PROVE  StateTypes'
<1> USE DEF CaInv, StateTypes, ProcessLabels, At, Goto, slot, bounds
<1>1. CASE Open
  <2>1. FlagTypes'
    BY <1>1, SetFlagTypes DEF Actors, Open
  <2>2. PcTypes'
    BY <1>1 DEF PcTypes, SetFlag, Open
  <2> QED
    BY <1>1, <2>1, <2>2 DEF SetFlag, Open
<1>2. CASE Release
  <2>1. FlagTypes'
    BY <1>2, SetFlagTypes DEF Actors, Release
  <2>2. PcTypes'
    BY <1>2 DEF PcTypes, SetFlag, Release
  <2> QED
    BY <1>2, <2>1, <2>2 DEF SetFlag, Release
<1>3. CASE Reset
  BY <1>3, ModeFields DEF PcTypes, FlagTypes, Reset
<1>4. CASE Write
  BY <1>4 DEF PcTypes, FlagTypes, Write
<1>5. CASE Unload
  <2>1. FlagTypes'
    BY <1>5, SetFlagTypes DEF Actors, Unload
  <2>2. PcTypes'
    BY <1>5 DEF PcTypes, SetFlag, Unload
  <2> QED
    BY <1>5, <2>1, <2>2 DEF SetFlag, Unload
<1>6. CASE ResetShutdown
  BY <1>6 DEF PcTypes, FlagTypes, ResetShutdown, SlotShutdown, States
<1>7. CASE WriteEnd
  BY <1>7 DEF PcTypes, FlagTypes, WriteEnd, States
<1>8. CASE Unloaded
  BY <1>8 DEF PcTypes, FlagTypes, Unloaded, SlotShutdown, States
<1>9. CASE At("process", "type") /\ ChangeType("process", "INSERTED")
  BY <1>9 DEF PcTypes, FlagTypes, ChangeType
<1>10. CASE ChangeCount("process")
  BY <1>10 DEF PcTypes, FlagTypes, ChangeCount
<1>11. CASE At("process", "wakeup") /\ SetFlag("process", "wakeup", TRUE, "tail")
  <2>1. FlagTypes'
    BY <1>11, SetFlagTypes DEF Actors
  <2>2. PcTypes'
    BY <1>11 DEF PcTypes, SetFlag
  <2> QED
    BY <1>11, <2>1, <2>2 DEF SetFlag
<1>12. CASE At("process", "tail") /\ SetFlag("process", "wakeup", TRUE, "open")
  <2>1. FlagTypes'
    BY <1>12, SetFlagTypes DEF Actors
  <2>2. PcTypes'
    BY <1>12 DEF PcTypes, SetFlag
  <2> QED
    BY <1>12, <2>1, <2>2 DEF SetFlag
<1>13. CASE At("process", "woke") /\ SetFlag("process", "wakeup", TRUE, "open")
  <2>1. FlagTypes'
    BY <1>13, SetFlagTypes DEF Actors
  <2>2. PcTypes'
    BY <1>13 DEF PcTypes, SetFlag
  <2> QED
    BY <1>13, <2>1, <2>2 DEF SetFlag
<1>14. CASE At("process", "bye") /\ SetFlag("process", "wakeup", TRUE, "unload")
  <2>1. FlagTypes'
    BY <1>14, SetFlagTypes DEF Actors
  <2>2. PcTypes'
    BY <1>14 DEF PcTypes, SetFlag
  <2> QED
    BY <1>14, <2>1, <2>2 DEF SetFlag
<1> QED
  BY <1>1, <1>2, <1>3, <1>4, <1>5, <1>6, <1>7, <1>8, <1>9, <1>10, <1>11, <1>12, <1>13, <1>14
      DEF Process

(* The steps of the thread keep the count.                                 *)
LEMMA CountThread ==
  ASSUME CaInv, Thread
  PROVE  CountInv'
<1> USE ModeFields DEF CaInv, StateTypes, PcTypes, FlagTypes, CountInv, Pending, IrqCounts,
    ResetCounts, ThreadLabels, ProcessLabels, IrqLabels, Absent,
        At, Goto, slot, bounds
<1>1. CASE ThreadTop
  BY <1>1 DEF ThreadTop
<1>2. CASE ThreadAwake
  BY <1>2 DEF ThreadAwake
<1>3. CASE ThreadClear
  BY <1>3 DEF ThreadClear, SetFlag
<1>4. CASE ThreadCheck
  BY <1>4 DEF ThreadCheck, CheckIrq, CheckPoll
<1>5. CASE ThreadShutdown
  BY <1>5 DEF ThreadShutdown, SlotShutdown
<1>6. CASE ThreadInsert
  BY <1>6 DEF ThreadInsert
<1>7. CASE ThreadHandled
  BY <1>7 DEF ThreadHandled
<1>8. CASE CaseNothing
  BY <1>8 DEF CaseNothing, Case
<1>9. CASE CaseUninitialised
  BY <1>9 DEF CaseUninitialised, Case
<1>10. CASE ThreadReset
  BY <1>10 DEF ThreadReset
<1>11. CASE CaseWait
  BY <1>11 DEF CaseWait, Case
<1>12. CASE CaseTimedOut
  BY <1>12 DEF CaseTimedOut, Case, Decide
<1>13. CASE CaseValidate
  BY <1>13 DEF CaseValidate, Case, Decide, Failure
<1>14. CASE CaseWaitFr
  BY <1>14 DEF CaseWaitFr, Case, Decide
<1>15. CASE CaseLinkInit
  BY <1>15 DEF CaseLinkInit, Case, Decide, Failure, Responds
<1>16. CASE ThreadEnable
  BY <1>16 DEF ThreadEnable
<1>17. CASE ThreadAssign
  BY <1>17 DEF ThreadAssign
<1>18. CASE ThreadAgain
  BY <1>18 DEF ThreadAgain, SetFlag
<1>19. CASE CaseRunning
  BY <1>19 DEF CaseRunning, Case
<1>20. CASE ThreadBroken
  BY <1>20 DEF ThreadBroken
<1>21. CASE ThreadRead
  BY <1>21 DEF ThreadRead, CheckIrq, CheckPoll
<1> QED
  BY <1>1, <1>2, <1>3, <1>4, <1>5, <1>6, <1>7, <1>8, <1>9, <1>10, <1>11, <1>12, <1>13,
      <1>14, <1>15, <1>16, <1>17, <1>18, <1>19, <1>20, <1>21 DEF Thread

(* The steps of the card and its interrupts keep the count.                *)
LEMMA CountCard ==
  ASSUME CaInv, Irq \/ CamReady \/ IrqFrDa \/ (\E present \in BOOLEAN : Change(present))
  PROVE  CountInv'
<1> USE ModeFields DEF CaInv, StateTypes, PcTypes, FlagTypes, CountInv, Pending, IrqCounts,
    ResetCounts, ThreadLabels, ProcessLabels, IrqLabels, Absent,
        At, Goto, slot, bounds
<1>1. CASE IrqChange
  BY <1>1 DEF IrqChange, ChangeType
<1>2. CASE ChangeCount("irq")
  BY <1>2 DEF ChangeCount
<1>3. CASE IrqWakeup
  BY <1>3 DEF IrqWakeup, SetFlag
<1>4. CASE IrqReady
  BY <1>4 DEF IrqReady
<1>5. CASE IrqValidate
  BY <1>5 DEF IrqValidate
<1>6. CASE CamReady
  BY <1>6 DEF CamReady
<1>7. CASE IrqFrDa
  BY <1>7 DEF IrqFrDa
<1>8. ASSUME NEW present \in BOOLEAN, Change(present) PROVE CountInv'
  BY <1>8, ModeFields DEF Change, Absent, PcTypes, FlagTypes
<1> QED
  BY <1>1, <1>2, <1>3, <1>4, <1>5, <1>6, <1>7, <1>8 DEF Irq

(* The steps of the process keep the count.                                *)
LEMMA CountProcess ==
  ASSUME CaInv, Process \/ Open \/ Release \/ Reset \/ Write \/ Unload
  PROVE  CountInv'
<1> USE ModeFields DEF CaInv, StateTypes, PcTypes, FlagTypes, CountInv, Pending, IrqCounts,
    ResetCounts, ThreadLabels, ProcessLabels, IrqLabels, Absent,
        At, Goto, slot, bounds
<1>1. CASE Open
  BY <1>1 DEF Open, SetFlag
<1>2. CASE Release
  BY <1>2 DEF Release, SetFlag
<1>3. CASE Reset
  BY <1>3 DEF Reset
<1>4. CASE Write
  BY <1>4 DEF Write
<1>5. CASE Unload
  BY <1>5 DEF Unload, SetFlag
<1>6. CASE ResetShutdown
  BY <1>6 DEF ResetShutdown, SlotShutdown
<1>7. CASE WriteEnd
  BY <1>7 DEF WriteEnd
<1>8. CASE Unloaded
  BY <1>8 DEF Unloaded, SlotShutdown
<1>9. CASE At("process", "type") /\ ChangeType("process", "INSERTED")
  BY <1>9 DEF ChangeType
<1>10. CASE ChangeCount("process")
  BY <1>10 DEF ChangeCount
<1>11. CASE At("process", "wakeup") /\ SetFlag("process", "wakeup", TRUE, "tail")
  BY <1>11 DEF SetFlag
<1>12. CASE At("process", "tail") /\ SetFlag("process", "wakeup", TRUE, "open")
  BY <1>12 DEF SetFlag
<1>13. CASE At("process", "woke") /\ SetFlag("process", "wakeup", TRUE, "open")
  BY <1>13 DEF SetFlag
<1>14. CASE At("process", "bye") /\ SetFlag("process", "wakeup", TRUE, "unload")
  BY <1>14 DEF SetFlag
<1> QED
  BY <1>1, <1>2, <1>3, <1>4, <1>5, <1>6, <1>7, <1>8, <1>9, <1>10, <1>11, <1>12, <1>13, <1>14
      DEF Process

(* The steps of the thread keep the promise that someone wakes the thread  *)
(* up.                                                                     *)
LEMMA WakeThread ==
  ASSUME CaInv, Thread
  PROVE  WakeInv'
<1> USE ModeFields DEF CaInv, StateTypes, PcTypes, FlagTypes, CountInv, WakeInv,
    ThreadLabels, ProcessLabels, IrqLabels, Flags, Actors,
        At, Goto, slot, bounds
<1>1. CASE ThreadTop
  BY <1>1 DEF ThreadTop
<1>2. CASE ThreadAwake
  BY <1>2 DEF ThreadAwake
<1>3. CASE ThreadClear
  BY <1>3 DEF ThreadClear, SetFlag
<1>4. CASE ThreadCheck
  BY <1>4 DEF ThreadCheck, CheckIrq, CheckPoll
<1>5. CASE ThreadShutdown
  BY <1>5 DEF ThreadShutdown, SlotShutdown
<1>6. CASE ThreadInsert
  BY <1>6 DEF ThreadInsert
<1>7. CASE ThreadHandled
  BY <1>7 DEF ThreadHandled
<1>8. CASE CaseNothing
  BY <1>8 DEF CaseNothing, Case
<1>9. CASE CaseUninitialised
  BY <1>9 DEF CaseUninitialised, Case
<1>10. CASE ThreadReset
  BY <1>10 DEF ThreadReset
<1>11. CASE CaseWait
  BY <1>11 DEF CaseWait, Case
<1>12. CASE CaseTimedOut
  BY <1>12 DEF CaseTimedOut, Case, Decide
<1>13. CASE CaseValidate
  BY <1>13 DEF CaseValidate, Case, Decide, Failure
<1>14. CASE CaseWaitFr
  BY <1>14 DEF CaseWaitFr, Case, Decide
<1>15. CASE CaseLinkInit
  BY <1>15 DEF CaseLinkInit, Case, Decide, Failure, Responds
<1>16. CASE ThreadEnable
  BY <1>16 DEF ThreadEnable
<1>17. CASE ThreadAssign
  BY <1>17 DEF ThreadAssign
<1>18. CASE ThreadAgain
  BY <1>18 DEF ThreadAgain, SetFlag
<1>19. CASE CaseRunning
  BY <1>19 DEF CaseRunning, Case
<1>20. CASE ThreadBroken
  BY <1>20 DEF ThreadBroken
<1>21. CASE ThreadRead
  BY <1>21 DEF ThreadRead, CheckIrq, CheckPoll
<1> QED
  BY <1>1, <1>2, <1>3, <1>4, <1>5, <1>6, <1>7, <1>8, <1>9, <1>10, <1>11, <1>12, <1>13,
      <1>14, <1>15, <1>16, <1>17, <1>18, <1>19, <1>20, <1>21 DEF Thread

(* The steps of the card and its interrupts keep the promise that someone  *)
(* wakes the thread up.                                                    *)
LEMMA WakeCard ==
  ASSUME CaInv, Irq \/ CamReady \/ IrqFrDa \/ (\E present \in BOOLEAN : Change(present))
  PROVE  WakeInv'
<1> USE ModeFields DEF CaInv, StateTypes, PcTypes, FlagTypes, CountInv, WakeInv,
    ThreadLabels, ProcessLabels, IrqLabels, Flags, Actors,
        At, Goto, slot, bounds
<1>1. CASE IrqChange
  BY <1>1 DEF IrqChange, ChangeType
<1>2. CASE ChangeCount("irq")
  BY <1>2 DEF ChangeCount
<1>3. CASE IrqWakeup
  BY <1>3 DEF IrqWakeup, SetFlag
<1>4. CASE IrqReady
  BY <1>4 DEF IrqReady
<1>5. CASE IrqValidate
  BY <1>5 DEF IrqValidate
<1>6. CASE CamReady
  BY <1>6 DEF CamReady
<1>7. CASE IrqFrDa
  BY <1>7 DEF IrqFrDa
<1>8. ASSUME NEW present \in BOOLEAN, Change(present) PROVE WakeInv'
  BY <1>8, ModeFields DEF Change, Absent, PcTypes, FlagTypes
<1> QED
  BY <1>1, <1>2, <1>3, <1>4, <1>5, <1>6, <1>7, <1>8 DEF Irq

(* The steps of the process keep the promise that someone wakes the thread *)
(* up.                                                                     *)
LEMMA WakeProcess ==
  ASSUME CaInv, Process \/ Open \/ Release \/ Reset \/ Write \/ Unload
  PROVE  WakeInv'
<1> USE ModeFields DEF CaInv, StateTypes, PcTypes, FlagTypes, CountInv, WakeInv,
    ThreadLabels, ProcessLabels, IrqLabels, Flags, Actors,
        At, Goto, slot, bounds
<1>1. CASE Open
  BY <1>1 DEF Open, SetFlag
<1>2. CASE Release
  BY <1>2 DEF Release, SetFlag
<1>3. CASE Reset
  BY <1>3 DEF Reset
<1>4. CASE Write
  BY <1>4 DEF Write
<1>5. CASE Unload
  BY <1>5 DEF Unload, SetFlag
<1>6. CASE ResetShutdown
  BY <1>6 DEF ResetShutdown, SlotShutdown
<1>7. CASE WriteEnd
  BY <1>7 DEF WriteEnd
<1>8. CASE Unloaded
  BY <1>8 DEF Unloaded, SlotShutdown
<1>9. CASE At("process", "type") /\ ChangeType("process", "INSERTED")
  BY <1>9 DEF ChangeType
<1>10. CASE ChangeCount("process")
  BY <1>10 DEF ChangeCount
<1>11. CASE At("process", "wakeup") /\ SetFlag("process", "wakeup", TRUE, "tail")
  BY <1>11 DEF SetFlag
<1>12. CASE At("process", "tail") /\ SetFlag("process", "wakeup", TRUE, "open")
  BY <1>12 DEF SetFlag
<1>13. CASE At("process", "woke") /\ SetFlag("process", "wakeup", TRUE, "open")
  BY <1>13 DEF SetFlag
<1>14. CASE At("process", "bye") /\ SetFlag("process", "wakeup", TRUE, "unload")
  BY <1>14 DEF SetFlag
<1> QED
  BY <1>1, <1>2, <1>3, <1>4, <1>5, <1>6, <1>7, <1>8, <1>9, <1>10, <1>11, <1>12, <1>13, <1>14
      DEF Process

(* The steps of the thread keep the promise that a slot without its stream *)
(* is looked at again.                                                     *)
LEMMA ResetThread ==
  ASSUME CaInv, Thread
  PROVE  ResetInv'
<1> USE ModeFields DEF CaInv, StateTypes, PcTypes, FlagTypes, CountInv, ResetInv, ChangeDue,
    ThreadLabels, ProcessLabels, IrqLabels, Absent,
        At, Goto, slot, bounds
<1>1. CASE ThreadTop
  BY <1>1 DEF ThreadTop
<1>2. CASE ThreadAwake
  BY <1>2 DEF ThreadAwake
<1>3. CASE ThreadClear
  BY <1>3 DEF ThreadClear, SetFlag
<1>4. CASE ThreadCheck
  BY <1>4 DEF ThreadCheck, CheckIrq, CheckPoll
<1>5. CASE ThreadShutdown
  BY <1>5 DEF ThreadShutdown, SlotShutdown
<1>6. CASE ThreadInsert
  BY <1>6 DEF ThreadInsert
<1>7. CASE ThreadHandled
  BY <1>7 DEF ThreadHandled
<1>8. CASE CaseNothing
  BY <1>8 DEF CaseNothing, Case
<1>9. CASE CaseUninitialised
  BY <1>9 DEF CaseUninitialised, Case
<1>10. CASE ThreadReset
  BY <1>10 DEF ThreadReset
<1>11. CASE CaseWait
  BY <1>11 DEF CaseWait, Case
<1>12. CASE CaseTimedOut
  BY <1>12 DEF CaseTimedOut, Case, Decide
<1>13. CASE CaseValidate
  BY <1>13 DEF CaseValidate, Case, Decide, Failure
<1>14. CASE CaseWaitFr
  BY <1>14 DEF CaseWaitFr, Case, Decide
<1>15. CASE CaseLinkInit
  BY <1>15 DEF CaseLinkInit, Case, Decide, Failure, Responds
<1>16. CASE ThreadEnable
  BY <1>16 DEF ThreadEnable
<1>17. CASE ThreadAssign
  BY <1>17 DEF ThreadAssign
<1>18. CASE ThreadAgain
  BY <1>18 DEF ThreadAgain, SetFlag
<1>19. CASE CaseRunning
  BY <1>19 DEF CaseRunning, Case
<1>20. CASE ThreadBroken
  BY <1>20 DEF ThreadBroken
<1>21. CASE ThreadRead
  BY <1>21 DEF ThreadRead, CheckIrq, CheckPoll
<1> QED
  BY <1>1, <1>2, <1>3, <1>4, <1>5, <1>6, <1>7, <1>8, <1>9, <1>10, <1>11, <1>12, <1>13,
      <1>14, <1>15, <1>16, <1>17, <1>18, <1>19, <1>20, <1>21 DEF Thread

(* The steps of the card and its interrupts keep the promise that a slot   *)
(* without its stream is looked at again.                                  *)
LEMMA ResetCard ==
  ASSUME CaInv, Irq \/ CamReady \/ IrqFrDa \/ (\E present \in BOOLEAN : Change(present))
  PROVE  ResetInv'
<1> USE ModeFields DEF CaInv, StateTypes, PcTypes, FlagTypes, CountInv, ResetInv, ChangeDue,
    ThreadLabels, ProcessLabels, IrqLabels, Absent,
        At, Goto, slot, bounds
<1>1. CASE IrqChange
  BY <1>1 DEF IrqChange, ChangeType
<1>2. CASE ChangeCount("irq")
  BY <1>2 DEF ChangeCount
<1>3. CASE IrqWakeup
  BY <1>3 DEF IrqWakeup, SetFlag
<1>4. CASE IrqReady
  BY <1>4 DEF IrqReady
<1>5. CASE IrqValidate
  BY <1>5 DEF IrqValidate
<1>6. CASE CamReady
  BY <1>6 DEF CamReady
<1>7. CASE IrqFrDa
  BY <1>7 DEF IrqFrDa
<1>8. ASSUME NEW present \in BOOLEAN, Change(present) PROVE ResetInv'
  BY <1>8, ModeFields DEF Change, Absent, PcTypes, FlagTypes
<1> QED
  BY <1>1, <1>2, <1>3, <1>4, <1>5, <1>6, <1>7, <1>8 DEF Irq

(* The steps of the process keep the promise that a slot without its stream *)
(* is looked at again.                                                     *)
LEMMA ResetProcess ==
  ASSUME CaInv, Process \/ Open \/ Release \/ Reset \/ Write \/ Unload
  PROVE  ResetInv'
<1> USE ModeFields DEF CaInv, StateTypes, PcTypes, FlagTypes, CountInv, ResetInv, ChangeDue,
    ThreadLabels, ProcessLabels, IrqLabels, Absent,
        At, Goto, slot, bounds
<1>1. CASE Open
  BY <1>1 DEF Open, SetFlag
<1>2. CASE Release
  BY <1>2 DEF Release, SetFlag
<1>3. CASE Reset
  BY <1>3 DEF Reset
<1>4. CASE Write
  BY <1>4 DEF Write
<1>5. CASE Unload
  BY <1>5 DEF Unload, SetFlag
<1>6. CASE ResetShutdown
  BY <1>6 DEF ResetShutdown, SlotShutdown
<1>7. CASE WriteEnd
  BY <1>7 DEF WriteEnd
<1>8. CASE Unloaded
  BY <1>8 DEF Unloaded, SlotShutdown
<1>9. CASE At("process", "type") /\ ChangeType("process", "INSERTED")
  BY <1>9 DEF ChangeType
<1>10. CASE ChangeCount("process")
  BY <1>10 DEF ChangeCount
<1>11. CASE At("process", "wakeup") /\ SetFlag("process", "wakeup", TRUE, "tail")
  BY <1>11 DEF SetFlag
<1>12. CASE At("process", "tail") /\ SetFlag("process", "wakeup", TRUE, "open")
  BY <1>12 DEF SetFlag
<1>13. CASE At("process", "woke") /\ SetFlag("process", "wakeup", TRUE, "open")
  BY <1>13 DEF SetFlag
<1>14. CASE At("process", "bye") /\ SetFlag("process", "wakeup", TRUE, "unload")
  BY <1>14 DEF SetFlag
<1> QED
  BY <1>1, <1>2, <1>3, <1>4, <1>5, <1>6, <1>7, <1>8, <1>9, <1>10, <1>11, <1>12, <1>13, <1>14
      DEF Process

(* The invariant is inductive.                                             *)
LEMMA CaNext ==
  ASSUME CaInv, [Next]_vars
  PROVE  CaInv'
<1>1. CASE Thread
  BY <1>1, TypesThread, CountThread, WakeThread, ResetThread DEF CaInv
<1>2. CASE Irq \/ CamReady \/ IrqFrDa \/ (\E present \in BOOLEAN : Change(present))
  BY <1>2, TypesCard, CountCard, WakeCard, ResetCard DEF CaInv
<1>3. CASE Process \/ Open \/ Release \/ Reset \/ Write \/ Unload
  BY <1>3, TypesProcess, CountProcess, WakeProcess, ResetProcess DEF CaInv
<1>4. CASE UNCHANGED vars
  <2> USE <1>4 DEF CaInv, vars, slot, bounds
  <2>1. StateTypes'
    BY DEF StateTypes, PcTypes, FlagTypes
  <2>2. CountInv'
    BY DEF CountInv, Pending, IrqCounts, ResetCounts
  <2>3. WakeInv'
    BY DEF WakeInv
  <2>4. ResetInv'
    BY DEF ResetInv, ChangeDue
  <2> QED
    BY <2>1, <2>2, <2>3, <2>4
<1> QED
  BY <1>1, <1>2, <1>3, <1>4 DEF Next

(* What the driver's users rely on follows from the invariant.             *)
LEMMA CaImplies == CaInv => ChangesCounted /\ ResetHonoured
<1> SUFFICES ASSUME CaInv PROVE ChangesCounted /\ ResetHonoured
  OBVIOUS
<1> USE ModeFields DEF CaInv, StateTypes
<1>1. camchange_count \in 0 .. mode.changes + mode.resets
  <2>1. CASE mode.irq
    BY <2>1 DEF CountInv, Pending
  <2>2. CASE ~mode.irq
    BY <2>2 DEF CountInv
  <2> QED
    BY <2>1, <2>2
<1>2. TypeOK
  BY <1>1 DEF TypeOK, ResetInv
<1>3. NoLostChange
  BY DEF NoLostChange, WakeInv
<1>4. ResetHonoured
  BY DEF ResetHonoured, ResetInv, ChangeDue
<1> QED
  BY <1>2, <1>3, <1>4 DEF ChangesCounted

(* Every reachable state satisfies the invariant, in every mode.           *)
THEOREM CaSafe == Spec => []CaInv
<1>1. Init => CaInv
  BY CaInit
<1>2. CaInv /\ [Next]_vars => CaInv'
  BY CaNext
<1> QED
  BY <1>1, <1>2, PTL DEF Spec

(* Of the unlocked counter of dvb_ca_en50221_check_camstatus, the thread   *)
(* and camchange_irq: for every number of insertions, removals and resets, *)
(* polled or by interrupt, on one processor or more, camchange_count stays *)
(* between zero and what happened, and with interrupts on one processor    *)
(* the thread never sleeps over a change nobody is about to wake it for.   *)
THEOREM CountedAlways == Spec => []ChangesCounted
<1>1. CaInv => ChangesCounted
  BY CaImplies
<1> QED
  BY <1>1, CaSafe, PTL

(* Of CA_RESET, which shuts the slot down under a thread that may be about *)
(* to assign slot_state: with interrupts, a slot that counts as RUNNING    *)
(* without its stream is always due to be looked at again.                 *)
THEOREM ResetAlways == Spec => []ResetHonoured
<1>1. CaInv => ResetHonoured
  BY CaImplies
<1> QED
  BY <1>1, CaSafe, PTL

=============================================================================
