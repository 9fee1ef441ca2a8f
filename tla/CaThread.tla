------------------------------ MODULE CaThread ------------------------------
(***************************************************************************)
(* One slot of the CI driver (dvb-core/dvb_ca_en50221.c): the kernel       *)
(* thread and its state machine, the interrupts of the card, and a process *)
(* that opens, resets, writes to and closes the ca device, or unloads the  *)
(* driver.  Nothing in this code takes a lock.                             *)
(*                                                                         *)
(* A step is one access to the shared state.  exit, open and wakeup are    *)
(* bit fields of one word: on one processor an assignment is one           *)
(* instruction, with several it is a load and a store.  Durations are      *)
(* left out: a sleep of the thread may time out at any moment.  What       *)
(* parse_attributes, set_configoption and link_init find out about the CAM *)
(* is a choice.                                                            *)
(***************************************************************************)
EXTENDS Integers, Sequences

CONSTANT
  Modes         \* the kinds of system to check, records with the fields
                \*   irq: DVB_CA_EN50221_FLAG_IRQ_CAMCHANGE, else the slot is polled
                \*   smp: more than one processor
                \*   faulty: CAMs may be slow, invalid, or fail a transfer
                \*   changes: bound on insertions and removals
                \*   resets: bound on CA_RESET calls

ASSUME ModesAssumption ==
  Modes \subseteq [irq : BOOLEAN, smp : BOOLEAN, faulty : BOOLEAN, changes : Nat, resets : Nat]

VARIABLES
  mode,
  hw,           \* the slot: present, power (off, resetting, ready) and ts
  slot_state, camchange_count, camchange_type,
  flags,        \* the word with exit, open and wakeup
  word,         \* per actor: the word it has loaded and will store, or none
  pc,           \* where thread, process and interrupt handler have got to
  to,           \* the state the thread is about to assign
  changes, resets

slot == <<slot_state, camchange_count, camchange_type>>
bounds == <<mode, changes, resets>>
vars == <<hw, slot, flags, word, pc, to, bounds>>

Actors == {"thread", "process", "irq"}

States == {"NONE", "UNINITIALISED", "WAITREADY", "VALIDATE", "WAITFR",
           "LINKINIT", "RUNNING", "INVALID"}

Absent == [present |-> FALSE, power |-> "off", ts |-> FALSE]

Init ==
  /\ mode \in Modes
  /\ hw = Absent
  /\ slot_state = "NONE" /\ camchange_count = 0 /\ camchange_type = "REMOVED"
  /\ flags = [exit |-> FALSE, open |-> FALSE, wakeup |-> FALSE]
  /\ word = [a \in Actors |-> << >>]
  /\ pc = [thread |-> "top", process |-> "closed", irq |-> "idle"]
  /\ to = "NONE" /\ changes = 0 /\ resets = 0

-----------------------------------------------------------------------------
(* An interrupt on the only processor runs to its end.                     *)
At(a, where) ==
  /\ pc[a] = where
  /\ a # "irq" => (mode.smp \/ pc["irq"] = "idle")

Goto(a, where) == pc' = [pc EXCEPT ![a] = where]

(* flag f := v, then go on at next.                                        *)
SetFlag(a, f, v, next) ==
  /\ \/ /\ mode.smp /\ word[a] = << >>
        /\ word' = [word EXCEPT ![a] = <<flags>>]
        /\ UNCHANGED <<flags, pc>>
     \/ /\ mode.smp /\ word[a] # << >>
        /\ flags' = [word[a][1] EXCEPT ![f] = v]
        /\ word' = [word EXCEPT ![a] = << >>]
        /\ Goto(a, next)
     \/ /\ ~mode.smp
        /\ flags' = [flags EXCEPT ![f] = v]
        /\ Goto(a, next) /\ UNCHANGED word
  /\ UNCHANGED <<hw, slot, to, bounds>>

(* dvb_ca_en50221_slot_shutdown *)
SlotShutdown ==
  /\ hw' = [hw EXCEPT !.power = "off", !.ts = FALSE]
  /\ slot_state' = "NONE"

Responds == hw.present /\ hw.power = "ready"

-----------------------------------------------------------------------------
(* The thread.                                                             *)

ThreadTop ==
  /\ At("thread", "top")
  /\ Goto("thread", IF flags.exit THEN "done" ELSE IF flags.wakeup THEN "clear" ELSE "sleep")
  /\ UNCHANGED <<hw, slot, flags, word, to, bounds>>

(* thread_should_wakeup, or the delay is over.                             *)
ThreadAwake ==
  /\ At("thread", "sleep")
  /\ Goto("thread", IF flags.exit THEN "done" ELSE "clear")
  /\ UNCHANGED <<hw, slot, flags, word, to, bounds>>

ThreadClear ==
  /\ At("thread", "clear")
  /\ SetFlag("thread", "wakeup", FALSE, "check")

(* check_camstatus, interrupt mode.                                        *)
CheckIrq(changed, same) ==
  /\ mode.irq
  /\ Goto("thread", IF camchange_count # 0 THEN changed ELSE same)
  /\ UNCHANGED slot

(* check_camstatus, poll mode.                                             *)
CheckPoll(changed, same) ==
  /\ ~mode.irq
  /\ IF hw.present # (slot_state # "NONE")
     THEN /\ camchange_type' = IF hw.present THEN "INSERTED" ELSE "REMOVED"
          /\ camchange_count' = 1
          /\ Goto("thread", changed) /\ UNCHANGED slot_state
     ELSE /\ slot_state' = IF slot_state = "WAITREADY" /\ Responds
                           THEN "VALIDATE" ELSE slot_state
          /\ Goto("thread", same) /\ UNCHANGED <<camchange_count, camchange_type>>

ThreadCheck ==
  /\ At("thread", "check")
  /\ CheckIrq("shutdown", "switch") \/ CheckPoll("shutdown", "switch")
  /\ UNCHANGED <<hw, flags, word, to, bounds>>

(* The old slot cleared down only when another CAM takes its place.        *)
ThreadShutdownOnInsert ==
  /\ At("thread", "shutdown")
  /\ IF slot_state # "NONE" /\ camchange_type = "INSERTED"
     THEN SlotShutdown ELSE UNCHANGED <<hw, slot_state>>
  /\ Goto("thread", "insert")
  /\ UNCHANGED <<camchange_count, camchange_type, flags, word, to, bounds>>

ThreadShutdown ==
  /\ At("thread", "shutdown")
  /\ IF slot_state # "NONE" THEN SlotShutdown ELSE UNCHANGED <<hw, slot_state>>
  /\ Goto("thread", "insert")
  /\ UNCHANGED <<camchange_count, camchange_type, flags, word, to, bounds>>

(* The change counted down here as well as in ThreadHandled.               *)
ThreadInsertHandles ==
  /\ At("thread", "insert")
  /\ slot_state' = IF camchange_type = "INSERTED" THEN "UNINITIALISED" ELSE slot_state
  /\ camchange_count' = camchange_count - 1
  /\ Goto("thread", "handled")
  /\ UNCHANGED <<hw, camchange_type, flags, word, to, bounds>>

ThreadInsert ==
  /\ At("thread", "insert")
  /\ slot_state' = IF camchange_type = "INSERTED" THEN "UNINITIALISED" ELSE slot_state
  /\ Goto("thread", "handled")
  /\ UNCHANGED <<hw, camchange_count, camchange_type, flags, word, to, bounds>>

(* All changes seen so far taken as handled.                               *)
ThreadHandledAll ==
  /\ At("thread", "handled")
  /\ camchange_count' = 0
  /\ Goto("thread", "check")
  /\ UNCHANGED <<hw, slot_state, camchange_type, flags, word, to, bounds>>

ThreadHandled ==
  /\ At("thread", "handled")
  /\ camchange_count' = camchange_count - 1
  /\ Goto("thread", "check")
  /\ UNCHANGED <<hw, slot_state, camchange_type, flags, word, to, bounds>>

(* The cases of the switch.                                                *)
Case(state) == At("thread", "switch") /\ slot_state = state

Decide(state, next) ==
  /\ to' = state /\ Goto("thread", next)
  /\ UNCHANGED <<hw, slot, flags, word, bounds>>

(* "we need this extra check for annoying interfaces like the budget-av"   *)
Failure == IF ~mode.irq /\ ~hw.present THEN "NONE" ELSE "INVALID"

CaseNothing ==
  /\ Case("NONE") \/ Case("INVALID")
  /\ Goto("thread", "top")
  /\ UNCHANGED <<hw, slot, flags, word, to, bounds>>

CaseUninitialised ==
  /\ Case("UNINITIALISED")
  /\ slot_state' = "WAITREADY"
  /\ Goto("thread", "reset")
  /\ UNCHANGED <<hw, camchange_count, camchange_type, flags, word, to, bounds>>

ThreadReset ==
  /\ At("thread", "reset")
  /\ hw' = [hw EXCEPT !.power = "resetting"]
  /\ Goto("thread", "top")
  /\ UNCHANGED <<slot, flags, word, to, bounds>>

(* Nothing yet: look again in the next pass.                               *)
CaseWait ==
  /\ Case("WAITREADY") \/ (Case("WAITFR") /\ ~Responds)
  /\ Goto("thread", "top")
  /\ UNCHANGED <<hw, slot, flags, word, to, bounds>>

(* "time_after(jiffies, ...timeout)": a good CAM is ready before.          *)
CaseTimedOut ==
  /\ Case("WAITREADY") \/ Case("WAITFR")
  /\ mode.faulty \/ ~hw.present
  /\ Decide("INVALID", "assign")

CaseValidate ==
  /\ Case("VALIDATE")
  /\ \/ Responds /\ Decide("WAITFR", "assign")
     \/ (mode.faulty \/ ~Responds) /\ Decide(Failure, "assign")

CaseWaitFr == Case("WAITFR") /\ Responds /\ Decide("LINKINIT", "assign")

CaseLinkInit ==
  /\ Case("LINKINIT")
  /\ \/ Responds /\ Decide("RUNNING", "enable")
     \/ (mode.faulty \/ ~Responds) /\ Decide(Failure, "assign")

(* slot_ts_enable *)
ThreadEnable ==
  /\ At("thread", "enable")
  /\ hw' = [hw EXCEPT !.ts = (hw.present /\ hw.power # "off")]
  /\ Goto("thread", "assign")
  /\ UNCHANGED <<slot, flags, word, to, bounds>>

ThreadAssign ==
  /\ At("thread", "assign")
  /\ slot_state' = to
  /\ Goto("thread", IF to \in {"WAITFR", "LINKINIT"} THEN "again" ELSE "top")
  /\ UNCHANGED <<hw, camchange_count, camchange_type, flags, word, to, bounds>>

(* ca->wakeup = 1 *)
ThreadAgain ==
  /\ At("thread", "again")
  /\ SetFlag("thread", "wakeup", TRUE, "top")

(* read_data returns nothing, an error, a packet, or breaks the link.      *)
CaseRunning ==
  /\ Case("RUNNING")
  /\ \/ Goto("thread", "top") /\ UNCHANGED to
     \/ flags.open /\ Responds /\ Goto("thread", "read") /\ UNCHANGED to
     \/ /\ flags.open /\ (mode.faulty \/ ~Responds)
        /\ to' = "LINKINIT" /\ Goto("thread", "broken")
  /\ UNCHANGED <<hw, slot, flags, word, bounds>>

ThreadBroken ==
  /\ At("thread", "broken")
  /\ slot_state' = to /\ Goto("thread", "top")
  /\ UNCHANGED <<hw, camchange_count, camchange_type, flags, word, to, bounds>>

(* A packet has been stored: stop if the device has been closed, and come  *)
(* back at once if the CAM has changed or the limit of packets is reached  *)
(* (MAX_RX_PACKETS_PER_ITERATION is 1 here, 10 in the code).               *)
ThreadRead ==
  /\ At("thread", "read")
  /\ IF flags.open THEN CheckIrq("again", "again") \/ CheckPoll("again", "again")
     ELSE Goto("thread", "top") /\ UNCHANGED slot
  /\ UNCHANGED <<hw, flags, word, to, bounds>>

Thread ==
  \/ ThreadTop \/ ThreadAwake \/ ThreadClear \/ ThreadCheck
  \/ ThreadShutdown \/ ThreadInsert \/ ThreadHandled
  \/ CaseNothing \/ CaseUninitialised \/ ThreadReset \/ CaseWait \/ CaseTimedOut
  \/ CaseValidate \/ CaseWaitFr \/ CaseLinkInit \/ ThreadEnable \/ ThreadAssign
  \/ ThreadAgain \/ CaseRunning \/ ThreadBroken \/ ThreadRead

-----------------------------------------------------------------------------
(* The card and its interrupts.                                            *)

Change(present) ==
  /\ changes < mode.changes /\ pc["irq"] = "idle" /\ hw.present # present
  /\ hw' = [Absent EXCEPT !.present = present]
  /\ changes' = changes + 1
  /\ IF mode.irq THEN Goto("irq", IF present THEN "INSERTED" ELSE "REMOVED")
     ELSE UNCHANGED pc
  /\ UNCHANGED <<mode, slot, flags, word, to, resets>>

CamReady ==
  /\ pc["irq"] = "idle" /\ hw.present /\ hw.power = "resetting"
  /\ hw' = [hw EXCEPT !.power = "ready"]
  /\ IF mode.irq THEN Goto("irq", "ready") ELSE UNCHANGED pc
  /\ UNCHANGED <<slot, flags, word, to, bounds>>

(* dvb_ca_en50221_camchange_irq, called by the interrupt or by CA_RESET:   *)
(* type, count, wakeup.                                                    *)
ChangeType(a, type) ==
  /\ camchange_type' = type
  /\ Goto(a, "count")
  /\ UNCHANGED <<hw, slot_state, camchange_count, flags, word, to, bounds>>

(* The thread not woken by CAMCHANGE.                                      *)
ChangeCountQuiet(a) ==
  /\ At(a, "count")
  /\ camchange_count' = camchange_count + 1
  /\ Goto(a, IF a = "irq" THEN "idle" ELSE "wakeup")
  /\ UNCHANGED <<hw, slot_state, camchange_type, flags, word, to, bounds>>

ChangeCount(a) ==
  /\ At(a, "count")
  /\ camchange_count' = camchange_count + 1
  /\ Goto(a, "wakeup")
  /\ UNCHANGED <<hw, slot_state, camchange_type, flags, word, to, bounds>>

(* dvb_ca_en50221_thread_wakeup *)
IrqWakeup ==
  /\ At("irq", "wakeup")
  /\ SetFlag("irq", "wakeup", TRUE, "idle")

IrqChange ==
  \E type \in {"INSERTED", "REMOVED"} : At("irq", type) /\ ChangeType("irq", type)

(* dvb_ca_en50221_camready_irq: test, set, wake up.                        *)
IrqReady ==
  /\ At("irq", "ready")
  /\ Goto("irq", IF slot_state = "WAITREADY" THEN "validate" ELSE "idle")
  /\ UNCHANGED <<hw, slot, flags, word, to, bounds>>

IrqValidate ==
  /\ At("irq", "validate")
  /\ slot_state' = "VALIDATE"
  /\ Goto("irq", "wakeup")
  /\ UNCHANGED <<hw, camchange_count, camchange_type, flags, word, to, bounds>>

(* dvb_ca_en50221_frda_irq.  On one processor it has no effect when wakeup *)
(* is already set.                                                         *)
IrqFrDa ==
  /\ mode.irq /\ pc["irq"] = "idle" /\ slot_state = "RUNNING" /\ Responds
  /\ flags.open /\ (mode.smp \/ ~flags.wakeup)
  /\ Goto("irq", "wakeup")
  /\ UNCHANGED <<hw, slot, flags, word, to, bounds>>

Irq == IrqChange \/ ChangeCount("irq") \/ IrqWakeup \/ IrqReady \/ IrqValidate

-----------------------------------------------------------------------------
(* The process.  Its wakeup steps: "woke" of io_open, "wakeup" of          *)
(* camchange_irq and "tail" of CA_RESET, "bye" of the release.             *)

Open == At("process", "closed") /\ SetFlag("process", "open", TRUE, "woke")

Release == At("process", "open") /\ SetFlag("process", "open", FALSE, "closed")

(* CA_RESET *)
Reset ==
  /\ At("process", "open") /\ resets < mode.resets
  /\ resets' = resets + 1
  /\ Goto("process", IF slot_state # "NONE" THEN "reset" ELSE "tail")
  /\ UNCHANGED <<mode, hw, slot, flags, word, to, changes>>

(* No CAMCHANGE recorded for the slot that was shut down.                  *)
ResetShutdownQuiet ==
  /\ At("process", "reset")
  /\ SlotShutdown
  /\ Goto("process", "tail")
  /\ UNCHANGED <<camchange_count, camchange_type, flags, word, to, bounds>>

ResetShutdown ==
  /\ At("process", "reset")
  /\ SlotShutdown
  /\ Goto("process", IF mode.irq THEN "type" ELSE "tail")
  /\ UNCHANGED <<camchange_count, camchange_type, flags, word, to, bounds>>

(* io_write: the slot is running; the transfer may fail.                   *)
Write ==
  /\ At("process", "open") /\ mode.faulty /\ slot_state = "RUNNING"
  /\ Goto("process", "writing")
  /\ UNCHANGED <<hw, slot, flags, word, to, bounds>>

WriteEnd ==
  /\ At("process", "writing")
  /\ slot_state' \in {slot_state, "LINKINIT"}
  /\ Goto("process", "open")
  /\ UNCHANGED <<hw, camchange_count, camchange_type, flags, word, to, bounds>>

(* The thread woken but not told to exit.                                  *)
UnloadQuiet == At("process", "closed") /\ SetFlag("process", "wakeup", TRUE, "bye")

(* dvb_ca_en50221_release *)
Unload == At("process", "closed") /\ SetFlag("process", "exit", TRUE, "bye")

Unloaded ==
  /\ At("process", "unload") /\ pc["thread"] = "done"
  /\ SlotShutdown
  /\ Goto("process", "gone")
  /\ UNCHANGED <<camchange_count, camchange_type, flags, word, to, bounds>>

Process ==
  \/ ResetShutdown \/ WriteEnd \/ Unloaded
  \/ At("process", "type") /\ ChangeType("process", "INSERTED")
  \/ ChangeCount("process")
  \/ At("process", "wakeup") /\ SetFlag("process", "wakeup", TRUE, "tail")
  \/ At("process", "tail") /\ SetFlag("process", "wakeup", TRUE, "open")
  \/ At("process", "woke") /\ SetFlag("process", "wakeup", TRUE, "open")
  \/ At("process", "bye") /\ SetFlag("process", "wakeup", TRUE, "unload")

Next ==
  \/ Thread \/ Irq \/ Process
  \/ \E present \in BOOLEAN : Change(present)
  \/ CamReady \/ IrqFrDa
  \/ Open \/ Release \/ Reset \/ Write \/ Unload

(* The thread, a handler and a system call that has begun run on; a CAM    *)
(* that has been reset gets ready; time passes, so a timeout that is       *)
(* looked at again and again ends.                                         *)
Spec ==
  /\ Init /\ [][Next]_vars
  /\ WF_vars(Thread) /\ WF_vars(Irq) /\ WF_vars(Process)
  /\ WF_vars(CamReady) /\ SF_vars(CaseTimedOut)

-----------------------------------------------------------------------------
(* camchange_count never goes below zero, however the thread counts it     *)
(* down while the interrupt counts it up, and the stream is only routed    *)
(* through a CAM that is there and has power.                              *)
TypeOK ==
  /\ slot_state \in States /\ to \in States
  /\ camchange_count \in 0 .. mode.changes + mode.resets
  /\ camchange_type \in {"INSERTED", "REMOVED"}
  /\ hw.ts => hw.present /\ hw.power # "off"

(* The wakeup flag is cleared before the slots are looked at and set after *)
(* a change is recorded: with interrupts, on one processor, the thread     *)
(* never goes to sleep, possibly for a minute, over a change that nobody   *)
(* is about to wake it for.                                                *)
NoLostChange ==
  (mode.irq /\ ~mode.smp /\ pc["thread"] = "sleep" /\ camchange_count > 0) =>
    flags.wakeup \/ pc["irq"] = "wakeup" \/ pc["process"] \in {"wakeup", "tail"}

(* Changes of the CAM are counted and none is slept over: the count is     *)
(* never below zero, and the thread does not sleep while it is positive.   *)
ChangesCounted == TypeOK /\ NoLostChange

(* CA_RESET shuts the slot down while the thread may be anywhere in its    *)
(* initialisation, and the thread then overwrites slot_state.  In          *)
(* interrupt mode a slot that counts as RUNNING with its stream switched   *)
(* off is always about to be initialised again.                            *)
ResetHonoured ==
  (mode.irq /\ slot_state = "RUNNING" /\ ~hw.ts) =>
    \/ camchange_count > 0
    \/ pc["process"] \in {"type", "count"} \/ pc["irq"] \in {"INSERTED", "REMOVED", "count"}

-----------------------------------------------------------------------------
(* The inductive invariant of the three.                                   *)

Flags == [exit : BOOLEAN, open : BOOLEAN, wakeup : BOOLEAN]

ThreadLabels ==
  {"top", "sleep", "clear", "check", "shutdown", "insert", "handled", "switch", "reset",
   "enable", "assign", "again", "broken", "read", "done"}

ProcessLabels ==
  {"closed", "woke", "open", "reset", "type", "count", "wakeup", "tail", "writing",
   "bye", "unload", "gone"}

IrqLabels == {"idle", "INSERTED", "REMOVED", "count", "ready", "validate", "wakeup"}

FlagTypes == flags \in Flags /\ word \in [Actors -> Seq(Flags)]

PcTypes == pc \in [thread : ThreadLabels, process : ProcessLabels, irq : IrqLabels]

StateTypes ==
  /\ FlagTypes /\ PcTypes
  /\ mode \in Modes
  /\ hw \in [present : BOOLEAN, power : {"off", "resetting", "ready"}, ts : BOOLEAN]
  /\ slot_state \in States /\ to \in States
  /\ camchange_count \in Int /\ camchange_type \in {"INSERTED", "REMOVED"}
  /\ changes \in 0 .. mode.changes /\ resets \in 0 .. mode.resets

(* A change that is on its way into camchange_count.                       *)
IrqCounts == pc["irq"] \in {"INSERTED", "REMOVED", "count"}

ResetCounts == pc["process"] \in {"reset", "type", "count"}

Pending == (IF IrqCounts THEN 1 ELSE 0) + (IF ResetCounts THEN 1 ELSE 0)

(* The count is positive while the thread handles a change; it and the     *)
(* changes on their way are no more than what happened to the slot.  A     *)
(* polled slot only counts to one, and not before the first insertion.     *)
CountInv ==
  /\ camchange_count >= 0
  /\ pc["thread"] \in {"shutdown", "insert", "handled"} => camchange_count > 0
  /\ mode.irq => camchange_count + Pending <= changes + resets
  /\ ~mode.irq => /\ camchange_count <= 1 /\ pc["irq"] = "idle"
                  /\ pc["process"] \notin {"type", "count"}
  /\ changes = 0 => /\ ~hw.present /\ slot_state = "NONE" /\ camchange_count = 0
                    /\ pc["thread"] \in {"top", "sleep", "clear", "check", "switch", "done"}
                    /\ pc["process"] \notin {"reset", "type", "count", "writing"}
                    /\ pc["irq"] \notin {"INSERTED", "REMOVED", "count", "validate"}

(* Whenever the thread is not about to look at camchange_count.            *)
WakeInv ==
  (/\ mode.irq /\ ~mode.smp /\ camchange_count > 0
   /\ pc["thread"] \notin {"clear", "check", "shutdown", "insert", "handled"}) =>
    flags.wakeup \/ pc["irq"] = "wakeup" \/ pc["process"] = "wakeup"

(* A change is recorded, or about to be.                                   *)
ChangeDue ==
  \/ camchange_count > 0
  \/ pc["process"] \in {"type", "count"} \/ pc["irq"] \in {"INSERTED", "REMOVED", "count"}

(* The stream is switched on before the state is RUNNING, and only the     *)
(* thread assigns RUNNING, never while it handles a change.                *)
ResetInv ==
  /\ hw.ts => hw.present /\ hw.power # "off"
  /\ pc["thread"] \in {"insert", "handled"} => slot_state # "RUNNING"
  /\ pc["thread"] = "broken" => to = "LINKINIT"
  /\ pc["thread"] = "enable" => to = "RUNNING"
  /\ mode.irq => /\ slot_state = "RUNNING" /\ ~hw.ts => ChangeDue
                 /\ pc["thread"] = "enable" /\ ~(hw.present /\ hw.power # "off") => ChangeDue
                 /\ pc["thread"] = "assign" /\ to = "RUNNING" /\ ~hw.ts => ChangeDue

CaInv == StateTypes /\ CountInv /\ WakeInv /\ ResetInv

-----------------------------------------------------------------------------
(* A CAM that is inserted and works gets running, wherever the thread was  *)
(* when the CAM before it was removed (one processor, interrupts, and      *)
(* nobody calls CA_RESET meanwhile).                                       *)
InsertedRuns ==
  (mode.irq /\ ~mode.smp /\ ~mode.faulty /\ mode.resets = 0) =>
    (hw.present ~>
       (~hw.present \/ pc["thread"] = "done" \/ (slot_state = "RUNNING" /\ hw.ts)))

(* A CAM that is removed is no longer reported by CA_GET_SLOT_INFO, in     *)
(* every mode and however faulty it was.                                   *)
RemovedNoticed ==
  ~hw.present ~> (hw.present \/ pc["thread"] = "done" \/ slot_state \in {"NONE", "INVALID"})

(* dvb_ca_en50221_release does not wait for the thread for ever.           *)
UnloadEnds == (pc["process"] = "unload" /\ ~mode.smp) ~> pc["process"] = "gone"
=============================================================================
