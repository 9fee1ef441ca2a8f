----------------------------- MODULE MCCaThread -----------------------------
(* The kernel thread of dvb_ca_en50221.c for TLC on two levels: the slot   *)
(* it looks after (CaThread), and the cells of the rx_buffer it fills      *)
(* (RingbufferPkt).  Each is explored with the other at rest; that a slot  *)
(* is up only decides whether there is anything to store.                  *)
EXTENDS CaThread, RingbufferPkt

Mode(irq, smp, faulty, n, m) ==
  [irq |-> irq, smp |-> smp, faulty |-> faulty, changes |-> n, resets |-> m]

(* Good CAMs with interrupts, without and with resets; faulty ones; faulty *)
(* ones that are polled; faulty ones on several processors.                *)
GoodCam == Mode(TRUE, FALSE, FALSE, 4, 0)
AllModes ==
  {GoodCam, Mode(TRUE, FALSE, FALSE, 3, 2),
   Mode(TRUE, FALSE, TRUE, 3, 1), Mode(FALSE, FALSE, TRUE, 3, 0),
   Mode(TRUE, TRUE, TRUE, 2, 0)}

VARIABLE level

LevelsInit ==
  /\ Init /\ PktInit
  /\ \/ level = "slot"
     \/ level = "cells" /\ mode = GoodCam

OfSlot(A) == level = "slot" /\ A

LevelsNext ==
  /\ \/ OfSlot(Next) /\ UNCHANGED pktvars
     \/ level = "cells" /\ PktStep /\ UNCHANGED vars
  /\ UNCHANGED level

(* The fairness of CaThread.                                               *)
LevelsSpec ==
  /\ LevelsInit /\ [][LevelsNext]_<<vars, pktvars, level>>
  /\ WF_vars(OfSlot(Thread)) /\ WF_vars(OfSlot(Irq)) /\ WF_vars(OfSlot(Process))
  /\ WF_vars(OfSlot(CamReady)) /\ SF_vars(OfSlot(CaseTimedOut))
=============================================================================
