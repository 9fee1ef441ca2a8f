------------------------------ MODULE MCCaRead ------------------------------
(* Instances of CaRead for TLC.                                            *)
EXTENDS CaRead

Setup(conns, frags, cap) ==
  [conns |-> conns, frags |-> frags, cap |-> cap, polls |-> FALSE, downs |-> 0, closes |-> 0]

OneSlot == Setup(<<{1, 2}>>, 2, 3)

OneConn == Setup(<<{1}>>, 3, 3)

Alternating == Setup(<<{1}, {1}>>, 2, 2)

(* Two slots of which one has a second connection.                         *)
TwoBusy == Setup(<<{1}, {1, 2}>>, 2, 2)

(* One slot with two connections and long messages; one slot, and two      *)
(* slots that are alike, with a process that polls, with slots that go     *)
(* down, and with a device that is closed and opened again; TwoBusy.       *)
AllSetups ==
  {Setup(<<{1, 2}>>, 3, 4), [OneSlot EXCEPT !.polls = TRUE],
   [OneConn EXCEPT !.downs = 2], [OneConn EXCEPT !.downs = 1, !.closes = 1],
   Alternating, [Alternating EXCEPT !.polls = TRUE], [Alternating EXCEPT !.closes = 1],
   [Setup(<<{1}, {1}>>, 1, 2) EXCEPT !.downs = 1], TwoBusy}

TwoBusySlots == {TwoBusy}
=============================================================================
