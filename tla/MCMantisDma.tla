---------------------------- MODULE MCMantisDma -----------------------------
(* Instances of MantisDma for TLC: the real buffer.                        *)
EXTENDS MantisDma

Use(slack, bus, restart, remove) ==
  [slack |-> slack, i2c |-> bus, restart |-> restart, remove |-> remove]

(* 13 lines of delay are tolerated, 14 are not.                            *)
AllModes == {Use(13, FALSE, TRUE, TRUE), Use(1, TRUE, FALSE, FALSE)}
=============================================================================
