---------------------------- MODULE MCDmxdevRead ----------------------------
(* Instances of DmxdevRead for TLC.                                        *)
EXTENDS DmxdevRead

(* A reader that keeps up; one that does not and is interrupted; a filter  *)
(* for one section with a timeout.                                         *)
AllModes ==
  {{}, {"overflow", "nonblock", "signals"}, {"overflow", "signals", "oneshot", "timed"}}
=============================================================================
