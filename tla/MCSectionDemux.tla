--------------------------- MODULE MCSectionDemux ---------------------------
(* Instances of SectionDemux for TLC.                                      *)
EXTENDS SectionDemux

(* A bad signal and a user that restarts the feed, or a bad signal and a   *)
(* multiplexer that repeats packets and sends packets without payload.     *)
AllDisturbances == {{"loss", "dci", "restart"}, {"loss", "dup", "empty"}}

(* A user that restarts the feed, nothing else.                            *)
RestartOnly == {{"restart"}}
=============================================================================
