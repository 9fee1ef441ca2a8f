-------------------------- MODULE MCDvbRingbuffer --------------------------
(* Instance of DvbRingbuffer for TLC.                                      *)
EXTENDS DvbRingbuffer
=============================================================================
