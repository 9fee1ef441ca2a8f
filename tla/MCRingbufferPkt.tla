-------------------------- MODULE MCRingbufferPkt --------------------------
(* Instances of RingbufferPkt for TLC.  256 % 15 = 1, as 2^32 % 65535.     *)
EXTENDS RingbufferPkt
=============================================================================
