------------------------------ MODULE MCDemux ------------------------------
(* The data path of dvb_demux.c for TLC: the cut into packets and the      *)
(* assembly of sections, each with the other at rest.  Nothing but whole   *)
(* packets passes between them, under demux->lock.                         *)
EXTENDS MCSectionDemux, TsResync

VARIABLE stage

PathInit ==
  /\ ResyncInit /\ Init
  /\ \/ /\ stage = "packets" /\ feed.cc = 0 /\ garble = CHOOSE g \in Garbles : TRUE
        /\ events = CHOOSE e \in Disturbances : TRUE
     \/ stage = "sections" /\ lead = 0 /\ emu = {}

PathNext ==
  /\ \/ stage = "packets" /\ ResyncNext /\ UNCHANGED vars
     \/ stage = "sections" /\ Next /\ UNCHANGED resync_vars
  /\ UNCHANGED stage

PathSpec == PathInit /\ [][PathNext]_<<vars, resync_vars, stage>>
=============================================================================
