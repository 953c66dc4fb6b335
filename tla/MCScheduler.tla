---------------------------- MODULE MCScheduler ----------------------------
(* Instances of Scheduler for TLC.  The sweep forgets a workspace once, so two lanes
   of a kind for each workspace are never used up. *)
EXTENDS Scheduler, TLC
=============================================================================
