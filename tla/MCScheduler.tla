---------------------------- MODULE MCScheduler ----------------------------
(* TLC's instances of Scheduler.                                           *)
EXTENDS Scheduler
=============================================================================
