----------------------------- MODULE MCScheduler -----------------------------
(* Model-checking instance of Scheduler.  The constants are in the cfg.      *)
EXTENDS Scheduler
=============================================================================
