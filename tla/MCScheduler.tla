---------------------------- MODULE MCScheduler -----------------------------
(***************************************************************************)
(* Model checking Scheduler.                                               *)
(***************************************************************************)
EXTENDS Scheduler

CONSTANTS w1, w2, t1, t2
=============================================================================
