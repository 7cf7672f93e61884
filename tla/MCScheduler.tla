---------------------------- MODULE MCScheduler ----------------------------
(* A table with one known and one unknown task for TLC. *)
EXTENDS Scheduler, TLC
=============================================================================
