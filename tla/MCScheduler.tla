---------------------------- MODULE MCScheduler -----------------------------
(* Instances of Scheduler: a task bound to the first thread, or shared. *)
EXTENDS Scheduler, TLC

BoundOrShared == {-1, 0}
=============================================================================
