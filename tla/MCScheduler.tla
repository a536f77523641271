----------------------------- MODULE MCScheduler -----------------------------
(* The instances of the scheduler that TLC checks; their threads are model  *)
(* values of the configurations.                                            *)
EXTENDS Scheduler

=============================================================================
