----------------------------- MODULE MCEventBus -----------------------------
(* The instance of the event bus that TLC checks.  It has no symmetry       *)
(* because a liveness property is checked.                                  *)
EXTENDS EventBus

=============================================================================
