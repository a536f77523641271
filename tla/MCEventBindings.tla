-------------------------- MODULE MCEventBindings --------------------------
(* The instances of the store and its handlers that TLC checks.             *)
EXTENDS EventBindings

=============================================================================
