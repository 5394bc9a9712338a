---------------------------- MODULE MCReadiness ----------------------------
(* The instance of Readiness that TLC checks. *)
EXTENDS Readiness
=============================================================================
