----------------------------- MODULE MCJobReads -----------------------------
(* The instance of JobReads that TLC checks; ids are ordered, so no symmetry. *)
EXTENDS JobReads
=============================================================================
