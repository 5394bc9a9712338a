----------------------------- MODULE MCMetrics -----------------------------
(* Small instances of Metrics for TLC. *)
EXTENDS Metrics, TLC

\* The gateway's clock is right, or one tick off.
RightOrOff == {-1, 0, 1}

Interchangeable == Permutations(Jobs) \cup Permutations(Scrapes)
=============================================================================
