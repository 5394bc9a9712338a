------------------------------ MODULE MCWorker ------------------------------
(* Small instances of Worker for TLC. *)
EXTENDS Worker, TLC

\* Jobs and workers are interchangeable wherever no liveness is checked.
Interchangeable == Permutations(Jobs) \cup Permutations(Workers)
=============================================================================
