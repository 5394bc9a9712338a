----------------------------- MODULE JobOutcome -----------------------------
(***************************************************************************)
(* What a job promises its owner, whatever queue, workers and retries stand   *)
(* behind it: it is submitted once, it is decided at most once, a decision is *)
(* never changed or taken back to pending, and a completed job has audio.     *)
(* The only other end is that the gateway withdraws a submission it could not *)
(* confirm.                                                                   *)
(***************************************************************************)
EXTENDS JobIds

VARIABLES outcome, audio

ovars == <<outcome, audio>>

OInit ==
  /\ outcome = [j \in Jobs |-> "none"]
  /\ audio   = [j \in Jobs |-> FALSE]

Accept(j) ==
  /\ outcome[j] = "none"
  /\ outcome' = [outcome EXCEPT ![j] = "pending"]
  /\ UNCHANGED audio

\* Audio may appear, and be written again, at any time once the job is known.
Deliver(j) ==
  /\ outcome[j] # "none"
  /\ audio' = [audio EXCEPT ![j] = TRUE]
  /\ UNCHANGED outcome

Succeed(j) ==
  /\ outcome[j] = "pending"
  /\ audio[j]
  /\ outcome' = [outcome EXCEPT ![j] = "completed"]
  /\ UNCHANGED audio

Fail(j) ==
  /\ outcome[j] = "pending"
  /\ outcome' = [outcome EXCEPT ![j] = "failed"]
  /\ UNCHANGED audio

Revoke(j) ==
  /\ outcome[j] \in {"pending", "completed", "failed"}
  /\ outcome' = [outcome EXCEPT ![j] = "gone"]
  /\ UNCHANGED audio

ONext == \E j \in Jobs : Accept(j) \/ Deliver(j) \/ Succeed(j) \/ Fail(j) \/ Revoke(j)

OSpec == OInit /\ [][ONext]_ovars
=============================================================================
