------------------------------ MODULE JobQueue ------------------------------
(***************************************************************************)
(* The BullMQ queue, as the gateway and the workers use it.  BullMQ itself   *)
(* is a library outside this repository; what is modelled is the contract    *)
(* the code relies on: an entry is worked under a lock that must be renewed, *)
(* an entry whose lock lapsed ("stalled") goes back to waiting, a limited    *)
(* number of stalls is forgiven, a failed attempt is retried after a backoff *)
(* while attempts remain.  A finished entry keeps its id, so adding the id   *)
(* again does nothing.                                                       *)
(***************************************************************************)
EXTENDS Integers, JobIds

CONSTANTS
  Workers,      \* the worker processes that may hold an entry
  NoWorker,     \* the holder of an entry nobody has locked
  Attempts,     \* TTS_JOB_ATTEMPTS, carried by every entry
  MaxStalled    \* BullMQ's maxStalledCount: stalls forgiven per entry

ASSUME NoWorkerAssumption   == NoWorker \notin Workers
ASSUME AttemptsAssumption   == Attempts \in Nat \ {0}
ASSUME MaxStalledAssumption == MaxStalled \in Nat

VARIABLES
  place,        \* place[j]: which BullMQ list the entry is in
  holder,       \* holder[j]: the worker whose lock on the entry is alive
  made,         \* made[j]: attemptsMade
  stalls,       \* stalls[j]: times the entry was found stalled
  deferred      \* deferred[j]: it is to be failed at its next fetch

queue == <<place, holder, made, stalls, deferred>>

Places == {"none", "waiting", "active", "delayed", "completed", "failed"}

QueueTypeOK ==
  /\ place    \in [Jobs -> Places]
  /\ holder   \in [Jobs -> Workers \cup {NoWorker}]
  /\ made     \in [Jobs -> Nat]
  /\ stalls   \in [Jobs -> Nat]
  /\ deferred \in [Jobs -> BOOLEAN]

QueueInit ==
  /\ place    = [j \in Jobs |-> "none"]
  /\ holder   = [j \in Jobs |-> NoWorker]
  /\ made     = [j \in Jobs |-> 0]
  /\ stalls   = [j \in Jobs |-> 0]
  /\ deferred = [j \in Jobs |-> FALSE]

\* The attempt limit the gateway puts on an entry (enqueueTtsJob's `attempts`).
OneMore      == Attempts + 1
AttemptLimit == Attempts

\* queue.add with the job id: a second add of the same id is a no-op.
Add(j) ==
  /\ place' = IF place[j] = "none" THEN [place EXCEPT ![j] = "waiting"] ELSE place
  /\ UNCHANGED <<holder, made, stalls, deferred>>

\* A worker fetches a waiting entry and locks it.
Take(j, w) ==
  /\ place[j] = "waiting"
  /\ ~deferred[j]
  /\ place'  = [place EXCEPT ![j] = "active"]
  /\ holder' = [holder EXCEPT ![j] = w]
  /\ UNCHANGED <<made, stalls, deferred>>

\* A worker fetches an over-stalled entry: BullMQ fails it at once, and the
\* processor never sees it.
TakeDeferred(j) ==
  /\ place[j] = "waiting"
  /\ deferred[j]
  /\ place' = [place EXCEPT ![j] = "failed"]
  /\ UNCHANGED <<holder, made, stalls, deferred>>

\* The processor returned: only the lock's holder may complete the entry.
FinishOk(j, w) ==
  IF holder[j] = w
  THEN /\ place'  = [place EXCEPT ![j] = "completed"]
       /\ holder' = [holder EXCEPT ![j] = NoWorker]
       /\ UNCHANGED <<made, stalls, deferred>>
  ELSE UNCHANGED queue

\* The processor raised: the holder moves the entry to failed when the error
\* is unrecoverable or no attempt is left, else to delayed for the backoff.
FinishRaised(j, w, fatal) ==
  IF holder[j] = w
  THEN /\ place'  = [place EXCEPT ![j] = IF fatal \/ made[j] + 1 >= AttemptLimit
                                         THEN "failed" ELSE "delayed"]
       /\ made'   = [made EXCEPT ![j] = made[j] + 1]
       /\ holder' = [holder EXCEPT ![j] = NoWorker]
       /\ UNCHANGED <<stalls, deferred>>
  ELSE UNCHANGED queue

BackoffElapsed(j) ==
  /\ place[j] = "delayed"
  /\ place' = [place EXCEPT ![j] = "waiting"]
  /\ UNCHANGED <<holder, made, stalls, deferred>>

\* A lock lapses: it was not renewed in time, or its holder is gone.
Lapse(j) ==
  /\ holder[j] # NoWorker
  /\ holder' = [holder EXCEPT ![j] = NoWorker]
  /\ UNCHANGED <<place, made, stalls, deferred>>

\* The stall check of a living worker: an active entry without a lock goes back
\* to waiting; once it has stalled more often than forgiven it is deferred.
CheckStalled(j) ==
  /\ place[j] = "active"
  /\ holder[j] = NoWorker
  /\ place'    = [place EXCEPT ![j] = "waiting"]
  /\ stalls'   = [stalls EXCEPT ![j] = stalls[j] + 1]
  /\ deferred' = [deferred EXCEPT ![j] = (stalls[j] + 1 > MaxStalled)]
  /\ UNCHANGED <<holder, made>>
=============================================================================
