------------------------------ MODULE JobTable ------------------------------
(***************************************************************************)
(* The `jobs` table, the only state the gateway and the workers share       *)
(* through PostgreSQL.  One row per job id; the columns kept are the ones    *)
(* some decision reads: status, audio_key and error_code.  Every operator    *)
(* below is one statement of src/worker/src/worker/db.py or one Prisma call  *)
(* of the gateway, and PostgreSQL makes each of them atomic.                 *)
(***************************************************************************)
EXTENDS JobIds

VARIABLES
  status,       \* status[j]: the status column, or "ABSENT" while no row exists
  audioKey,     \* audioKey[j]: has the audio_key column been set
  errorCode     \* errorCode[j]: the error_code column, "NONE" for NULL

table == <<status, audioKey, errorCode>>

Pending    == {"QUEUED", "ACTIVE"}
Terminal   == {"COMPLETED", "FAILED"}
Statuses   == Pending \cup Terminal \cup {"ABSENT"}
ErrorCodes == {"NONE", "TIMEOUT", "INTERNAL"}

TableTypeOK ==
  /\ status    \in [Jobs -> Statuses]
  /\ audioKey  \in [Jobs -> BOOLEAN]
  /\ errorCode \in [Jobs -> ErrorCodes]

TableInit ==
  /\ status    = [j \in Jobs |-> "ABSENT"]
  /\ audioKey  = [j \in Jobs |-> FALSE]
  /\ errorCode = [j \in Jobs |-> "NONE"]

InsertPending(j) ==
  /\ status'    = [status EXCEPT ![j] = "PENDING"]
  /\ audioKey'  = [audioKey EXCEPT ![j] = FALSE]
  /\ errorCode' = [errorCode EXCEPT ![j] = "NONE"]

\* tx.job.create: a QUEUED row with neither result nor error.
InsertRow(j) ==
  /\ status'    = [status EXCEPT ![j] = "QUEUED"]
  /\ audioKey'  = [audioKey EXCEPT ![j] = FALSE]
  /\ errorCode' = [errorCode EXCEPT ![j] = "NONE"]

\* prisma.job.delete: the row is gone, whatever it said.
DeleteRow(j) ==
  /\ status'    = [status EXCEPT ![j] = "ABSENT"]
  /\ audioKey'  = [audioKey EXCEPT ![j] = FALSE]
  /\ errorCode' = [errorCode EXCEPT ![j] = "NONE"]

\* The guard every UPDATE of the worker carries: WHERE id = .. AND status NOT
\* IN ('COMPLETED', 'FAILED').  An UPDATE of a row that is gone touches nothing.
AnyRow(j)      == status[j] # "ABSENT"
NotTerminal(j) == status[j] \in Pending

MarkActive(j) ==
  /\ status' = IF NotTerminal(j) THEN [status EXCEPT ![j] = "ACTIVE"] ELSE status
  /\ UNCHANGED <<audioKey, errorCode>>

MarkQueued(j) ==
  /\ status' = IF NotTerminal(j) THEN [status EXCEPT ![j] = "QUEUED"] ELSE status
  /\ UNCHANGED <<audioKey, errorCode>>

MarkCompleted(j) ==
  IF NotTerminal(j)
  THEN /\ status'   = [status EXCEPT ![j] = "COMPLETED"]
       /\ audioKey' = [audioKey EXCEPT ![j] = TRUE]
       /\ UNCHANGED errorCode
  ELSE UNCHANGED table

MarkFailed(j, code) ==
  IF NotTerminal(j)
  THEN /\ status'    = [status EXCEPT ![j] = "FAILED"]
       /\ errorCode' = [errorCode EXCEPT ![j] = code]
       /\ UNCHANGED audioKey
  ELSE UNCHANGED table
=============================================================================
