------------------------------ MODULE JobReads ------------------------------
(***************************************************************************)
(* What a user reads back (src/gateway/src/routes/jobs.ts): the history, page *)
(* by page from a cursor (:210-230), and the audio behind the links it shows  *)
(* (:299-322, lib/storage.ts), while jobs are submitted, decided and undone.   *)
(*                                                                         *)
(* Jobs are one user's, numbered by their ids; ids say nothing about time.     *)
(***************************************************************************)
EXTENDS Refusals, FiniteSets, JobTable

CONSTANTS
  NoCursor,
  MaxLimit,      \* bound: the largest page asked for
  MaxTime,       \* bound: the clock of created_at
  MaxUndone      \* bound: submissions that are undone

ASSUME JobsAssumption   == Jobs \subseteq Nat /\ IsFiniteSet(Jobs) /\ NoCursor \notin Jobs
ASSUME BoundsAssumption == MaxLimit \in Nat \ {0} /\ MaxTime \in Nat \ {0} /\ MaxUndone \in Nat

VARIABLES
  now,
  createdAt,     \* createdAt[j]: the stamp of j's transaction; 0 before it
  undone,        \* the jobs whose row was deleted again
  paging,        \* "before", "listing", "finished"
  cursor,        \* the cursor the next page is asked with
  times,         \* times[j]: how often the pages have listed j
  links,         \* the jobs shown with an audioUrl
  there,         \* the rows that were there when the listing began
  adrift,        \* a page was asked with a cursor whose row is gone
  target,        \* the job whose audio is being fetched
  heard,         \* what its last read brought: the object or a failure of storage
  blips,         \* reads of the object that failed so far
  reply

clock   == <<now, createdAt, undone>>
listing == <<paging, cursor, times, links, there, adrift>>
audio   == <<target, heard, blips, reply>>
vars    == <<table, clock, listing, audio>>

\* Ways getObject fails: no answer, a 5xx, a 429, or a refusal such as 403.
Failures == {"silence", "server error", "throttled", "refused"}
MaxReads == 3

TypeOK ==
  /\ TableTypeOK
  /\ now \in 1..MaxTime
  /\ createdAt \in [Jobs -> 0..MaxTime]
  /\ undone \subseteq Jobs
  /\ paging \in {"before", "listing", "finished"}
  /\ cursor \in Jobs \cup {NoCursor}
  /\ times \in [Jobs -> Nat]
  /\ links \subseteq Jobs /\ there \subseteq Jobs /\ adrift \in BOOLEAN
  /\ target \in Jobs \cup {NoCursor}
  /\ heard \in {"nothing yet", "object"} \cup Failures
  /\ blips \in 0..MaxReads
  /\ reply \in {"none", "fetching", "OK"} \cup DomainErrors \cup Faults
  /\ \A j \in Jobs : status[j] # "ABSENT" => createdAt[j] > 0

Init ==
  /\ TableInit
  /\ now = 1 /\ createdAt = [j \in Jobs |-> 0] /\ undone = {}
  /\ paging = "before" /\ cursor = NoCursor
  /\ times = [j \in Jobs |-> 0] /\ links = {} /\ there = {} /\ adrift = FALSE
  /\ target = NoCursor /\ heard = "nothing yet" /\ blips = 0 /\ reply = "none"

Rows == {j \in Jobs : status[j] # "ABSENT"}

-----------------------------------------------------------------------------
(* The submissions and the workers, as the table sees them (Submission.tla,    *)
(* Worker.tla).                                                               *)

Tick ==
  /\ now < MaxTime
  /\ now' = now + 1
  /\ UNCHANGED <<table, createdAt, undone, listing, audio>>

\* created_at is taken before the commit that shows the row.
Stamp(j) ==
  /\ createdAt[j] = 0
  /\ createdAt' = [createdAt EXCEPT ![j] = now]
  /\ UNCHANGED <<table, now, undone, listing, audio>>

Submit(j) ==
  /\ createdAt[j] > 0 /\ status[j] = "ABSENT" /\ j \notin undone
  /\ InsertRow(j)
  /\ UNCHANGED <<clock, listing, audio>>

Undo(j) ==
  /\ status[j] # "ABSENT"
  /\ Cardinality(undone) < MaxUndone
  /\ DeleteRow(j)
  /\ undone' = undone \cup {j}
  /\ UNCHANGED <<now, createdAt, listing, audio>>

Work(j) ==
  /\ MarkActive(j) \/ MarkQueued(j) \/ MarkCompleted(j) \/ MarkFailed(j, "INTERNAL")
  /\ UNCHANGED <<clock, listing, audio>>

-----------------------------------------------------------------------------
(* GET /v1/jobs. *)

\* orderBy created_at desc, id desc.
Above(i, j) == \/ createdAt[i] > createdAt[j]
               \/ createdAt[i] = createdAt[j] /\ i > j

\* cursor and skip: 1 -- the rows below the cursor's; a cursor that names no row
\* positions nowhere.
FromCursor(c)  == {j \in Rows : c = NoCursor \/ (c \in Rows /\ ~Above(j, c))}
BelowCursor(c) == {j \in Rows : c = NoCursor \/ (c \in Rows /\ Above(c, j))}

\* The first n of them.
Top(S, n) == {j \in S : Cardinality({i \in S : Above(i, j)}) < n}
Lowest(S) == CHOOSE j \in S : \A i \in S : i = j \/ Above(i, j)

\* nextCursor: the last job of the page, when the extra row says there is more.
NextCursorExtra(fetched, page) == Lowest(fetched)
NextCursor(fetched, page)      == Lowest(page)

\* serializeJob: a COMPLETED job comes with its audioUrl.
Linked(jobs) == {j \in jobs : status[j] = "COMPLETED"}

ReadPage(limit) ==
  /\ paging # "finished"
  /\ LET fetched == Top(BelowCursor(cursor), limit + 1)
         page    == Top(fetched, limit)
     IN /\ times' = [j \in Jobs |-> IF j \in page THEN times[j] + 1 ELSE times[j]]
        /\ links' = links \cup Linked(page)
        /\ IF Cardinality(fetched) > limit
           THEN paging' = "listing" /\ cursor' = NextCursor(fetched, page)
           ELSE paging' = "finished" /\ UNCHANGED cursor
  /\ there'  = IF paging = "before" THEN Rows ELSE there
  /\ adrift' = (adrift \/ cursor \notin Rows \cup {NoCursor})
  /\ UNCHANGED <<table, clock, audio>>

\* GET /v1/jobs/:id.
ReadJob(j) ==
  /\ links' = links \cup Linked(Rows \cap {j})
  /\ UNCHANGED <<table, clock, paging, cursor, times, there, adrift, audio>>

-----------------------------------------------------------------------------
(* GET /v1/jobs/:id/audio. *)

\* findOwnedJob, which may fail in the database, and the status it read.
FollowLink(j) ==
  /\ reply # "fetching"
  /\ j \in links
  /\ target' = j
  /\ heard' = "nothing yet" /\ blips' = 0
  /\ \/ reply' = CASE status[j] = "ABSENT" -> "NotFound"
                   [] status[j] = "FAILED" -> "JobFailed"
                   [] status[j] \in Pending -> "JobNotReady"
                   [] status[j] = "COMPLETED" /\ ~audioKey[j] -> "JobNotReady"
                   [] OTHER -> "fetching"
     \/ reply' = "DatabaseError"
  /\ UNCHANGED <<table, clock, listing>>

\* No HTTP status, a 5xx or a 429: storage did not answer the question.
IsFailure(failure)   == failure \in Failures
IsTransient(failure) == failure # "refused"

\* getAudioObject: a transient failure is retried twice; the object was uploaded
\* before the row was COMPLETED, so that storage has it.
Deliver == heard' = "object" /\ reply' = "OK" /\ UNCHANGED blips

ReadObject ==
  /\ reply = "fetching"
  /\ \/ Deliver
     \/ \E failure \in Failures :
          /\ blips' = blips + 1
          /\ heard' = failure
          /\ reply' = IF IsTransient(failure) /\ blips + 1 < MaxReads
                      THEN "fetching" ELSE "StorageUnavailable"
  /\ UNCHANGED <<table, clock, listing, target>>

-----------------------------------------------------------------------------
Next ==
  \/ Tick \/ ReadObject
  \/ \E j \in Jobs : Stamp(j) \/ Submit(j) \/ Undo(j) \/ Work(j)
                   \/ ReadJob(j) \/ FollowLink(j)
  \/ \E limit \in 1..MaxLimit : ReadPage(limit)

Spec == Init /\ [][Next]_vars

-----------------------------------------------------------------------------
(* Properties. *)

\* Pages "stay consistent while new jobs arrive" (README.md:385): no job is on two
\* pages of one listing, however rows come and go between them.
NoJobListedTwice == \A j \in Jobs : times[j] <= 1

\* A listing that followed its cursors to the end has shown every job that was
\* there from its beginning to its end, unless one of its cursors lost its row to
\* the undo of a submission, which ends the listing early (jobs.ts:214-224).
LastingJobsAreListed ==
  paging = "finished" /\ ~adrift => \A j \in there \cap Rows : times[j] = 1

\* An audioUrl holds, however old the page that showed it: its owner is never told
\* that the job failed or is not ready, and gets no audio only for a row that is gone,
\* a database that failed the lookup, a storage that failed three times on end, or a
\* refusal of storage, which is not asked again (jobs.ts:299-316, storage.ts:54-65, 112).
LinkLeadsToAudio ==
  /\ \/ reply \in {"none", "fetching", "OK"}
     \/ StatusOf(reply) = 404 /\ target \in undone
     \/ /\ StatusOf(reply) = 500
        /\ reply = "DatabaseError" \/ heard = "refused" \/ blips = MaxReads
  /\ heard = "refused" => reply # "fetching"
=============================================================================
