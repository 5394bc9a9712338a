------------------------------- MODULE Worker -------------------------------
(***************************************************************************)
(* The synthesis workers: Processor.process and its failed-event listener   *)
(* (src/worker/src/worker/processor.py) run by BullMQ workers of concurrency *)
(* one (main.py) over the shared jobs table and queue.                       *)
(*                                                                         *)
(* A step is one call that leaves the process: a query, an upload, the wait  *)
(* for the inference thread, a queue move.  Between two steps of a worker    *)
(* its lock may lapse, its process may die, its database connection may      *)
(* drop, and the other workers and the gateway may move.                     *)
(***************************************************************************)
EXTENDS FiniteSets, JobTable, JobQueue

CONSTANTS
  NoJob,         \* the task of a worker that handles nothing
  ThreadPool,    \* threads of the process's default executor
  MaxExits,      \* bound: process exits (stops and crashes) in a behaviour
  MaxExpiries,   \* bound: locks that lapse under a living worker
  MaxFaults,     \* bound: database connections that drop
  MaxWithdrawn   \* bound: rows the gateway deletes after a lost enqueue reply

ASSUME NoJobAssumption  == NoJob \notin Jobs
ASSUME ThreadAssumption == ThreadPool \in Nat \ {0}
ASSUME BudgetAssumption == /\ MaxExits \in Nat /\ MaxExpiries \in Nat
                           /\ MaxFaults \in Nat /\ MaxWithdrawn \in Nat

VARIABLES
  pc,            \* pc[w]: where the worker's process is in its handler
  task,          \* task[w]: the entry it handles
  tried,         \* tried[w]: job.attemptsMade as read when it was fetched
  linked,        \* linked[w]: its one database connection still works
  abandoned,     \* abandoned[w]: timed out inference threads still running
  deliveries,    \* deliveries[j]: times the processor was called for the job
  uploads,       \* uploads[j]: times its audio object was written
  exits, expiries, faults     \* what is spent of each bound

worker == <<pc, task, tried, linked, abandoned>>
ghosts == <<deliveries, uploads>>
spent  == <<exits, expiries, faults>>
vars   == <<table, queue, worker, ghosts, spent>>

InProcess == {"load", "activate", "synth", "upload", "complete", "timeout", "recover"}
Bypassing == {"bypassed", "record"}
Ended     == {"returned", "raised", "fatal"}
Points    == {"down", "idle"} \cup InProcess \cup Bypassing \cup Ended

TypeOK ==
  /\ TableTypeOK
  /\ QueueTypeOK
  /\ pc         \in [Workers -> Points]
  /\ task       \in [Workers -> Jobs \cup {NoJob}]
  /\ tried      \in [Workers -> Nat]
  /\ linked     \in [Workers -> BOOLEAN]
  /\ abandoned  \in [Workers -> Nat]
  /\ deliveries \in [Jobs -> Nat]
  /\ uploads    \in [Jobs -> Nat]
  /\ exits \in 0..MaxExits /\ expiries \in 0..MaxExpiries /\ faults \in 0..MaxFaults

Init ==
  /\ TableInit
  /\ QueueInit
  /\ pc         = [w \in Workers |-> "idle"]
  /\ task       = [w \in Workers |-> NoJob]
  /\ tried      = [w \in Workers |-> 0]
  /\ linked     = [w \in Workers |-> TRUE]
  /\ abandoned  = [w \in Workers |-> 0]
  /\ deliveries = [j \in Jobs |-> 0]
  /\ uploads    = [j \in Jobs |-> 0]
  /\ exits = 0 /\ expiries = 0 /\ faults = 0

-----------------------------------------------------------------------------
(* The gateway, as the workers see it. *)

\* A submission commits the row and adds the entry (Submission.tla has the
\* steps in between; until the entry exists no worker can tell them apart).
Submit(j) ==
  /\ place[j] = "none"
  /\ InsertRow(j)
  /\ Add(j)
  /\ UNCHANGED <<worker, ghosts, spent>>

\* The add took effect but its reply was lost: the gateway deletes the row
\* under an entry that workers may already be handling.
Withdraw(j) ==
  /\ place[j] # "none"
  /\ status[j] # "ABSENT"
  /\ Cardinality({k \in Jobs : place[k] # "none" /\ status[k] = "ABSENT"}) < MaxWithdrawn
  /\ DeleteRow(j)
  /\ UNCHANGED <<queue, worker, ghosts, spent>>

-----------------------------------------------------------------------------
(* One worker handling one entry. *)

Goto(w, point) == pc' = [pc EXCEPT ![w] = point]

\* A statement on the worker's connection.  It is answered; or the connection
\* drops under it, before or after the server applied it; or it was lost
\* before and psycopg, which never reconnects, raises at once.
Query(w, Statement, answered, failed) ==
  \/ /\ linked[w]
     /\ Statement
     /\ Goto(w, answered)
     /\ UNCHANGED <<linked, faults>>
  \/ /\ linked[w]
     /\ faults < MaxFaults
     /\ faults' = faults + 1
     /\ linked' = [linked EXCEPT ![w] = FALSE]
     /\ Statement \/ UNCHANGED table
     /\ Goto(w, failed)
  \/ /\ ~linked[w]
     /\ Goto(w, failed)
     /\ UNCHANGED <<table, linked, faults>>

Rest == <<queue, task, tried, abandoned, ghosts, exits, expiries>>

Fetch(w, j) ==
  /\ pc[w] = "idle"
  /\ task' = [task EXCEPT ![w] = j]
  /\ \/ /\ Take(j, w)
        /\ Goto(w, "load")
        /\ tried' = [tried EXCEPT ![w] = made[j]]
        /\ deliveries' = [deliveries EXCEPT ![j] = @ + 1]
     \/ /\ TakeDeferred(j)
        /\ Goto(w, "bypassed")
        /\ UNCHANGED <<tried, deliveries>>
  /\ UNCHANGED <<table, linked, abandoned, uploads, spent>>

\* db.fetch_job, and the two early returns on what it found.
SkipActive(w) == status[task[w]] # "QUEUED"
Skip(w)       == status[task[w]] \notin Pending

Load(w) ==
  /\ pc[w] = "load"
  /\ Query(w, UNCHANGED table, IF Skip(w) THEN "returned" ELSE "activate", "raised")
  /\ UNCHANGED Rest

\* db.mark_active, then inference is handed to a thread.  The UPDATE stands
\* before the try block: its failure reaches BullMQ without mark_queued.
Activate(w) ==
  /\ pc[w] = "activate"
  /\ Query(w, MarkActive(task[w]), "synth", "raised")
  /\ UNCHANGED Rest

\* The inference thread answers or raises; it cannot do either while threads
\* of earlier timeouts fill the executor.
Synthesize(w) ==
  /\ pc[w] = "synth"
  /\ abandoned[w] < ThreadPool
  /\ Goto(w, "upload") \/ Goto(w, "recover")
  /\ UNCHANGED <<table, linked, faults, Rest>>

\* wait_for gives up.  A thread that runs cannot be stopped and is abandoned; one
\* that never started is cancelled.
TimeOut(w) ==
  /\ pc[w] = "synth"
  /\ abandoned' = IF abandoned[w] < ThreadPool
                  THEN [abandoned EXCEPT ![w] = @ + 1] ELSE abandoned
  /\ Goto(w, "timeout")
  /\ UNCHANGED <<table, queue, task, tried, linked, ghosts, spent>>

\* An abandoned thread finishes; nobody looks at its result.
ThreadEnds(w) ==
  /\ abandoned[w] > 0
  /\ abandoned' = [abandoned EXCEPT ![w] = @ - 1]
  /\ UNCHANGED <<table, queue, pc, task, tried, linked, ghosts, spent>>

\* storage.upload_wav: stored and answered, stored but reported as an error,
\* or not stored at all.
Store(w) == uploads' = [uploads EXCEPT ![task[w]] = @ + 1]

UploadUnchecked(w) ==
  /\ pc[w] = "upload"
  /\ Store(w) \/ UNCHANGED uploads
  /\ Goto(w, "complete")
  /\ UNCHANGED <<table, queue, task, tried, linked, abandoned, deliveries, spent>>

Upload(w) ==
  /\ pc[w] = "upload"
  /\ \/ Store(w) /\ Goto(w, "complete")
     \/ Store(w) /\ Goto(w, "recover")
     \/ UNCHANGED uploads /\ Goto(w, "recover")
  /\ UNCHANGED <<table, queue, task, tried, linked, abandoned, deliveries, spent>>

Complete(w) ==
  /\ pc[w] = "complete"
  /\ Query(w, MarkCompleted(task[w]), "returned", "recover")
  /\ UNCHANGED Rest

\* except TimeoutError: FAILED with TIMEOUT, and no retry -- unless the UPDATE
\* itself raises, which BullMQ takes for an ordinary failure.
RecordItsName(w) ==
  /\ pc[w] = "timeout"
  /\ Query(w, MarkFailed(task[w], "TimeoutError"), "fatal", "raised")
  /\ UNCHANGED Rest

RecordTimeout(w) ==
  /\ pc[w] = "timeout"
  /\ Query(w, MarkFailed(task[w], "TIMEOUT"), "fatal", "raised")
  /\ UNCHANGED Rest

\* except Exception: FAILED on the last attempt, else back to QUEUED; the
\* count is the one read at fetch.
FinalAttemptLate(w) == tried[w] + 1 > AttemptLimit
FinalAttempt(w)     == tried[w] + 1 >= AttemptLimit

Recover(w) ==
  /\ pc[w] = "recover"
  /\ IF FinalAttempt(w)
     THEN Query(w, MarkFailed(task[w], "INTERNAL"), "raised", "raised")
     ELSE Query(w, MarkQueued(task[w]), "raised", "raised")
  /\ UNCHANGED Rest

\* Nothing is kept of the task that just ended.
Release(w) ==
  /\ Goto(w, "idle")
  /\ task'  = [task EXCEPT ![w] = NoJob]
  /\ tried' = [tried EXCEPT ![w] = 0]

\* BullMQ moves the entry by how process() ended; a worker that lost its lock
\* moves nothing and just goes on.
Settle(w) ==
  /\ pc[w] \in Ended
  /\ IF pc[w] = "returned" THEN FinishOk(task[w], w)
                           ELSE FinishRaised(task[w], w, pc[w] = "fatal")
  /\ Release(w)
  /\ UNCHANGED <<table, linked, abandoned, ghosts, spent>>

\* record_bypassed_failure for an over-stalled entry: look, then write.
\* Whatever goes wrong here stays in the listener.
NotListening(w) ==
  /\ pc[w] = "bypassed"
  /\ Release(w)
  /\ UNCHANGED <<table, queue, linked, abandoned, ghosts, spent>>

Inspect(w) ==
  /\ pc[w] = "bypassed"
  /\ \/ /\ linked[w] /\ status[task[w]] \in Pending
        /\ Goto(w, "record")
        /\ UNCHANGED <<task, tried, linked, faults>>
     \/ /\ linked[w] => status[task[w]] \notin Pending
        /\ Release(w)
        /\ UNCHANGED <<linked, faults>>
     \/ /\ linked[w] /\ faults < MaxFaults
        /\ faults' = faults + 1
        /\ linked' = [linked EXCEPT ![w] = FALSE]
        /\ Release(w)
  /\ UNCHANGED <<table, queue, abandoned, ghosts, exits, expiries>>

Record(w) ==
  /\ pc[w] = "record"
  /\ Query(w, MarkFailed(task[w], "INTERNAL"), "idle", "idle")
  /\ task'  = [task EXCEPT ![w] = NoJob]
  /\ tried' = [tried EXCEPT ![w] = 0]
  /\ UNCHANGED <<queue, abandoned, ghosts, exits, expiries>>

-----------------------------------------------------------------------------
(* Processes and locks. *)

\* The process is gone, with its threads and its connection; the locks it held
\* are never renewed again.
Exit(w) ==
  /\ exits < MaxExits
  /\ exits' = exits + 1
  /\ pc'        = [pc EXCEPT ![w] = "down"]
  /\ task'      = [task EXCEPT ![w] = NoJob]
  /\ tried'     = [tried EXCEPT ![w] = 0]
  /\ abandoned' = [abandoned EXCEPT ![w] = 0]
  /\ UNCHANGED <<table, linked, ghosts, expiries, faults>>

\* SIGTERM: worker.close() lets the current job finish first.
Stop(w) ==
  /\ pc[w] = "idle"
  /\ Exit(w)
  /\ UNCHANGED queue

Crash(w) ==
  /\ pc[w] \notin {"idle", "down"}
  /\ holder' = [j \in Jobs |-> IF holder[j] = w THEN NoWorker ELSE holder[j]]
  /\ Exit(w)
  /\ UNCHANGED <<place, made, stalls, deferred>>

\* run(): a fresh connection and an idle BullMQ worker.
Start(w) ==
  /\ pc[w] = "down"
  /\ Goto(w, "idle")
  /\ linked' = [linked EXCEPT ![w] = TRUE]
  /\ UNCHANGED <<table, queue, task, tried, abandoned, ghosts, spent>>

\* A living worker fails to renew in time: its event loop is blocked by a
\* synchronous query or upload, or Redis does not answer it.
Expire(j) ==
  /\ expiries < MaxExpiries
  /\ expiries' = expiries + 1
  /\ Lapse(j)
  /\ UNCHANGED <<table, worker, ghosts, exits, faults>>

Recheck(j) ==
  /\ \E w \in Workers : pc[w] # "down"
  /\ CheckStalled(j)
  /\ UNCHANGED <<table, worker, ghosts, spent>>

Retry(j) ==
  /\ BackoffElapsed(j)
  /\ UNCHANGED <<table, worker, ghosts, spent>>

-----------------------------------------------------------------------------
Handle(w) ==
  \/ Load(w) \/ Activate(w) \/ Synthesize(w) \/ TimeOut(w) \/ Upload(w) \/ Complete(w)
  \/ RecordTimeout(w) \/ Recover(w) \/ Settle(w) \/ Inspect(w) \/ Record(w)

FetchSome(w) == \E j \in Jobs : Fetch(w, j)

Next ==
  \/ \E j \in Jobs : Submit(j) \/ Withdraw(j) \/ Expire(j) \/ Recheck(j) \/ Retry(j)
  \/ \E w \in Workers : \/ FetchSome(w) \/ Handle(w) \/ ThreadEnds(w)
                        \/ Stop(w) \/ Crash(w) \/ Start(w)

Spec == Init /\ [][Next]_vars

\* A living worker keeps running its handler and fetching, what the handler calls
\* answers or fails, and the timers of asyncio and BullMQ fire.  Nothing makes a
\* client submit, a process come back or a thread end.
FairSpec ==
  /\ Spec
  /\ \A w \in Workers : WF_vars(Handle(w)) /\ WF_vars(FetchSome(w))
  /\ \A j \in Jobs : WF_vars(Recheck(j)) /\ WF_vars(Retry(j))
-----------------------------------------------------------------------------
(* Properties. *)

\* A decided job stays decided: no worker, not even one that lost its lock and
\* finishes late, changes the status, result or error of a COMPLETED or FAILED
\* row (db.py:5-10).  Only the gateway's withdrawal removes the row.
DecisionIsFinal ==
  [][\A j \in Jobs :
       status[j] \in Terminal =>
         \/ status'[j] = "ABSENT"
         \/ /\ status'[j] = status[j]
            /\ audioKey'[j] = audioKey[j]
            /\ errorCode'[j] = errorCode[j]]_vars

\* What a client reads of a decided job is coherent: COMPLETED comes with an
\* audio key, whose object is in the store, and without an error; FAILED comes
\* with an error code and without a key (processor.py:62-89).
ResultIsBacked ==
  \A j \in Jobs :
    /\ audioKey[j] <=> status[j] = "COMPLETED"
    /\ errorCode[j] # "NONE" <=> status[j] = "FAILED"
    /\ status[j] = "COMPLETED" => uploads[j] > 0

\* The queue never forgets an undecided job: an entry that BullMQ holds for
\* completed has a decided (or withdrawn) row.  The early return on a terminal
\* row (processor.py:48-52) is the delicate case: it completes an entry without
\* doing anything.
CompletedEntryIsDecided ==
  \A j \in Jobs : place[j] = "completed" => status[j] \notin Pending

\* An entry that BullMQ gave up on has a decided row, or a worker is just about
\* to record the failure in the failed-event listener.  It takes the database
\* to answer and, for an over-stalled entry, the listener to be reached; the
\* run gives stalls for the deferred path and no exit to spare after it.
FailedEntryIsDecided ==
  \A j \in Jobs :
    place[j] = "failed" /\ status[j] \in Pending =>
      \E w \in Workers : task[w] = j /\ pc[w] \in Bypassing

\* A job reaches the processor at most once per attempt plus once per forgiven
\* stall, so an input that takes its worker down cannot do so forever
\* (processor.py:96-99; the attempt limit is queue.ts:82).
DeliveriesBounded ==
  \A j \in Jobs : deliveries[j] <= Attempts + MaxStalled

\* The workers, the queue and the table together do what JobOutcome promises.
OutcomeOf(j) == CASE status[j] \in Pending    -> "pending"
                  [] status[j] = "COMPLETED"  -> "completed"
                  [] status[j] = "FAILED"     -> "failed"
                  [] OTHER -> IF place[j] = "none" THEN "none" ELSE "gone"

Promise == INSTANCE JobOutcome WITH
             outcome <- [j \in Jobs |-> OutcomeOf(j)],
             audio   <- [j \in Jobs |-> uploads[j] > 0]

KeepsPromise == Promise!OSpec

\* Every submitted job is eventually decided (or withdrawn), through failed
\* attempts, timeouts, a lapsed lock and the loss of one of the processes.
EveryJobIsDecided ==
  \A j \in Jobs : status[j] \in Pending ~> status[j] \notin Pending

(* Claims of the repository's text that the code does not keep; see README. *)

\* "one retry before landing in FAILED with a stable, machine-readable error
\* code" (README.md:146): once the attempts are used up the row says FAILED.
ExhaustedJobIsFailed ==
  \A j \in Jobs : place[j] = "failed" /\ made[j] >= Attempts => status[j] \notin Pending
=============================================================================
