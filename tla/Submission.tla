----------------------------- MODULE Submission -----------------------------
(***************************************************************************)
(* POST /v1/tts (src/gateway/src/routes/jobs.ts:91-208) with any number of   *)
(* requests in flight, on one gateway or several: the replay check, the       *)
(* backpressure gates, the transaction that counts and inserts under the      *)
(* user's advisory lock, the enqueue and its undo.                            *)
(*                                                                         *)
(* A request inserts at most one row, so requests and job ids are one set: r  *)
(* is the request and the id of the row it may create.  The workers appear    *)
(* only as what they do to rows and entries (Worker.tla has their inside).    *)
(***************************************************************************)
EXTENDS Integers, FiniteSets, JobTable, TtsText

CONSTANTS
  Users,
  Owner,         \* Owner[r]: the authenticated user
  NoKey,
  Key,           \* Key[r]: the Idempotency-Key header when usable, or NoKey
  Text,          \* Text[r]: the text of the body
  Malformed,     \* a body without a text string (submitSchema)
  NoJob,
  PendingCap,    \* TTS_PENDING_CAP
  Capacity,      \* TTS_QUEUE_CAPACITY
  PoolSize,      \* database connections a gateway has for transactions
  Gateways,
  On,            \* On[r]: the gateway that serves r
  MaxDeaths,     \* bound: gateway processes that die, or that the failsafe ends
  MaxAddFaults,  \* bound: enqueues Redis refuses
  MaxLost        \* bound: effects that happen, or not, against what was reported

ASSUME RequestsAssumption ==
  /\ IsFiniteSet(Jobs) /\ NoJob \notin Jobs
  /\ Owner \in [Jobs -> Users] /\ On \in [Jobs -> Gateways]
ASSUME TextsAssumption ==
  \A r \in Jobs : Text[r] = Malformed \/ Text[r] \in Seq(Classes)
ASSUME LimitsAssumption ==
  /\ PendingCap \in Nat \ {0} /\ Capacity \in Nat \ {0} /\ PoolSize \in Nat \ {0}
  /\ MaxDeaths \in Nat /\ MaxAddFaults \in Nat /\ MaxLost \in Nat

VARIABLES
  entry,         \* entry[r]: the queue entry: "none", "open" (counted by the depth), "done"
  at,            \* at[r]: the next step of the handler
  lock,          \* lock[u]: the transaction that holds u's advisory lock
  reply,         \* reply[r]: what the client was answered
  named,         \* named[r]: the job id a 2xx answer named
  deaths, addFaults, lost

gateway == <<at, lock, reply, named>>
spent   == <<deaths, addFaults, lost>>
vars    == <<table, entry, gateway, spent>>

InTransaction == {"lock", "count", "depth", "insert"}
Locked        == {"count", "depth", "insert"}
Steps   == {"replay", "rate", "validate", "begin", "late", "winner", "enqueue", "undo",
            "reply"} \cup InTransaction
Points  == {"new", "answered", "cut"} \cup Steps
Refusals == {"INVALID", "CONFLICT", "RATE_LIMITED", "PENDING_CAP", "QUEUE_FULL", "ERROR"}
Replies  == {"none", "ACCEPTED", "REPLAYED"} \cup Refusals

TypeOK ==
  /\ TableTypeOK
  /\ entry \in [Jobs -> {"none", "open", "done"}]
  /\ at    \in [Jobs -> Points]
  /\ lock  \in [Users -> Jobs \cup {NoJob}]
  /\ reply \in [Jobs -> Replies]
  /\ named \in [Jobs -> Jobs \cup {NoJob}]
  /\ deaths \in 0..MaxDeaths /\ addFaults \in 0..MaxAddFaults /\ lost \in 0..MaxLost

Init ==
  /\ TableInit
  /\ entry = [r \in Jobs |-> "none"]
  /\ at    = [r \in Jobs |-> "new"]
  /\ lock  = [u \in Users |-> NoJob]
  /\ reply = [r \in Jobs |-> "none"]
  /\ named = [r \in Jobs |-> NoJob]
  /\ deaths = 0 /\ addFaults = 0 /\ lost = 0

-----------------------------------------------------------------------------
Goto(r, point) == at' = [at EXCEPT ![r] = point]

Answer(r, code, job) ==
  /\ Goto(r, "answered")
  /\ reply' = [reply EXCEPT ![r] = code]
  /\ named' = [named EXCEPT ![r] = job]

Refuse(r, code) == Answer(r, code, NoJob)
Silent          == UNCHANGED <<reply, named>>

\* COMMIT or ROLLBACK: pg_advisory_xact_lock goes with the transaction.
KeepLock(r) == UNCHANGED lock
Unlock(r)   == lock' = [u \in Users |-> IF lock[u] = r THEN NoJob ELSE lock[u]]

\* The rows that carry r's (user, idempotency key); the unique index keeps them
\* to one.  NULL keys never collide.
SameKey(r)  == {k \in Jobs : /\ Key[r] # NoKey /\ Key[k] = Key[r]
                             /\ Owner[k] = Owner[r] /\ status[k] # "ABSENT"}

PendingOf(u) == {k \in Jobs : Owner[k] = u /\ status[k] \in Pending}
Open         == {k \in Jobs : entry[k] = "open"}

\* respondForIdempotentRetry: the stored job answers, if the text is the same.
Respond(r, job) ==
  IF Text[r] = Malformed THEN Refuse(r, "INVALID")
  ELSE IF Text[r] # Text[job] THEN Refuse(r, "CONFLICT")
  ELSE Answer(r, "REPLAYED", job)

\* apiKeyAuth has resolved the user; the handler reads the key header,
\* which is refused when it is empty or too long.
Receive(r) ==
  /\ at[r] = "new"
  /\ \/ Goto(r, "replay") /\ Silent
     \/ Key[r] # NoKey /\ Refuse(r, "INVALID")
  /\ UNCHANGED <<table, entry, lock, spent>>

Replay(r) ==
  /\ at[r] = "replay"
  /\ \/ /\ SameKey(r) = {}
        /\ Goto(r, "rate")
        /\ Silent
     \/ \E job \in SameKey(r) : Respond(r, job)
  /\ UNCHANGED <<table, entry, lock, spent>>

\* takeRateLimitToken: the bucket has a token or it has not.
Rate(r) ==
  /\ at[r] = "rate"
  /\ \/ Goto(r, "validate") /\ Silent
     \/ Refuse(r, "RATE_LIMITED")
  /\ UNCHANGED <<table, entry, lock, spent>>

Validate(r) ==
  /\ at[r] = "validate"
  /\ IF Text[r] = Malformed \/ Verdict(Text[r]) # "OK"
     THEN Refuse(r, "INVALID")
     ELSE Goto(r, "begin") /\ Silent
  /\ UNCHANGED <<table, entry, lock, spent>>

\* $transaction: wait for a connection of this gateway's pool.
Begin(r) ==
  /\ at[r] = "begin"
  /\ Cardinality({k \in Jobs : On[k] = On[r] /\ at[k] \in InTransaction}) < PoolSize
  /\ Goto(r, "lock")
  /\ Silent
  /\ UNCHANGED <<table, entry, lock, spent>>

\* pg_advisory_xact_lock(hashtext(user.id)): wait for the user's lock.
AcquireUnlocked(r) ==
  /\ at[r] = "lock"
  /\ lock' = [lock EXCEPT ![Owner[r]] = r]
  /\ Goto(r, "count")
  /\ Silent
  /\ UNCHANGED <<table, entry, spent>>

Acquire(r) ==
  /\ at[r] = "lock"
  /\ lock[Owner[r]] = NoJob
  /\ lock' = [lock EXCEPT ![Owner[r]] = r]
  /\ Goto(r, "count")
  /\ Silent
  /\ UNCHANGED <<table, entry, spent>>

Count(r) ==
  /\ at[r] = "count"
  /\ IF Cardinality(PendingOf(Owner[r])) >= PendingCap
     THEN Refuse(r, "PENDING_CAP") /\ Unlock(r)
     ELSE Goto(r, "depth") /\ Silent /\ UNCHANGED lock
  /\ UNCHANGED <<table, entry, spent>>

Depth(r) ==
  /\ at[r] = "depth"
  /\ IF Cardinality(Open) >= Capacity
     THEN Refuse(r, "QUEUE_FULL") /\ Unlock(r)
     ELSE Goto(r, "insert") /\ Silent /\ UNCHANGED lock
  /\ UNCHANGED <<table, entry, spent>>

\* Redis answers later than Prisma's limit for a transaction: the engine rolls it
\* back, while the callback still waits for the depth.
TimeOut(r) ==
  /\ at[r] = "depth"
  /\ Goto(r, "late") /\ Silent
  /\ Unlock(r)
  /\ UNCHANGED <<table, entry, spent>>

\* The depth is there at last; an insert would find its transaction closed.
LateDepth(r) ==
  /\ at[r] = "late"
  /\ \/ Cardinality(Open) >= Capacity /\ Refuse(r, "QUEUE_FULL")
     \/ Refuse(r, "ERROR")
  /\ UNCHANGED <<table, entry, lock, spent>>

\* tx.job.create and COMMIT.  A second row with the key is P2002 and a rollback;
\* a commit whose acknowledgement is lost is an error to the handler, and the
\* row is there.
InsertAnyKey(r) ==
  /\ at[r] = "insert"
  /\ InsertRow(r)
  /\ Goto(r, "enqueue")
  /\ Silent
  /\ Unlock(r)
  /\ UNCHANGED <<entry, spent>>

Insert(r) ==
  /\ at[r] = "insert"
  /\ \/ /\ SameKey(r) # {}
        /\ Goto(r, "winner") /\ Silent
        /\ UNCHANGED <<table, lost>>
     \/ /\ SameKey(r) = {}
        /\ InsertRow(r)
        /\ Goto(r, "enqueue") /\ Silent
        /\ UNCHANGED lost
     \/ /\ SameKey(r) = {}
        /\ lost < MaxLost
        /\ lost' = lost + 1
        /\ InsertRow(r)
        /\ Refuse(r, "ERROR")
  /\ Unlock(r)
  /\ UNCHANGED <<entry, deaths, addFaults>>

\* The loser of the race is answered from the winner's row; if that is gone
\* again, the constraint violation itself surfaces.
Winner(r) ==
  /\ at[r] = "winner"
  /\ \/ SameKey(r) = {} /\ Refuse(r, "ERROR")
     \/ \E job \in SameKey(r) : Respond(r, job)
  /\ UNCHANGED <<table, entry, lock, spent>>

\* enqueueTtsJob: added; refused; or added with the reply lost.
AddEntry(r) == entry' = [entry EXCEPT ![r] = "open"]

EnqueueQuietly(r) ==
  /\ at[r] = "enqueue"
  /\ \/ AddEntry(r) /\ UNCHANGED addFaults
     \/ /\ addFaults < MaxAddFaults
        /\ addFaults' = addFaults + 1
        /\ UNCHANGED entry
  /\ Goto(r, "reply")
  /\ Silent
  /\ UNCHANGED <<table, lock, deaths, lost>>

EnqueueOrFull(r) ==
  /\ at[r] = "enqueue"
  /\ \/ AddEntry(r) /\ Goto(r, "reply") /\ Silent
     \/ Refuse(r, "QUEUE_FULL") /\ UNCHANGED entry
  /\ UNCHANGED <<table, lock, spent>>

Enqueue(r) ==
  /\ at[r] = "enqueue"
  /\ \/ /\ AddEntry(r)
        /\ Goto(r, "reply")
        /\ UNCHANGED spent
     \/ /\ addFaults < MaxAddFaults
        /\ addFaults' = addFaults + 1
        /\ Goto(r, "undo")
        /\ UNCHANGED <<entry, deaths, lost>>
     \/ /\ lost < MaxLost
        /\ lost' = lost + 1
        /\ AddEntry(r)
        /\ Goto(r, "undo")
        /\ UNCHANGED <<deaths, addFaults>>
  /\ Silent
  /\ UNCHANGED <<table, lock>>

\* The compensating delete; its failure is ignored.
UndoNothing(r) ==
  /\ at[r] = "undo"
  /\ Refuse(r, "ERROR")
  /\ UNCHANGED <<table, entry, lock, spent>>

Undo(r) ==
  /\ at[r] = "undo"
  /\ \/ DeleteRow(r) /\ UNCHANGED lost
     \/ lost < MaxLost /\ lost' = lost + 1 /\ UNCHANGED table
  /\ Refuse(r, "ERROR")
  /\ UNCHANGED <<entry, lock, deaths, addFaults>>

Reply(r) ==
  /\ at[r] = "reply"
  /\ Answer(r, "ACCEPTED", r)
  /\ UNCHANGED <<table, entry, lock, spent>>

\* A dependency fails the request, or PostgreSQL outlives Prisma's limit for the
\* transaction: it is rolled back and the error handler answers 500.
Unavailable(r) ==
  /\ at[r] \in {"replay", "rate", "begin", "winner"} \cup InTransaction
  /\ Refuse(r, "ERROR")
  /\ Unlock(r)
  /\ UNCHANGED <<table, entry, spent>>

\* The process of a gateway dies, or its shutdown failsafe fires: none of the
\* requests it serves is answered, the open transactions are rolled back, what
\* was committed stays.  Later requests find it restarted.
Serving(g) == {r \in Jobs : On[r] = g /\ at[r] \in Steps}

Die(g) ==
  /\ deaths < MaxDeaths
  /\ Serving(g) # {}
  /\ deaths' = deaths + 1
  /\ at'   = [r \in Jobs |-> IF r \in Serving(g) THEN "cut" ELSE at[r]]
  /\ lock' = [u \in Users |-> IF lock[u] \in Serving(g) THEN NoJob ELSE lock[u]]
  /\ Silent
  /\ UNCHANGED <<table, entry, addFaults, lost>>

-----------------------------------------------------------------------------
(* The workers, from here: an open entry makes its row ACTIVE, goes back to     *)
(* QUEUED between attempts, and is done with once the row is decided or found   *)
(* missing.                                                                     *)
WorkerStarts(r) ==
  /\ entry[r] = "open"
  /\ MarkActive(r)
  /\ UNCHANGED <<entry, gateway, spent>>

WorkerRetries(r) ==
  /\ entry[r] = "open"
  /\ MarkQueued(r)
  /\ UNCHANGED <<entry, gateway, spent>>

WorkerEnds(r) ==
  /\ entry[r] = "open"
  /\ MarkCompleted(r) \/ MarkFailed(r, "INTERNAL")
  /\ entry' = [entry EXCEPT ![r] = "done"]
  /\ UNCHANGED <<gateway, spent>>

-----------------------------------------------------------------------------
\* What waits for Node or PostgreSQL, and what waits for Redis.
Proceed(r)  == \/ Replay(r) \/ Validate(r) \/ Begin(r) \/ Acquire(r) \/ Count(r) \/ TimeOut(r)
               \/ Insert(r) \/ Winner(r) \/ Undo(r) \/ Reply(r)
AskRedis(r) == Rate(r) \/ Depth(r) \/ LateDepth(r) \/ Enqueue(r)

Next ==
  \/ \E r \in Jobs :
       \/ Receive(r) \/ Proceed(r) \/ AskRedis(r) \/ Unavailable(r)
       \/ WorkerStarts(r) \/ WorkerRetries(r) \/ WorkerEnds(r)
  \/ \E g \in Gateways : Die(g)

Spec == Init /\ [][Next]_vars

\* Node keeps running every handler it has started; PostgreSQL answers or fails a
\* statement and grants a free lock; Prisma gives out a free connection and ends a
\* transaction at its limit.  Redis need not answer: a command waits as long as it
\* is down (redis.ts:5-7).  Clients, workers and failures are free.
FairSpec == Spec /\ \A r \in Jobs : WF_vars(Proceed(r))

-----------------------------------------------------------------------------
(* Properties. *)

\* "a burst of concurrent requests cannot overshoot the cap" (README.md:313):
\* the count and the insert act as one unit under the advisory lock, whatever
\* fails in between (jobs.ts:130-145).
PendingCapIsExact == \A u \in Users : Cardinality(PendingOf(u)) <= PendingCap

\* A 202 is a promise: the job's row and its queue entry are both there from
\* then on, so the job will be worked on (jobs.ts:189-207).
AcceptedIsKept ==
  \A r \in Jobs : reply[r] = "ACCEPTED" => status[r] # "ABSENT" /\ entry[r] # "none"

\* A pending row without an entry is worked on by nobody and fills its user's
\* cap (jobs.ts:200-205).
Orphans == {r \in Jobs : /\ status[r] \in Pending /\ entry[r] = "none"
                         /\ at[r] \notin {"enqueue", "undo"}}

\* Rows become orphans only in two ways, of which a refused enqueue is none: a false
\* report makes one, and the death of a gateway those of its requests that it
\* served between the commit and the end of the enqueue or of its undo.
OrphansHaveACause ==
  [][LET Made == Orphans' \ Orphans IN
     \/ Made = {}
     \/ lost' > lost /\ Cardinality(Made) = 1
     \/ /\ deaths' > deaths
        /\ \E g \in Gateways :
             \A r \in Made : On[r] = g /\ at[r] \in {"enqueue", "undo"}]_vars

\* The Idempotency-Key contract (README.md:184): all 2xx answers to one key of one
\* user name the same job, and that job exists, however the submissions race.
KeyNamesOneJob ==
  \A r \in Jobs :
    named[r] # NoJob =>
      /\ status[named[r]] # "ABSENT"
      /\ \A k \in Jobs : /\ Key[r] # NoKey /\ Key[k] = Key[r]
                         /\ Owner[k] = Owner[r] /\ named[k] # NoJob
                         => named[k] = named[r]

\* A submission is answered unless its process dies or Redis never answers it:
\* nobody waits for the user's lock or for the pool forever, not even behind
\* transactions that Redis leaves without a depth (jobs.ts:134-160).
AtRedis == {"rate", "late", "enqueue"}

EveryRequestEnds ==
  \A r \in Jobs :
    at[r] = "replay" ~> (at[r] \in {"answered", "cut"} \/ [](at[r] \in AtRedis))

\* A request that a rule or a limit refused has left nothing behind, so that the
\* client may send it again: neither row nor entry nor the user's lock
\* (jobs.ts:200-205, errors.ts:121-146).
RefusalLeavesNothing ==
  \A r \in Jobs : reply[r] \in Refusals \ {"ERROR"} =>
    /\ status[r] = "ABSENT" /\ entry[r] = "none"
    /\ lock[Owner[r]] # r

\* Whichever way a row came about, its text can be spoken: something besides
\* white space, within the limit, and at least half of it Bengali
\* (tts-text.ts:26-30, jobs.ts:123-128).
RowsAreSpeakable ==
  \A r \in Jobs : status[r] # "ABSENT" =>
    LET Share(class) == Cardinality({i \in DOMAIN Text[r] : Text[r][i] = class})
    IN /\ Text[r] # Malformed
       /\ Len(Text[r]) <= MaxTextLength
       /\ Share("bengali") > 0 /\ Share("bengali") >= Share("other")
=============================================================================
