# A verification development of the Bengali TTS service

TLA+ models of the service's own logic (the gateway in `src/gateway`, the worker in
`src/worker`), TLC configurations that check them on small instances, and TLAPS proofs of
the properties that matter most for every value of the parameters. Line numbers below refer
to the files under `src/`.

## 1. The system

A client registers, gets an API key and submits Bengali text. The gateway puts a row in
PostgreSQL and an entry with the same id in a BullMQ queue on Redis; a worker takes the entry,
synthesizes, uploads a WAV to object storage and writes the outcome into the row; the client
polls the row, or follows it on an event stream, and downloads the audio.

| Part | State it keeps | Operations | Hard because | Correct when |
|---|---|---|---|---|
| jobs table (`prisma/schema.prisma`, `worker/db.py`) | status, audio key, error, (user, idempotency key) | insert, delete, four guarded UPDATEs | several writers that know nothing of each other | a decision is never overwritten |
| job queue (`lib/queue.ts`, BullMQ) | lists, locks, attempts, stalls | add, take, finish, retry, stall check | locks lapse under a living holder; an entry is delivered again | no undecided job is forgotten, no job is delivered forever |
| synthesis worker (`processor.py`, `main.py`, `storage.py`) | its task, its one database connection, abandoned inference threads | `process`, `record_bypassed_failure`, start, stop | it may die, or lose lock or connection, between any two calls | each job is decided once, with a coherent result |
| submission (`routes/jobs.ts` 91-208) | the handler's step, an advisory lock, a transaction | replay check, rate gate, validation, count and insert, enqueue, undo | bursts of one user, racing retries, a commit and an enqueue that are two steps | the cap is exact, one key names one job, a 202 is kept |
| rate limiter (`lib/rate-limit.ts`) | a token bucket per user in Redis, with expiry | one Lua script | fractions, rounding, expiry, the clock | the rate is bounded (though not by the documented limit, section 6) and `Retry-After` is honest |
| event stream (`routes/jobs.ts` 237-297, `lib/sse.ts`) | an interval, polls in flight, the registry of streams | snapshot, poll, stop, close | polls overlap, clients leave, the gateway shuts down | the decision is the last event, nothing outlives its stream |
| shutdown (`server.ts`, `lib/shutdown.ts`) | listening, draining, gone | signal, drain, failsafe | requests and streams in flight | it ends, and takes nothing accepted with it |
| start and readiness (`server.ts`, `lib/storage.ts`, `routes/health.ts`) | attempts of the bucket bootstrap, probes in flight | bootstrap with retries, `/readyz` | gateways race for the bucket; deadlines race answers | only an outage ends a start (or hangs it: its calls have no deadline), a 200 was true, no probe hangs |
| history and audio (`routes/jobs.ts` 210-235, 299-322) | none (cursor and links are the client's) | list a page, show a job, fetch audio | rows come, change and go between pages; storage fails in ways that may and may not be retried | every lasting row is listed once, a link leads to its audio |
| metrics (`lib/metrics.ts`) | a watermark of observed completions | scrape | scrapes overlap; rows commit late | every duration is observed once |
| accounts and keys (`routes/auth.ts`, `routes/keys.ts`, `middleware/auth.ts`) | users, keys | register, create, list and revoke keys, present a key | two registrations of one email; revocation under a request | one user per email; a revoked key opens nothing new |
| text rules (`lib/tts-text.ts`), errors (`lib/errors.ts`) | none | pure functions | a share of exactly one half; refusals from many places | no row holds a text that breaks the rules; each refusal has its status |
| validation, configuration, logs, engines | none | pure functions and I/O | | |

The parts meet in three places: the **row** (written by submission and workers, read by
everything else), the **queue entry** with the row's id, and the **gateway process** whose end
cuts requests and streams. There is no other channel; the workers never talk to the gateway.

## 2. Modules

| Module | Models | Lines of code |
|---|---|---|
| `JobIds` | the ids that table and queue share | `lib/queue.ts` 62-63 |
| `JobTable` | one operator per SQL statement, with the guard the worker's UPDATEs carry | `worker/db.py`, `schema.prisma` 21-46 |
| `JobQueue` | the contract of BullMQ that the code relies on | `lib/queue.ts` 52-89; the library is external |
| `Worker` | workers, table and queue together | `processor.py`, `main.py`, `storage.py` |
| `JobOutcome` | the abstract promise of a job to its owner | |
| `Submission` | any number of `POST /v1/tts` in flight | `routes/jobs.ts` 48-208 |
| `RateLimiter` | one user's bucket | `lib/rate-limit.ts` |
| `StatusStream` | event streams of one job, the registry, the shutdown | `routes/jobs.ts` 237-297, `sse.ts`, `shutdown.ts`, `server.ts` 35-54 |
| `Accounts` | registrations, key management and uses of keys in flight | `routes/auth.ts`, `routes/keys.ts`, `routes/me.ts`, `middleware/auth.ts`, `lib/api-keys.ts` |
| `JobReads` | one user's listing and audio while the table moves | `routes/jobs.ts` 210-235, 299-322, `lib/storage.ts` 48-65, 98-113 |
| `Metrics` | scrapes of the duration histogram | `lib/metrics.ts` 61-85 |
| `Readiness` | gateways that start and answer `/readyz` | `lib/storage.ts` 37-46, 67-96, `routes/health.ts`, `server.ts` 13-33 |
| `TtsText` | the three text rules | `lib/tts-text.ts` |
| `Refusals` | refusals and their HTTP statuses | `lib/errors.ts` |
| `MCWorker`, `MCSubmission`, `MCRateLimiter`, `MCStatusStream`, `MCAccounts`, `MCJobReads`, `MCMetrics`, `MCReadiness` | small instances for TLC | |
| `WorkerProofs`, `SubmissionProofs`, `RateLimiterProofs`, `StatusStreamProofs`, `AccountsProofs`, `JobReadsProofs`, `MetricsProofs`, `ReadinessProofs` | theorems | |

`PROJECT.json` maps every definition to its lines. Some definitions stand before the one they
resemble (`AnyRow` before `NotTerminal`, `GoOn` before `Conclude`): they are the plausible bugs
with which each property is tried, and no specification uses them.

### Worker

A step is one call that leaves the process: a query, an upload, the wait for the inference
thread, a queue move. `pc[w]` is the point of the handler at which worker `w` waits.

- `Fetch` is BullMQ calling the processor, or, for an entry that stalled too often, failing it
  at once and emitting the event that `record_bypassed_failure` handles (`Inspect`, `Record`).
- `Load`/`Skip` is the read and the two early returns; `Activate` stands outside the `try` as in the
  code; `Synthesize` and `TimeOut` are the two ends of `wait_for`; `Upload`, `Complete`,
  `RecordTimeout`, `Recover` are the rest of `process`; `Settle` is what BullMQ does with its end.
- `Query` is a statement on the process's only connection: answered, or the connection drops
  under it (before or after the server applied it), or it was lost before: `main.py` opens it
  once and psycopg does not reconnect.
- `abandoned[w]` counts timed-out inference threads. They cannot be stopped, and a full executor
  leaves later inferences nothing but their timeout.
- `Crash`, `Stop`, `Start`, `Expire` (a lock lapses under a living worker), `Recheck` (the stall
  check) and `Retry` (the backoff) may come between any two steps.
- `Withdraw` is the gateway's undo of a submission whose add took effect but was not confirmed.

`JobOutcome` says what all this amounts to: a job is accepted once, decided at most once, a
decision is never changed, a completed job has audio. `KeepsPromise` is the refinement.

### Submission

Requests and job ids are one set, since a request creates at most one row. `at[r]` is the next
step of the handler; the steps between `lock` and `insert` are the transaction, which holds one of
`PoolSize` connections of its gateway `On[r]` and, from `count` on, the user's advisory lock. A step is
one round trip. `Die(g)` is the death of a gateway (or its shutdown failsafe): it cuts all the requests that
gateway serves at once, takes their locks and leaves what was committed. `TimeOut` is Prisma's limit for a
transaction whose callback waits for Redis (`depth`): the engine rolls it back, lock and connection are free, and the handler
still waits, at `late`, for a depth that can only end in an error (`LateDepth`). `lost` counts the
times something happened although an error was reported, or the reverse: a commit
whose acknowledgement is lost, an add whose reply is lost, an undo whose own error is swallowed.
`Unavailable` is any dependency that fails a request. What waits for Redis (`AskRedis`) stands apart from what
waits for Node, Prisma or PostgreSQL (`Proceed`), because Redis may be waited for without end. The workers are here only what they do to
rows and entries. `Validate` asks `TtsText` for its verdict, where a text is a sequence of
classes of code points.

### RateLimiter

The Lua script is one atomic step (`Allow` or `Reject`). A token is worth `Minute` units and a tick
refills `Limit` units, so that the script's fractions are whole numbers; what is left out is the
rounding of doubles. `Evict` is the key's expiry, `StepBack` a clock that is set back, `Lose` a Redis
that restarts without the key. `since[t]` counts what was let through after `t` ticks of real
time, and `due` is when the earliest `Retry-After` still outstanding has passed.

### StatusStream

The row's life is a sequence of statuses and a read is a position in it, so that stale answers
can be told from fresh ones. `Poll` starts a query whether or not the last one was answered, `Read`
is the database, `Found`/`Missing`/`PollFails` are the continuations, which may run in another order
than the reads. `Snapshot` runs after the ownership lookup's await, whatever happened meanwhile: a
client that left during the lookup has no close listener (jobs.ts:296), a shutdown that ran has
already emptied the registry (sse.ts:19). `Shutdown` may come twice (SIGTERM, then SIGINT).

### Accounts

A request also names the row it may insert: a registration its user, a `POST /v1/keys` its key.
Passwords are abstracted: each registration sends its own, so that `holder[e]` says whose password
opens the account of `e`. `FindEmail` and `CreateUser` are two steps, with the hashing of the
password between them; `LookUpKey` and `Touch` are two steps too, because the write of
`last_used_at` is not awaited and lands whatever became of the key. `late` remembers which uses
were sent after a 204 for their key. A statement may take effect although its reply is
lost (`DatabaseError` next to `Created` and `NoContent`).

### JobReads

Rows are written by `Submit`, `Undo` and `Work`, which are the statements of `JobTable` without the
handlers around them. `Stamp` gives a row its `created_at` before the commit that shows it, so that rows may
appear in the middle of the order. `ReadPage` is one page, cut out of one query of `limit + 1` rows; a
cursor whose row is gone positions nowhere and gives an empty page, which ends the listing. The client
follows links it was shown once (`FollowLink`), with the table as it is then, or finds the database failing the
lookup, a 500; a failure of the database under `ReadPage` or `ReadJob` is a 500 too, shows nothing and changes nothing, and is left out.
The object was uploaded
before the row was COMPLETED (`ResultIsBacked` of `Worker`) and nothing deletes it, so that storage can fail to answer
but cannot miss it; `heard` is what the last read brought.

### Metrics

`Decide` and `Commit` are two steps because `completed_at = now()` is taken when the UPDATE begins, before
anyone can read it. A scrape is sent with the watermark of that moment (`Ask`), answered (`Read`), and
observed in one go (`Observe`). `overlapped` and `overtaken` remember the two circumstances under which
the sentence in the code is not true. The first watermark is the gateway's clock, which may be off.

### Readiness

`Head` and `Create` are the two calls of one attempt of `ensureBucket`; the pauses between attempts
are no steps. `outages` counts the attempts in which storage really did not answer, to tell them from those
lost to another gateway that created the bucket between the two calls; a storage that refuses counts as one that does not
answer. `Hang` is a call that storage takes and leaves without an answer: the client sets no timeout, so this start waits for good.
A probe ends by an answer, an error or the
deadline, whichever comes first; `met` collects the dependencies that were reachable while it ran.

## 3. Runs

| Run | Asks | Bounds | Result |
|---|---|---|---|
| `WorkerRace` | one job and everything that can happen to it | 1 job, 2 workers, 2 attempts, 1 forgiven stall, 2 exits, 2 lapsed locks, 1 dropped connection, 1 withdrawal | holds |
| `WorkerProgress` | is each job decided in the end | 1 job, 2 workers, 3 attempts, 1 exit, 1 lapsed lock | holds under fairness |
| `SubmitBurst` | cap, acceptance, refusal and orphans under a burst | 4 requests of 2 users on 2 gateways, cap 2, capacity 2, 2 connections each, one each of death, refused add, false report | holds |
| `SubmitRetry` | one key, four submissions; what texts get a row | texts: two equal, one missing, one with exactly too little Bengali; 2 gateways with 1 connection each, 2 deaths; Redis late or silent | holds, with liveness |
| `RateBucket` | bounded rate, harmless expiry, honest `Retry-After` | 2 tokens, minute of 5 ticks, second of 2, 10 ticks, 1 step back, 1 lost key | holds |
| `StreamWatch` | one stream, two polls in flight | 3 status changes | holds, with liveness |
| `AccountKeys` | who owns an email, what a revocation is worth | 2 emails, 2 registrations, 3 management requests, 2 uses | holds |
| `ScrapeOnce` | is each duration counted once | 3 jobs, 2 scrapes, 3 ticks, clock off by one, 1 restart | holds |
| `HistoryAndAudio` | is each job listed once, does each link lead to its audio | 3 jobs, pages of 1 or 2, 2 instants, 1 undone submission | holds |
| `StartAndReady` | do gateways start, is `/readyz` honest and quick | 2 gateways, 3 dependencies, 2 changes of them | holds, with liveness |
| `WorkerLostLink`, `SubmitForgotten` | a sentence of the repository | | violated, see section 6 |

Why these bounds reach the interesting cases:

- *Worker.* Jobs share nothing but the workers: with one job and two workers, every race between two
  handlers of one entry occurs, and a third handler would need a further lapse of the same
  kind. Two attempts separate first from last; one forgiven stall and two exits or lapses reach
  the deferred failure; three attempts in `WorkerProgress` give retries a middle. Both workers may be
  down at once, and the dropped connection may hit any query, before or after its effect. With one
  job no second inference is started behind an abandoned one, so that `EveryJobIsDecided` does not show what a full
  executor does to the jobs behind it; with two jobs and the same faults the run would not finish in its time.
- *Submission.* The cap of two is reached by three requests of one user while the fourth
  request, of another user, competes for pool and queue. One gateway death, one refused add
  and one false report may all fall into one behaviour, and a gateway that dies serves several requests, so that one death can
  orphan two rows. In `SubmitRetry` two equal submissions
  race, and the other two exercise the comparison with the stored text; with one connection to a gateway, whoever holds it
  or the lock may be the one that Redis leaves waiting. Texts that are empty or too long are in no run: `RowsSpeakable` covers them.
- *RateLimiter.* A minute of five ticks with two tokens gives a refill that is no whole number
  of tokens per tick and waits that are not whole seconds, so that both roundings matter; ten
  ticks see the bucket emptied, expired and filled again.
- *StatusStream.* Streams touch only through the registry and the shutdown, of which one stream
  sees every order. Two polls in flight overtake each other; three changes bring a status back to a
  former one (QUEUED, ACTIVE, QUEUED), where a stale answer looks like news. The property of the
  order is about streams whose polls never overlapped; with overlap it is false (section 6).
- *Accounts.* Two registrations of one email race; of three management requests one creates a key and two
  revoke it, or two create and one of the other user revokes; a use presents the key before, between or
  after, and its late write lands after the revocation.
- *JobReads.* Pages of one or two jobs out of three give listings of one to three pages, with the last page full or not; two
  instants make equal and different stamps. One undone job is enough to lose a cursor. Each job is
  decided, and goes back to QUEUED and ACTIVE, at any point of the listing.
- *Metrics.* Three jobs with two different stamps give a row already read, one that ties with it and one behind it; two
  scrapes see the same and different watermarks.
- *Readiness.* The seven attempts are the code's own number. Two gateways are the smallest race for the bucket;
  two changes let storage go and come back between any two calls.

Symmetry is used only in runs without liveness (interchangeable workers; the two requests of one
user on one gateway; emails and requests of one kind in `AccountKeys`; jobs and scrapes in `ScrapeOnce`). All runs switch the deadlock check off because the system may really stop: every
job decided, every request answered, all bounds spent, no process up.

**Fairness.** `WorkerProgress`: a living worker goes on with its handler and fetches, the stall
check and the backoff timer fire (`WF` on `Handle`, `FetchSome`, `Recheck`, `Retry`). Nothing makes
a client submit, a dead process start or a thread end. The run's single exit cannot take both
workers, and no connection drops: with neither a worker nor a connection no job can be decided,
which `WorkerLostLink` shows. What a handler calls (PostgreSQL, storage, Redis) is taken to answer or to fail. `SubmitRetry`: Node runs every handler that can move, PostgreSQL answers or fails a statement, Prisma
gives out a free connection and ends a transaction at its limit (`WF` on `Proceed`); the lock and the pool need no stronger fairness because a request that can hold them also
releases them. Nothing is assumed of Redis: `maxRetriesPerRequest: null` (redis.ts:5-7) makes a command wait as long as Redis is down, so
`AskRedis` has no fairness, and the property exempts the request that is left waiting there, but not those behind it. `StreamWatch`: the interval fires, the database answers or fails, Node closes ended responses, and the
shutdown's failsafe fires. `StartAndReady`: a call to storage ends or hangs (`Hang`, which ends the hope for that start), and the pauses between
attempts elapse (`WF` on `Start`); deadlines fire and handlers go on (`WF` on `Probe`); no dependency has to answer. No fairness is assumed of workers, clients or signals.

## 4. What the properties say

- `DecisionIsFinal`, `KeepsPromise`: a worker that lost its lock and finishes late changes nothing.
- `ResultIsBacked`: COMPLETED comes with an uploaded object, FAILED with an error and no key.
- `CompletedEntryIsDecided`: the early return on a terminal row never completes the entry of an
  undecided job. `FailedEntryIsDecided`: what the queue gave up on is decided, or a worker is about to.
- `DeliveriesBounded`: at most `Attempts + MaxStalled` deliveries.
- `EveryJobIsDecided`: liveness, through timeouts, retries, a crash and the over-stall path.
- `PendingCapIsExact`, `AcceptedIsKept`, `KeyNamesOneJob`. `AcceptedIsKept` says that the gateway and the workers keep the
  entry; a Redis that loses it afterwards is outside the model.
- `EveryRequestEnds`: a submission past its key header is answered, unless its gateway dies or Redis never answers
  this very request; nobody waits for good for a lock or a connection that such a request held.
- `OrphansHaveACause`: a step that leaves pending rows without an entry is a false report, which leaves one, or the death of the gateway
  that served their requests between commit and enqueue, which may leave several; never a refused add or a worker.
- `RefusalLeavesNothing`: a request that was refused has left no row, no entry and no lock. `RowsAreSpeakable`:
  no row holds a text that is empty, too long or less than half Bengali.
- `RateIsBounded`: any stretch of `t` ticks admits at most a bucketful and the gain of `t` ticks, so up
  to twice the limit in a minute that starts full; each lost key adds a bucketful. It holds even with a clock
  that is set back. This is the bound of the code; the documented one does not hold (section 6). `ExpiryForgetsNothing` and `RetryAfterIsHonoured` need a clock
  that is not set back, and say so.
- `TerminalIsLast`, `HubHoldsLive`, `EventsKeepOrder`, `StreamIsReleased`: see the comments in `StatusStream`.
- `CreatedOpensAccount`: of racing registrations at most one is told 201, and its password opens the account.
  `RevocationStands`, `RevokedIsRefused`: one 204 per key, to its owner; who presents the key after it is
  never served, and no late write brings it back.
- `NoJobListedTwice`, `LastingJobsAreListed`: a listing shows a job at most once, and exactly once if its row
  was there throughout and no cursor was lost. `LinkLeadsToAudio`: an `audioUrl` is never answered with "failed" or "not ready"; it fails
  for a row that is gone, a lookup that failed in the database, a storage that failed three times on end, or a refusal of storage, which is not asked again.
- `NoJobCountedTwice`, `OnlyOvertakenAreMissed`: the two halves of "counted once per process lifetime", each with the
  circumstance under which it fails.
- `StartIsHonest`: a gateway listens only over an existing bucket and exits only after an outage; a lost race costs
  one attempt. `ReadyIsEarned`: a 200 says that each dependency was there at some moment of the request.
  `NobodyWaitsForever`: every probe ends, and every start that storage does not leave without an answer.

## 5. Proofs

All theorems hold for any values of the constants that satisfy the named assumptions.

**`WorkerProofs`.** `TypeCorrect` needs the type invariant strengthened by the worker's points (a
worker that handles something has a task). The safety theorems come from one inductive `Inv`: rows
are backed; a worker past its upload has uploaded; one that is about to report success has seen
or made its row decided, and since decided rows stay so, it still is when the queue move comes; the
deliveries made so far are accounted for by the attempts used, the stalls counted and the lock
held. None of the checked invariants is inductive without these. `DecisionsAreFinal` follows from the
shape of the table's statements (`MarkGuard`). `PromiseIsKept` is the refinement of `JobOutcome`: each step maps to one
of its actions or a stutter, and the only case that needs `Inv` is a completion, whose upload must already be there.
`FailuresRecorded` says that what the queue gave up on is decided, or a listener is about to decide it. Two
things break it in the code: a connection that drops (`WorkerLostLink`) and a process that dies in the listener; the
theorem excludes both (`MaxFaults = 0`, `ListenerSurvives`) and nothing else. Its invariant `FailInv` knows that the holder
of an entry has read the attempts made so far, so that whoever lets BullMQ give the entry up has
recorded the failure first. `FailuresRecordedInBudget` trades `ListenerSurvives` for a count: each stall costs a death or a lapse
(`PaidInv`), and with at most `MaxStalled + 1` of them none is left for the process whose listener runs.

**`SubmissionProofs`.** `PendingCapExact`: a request between `count` and `insert` holds its user's lock (so
it is the only one), and a request past `depth` still sees room; only an insert adds a pending row, and
it fills the room its holder saw. `AcceptedKept`: whoever is at `reply` or was answered 202 has row and entry, and the
undo is reached only by a request that never replies 202. `KeysNameOneJob` assumes that no enqueue is
refused and no report lost (`Reliable`); it is false otherwise (`SubmitForgotten`), and holds whatever
processes die. `OrphansCaused` looks at each step: a request's own step orphans at most its own row, and only by a false report; a worker touches only rows
with an entry; a death (`DeathOrphans`) orphans what its gateway served between commit and enqueue, and nothing else. `RefusalsLeaveNothing`: up to the insert a request is
clean, every refusal comes from there, and whoever holds a lock is in a transaction. `RowsSpeakable` carries the verdict from
`Validate` through the transaction to the row; `RulesHold` is what the verdict means for a text of any length.

**`RateLimiterProofs`.** The invariant is a potential: the cost of what was let through since `t` and what is available
never exceed what is due by then, a bucketful and the gain since `t` and the losses' share (`Covered`). `RateBounded` holds with a clock
that is set back any number of times, and that needs a second bound: a clock set back may leave the bucket in debt, which the
key's expiry forgives, so that the first bound alone is not inductive. But the same potential holds with the gain since
the last write (`IdleGain`) in place of what is available, and at the deadline that gain is a bucketful. The other two theorems are about a
clock that is not set back: a bucket is then full at its deadline (`FullAtDeadline`), and the tokens left and
the gain until the promised moment make a whole token (`Promised`). The products are named (`Gain`, `Cost`, `Credit`), which
leaves only linear steps to the provers.

**`StatusStreamProofs`.** One invariant about each stream by itself (`One`), the registry being the only thing streams share:
the registry holds a stream exactly while it polls and was not ended, even one whose client left before the close listener was
there; a stream that was not ended has been shown no decision; a poll in flight holds a version no newer than the row, and an older one than what was sent only
if polls have overlapped. `DecisionIsLast` needs all of these, since a poll sent before the decision may be answered after it.

**`AccountsProofs`.** The invariant says where each kind of request may be and what it has brought, that a key
has no owner until its own request creates it, and that a 204 names a key that is revoked by that very request.
`RevokedRefused` follows because a use in `late` found its key revoked when it was sent, and no step sets
`revokedBy` back: the delayed write of `last_used_at` leaves it alone.

**`JobReadsProofs`.** The order of the history is a strict total order (`AboveOrder`), so that a finite set of rows has a
highest one, `Top` is closed upwards, and a page and the rows after it are apart (`PageOf`, `OnePage`). `NeverListedTwice`: what was
listed lies at or above the cursor, and the cursor only descends. `NothingSkipped`: a job that was there throughout has been
listed or lies below the cursor (`LeftBelow`); stamps are fixed before rows show, so that no job changes its
place. `LinksHold` needs that a link is shown only for a COMPLETED row, and that this stays so until an undo; and that a refused read ends the fetch.

**`MetricsProofs`.** `CountedOnce` rests on the turns a job has left: a scrape in flight whose watermark is below the job's
stamp may still count it, and counts plus turns never exceed the scrapes (`TurnsLeft`); without overlap, who was counted lies at or
below the watermark of the next query (`Passed`, `Alone`). `MissedAreOvertaken`: an answer is gapless below its newest
row (`Whole`), except for rows that committed too late to be in it, and the watermark moves no further than that row.

**`ReadinessProofs`.** An attempt is spoiled when another gateway creates the bucket between its two calls.
From then on the bucket is there, so that a second `CreateBucket` needs a storage that did not answer
`HeadBucket`; a start that hangs makes no attempt more. Hence at most one attempt is spoiled, whatever the number of gateways. `ReadyEarned` rests on
`met` covering what is reachable as long as the request runs.

**Only model-checked.** All liveness (`EveryJobIsDecided`, `EveryRequestEnds`, `StreamIsReleased`,
`NobodyWaitsForever`): liveness under fairness is out of the prover's reach. `FailedEntryIsDecided` under a crash of
the listener beyond the budget above is neither checked nor proved: it is false there. Every other property of a run
is a theorem; `KeyNamesOneJob` is one for `Reliable` constants, as in its run.

## 6. Where code and text disagree

Two are the counterexamples of runs (`PROJECT.json`, "findings"):

- `WorkerLostLink`: after its connection drops a worker keeps consuming jobs whose rows it can no longer
  fail, against README.md:146.
- `SubmitForgotten`: a retry answered from a row whose own enqueue then fails names a job that the
  undo deletes, against README.md:184.

Seen while modelling, without a run of their own; the models have each of these behaviours and the
properties make room for it:

- A bucket that is full is refilled while it is spent, so that a user who was idle gets up to twice the limit through in a minute
  (`RateIsBounded` is that bound). README.md:325 makes `TTS_RATE_LIMIT_PER_MINUTE` "submissions per minute" one of the gates'
  "explicit promises", README.md:417 says "the per-user promises are exact", and CONTEXT.md:47 calls it a "cap on submission
  requests per minute"; only the comment at rate-limit.ts:7-8 mentions "a burst after idle time".
- "A redelivery never synthesizes or uploads twice" (processor.py:15-17) holds only for redeliveries that
  find the row terminal. The second upload goes to the same key, so that nothing worse follows.
- "A crash never strands a Job in ACTIVE forever" (PRD.md:58) fails for a crash between the queue's failing of an
  over-stalled entry and the listener's UPDATE.
- A gateway that dies leaves each row it has committed and not enqueued without the entry, which jobs.ts:201-202 sets
  out to avoid; each counts against its user's cap for good (`OrphansHaveACause` says that little else does this).
- A Redis that is down raises no error: it is waited for (redis.ts:5-7), so that a submission hangs where rate-limit.ts:47-49 says it
  "surfaces as a 500". Behind the depth check Prisma's limit frees the lock and the connection, and the handler waits on.
- A storage that accepts the bootstrap's call and stays silent holds the start for good: no S3 call at boot has a timeout
  (storage.ts:11-22, 71-85), so neither the "about fifteen seconds" nor "refusing to start" of storage.ts:37-42 comes about.
- "Bounded by the connection pool" (jobs.ts:151-152) misses the transactions that have committed but not
  enqueued yet.
- The loser of two racing registrations gets a 500 from the untranslated unique violation (auth.ts:25), where
  README.md:266 promises `EMAIL_TAKEN`. `CreatedOpensAccount` says what does hold.
- "Each job is counted once per process lifetime" (metrics.ts:61-63) fails twice: overlapping scrapes observe the same
  rows, and a row that commits behind one already read is never observed.
- A listing whose cursor row is undone ends early, without an error (jobs.ts:214); a row may be undone after a
  worker has decided it, so that an `audioUrl` once shown answers 404.
- Overlapping polls may report statuses in another order than the row had them (jobs.ts:268). A stream whose lookup
  was in flight when the shutdown began is registered after `closeAll` and holds the drain until the
  failsafe (sse.ts:19).
- An abandoned inference overlaps the next one; the table admits QUEUED to FAILED, which the README's
  diagram does not draw.

## 7. Not modelled

- What an inference computes, the WAV format, request schemas and error bodies, logging, configuration: no state.
- The gauges and counters of `lib/metrics.ts` and its HTTP timings: one reading or one increment each.
- Passwords, hashes and formats of keys: a password opens the account it was registered with, a hash finds
  its row. What a cursor of another user's job does is Prisma's affair, and left out: a listing uses its own cursors.
- `/healthz` answers a constant. The load test, smoke test and compose files are tooling.
- BullMQ, PostgreSQL, Redis and Node are external: modelled as the code uses them.

## 8. Plan

Order of work; the first four blocks are done.

1. `JobTable`, `JobQueue`, `Worker` refining `JobOutcome`; `Submission`; `RateLimiter`; `StatusStream`; their runs
   and theorems.
2. `Accounts`, `JobReads`, `Metrics`, `Readiness`, `TtsText`, `Refusals` and their runs.
3. Proofs about `Accounts` and `Readiness`.
4. Proofs about `StatusStream`, `JobReads` and `Metrics`, and of the remaining invariants of `Submission` and `Worker`.
5. A composition of `Submission` and `Worker` over one table and queue, to discharge what each assumes
   of the other (the workers of `Submission`, the `Submit` and `Withdraw` of `Worker`).
