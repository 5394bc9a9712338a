------------------------------ MODULE Metrics ------------------------------
(***************************************************************************)
(* The job duration histogram of GET /metrics (src/gateway/src/lib/metrics.ts *)
(* :61-85): each scrape reads the rows whose completed_at is past a watermark  *)
(* the process keeps in memory, observes them, and moves the watermark.       *)
(*                                                                         *)
(* The watermark starts from the gateway's clock, completed_at is the          *)
(* database's when the UPDATE begins, and the row shows when it commits.       *)
(***************************************************************************)
EXTENDS Integers, FiniteSets

CONSTANTS
  Jobs,
  Scrapes,       \* GET /metrics requests that may be served together
  Skews,         \* how far the gateway's clock may be off the database's
  MaxTime,       \* bound: the database's clock
  MaxBoots       \* bound: restarts of the gateway

ASSUME BoundsAssumption ==
  /\ MaxTime \in Nat /\ MaxBoots \in Nat /\ Skews \subseteq Int
  /\ IsFiniteSet(Scrapes)

VARIABLES
  now,           \* the database's clock
  row,           \* row[j]: "pending", "deciding" (the UPDATE runs) or "decided"
  started,       \* the jobs whose started_at is set
  completedAt,   \* completedAt[j]: the stamp of the UPDATE that decides j
  boot,          \* where the watermark of this process began
  observedUpTo,  \* the watermark
  stage,         \* stage[s]: "idle", "asked" or "read"
  bound,         \* bound[s]: the watermark the query of s was sent with
  found,         \* found[s]: the rows it was answered
  observed,      \* observed[j]: how often this process has counted j
  overlapped,    \* two scrapes of this process were in flight together
  overtaken,     \* jobs that were committed behind a row already read
  boots

database == <<now, row, started, completedAt>>
scrape   == <<stage, bound, found>>
process  == <<boot, observedUpTo, observed, overlapped, overtaken>>
vars     == <<database, scrape, process, boots>>

Times == 0..MaxTime

TypeOK ==
  /\ now \in Times
  /\ row \in [Jobs -> {"pending", "deciding", "decided"}]
  /\ started \subseteq Jobs
  /\ completedAt \in [Jobs -> Times]
  /\ boot \in Int /\ observedUpTo \in Int /\ boot <= observedUpTo
  /\ stage \in [Scrapes -> {"idle", "asked", "read"}]
  /\ bound \in [Scrapes -> Int]
  /\ found \in [Scrapes -> SUBSET Jobs]
  /\ observed \in [Jobs -> Nat]
  /\ overlapped \in BOOLEAN /\ overtaken \subseteq Jobs
  /\ boots \in 0..MaxBoots
  /\ \A s \in Scrapes : bound[s] <= observedUpTo

\* createMetrics: nothing observed yet, the watermark at the gateway's now.
Init ==
  /\ now = 0
  /\ row = [j \in Jobs |-> "pending"]
  /\ started = {}
  /\ completedAt = [j \in Jobs |-> 0]
  /\ boot \in Skews
  /\ observedUpTo = boot
  /\ stage = [s \in Scrapes |-> "idle"]
  /\ bound = [s \in Scrapes |-> boot]
  /\ found = [s \in Scrapes |-> {}]
  /\ observed = [j \in Jobs |-> 0]
  /\ overlapped = FALSE /\ overtaken = {}
  /\ boots = 0

-----------------------------------------------------------------------------
(* The database and the workers' UPDATEs. *)

Tick ==
  /\ now < MaxTime
  /\ now' = now + 1
  /\ UNCHANGED <<row, started, completedAt, scrape, process, boots>>

MarkActive(j) ==
  /\ row[j] = "pending"
  /\ started' = started \cup {j}
  /\ UNCHANGED <<now, row, completedAt, scrape, process, boots>>

\* mark_completed or mark_failed begins: completed_at = now().
Decide(j) ==
  /\ row[j] = "pending"
  /\ row' = [row EXCEPT ![j] = "deciding"]
  /\ completedAt' = [completedAt EXCEPT ![j] = now]
  /\ UNCHANGED <<now, started, scrape, process, boots>>

\* It commits, maybe after a row with the same or a later stamp was read.
Behind(j) ==
  \/ completedAt[j] <= observedUpTo
  \/ \E s \in Scrapes : \E k \in found[s] : completedAt[j] <= completedAt[k]

Commit(j) ==
  /\ row[j] = "deciding"
  /\ row' = [row EXCEPT ![j] = "decided"]
  /\ overtaken' = IF Behind(j) THEN overtaken \cup {j} ELSE overtaken
  /\ UNCHANGED <<now, started, completedAt, scrape, boot, observedUpTo, observed,
                 overlapped, boots>>

-----------------------------------------------------------------------------
(* A scrape. *)

\* collect() sends its query with the watermark of this moment.
Ask(s) ==
  /\ stage[s] = "idle"
  /\ stage' = [stage EXCEPT ![s] = "asked"]
  /\ bound' = [bound EXCEPT ![s] = observedUpTo]
  /\ overlapped' = (overlapped \/ \E i \in Scrapes : stage[i] # "idle")
  /\ UNCHANGED <<database, found, boot, observedUpTo, observed, overtaken, boots>>

NotOlder(s) == {j \in Jobs : row[j] = "decided" /\ completedAt[j] >= bound[s]}
Newer(s)    == {j \in Jobs : row[j] = "decided" /\ completedAt[j] > bound[s]}

\* The database answers; started_at must be set.
Read(s) ==
  /\ stage[s] = "asked"
  /\ stage' = [stage EXCEPT ![s] = "read"]
  /\ found' = [found EXCEPT ![s] = Newer(s) \cap started]
  /\ UNCHANGED <<database, bound, process, boots>>

\* The query fails, and with it the scrape; nothing was observed.
Fail(s) ==
  /\ stage[s] = "asked"
  /\ stage' = [stage EXCEPT ![s] = "idle"]
  /\ UNCHANGED <<database, bound, found, process, boots>>

\* The loop over the rows runs in one go: observe each, keep the largest stamp.
Latest(stamps) == CHOOSE t \in stamps : \A u \in stamps : u <= t
Stamps(s)      == {completedAt[j] : j \in found[s]}
LastRow(s)     == IF found[s] = {} THEN observedUpTo ELSE CHOOSE t \in Stamps(s) : TRUE
SkipToNow(s)   == Latest({observedUpTo, now})
Raised(s)      == Latest({observedUpTo} \cup Stamps(s))

Observe(s) ==
  /\ stage[s] = "read"
  /\ stage' = [stage EXCEPT ![s] = "idle"]
  /\ found' = [found EXCEPT ![s] = {}]
  /\ observed' = [j \in Jobs |-> IF j \in found[s] THEN observed[j] + 1 ELSE observed[j]]
  /\ observedUpTo' = Raised(s)
  /\ UNCHANGED <<database, bound, boot, overlapped, overtaken, boots>>

\* The gateway is restarted: counters and watermark begin again.
Restart ==
  /\ boots < MaxBoots
  /\ boots' = boots + 1
  /\ boot' \in {now + skew : skew \in Skews}
  /\ observedUpTo' = boot'
  /\ stage' = [s \in Scrapes |-> "idle"]
  /\ bound' = [s \in Scrapes |-> boot']
  /\ found' = [s \in Scrapes |-> {}]
  /\ observed' = [j \in Jobs |-> 0]
  /\ overlapped' = FALSE /\ overtaken' = {}
  /\ UNCHANGED database

-----------------------------------------------------------------------------
Next ==
  \/ Tick \/ Restart
  \/ \E j \in Jobs : MarkActive(j) \/ Decide(j) \/ Commit(j)
  \/ \E s \in Scrapes : Ask(s) \/ Read(s) \/ Fail(s) \/ Observe(s)

Spec == Init /\ [][Next]_vars

-----------------------------------------------------------------------------
(* Properties. *)

\* "Each job is counted once per process lifetime" (metrics.ts:61-63), the one
\* half: never twice while no two scrapes overlap, and never more often than
\* scrapes can be in flight when they do.
NoJobCountedTwice ==
  \A j \in Jobs : observed[j] <= (IF overlapped THEN Cardinality(Scrapes) ELSE 1)

\* The other half: the watermark passes no started job that was decided in this
\* process's time without counting it, except one that was committed behind a
\* row already read.
OnlyOvertakenAreMissed ==
  \A j \in started \ overtaken :
    row[j] = "decided" /\ boot < completedAt[j] /\ completedAt[j] <= observedUpTo
      => observed[j] >= 1
=============================================================================
