----------------------------- MODULE Readiness -----------------------------
(***************************************************************************)
(* Gateways that start and tell whether they are ready: the bucket bootstrap   *)
(* before listening (server.ts:21-31, lib/storage.ts:71-85) and GET /readyz    *)
(* (routes/health.ts), over dependencies that come and go.                    *)
(***************************************************************************)
EXTENDS Integers

CONSTANTS
  Gateways,
  Dependencies,  \* PostgreSQL, Redis and Storage
  Storage,
  MaxFlips       \* bound: changes of a dependency between reachable and not

ASSUME DependenciesAssumption == Storage \in Dependencies /\ MaxFlips \in Nat

\* BUCKET_BOOTSTRAP_RETRY: a first attempt and six more.
MaxAttempts == 7

VARIABLES
  reachable,     \* the dependencies that answer
  flips,
  bucket,        \* does the bucket exist
  stage,         \* stage[g]: the next call, or how the start ended
  attempts,      \* attempts[g]: attempts of ensureBucket that failed
  outages,       \* outages[g]: those in which storage did not answer a call
  missed,        \* missed[g]: it did not answer the HeadBucket of this attempt
  check,         \* check[g]: "idle", "asked", "ready" or "unavailable"
  word,          \* word[g][d]: what the probe of d came to, "waiting" before
  met            \* met[g]: dependencies reachable at some time of the last request

world == <<reachable, flips>>
boot  == <<bucket, stage, attempts, outages, missed>>
probe == <<check, word, met>>
vars  == <<world, boot, probe>>

Stages == {"head", "create", "listening", "exited", "hung"}

TypeOK ==
  /\ reachable \subseteq Dependencies /\ flips \in 0..MaxFlips
  /\ bucket \in BOOLEAN
  /\ stage \in [Gateways -> Stages]
  /\ attempts \in [Gateways -> 0..MaxAttempts]
  /\ outages \in [Gateways -> 0..MaxAttempts]
  /\ missed \in [Gateways -> BOOLEAN]
  /\ check \in [Gateways -> {"idle", "asked", "ready", "unavailable"}]
  /\ word \in [Gateways -> [Dependencies -> {"waiting", "ok", "unreachable"}]]
  /\ met \in [Gateways -> SUBSET Dependencies]
  /\ \A g \in Gateways : outages[g] <= attempts[g]

Init ==
  /\ reachable \in SUBSET Dependencies /\ flips = 0
  /\ bucket = FALSE
  /\ stage    = [g \in Gateways |-> "head"]
  /\ attempts = [g \in Gateways |-> 0]
  /\ outages  = [g \in Gateways |-> 0]
  /\ missed   = [g \in Gateways |-> FALSE]
  /\ check    = [g \in Gateways |-> "idle"]
  /\ word     = [g \in Gateways |-> [d \in Dependencies |-> "waiting"]]
  /\ met      = [g \in Gateways |-> {}]

Flip ==
  /\ flips < MaxFlips
  /\ flips' = flips + 1
  /\ \E d \in Dependencies :
       reachable' = IF d \in reachable THEN reachable \ {d} ELSE reachable \cup {d}
  /\ met' = [g \in Gateways |-> IF check[g] = "asked" THEN met[g] \cup reachable' ELSE met[g]]
  /\ UNCHANGED <<boot, check, word>>

-----------------------------------------------------------------------------
(* ensureBucket. *)

Up == Storage \in reachable
Goto(g, s) == stage' = [stage EXCEPT ![g] = s]

\* The attempt succeeded: the schedule is forgotten and the gateway listens.
Listen(g) ==
  /\ Goto(g, "listening")
  /\ attempts' = [attempts EXCEPT ![g] = 0]
  /\ outages'  = [outages EXCEPT ![g] = 0]
  /\ missed'   = [missed EXCEPT ![g] = FALSE]

\* A failed attempt is repeated after a pause; the last one ends the process.
FailForever(g) ==
  /\ attempts' = [attempts EXCEPT ![g] = @ + 1]
  /\ UNCHANGED outages
  /\ Goto(g, "head")

FailAttempt(g) ==
  /\ attempts' = [attempts EXCEPT ![g] = @ + 1]
  /\ outages'  = IF Up /\ ~missed[g] THEN outages ELSE [outages EXCEPT ![g] = @ + 1]
  /\ Goto(g, IF attempts[g] + 1 = MaxAttempts THEN "exited" ELSE "head")

\* HeadBucket; whatever it fails with, CreateBucket is tried.
HeadOnly(g) ==
  /\ stage[g] = "head"
  /\ IF Up /\ bucket THEN Listen(g) ELSE FailAttempt(g) /\ UNCHANGED missed
  /\ UNCHANGED <<bucket, world, probe>>

Head(g) ==
  /\ stage[g] = "head"
  /\ IF Up /\ bucket
     THEN Listen(g)
     ELSE /\ Goto(g, "create")
          /\ missed' = [missed EXCEPT ![g] = ~Up]
          /\ UNCHANGED <<attempts, outages>>
  /\ UNCHANGED <<bucket, world, probe>>

\* CreateBucket; another gateway may have been faster, which storage reports as
\* an error, or the bucket is made and the answer lost.
Create(g) ==
  /\ stage[g] = "create"
  /\ IF Up /\ ~bucket
     THEN Listen(g) /\ bucket' = TRUE
     ELSE /\ FailAttempt(g) /\ UNCHANGED missed
          /\ \/ UNCHANGED bucket
             \/ ~Up /\ bucket' = TRUE
  /\ UNCHANGED <<world, probe>>

\* Storage takes a call and stays silent.  The client has no timeout
\* (createS3), so that this start waits on, even when storage is back.
Hang(g) ==
  /\ stage[g] \in {"head", "create"}
  /\ ~Up
  /\ Goto(g, "hung")
  /\ UNCHANGED <<bucket, attempts, outages, missed, world, probe>>

-----------------------------------------------------------------------------
(* GET /readyz. *)

\* The three probes start together.
Ask(g) ==
  /\ stage[g] = "listening"
  /\ check[g] # "asked"
  /\ check' = [check EXCEPT ![g] = "asked"]
  /\ met'   = [met EXCEPT ![g] = reachable]
  /\ UNCHANGED <<world, boot, word>>

Settle(g, d, w) ==
  /\ check[g] = "asked" /\ word[g][d] = "waiting"
  /\ word' = [word EXCEPT ![g][d] = w]
  /\ UNCHANGED <<world, boot, check, met>>

\* An answer, or an error, before the deadline.
Hear(g, d) == Settle(g, d, IF d \in reachable THEN "ok" ELSE "unreachable")

\* Two seconds of silence.  The deadline stops the wait, not the query.
DeadlineForStorage(g, d) == d = Storage /\ Settle(g, d, "unreachable")
Deadline(g, d)           == Settle(g, d, "unreachable")

AnyOk(g) == \E d \in Dependencies : word[g][d] = "ok"
AllOk(g) == \A d \in Dependencies : word[g][d] = "ok"

Answer(g) ==
  /\ check[g] = "asked"
  /\ \A d \in Dependencies : word[g][d] # "waiting"
  /\ check' = [check EXCEPT ![g] = IF AllOk(g) THEN "ready" ELSE "unavailable"]
  /\ word'  = [word EXCEPT ![g] = [d \in Dependencies |-> "waiting"]]
  /\ UNCHANGED <<world, boot, met>>

-----------------------------------------------------------------------------
Start(g) == Head(g) \/ Create(g)
Probe(g) == Answer(g) \/ \E d \in Dependencies : Deadline(g, d)

Next ==
  \/ Flip
  \/ \E g \in Gateways : \/ Start(g) \/ Hang(g) \/ Ask(g) \/ Probe(g)
                         \/ \E d \in Dependencies : Hear(g, d)

Spec == Init /\ [][Next]_vars

\* A call to storage ends, unless it hangs; the pauses of the schedule elapse, and
\* the deadline of a probe fires.  No dependency has to answer a probe.
FairSpec == Spec /\ \A g \in Gateways : WF_vars(Start(g)) /\ WF_vars(Probe(g))

-----------------------------------------------------------------------------
(* Properties. *)

\* A gateway listens only over an existing bucket, and gives up starting only
\* after an outage: of its seven attempts, racing gateways can spoil one
\* ("refusing to start is the honest outcome", storage.ts:37-42).  A storage that
\* refuses the call, with a 403 say, counts as out.
StartIsHonest ==
  \A g \in Gateways :
    /\ stage[g] = "listening" => bucket
    /\ stage[g] = "exited" => outages[g] >= MaxAttempts - 1

\* A 200 says that every dependency was there at some time between the request
\* and its answer (health.ts:38-57).
ReadyIsEarned ==
  \A g \in Gateways : check[g] = "ready" => met[g] = Dependencies

\* "A probe must answer even when the thing it is probing does not"
\* (health.ts:13-14).  A start, whose calls have no such deadline, comes to an end
\* unless storage leaves one of them without an answer (storage.ts:11-22, 71-85).
NobodyWaitsForever ==
  \A g \in Gateways :
    /\ check[g] = "asked" ~> check[g] # "asked"
    /\ stage[g] \in {"head", "create"} ~> stage[g] \in {"listening", "exited", "hung"}
=============================================================================
