---------------------------- MODULE RateLimiter ----------------------------
(***************************************************************************)
(* The request-rate gate of src/gateway/src/lib/rate-limit.ts: one user's     *)
(* token bucket, a Redis hash that a Lua script reads, refills, spends from   *)
(* and writes back in one atomic step, with an expiry of a minute.            *)
(*                                                                         *)
(* Buckets of different users share nothing, so there is one.  A token is     *)
(* worth Minute units and the bucket gains Limit units per tick of Redis's    *)
(* clock, which makes the script's fractions whole numbers (its rounding of   *)
(* doubles is left out).                                                     *)
(***************************************************************************)
EXTENDS Integers

CONSTANTS
  Limit,         \* TTS_RATE_LIMIT_PER_MINUTE: tokens the bucket holds and gains a minute
  Minute,        \* ticks of Redis's clock in a minute
  Second,        \* ticks in a second, the unit of Retry-After
  Horizon,       \* bound: ticks that pass in a behaviour
  MaxBacksteps,  \* bound: ticks the clock is set back
  MaxLosses      \* bound: times Redis comes back without the key

ASSUME LimitAssumption  == Limit \in Nat \ {0}
ASSUME ClockAssumption  == Minute \in Nat \ {0} /\ Second \in Nat \ {0}
ASSUME BoundsAssumption == Horizon \in Nat /\ MaxBacksteps \in Nat /\ MaxLosses \in Nat

VARIABLES
  now,           \* Redis's clock
  kept,          \* the key is stored (it may be past its deadline)
  tokens,        \* the hash's tokens, in units
  stamp,         \* the hash's stamp_ms
  deadline,      \* when the key expires
  elapsed,       \* ticks that really passed
  since,         \* since[t]: requests let through when t ticks or more had passed
  due,           \* when the earliest unused Retry-After has passed, or NoDue
  backsteps, losses

bucket == <<kept, tokens, stamp, deadline>>
ghosts == <<elapsed, since, due>>
vars   == <<now, bucket, ghosts, backsteps, losses>>

NoDue == -1
Full  == Limit * Minute

TypeOK ==
  /\ now \in Int /\ stamp \in Int /\ deadline \in Int
  /\ kept \in BOOLEAN
  /\ tokens \in Int /\ tokens <= Full
  /\ elapsed \in 0..Horizon
  /\ since \in [0..Horizon -> Nat]
  /\ due \in Nat \cup {NoDue}
  /\ backsteps \in 0..MaxBacksteps /\ losses \in 0..MaxLosses

Init ==
  /\ now = 0 /\ elapsed = 0
  /\ kept = FALSE /\ tokens = 0 /\ stamp = 0 /\ deadline = 0
  /\ since = [t \in 0..Horizon |-> 0]
  /\ due = NoDue
  /\ backsteps = 0 /\ losses = 0

-----------------------------------------------------------------------------
AtMost(m, n)  == IF n <= m THEN n ELSE m
AtLeast(m, n) == IF n >= m THEN n ELSE m
Ceil(n, d)    == (n + d - 1) \div d

\* The script finds the hash unless Redis let it expire.
Known == kept /\ now <= deadline

\* What the bucket holds when the script looks: a missing key is a full one.
UncappedAvailable == IF Known THEN tokens + (now - stamp) * Limit ELSE Full
Available ==
  IF Known THEN AtMost(Full, tokens + (now - stamp) * Limit) ELSE Full

\* retry_after_ms, and the whole seconds the client is told to wait.
EarlyRetry(have)    == (Minute - have) \div Limit
RetryTicks(have)    == Ceil(Minute - have, Limit)
RetryAfter(have)    == Second * AtLeast(1, Ceil(RetryTicks(have), Second))

\* HSET and PEXPIRE, on either verdict.
ShortLife == Second
Life      == Minute

Save(left) ==
  /\ kept' = TRUE
  /\ tokens' = left
  /\ stamp' = now
  /\ deadline' = now + Life
  /\ UNCHANGED <<now, elapsed, backsteps, losses>>

Allow ==
  /\ Available >= Minute
  /\ Save(Available - Minute)
  /\ since' = [t \in 0..Horizon |-> since[t] + (IF t <= elapsed THEN 1 ELSE 0)]
  /\ due' = NoDue

Reject ==
  /\ Available < Minute
  /\ Save(Available)
  /\ due' = IF due = NoDue THEN elapsed + RetryAfter(Available) ELSE due
  /\ UNCHANGED since

-----------------------------------------------------------------------------
Tick ==
  /\ elapsed < Horizon
  /\ elapsed' = elapsed + 1
  /\ now' = now + 1
  /\ UNCHANGED <<bucket, since, due, backsteps, losses>>

\* The clock Redis reads is wall-clock time and may be set back.
StepBack ==
  /\ backsteps < MaxBacksteps
  /\ backsteps' = backsteps + 1
  /\ now' = now - 1
  /\ UNCHANGED <<bucket, ghosts, losses>>

\* Redis deletes an expired key in its own time.
Evict ==
  /\ kept
  /\ now > deadline
  /\ kept' = FALSE
  /\ UNCHANGED <<now, tokens, stamp, deadline, ghosts, backsteps, losses>>

\* Redis restarts without what it had not persisted.
Lose ==
  /\ kept
  /\ losses < MaxLosses
  /\ losses' = losses + 1
  /\ kept' = FALSE
  /\ UNCHANGED <<now, tokens, stamp, deadline, ghosts, backsteps>>

Next == Allow \/ Reject \/ Tick \/ StepBack \/ Evict \/ Lose

Spec == Init /\ [][Next]_vars

-----------------------------------------------------------------------------
(* Properties. *)

\* In any stretch of time a user gets at most a bucketful of requests through and
\* what the bucket gains meanwhile (rate-limit.ts:5-11), whatever the expiry of the
\* key and the clock do; each loss of Redis's data is worth one more bucketful.
\* That is the bound of the code: up to twice Limit in the minute after an idle one,
\* where README.md:325 and :417 promise Limit in any minute.
RateIsBounded ==
  \A t \in 0..elapsed :
    Minute * since[t] <= Full * (1 + losses) + (elapsed - t) * Limit

\* "The bucket is full again after at most a minute of inactivity, at which
\* point the key carries no information" (rate-limit.ts:36-37): dropping the key
\* at its deadline gives nobody anything, unless the clock was set back.
ExpiryForgetsNothing ==
  kept /\ now > deadline /\ backsteps = 0 => tokens + (now - stamp) * Limit >= Full

\* A client that waits as long as Retry-After told it is let through, if it sent
\* nothing else that was, and the clock was not set back (rate-limit.ts:31-33, 63).
RetryAfterIsHonoured ==
  due # NoDue /\ elapsed >= due /\ backsteps = 0 => Available >= Minute
=============================================================================
