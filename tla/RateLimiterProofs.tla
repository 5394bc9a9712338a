------------------------- MODULE RateLimiterProofs -------------------------
(***************************************************************************)
(* Proofs about RateLimiter, for any limit, any length of the minute and the   *)
(* second, and any number of ticks, losses and steps of the clock back.        *)
(***************************************************************************)
EXTENDS RateLimiter, TLAPS

USE LimitAssumption, ClockAssumption, BoundsAssumption

-----------------------------------------------------------------------------
(* Arithmetic. *)

LEMMA TimesMonotone ==
  ASSUME NEW a \in Int, NEW b \in Int, NEW c \in Nat, a <= b
  PROVE  a * c <= b * c
  OBVIOUS

LEMMA TimesSum ==
  ASSUME NEW a \in Int, NEW b \in Int, NEW c \in Int
  PROVE  (a + b) * c = a * c + b * c
  OBVIOUS

LEMMA CeilEnough ==
  ASSUME NEW n \in Int, NEW d \in Nat \ {0}
  PROVE  Ceil(n, d) \in Int /\ Ceil(n, d) * d >= n
  BY DEF Ceil

LEMMA FullType == Full \in Nat /\ Full >= Minute
<1>1. 1 * Minute <= Limit * Minute BY TimesMonotone
<1> QED BY <1>1 DEF Full

\* Waiting as long as the client is told refills what is missing.
LEMMA RetryEnough ==
  ASSUME NEW have \in Int, have < Minute
  PROVE  RetryAfter(have) \in Nat /\ have + RetryAfter(have) * Limit >= Minute
<1> DEFINE ticks == RetryTicks(have)
           secs  == AtLeast(1, Ceil(ticks, Second))
<1>1. ticks \in Int /\ ticks * Limit >= Minute - have BY CeilEnough DEF RetryTicks
<1>2. Ceil(ticks, Second) \in Int /\ Ceil(ticks, Second) * Second >= ticks
  BY <1>1, CeilEnough
<1>3. secs \in Nat /\ secs >= Ceil(ticks, Second) BY <1>2 DEF AtLeast
<1>4. secs * Second >= Ceil(ticks, Second) * Second BY <1>2, <1>3, TimesMonotone
<1> HIDE DEF ticks, secs
<1>5. RetryAfter(have) = secs * Second /\ secs * Second \in Nat
  BY <1>3 DEF RetryAfter, ticks, secs
<1>6. secs * Second >= ticks BY <1>1, <1>2, <1>4, <1>5
<1>7. (secs * Second) * Limit >= ticks * Limit BY <1>1, <1>5, <1>6, TimesMonotone
<1>8. ticks * Limit \in Int /\ (secs * Second) * Limit \in Int BY <1>1, <1>5
<1> QED BY <1>1, <1>5, <1>7, <1>8

-----------------------------------------------------------------------------
(* The products of the invariant, each by a name, so that the steps below are   *)
(* linear: what n ticks refill, what n requests cost, what n losses give.        *)

Gain(n)   == n * Limit
Cost(n)   == n * Minute
Credit(n) == n * Full

LEMMA GainType == ASSUME NEW n \in Int PROVE Gain(n) \in Int
  BY DEF Gain

LEMMA GainSum ==
  ASSUME NEW a \in Int, NEW b \in Int PROVE Gain(a + b) = Gain(a) + Gain(b)
  BY TimesSum DEF Gain

LEMMA GainMonotone ==
  ASSUME NEW a \in Int, NEW b \in Int, a <= b PROVE Gain(a) <= Gain(b)
  BY TimesMonotone DEF Gain

LEMMA GainUnits == Gain(0) = 0 /\ Gain(1) = Limit /\ Gain(Minute) = Full
  BY DEF Gain, Full

LEMMA CostType == ASSUME NEW n \in Nat PROVE Cost(n) \in Nat
  BY DEF Cost

LEMMA CostUnits == Cost(0) = 0 /\ \A n \in Nat : Cost(n + 1) = Cost(n) + Minute
<1>1. Cost(0) = 0 BY DEF Cost
<1>2. ASSUME NEW n \in Nat PROVE Cost(n + 1) = Cost(n) + Minute
  BY TimesSum DEF Cost
<1> QED BY <1>1, <1>2

LEMMA CreditType == ASSUME NEW n \in Nat PROVE Credit(n) \in Nat
  BY FullType DEF Credit

LEMMA CreditUnits == \A n \in Nat : Credit(n + 1) = Credit(n) + Full
<1>1. ASSUME NEW n \in Nat PROVE Credit(n + 1) = Credit(n) + Full
  BY FullType, TimesSum DEF Credit
<1> QED BY <1>1

-----------------------------------------------------------------------------
(* Every variable keeps its type. *)

LEMMA AvailableIs ==
  ASSUME TypeOK
  PROVE  /\ Available \in Int /\ Available <= Full
         /\ ~Known => Available = Full
         /\ Known => Available <= tokens + Gain(now - stamp)
         /\ Known /\ Available # Full => Available = tokens + Gain(now - stamp)
<1>1. Gain(now - stamp) \in Int /\ Full \in Nat BY GainType, FullType DEF TypeOK
<1>2. Available = IF Known THEN AtMost(Full, tokens + Gain(now - stamp)) ELSE Full
  BY DEF Available, Gain
<1> QED BY <1>1, <1>2 DEF AtMost, TypeOK

LEMMA TypeInit == Init => TypeOK
<1> SUFFICES ASSUME Init PROVE TypeOK OBVIOUS
<1>1. since \in [0..Horizon -> Nat] BY DEF Init
<1>2. backsteps \in 0..MaxBacksteps /\ losses \in 0..MaxLosses /\ elapsed \in 0..Horizon
  BY DEF Init
<1>3. due \in Nat \cup {NoDue} BY DEF Init
<1>4. kept \in BOOLEAN
  <2>1. kept = FALSE BY DEF Init
  <2> QED BY <2>1, Zenon
<1>5. now \in Int /\ stamp \in Int /\ deadline \in Int /\ tokens \in Int /\ tokens <= Full
  BY FullType DEF Init
<1> QED BY <1>1, <1>2, <1>3, <1>4, <1>5 DEF TypeOK

LEMMA TypeNext == TypeOK /\ [Next]_vars => TypeOK'
<1> SUFFICES ASSUME TypeOK, [Next]_vars PROVE TypeOK'
  OBVIOUS
<1>0. Available \in Int /\ Available <= Full /\ Full \in Nat BY AvailableIs, FullType
<1>1. CASE Allow
  <2>1. since' \in [0..Horizon -> Nat]
    <3> DEFINE new == [t \in 0..Horizon |-> since[t] + (IF t <= elapsed THEN 1 ELSE 0)]
    <3>1. \A t \in 0..Horizon : since[t] + (IF t <= elapsed THEN 1 ELSE 0) \in Nat
      BY DEF TypeOK
    <3>2. new \in [0..Horizon -> Nat] BY <3>1
    <3> QED BY <1>1, <3>2 DEF Allow
  <2>2. tokens' = Available - Minute /\ kept' = TRUE /\ stamp' = now
        /\ deadline' = now + Minute /\ due' = NoDue
        /\ UNCHANGED <<now, elapsed, backsteps, losses>>
    BY <1>1 DEF Allow, Save, Life
  <2> QED BY <1>0, <2>1, <2>2 DEF TypeOK
<1>2. CASE Reject
  <2>1. Available < Minute BY <1>2 DEF Reject
  <2>2. RetryAfter(Available) \in Nat BY <1>0, <2>1, RetryEnough
  <2>3. due' \in Nat \cup {NoDue} BY <1>2, <2>2 DEF Reject, TypeOK
  <2>4. tokens' = Available /\ kept' = TRUE /\ stamp' = now
        /\ deadline' = now + Minute
        /\ UNCHANGED <<now, elapsed, since, backsteps, losses>>
    BY <1>2 DEF Reject, Save, Life
  <2> QED BY <1>0, <2>3, <2>4 DEF TypeOK
<1>3. CASE Tick BY <1>3, FullType DEF Tick, bucket, TypeOK
<1>4. CASE StepBack BY <1>4, FullType DEF StepBack, bucket, ghosts, TypeOK
<1>5. CASE Evict BY <1>5, FullType DEF Evict, ghosts, TypeOK
<1>6. CASE Lose
  <2>1. losses' \in 0..MaxLosses BY <1>6 DEF Lose, TypeOK
  <2> QED BY <1>6, <2>1, FullType DEF Lose, ghosts, TypeOK
<1>7. CASE UNCHANGED vars BY <1>7, FullType DEF vars, bucket, ghosts, TypeOK
<1> QED BY <1>1, <1>2, <1>3, <1>4, <1>5, <1>6, <1>7 DEF Next

\* The bucket never holds more than its capacity, and the rest has its type.
THEOREM TypeCorrect == Spec => []TypeOK
  BY TypeInit, TypeNext, PTL DEF Spec

-----------------------------------------------------------------------------
(* What was let through since a moment and what is left in the bucket together   *)
(* never exceed the moment's due: a bucketful for the beginning and for each     *)
(* loss, and the gain since.  A clock that is set back takes from the bucket what *)
(* it gives back later.  It may leave the bucket in debt, and the key's expiry    *)
(* forgives the debt; but by then the gain since the last request alone fills a   *)
(* bucket, and nothing has been let through for it yet.                          *)

Due(t) == Credit(losses + 1) + Gain(elapsed - t)

\* What the bucket has gained since its last write.
IdleGain == AtMost(Full, Gain(now - stamp))

Covered(t) ==
  /\ t > elapsed => since[t] = 0
  /\ t <= elapsed => /\ Cost(since[t]) <= Due(t)
                     /\ Cost(since[t]) + Available <= Due(t)
                     /\ kept => Cost(since[t]) + IdleGain <= Due(t)

Lifetime == kept => deadline = stamp + Minute

SpendInv == TypeOK /\ Lifetime /\ \A t \in 0..Horizon : Covered(t)

LEMMA DueType ==
  ASSUME TypeOK, NEW t \in 0..Horizon
  PROVE  /\ Due(t) \in Int /\ Cost(since[t]) \in Nat
         /\ t <= elapsed => Due(t) >= Full
<1>1. losses + 1 \in Nat /\ losses \in Nat /\ elapsed - t \in Int /\ since[t] \in Nat
  BY DEF TypeOK
<1>2. Credit(losses + 1) = Credit(losses) + Full /\ Credit(losses) \in Nat
  BY <1>1, CreditUnits, CreditType
<1>3. Gain(elapsed - t) \in Int BY <1>1, GainType
<1>4. t <= elapsed => Gain(elapsed - t) >= 0
  <2>1. t <= elapsed => 0 <= elapsed - t BY DEF TypeOK
  <2> QED BY <1>1, <2>1, GainMonotone, GainUnits
<1>5. Cost(since[t]) \in Nat BY <1>1, CostType
<1> QED BY <1>2, <1>3, <1>4, <1>5, FullType DEF Due

LEMMA IdleGainIs ==
  ASSUME TypeOK
  PROVE  IdleGain \in Int /\ IdleGain <= Full
<1>1. now - stamp \in Int BY DEF TypeOK
<1> QED BY <1>1, GainType, FullType DEF IdleGain, AtMost

LEMMA SpendInit == Init => SpendInv
<1> SUFFICES ASSUME Init PROVE SpendInv OBVIOUS
<1>1. TypeOK /\ kept = FALSE /\ elapsed = 0 /\ \A t \in 0..Horizon : since[t] = 0
  BY TypeInit DEF Init
<1>2. Available = Full BY <1>1, AvailableIs DEF Known
<1>3. ASSUME NEW t \in 0..Horizon PROVE Covered(t)
  <2>1. Cost(since[t]) = 0 BY <1>1, CostUnits
  <2> QED BY <1>1, <1>2, <2>1, DueType, FullType DEF Covered
<1> QED BY <1>1, <1>3 DEF SpendInv, Lifetime

\* After the script's write the bucket holds what it wrote.
LEMMA Written ==
  ASSUME TypeOK, TypeOK', NEW left \in Int, left <= Full, Save(left)
  PROVE  Available' = left /\ IdleGain' = 0 /\ Lifetime'
<1>1. /\ kept' = TRUE /\ tokens' = left /\ stamp' = now /\ deadline' = now + Minute
      /\ now' = now
  BY DEF Save, Life
<1>2. now' - stamp' = 0 /\ now' <= deadline' BY <1>1 DEF TypeOK
<1>3. Available' = AtMost(Full, left + Gain(0)) BY <1>1, <1>2 DEF Available, Known, Gain
<1>4. IdleGain' = AtMost(Full, Gain(0)) BY <1>2 DEF IdleGain
<1> QED BY <1>1, <1>3, <1>4, GainUnits, FullType DEF AtMost, Lifetime

LEMMA AllowSpends ==
  ASSUME SpendInv, TypeOK', Allow PROVE SpendInv'
<1>0. TypeOK /\ Available \in Int /\ Available <= Full /\ Available >= Minute
  BY AvailableIs DEF SpendInv, Allow
<1>1. Available' = Available - Minute /\ IdleGain' = 0 /\ Lifetime'
  BY <1>0, Written, FullType DEF Allow
<1>2. UNCHANGED <<elapsed, losses>> BY DEF Allow, Save
<1>3. ASSUME NEW t \in 0..Horizon PROVE Covered(t)'
  <2>1. since'[t] = since[t] + (IF t <= elapsed THEN 1 ELSE 0) /\ since[t] \in Nat
    BY <1>0 DEF Allow, TypeOK
  <2>2. Due(t)' = Due(t) /\ Due(t) \in Int BY <1>0, <1>2, DueType DEF Due
  <2>3. elapsed \in Nat BY <1>0 DEF TypeOK
  <2>4. CASE t <= elapsed
    <3>1. Cost(since'[t]) = Cost(since[t]) + Minute /\ Cost(since[t]) \in Nat
      BY <2>1, <2>4, CostUnits, CostType
    <3>2. Cost(since[t]) + Available <= Due(t) BY <2>4 DEF SpendInv, Covered
    <3>3. Cost(since'[t]) <= Due(t) BY <1>0, <2>2, <3>1, <3>2
    <3>4. Cost(since'[t]) + (Available - Minute) <= Due(t) BY <1>0, <2>2, <3>1, <3>2
    <3>5. Cost(since'[t]) \in Int BY <3>1
    <3> QED BY <1>1, <1>2, <2>2, <2>3, <2>4, <3>3, <3>4, <3>5 DEF Covered
  <2>5. CASE t > elapsed
    <3>1. since'[t] = 0 BY <2>1, <2>3, <2>5 DEF SpendInv, Covered
    <3> QED BY <1>2, <2>3, <2>5, <3>1 DEF Covered
  <2> QED BY <2>3, <2>4, <2>5
<1> QED BY <1>1, <1>3 DEF SpendInv

LEMMA RejectSpends ==
  ASSUME SpendInv, TypeOK', Reject PROVE SpendInv'
<1>0. TypeOK /\ Available \in Int /\ Available <= Full
  BY AvailableIs DEF SpendInv
<1>1. Available' = Available /\ IdleGain' = 0 /\ Lifetime'
  BY <1>0, Written DEF Reject
<1>2. UNCHANGED <<elapsed, losses, since>> BY DEF Reject, Save
<1>3. ASSUME NEW t \in 0..Horizon PROVE Covered(t)'
  <2>1. Due(t)' = Due(t) /\ Cost(since[t]) \in Nat BY <1>0, <1>2, DueType DEF Due
  <2> QED BY <1>1, <1>2, <2>1 DEF SpendInv, Covered
<1> QED BY <1>1, <1>3 DEF SpendInv

\* A tick adds to the bucket no more than to what is due.
LEMMA TickSpends ==
  ASSUME SpendInv, TypeOK', Tick PROVE SpendInv'
<1>0. TypeOK /\ Lifetime BY DEF SpendInv
<1>1. /\ now' = now + 1 /\ elapsed' = elapsed + 1
      /\ UNCHANGED <<kept, tokens, stamp, deadline, since, losses>>
  BY DEF Tick, bucket
<1>2. /\ now \in Int /\ stamp \in Int /\ tokens \in Int /\ deadline \in Int /\ elapsed \in Nat
      /\ losses \in Nat
  BY <1>0 DEF TypeOK
<1>3. Lifetime' BY <1>0, <1>1 DEF Lifetime
<1>4. Gain(now' - stamp') = Gain(now - stamp) + Limit /\ Gain(now - stamp) \in Int
  <2>1. now' - stamp' = (now - stamp) + 1 /\ now - stamp \in Int BY <1>1, <1>2
  <2> QED BY <2>1, GainSum, GainUnits, GainType
<1>5. IdleGain' <= IdleGain + Limit /\ IdleGain \in Int /\ IdleGain' \in Int
  BY <1>0, <1>4, IdleGainIs, FullType DEF IdleGain, AtMost
<1>6. /\ Available \in Int /\ Available' \in Int /\ Available <= Full /\ Available' <= Full
      /\ \/ Available' <= Available + Limit
         \/ kept /\ Available' = IdleGain'
  <2>1. /\ Available = IF Known THEN AtMost(Full, tokens + Gain(now - stamp)) ELSE Full
        /\ Available' = IF Known' THEN AtMost(Full, tokens + Gain(now' - stamp')) ELSE Full
    BY <1>1 DEF Available, Gain
  <2>2. Known' => Known BY <1>1, <1>2 DEF Known
  <2>3. CASE Known' BY <1>2, <1>4, <2>1, <2>2, <2>3, FullType DEF AtMost
  <2>4. CASE ~Known' /\ ~Known BY <1>2, <2>1, <2>4, FullType
  <2>5. CASE ~Known' /\ Known
    <3>1. kept /\ kept' BY <1>1, <2>5 DEF Known
    <3>2. IdleGain' = Full
      <4>1. Minute <= now' - stamp' BY <1>1, <1>2, <1>3, <2>5, <3>1 DEF Lifetime, Known
      <4>2. Full <= Gain(now' - stamp')
        <5>1. now' - stamp' \in Int BY <1>1, <1>2
        <5> QED BY <4>1, <5>1, GainMonotone, GainUnits
      <4> QED BY <1>2, <1>4, <4>2, FullType DEF IdleGain, AtMost
    <3> QED BY <1>2, <1>4, <2>1, <2>5, <3>1, <3>2, FullType DEF AtMost
  <2> QED BY <2>2, <2>3, <2>4, <2>5
<1>7. ASSUME NEW t \in 0..Horizon PROVE Covered(t)'
  <2>1. since'[t] = since[t] /\ Cost(since[t]) \in Nat /\ Due(t) \in Int
    BY <1>0, <1>1, DueType
  <2>2. CASE t <= elapsed
    <3>1. Due(t)' = Due(t) + Limit
      <4>1. elapsed' - t = (elapsed - t) + 1 /\ elapsed - t \in Int BY <1>1, <1>2
      <4>2. Gain(elapsed' - t) = Gain(elapsed - t) + Limit /\ Gain(elapsed - t) \in Int
        BY <4>1, GainSum, GainUnits, GainType
      <4>3. Credit(losses + 1) \in Nat BY <1>2, CreditType
      <4> QED BY <1>1, <4>2, <4>3 DEF Due
    <3>2. /\ Cost(since[t]) <= Due(t)
          /\ Cost(since[t]) + Available <= Due(t)
          /\ kept => Cost(since[t]) + IdleGain <= Due(t)
      BY <2>2 DEF SpendInv, Covered
    <3>3. Cost(since[t]) <= Due(t) + Limit BY <2>1, <3>2
    <3>4. kept => Cost(since[t]) + IdleGain' <= Due(t) + Limit BY <1>5, <2>1, <3>2
    <3>5. Cost(since[t]) + Available' <= Due(t) + Limit BY <1>6, <2>1, <3>2, <3>4
    <3>6. ~(t > elapsed') BY <1>1, <1>2, <2>2
    <3> QED BY <1>1, <2>1, <3>1, <3>3, <3>4, <3>5, <3>6 DEF Covered
  <2>3. CASE t > elapsed
    <3>1. since'[t] = 0 /\ Cost(since'[t]) = 0
      BY <1>1, <2>3, CostUnits DEF SpendInv, Covered
    <3>2. IdleGain' <= Full /\ IdleGain' \in Int /\ Available' <= Full /\ Available' \in Int
      BY <1>0, <1>2, <1>4, <1>6, FullType DEF IdleGain, AtMost
    <3>3. t <= elapsed' => Due(t)' >= Full /\ Due(t)' \in Int
      <4>1. ASSUME t <= elapsed' PROVE Due(t)' = Credit(losses + 1)
        <5>1. elapsed' - t = 0 BY <1>1, <1>2, <2>3, <4>1
        <5>2. Credit(losses + 1) \in Nat BY <1>2, CreditType
        <5> QED BY <1>1, <5>1, <5>2, GainUnits DEF Due
      <4>2. Credit(losses + 1) = Credit(losses) + Full /\ Credit(losses) \in Nat
        BY <1>2, CreditUnits, CreditType
      <4> QED BY <4>1, <4>2, FullType
    <3> QED BY <3>1, <3>2, <3>3, FullType DEF Covered
  <2> QED BY <1>2, <2>2, <2>3
<1> QED BY <1>3, <1>7 DEF SpendInv

\* A clock that is set back leaves no more in the bucket than there was.
LEMMA StepBackSpends ==
  ASSUME SpendInv, TypeOK', StepBack PROVE SpendInv'
<1>0. TypeOK /\ Lifetime BY DEF SpendInv
<1>1. /\ now' = now - 1
      /\ UNCHANGED <<kept, tokens, stamp, deadline, elapsed, since, losses>>
  BY DEF StepBack, bucket, ghosts
<1>2. now \in Int /\ stamp \in Int /\ tokens \in Int /\ deadline \in Int BY <1>0 DEF TypeOK
<1>3. /\ Gain(now' - stamp') <= Gain(now - stamp)
      /\ Gain(now - stamp) \in Int /\ Gain(now' - stamp') \in Int
  <2>1. /\ now' - stamp' <= now - stamp
        /\ now - stamp \in Int /\ now' - stamp' \in Int
    BY <1>1, <1>2
  <2> QED BY <2>1, GainMonotone, GainType
<1>4. IdleGain' <= IdleGain /\ IdleGain \in Int /\ IdleGain' \in Int
  BY <1>3, FullType DEF IdleGain, AtMost
<1>5. Available' <= Available /\ Available \in Int /\ Available' \in Int
  <2>1. /\ Available = IF Known THEN AtMost(Full, tokens + Gain(now - stamp)) ELSE Full
        /\ Available' = IF Known' THEN AtMost(Full, tokens + Gain(now' - stamp')) ELSE Full
    BY <1>1 DEF Available, Gain
  <2>2. Known => Known' BY <1>1, <1>2 DEF Known
  <2> QED BY <1>2, <1>3, <2>1, <2>2, FullType DEF AtMost
<1>6. ASSUME NEW t \in 0..Horizon PROVE Covered(t)'
  <2>1. /\ since'[t] = since[t] /\ Cost(since[t]) \in Nat /\ Due(t) \in Int
        /\ Due(t)' = Due(t) /\ elapsed' = elapsed
    BY <1>0, <1>1, DueType DEF Due
  <2>2. Covered(t) BY DEF SpendInv
  <2>3. t <= elapsed => /\ Cost(since[t]) + Available' <= Due(t)
                        /\ kept => Cost(since[t]) + IdleGain' <= Due(t)
    BY <1>4, <1>5, <2>1, <2>2 DEF Covered
  <2> QED BY <1>1, <2>1, <2>2, <2>3 DEF Covered
<1>7. Lifetime' BY <1>0, <1>1 DEF Lifetime
<1> QED BY <1>6, <1>7 DEF SpendInv

LEMMA GoneSpends ==
  ASSUME SpendInv, TypeOK', Evict \/ Lose PROVE SpendInv'
<1>0. TypeOK /\ Lifetime BY DEF SpendInv
<1>1. /\ kept' = FALSE /\ UNCHANGED <<elapsed, since>>
      /\ \/ losses' = losses /\ ~Known
         \/ losses' = losses + 1
  BY <1>0 DEF Evict, Lose, ghosts, Known, TypeOK
<1>2. Available' = Full BY <1>1 DEF Available, Known
<1>3. ASSUME NEW t \in 0..Horizon PROVE Covered(t)'
  <2>1. since'[t] = since[t] /\ Cost(since[t]) \in Nat /\ Due(t) \in Int /\ Covered(t)
    BY <1>0, <1>1, DueType DEF SpendInv
  <2>2. CASE losses' = losses /\ ~Known
    <3>1. Due(t)' = Due(t) BY <1>1, <2>2 DEF Due
    <3>2. Available = Full BY <1>0, <2>2, AvailableIs
    <3> QED BY <1>1, <1>2, <2>1, <3>1, <3>2 DEF Covered
  <2>3. CASE losses' = losses + 1
    <3>1. Due(t)' = Due(t) + Full
      <4>1. losses + 1 \in Nat /\ elapsed - t \in Int BY <1>0 DEF TypeOK
      <4>2. Credit((losses + 1) + 1) = Credit(losses + 1) + Full /\ Credit(losses + 1) \in Nat
        BY <4>1, CreditUnits, CreditType
      <4>3. Gain(elapsed - t) \in Int BY <4>1, GainType
      <4> QED BY <1>1, <2>3, <4>2, <4>3, FullType DEF Due
    <3> QED BY <1>1, <1>2, <2>1, <3>1, FullType DEF Covered
  <2> QED BY <1>1, <2>2, <2>3
<1> QED BY <1>1, <1>3 DEF SpendInv, Lifetime

LEMMA SpendNext == SpendInv /\ [Next]_vars => SpendInv'
<1> SUFFICES ASSUME SpendInv, [Next]_vars PROVE SpendInv'
  OBVIOUS
<1>0. TypeOK' BY TypeNext DEF SpendInv
<1>1. CASE UNCHANGED vars
  <2>1. /\ UNCHANGED <<now, kept, tokens, stamp, deadline, elapsed, since, losses>>
        /\ TypeOK /\ Lifetime
    BY <1>1 DEF vars, bucket, ghosts, SpendInv
  <2>2. Available' = Available /\ IdleGain' = IdleGain /\ Lifetime'
    BY <2>1 DEF Available, Known, IdleGain, Lifetime
  <2>3. ASSUME NEW t \in 0..Horizon PROVE Covered(t)'
    BY <2>1, <2>2 DEF SpendInv, Covered, Due
  <2> QED BY <1>0, <2>2, <2>3 DEF SpendInv
<1> QED BY <1>0, <1>1, AllowSpends, RejectSpends, TickSpends, StepBackSpends, GoneSpends
        DEF Next

\* In any stretch of time a user gets through at most a bucketful, what the bucket gains
\* meanwhile and a bucketful for each loss of Redis's data (rate-limit.ts:38-68):
\* whatever the key's expiry forgets and however often the clock is set back.
THEOREM RateBounded == Spec => []RateIsBounded
<1>1. ASSUME SpendInv PROVE RateIsBounded
  <2>1. ASSUME NEW t \in 0..elapsed
        PROVE  Minute * since[t] <= Full * (1 + losses) + (elapsed - t) * Limit
    <3>1. t \in 0..Horizon /\ t <= elapsed /\ elapsed \in Nat /\ losses \in Nat /\ since[t] \in Nat
      BY <1>1 DEF SpendInv, TypeOK
    <3>2. Cost(since[t]) <= Due(t) BY <1>1, <3>1 DEF SpendInv, Covered
    <3>3. Cost(since[t]) = Minute * since[t] BY <3>1 DEF Cost
    <3>4. Credit(losses + 1) = Full * (1 + losses) BY <3>1, FullType DEF Credit
    <3>5. Gain(elapsed - t) = (elapsed - t) * Limit BY <3>1 DEF Gain
    <3> QED BY <3>2, <3>3, <3>4, <3>5 DEF Due
  <2> QED BY <2>1 DEF RateIsBounded
<1> QED BY <1>1, SpendInit, SpendNext, PTL DEF Spec

-----------------------------------------------------------------------------
(* While the clock is not set back, a bucket is full at its deadline, and holds  *)
(* a whole token at the moment that was promised.                              *)

Stored ==
  kept => /\ 0 <= tokens /\ stamp <= now
          /\ deadline = stamp + Minute

Promised ==
  due # NoDue /\ kept => tokens + Gain(due - stamp) >= Minute

Steady == now = elapsed /\ Stored /\ Promised

KeepInv == TypeOK /\ (backsteps = 0 => Steady)

LEMMA KeepInit == Init => KeepInv
BY TypeInit DEF Init, KeepInv, Steady, Stored, Promised

\* At its deadline a bucket is full again.
LEMMA FullAtDeadline ==
  ASSUME TypeOK, Stored, kept, now > deadline
  PROVE  tokens + Gain(now - stamp) >= Full
<1>1. now - stamp \in Int /\ Minute <= now - stamp /\ tokens \in Int /\ tokens >= 0
  BY DEF TypeOK, Stored
<1>2. Full <= Gain(now - stamp) /\ Gain(now - stamp) \in Int
  BY <1>1, GainMonotone, GainUnits, GainType
<1> QED BY <1>1, <1>2, FullType

\* The bucket is never overdrawn.
LEMMA AvailableNat ==
  ASSUME TypeOK, Steady PROVE Available \in Nat
<1>1. CASE Known
  <2>1. 0 <= tokens /\ stamp <= now /\ tokens \in Int /\ stamp \in Int /\ now \in Int
    BY <1>1 DEF Known, Steady, Stored, TypeOK
  <2>2. now - stamp \in Int /\ 0 <= now - stamp BY <2>1
  <2>3. Gain(0) <= Gain(now - stamp) /\ Gain(now - stamp) \in Int
    BY <2>2, GainMonotone, GainType
  <2> QED BY <1>1, <2>1, <2>3, AvailableIs, FullType, GainUnits
<1>2. CASE ~Known BY <1>2, AvailableIs, FullType
<1> QED BY <1>1, <1>2

LEMMA AllowSteady ==
  ASSUME TypeOK, TypeOK', Steady, Allow PROVE Steady'
<1>1. Available \in Int /\ Available - Minute >= 0 BY AvailableIs DEF Allow
<1>2. /\ kept' = TRUE /\ tokens' = Available - Minute /\ stamp' = now /\ due' = NoDue
      /\ deadline' = now + Minute /\ now' = now /\ elapsed' = elapsed
  BY DEF Allow, Save, Life
<1> QED BY <1>1, <1>2 DEF Steady, Stored, Promised, TypeOK

LEMMA RejectSteady ==
  ASSUME TypeOK, TypeOK', Steady, Reject PROVE Steady'
<1>1. now \in Nat /\ now = elapsed /\ stamp \in Int /\ tokens \in Int
  BY DEF TypeOK, Steady
<1>2. Available \in Nat /\ Available < Minute /\ Available # Full
  BY AvailableNat, FullType DEF Reject
<1>3. Known /\ kept /\ Available = tokens + Gain(now - stamp)
  BY <1>2, AvailableIs DEF Known
<1>4. /\ kept' = TRUE /\ tokens' = Available /\ stamp' = now
      /\ deadline' = now + Minute /\ now' = now /\ elapsed' = elapsed
  BY DEF Reject, Save, Life
<1>5. Stored' BY <1>1, <1>2, <1>4 DEF Stored
<1>6. Promised'
  <2>1. CASE due = NoDue
    <3>1. RetryAfter(Available) \in Nat
          /\ Available + Gain(RetryAfter(Available)) >= Minute
      BY <1>2, RetryEnough DEF Gain
    <3>2. due' = now + RetryAfter(Available) BY <1>1, <2>1 DEF Reject
    <3>3. due' - stamp' = RetryAfter(Available) BY <1>1, <1>4, <3>1, <3>2
    <3> QED BY <1>4, <3>1, <3>3 DEF Promised
  <2>2. CASE due # NoDue
    <3>1. due' = due /\ due \in Nat BY <2>2 DEF Reject, TypeOK
    <3>2. tokens + Gain(due - stamp) >= Minute BY <1>3, <2>2 DEF Steady, Promised
    <3>3. due - stamp = (due - now) + (now - stamp) BY <1>1, <3>1
    <3>4. Gain(due - stamp) = Gain(due - now) + Gain(now - stamp)
          /\ Gain(due - now) \in Int /\ Gain(now - stamp) \in Int
      <4>1. due - now \in Int /\ now - stamp \in Int BY <1>1, <3>1
      <4> QED BY <4>1, <3>3, GainSum, GainType
    <3>5. due' - stamp' = due - now BY <1>4, <3>1
    <3> QED BY <1>1, <1>3, <1>4, <3>5, <3>1, <3>2, <3>4 DEF Promised
  <2> QED BY <2>1, <2>2
<1> QED BY <1>1, <1>4, <1>5, <1>6 DEF Steady

LEMMA KeepNext == KeepInv /\ [Next]_vars => KeepInv'
<1> SUFFICES ASSUME KeepInv, [Next]_vars PROVE KeepInv'
  OBVIOUS
<1>0. TypeOK /\ TypeOK' BY TypeNext DEF KeepInv
<1>1. SUFFICES ASSUME backsteps' = 0 PROVE Steady'
  BY <1>0 DEF KeepInv
<1>2. backsteps = 0 /\ ~StepBack
  <2>1. backsteps \in Nat BY <1>0 DEF TypeOK
  <2>2. StepBack => backsteps' = backsteps + 1 BY DEF StepBack
  <2>3. StepBack \/ backsteps' = backsteps
    BY DEF Next, Allow, Reject, Save, Tick, Evict, Lose, vars
  <2> QED BY <1>1, <2>1, <2>2, <2>3
<1>3. Steady BY <1>2 DEF KeepInv
<1>4. CASE UNCHANGED vars
  BY <1>3, <1>4 DEF vars, bucket, ghosts, Steady, Stored, Promised
<1>5. CASE Tick
  BY <1>0, <1>3, <1>5 DEF Tick, bucket, Steady, Stored, Promised, TypeOK
<1>6. CASE Evict \/ Lose
  BY <1>3, <1>6 DEF Evict, Lose, ghosts, Steady, Stored, Promised
<1> QED BY <1>0, <1>2, <1>3, <1>4, <1>5, <1>6, AllowSteady, RejectSteady DEF Next

\* Dropping an expired bucket gives nobody anything, unless the clock was set back
\* (rate-limit.ts:36-37).
THEOREM ExpiryHarmless == Spec => []ExpiryForgetsNothing
<1>1. ASSUME KeepInv PROVE ExpiryForgetsNothing
  BY <1>1, FullAtDeadline DEF KeepInv, Steady, ExpiryForgetsNothing, Gain
<1> QED BY <1>1, KeepInit, KeepNext, PTL DEF Spec

\* Whoever waits as long as Retry-After said, and sent nothing else that was let
\* through, is let through, unless the clock was set back (rate-limit.ts:31-33, 63).
THEOREM RetryHonoured == Spec => []RetryAfterIsHonoured
<1>1. ASSUME KeepInv PROVE RetryAfterIsHonoured
  <2> SUFFICES ASSUME due # NoDue, elapsed >= due, backsteps = 0
               PROVE  Available >= Minute
    BY DEF RetryAfterIsHonoured
  <2>1. TypeOK /\ Steady BY <1>1 DEF KeepInv
  <2>2. now \in Int /\ stamp \in Int /\ due \in Nat /\ now >= due /\ tokens \in Int
    BY <2>1 DEF TypeOK, Steady
  <2>3. CASE Available = Full BY <2>3, FullType
  <2>4. CASE Available # Full
    <3>1. kept /\ Available = tokens + Gain(now - stamp)
      BY <2>1, <2>4, AvailableIs DEF Known
    <3>2. tokens + Gain(due - stamp) >= Minute BY <2>1, <3>1 DEF Steady, Promised
    <3>3. Gain(due - stamp) <= Gain(now - stamp) BY <2>2, GainMonotone
    <3>4. Gain(due - stamp) \in Int /\ Gain(now - stamp) \in Int BY <2>2, GainType
    <3> QED BY <2>2, <3>1, <3>2, <3>3, <3>4
  <2> QED BY <2>3, <2>4
<1> QED BY <1>1, KeepInit, KeepNext, PTL DEF Spec
=============================================================================
