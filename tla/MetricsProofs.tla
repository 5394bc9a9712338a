---------------------------- MODULE MetricsProofs ----------------------------
(***************************************************************************)
(* How often a job is counted, for any number of jobs and scrapes, any skew   *)
(* of the clocks and any number of restarts.                                  *)
(***************************************************************************)
EXTENDS Metrics, TLAPS, FiniteSetTheorems, WellFoundedInduction

-----------------------------------------------------------------------------
(* The watermark. *)

\* A set of times has a latest one, together with any other time.
LEMMA LatestIs ==
  ASSUME NEW t \in Int, NEW T \in SUBSET Times
  PROVE  /\ Latest({t} \cup T) \in {t} \cup T
         /\ \A u \in {t} \cup T : u <= Latest({t} \cup T)
<1> SUFFICES \E m \in {t} \cup T : \A u \in {t} \cup T : u <= m
  BY DEF Latest
<1>0. T \in SUBSET Int /\ \A u \in T : u <= MaxTime BY BoundsAssumption DEF Times
<1>1. CASE T = {} BY <1>1
<1>2. CASE T # {}
  <2> DEFINE N == {MaxTime - u : u \in T}
  <2>1. N \in SUBSET Nat /\ N # {} BY <1>0, <1>2, BoundsAssumption
  <2>2. PICK n \in N : \A m \in N : ~(<<m, n>> \in OpToRel(<, Nat))
    BY <2>1, NatLessThanWellFounded, WFMin
  <2>3. PICK m \in T : n = MaxTime - m BY <2>2
  <2>4. ASSUME NEW u \in T PROVE u <= m
    <3>1. MaxTime - u \in N /\ MaxTime - u \in Nat /\ n \in Nat BY <2>1, <2>2
    <3>2. ~(MaxTime - u < n) BY <2>2, <3>1 DEF OpToRel
    <3> QED BY <1>0, <2>3, <3>2, BoundsAssumption
  <2>5. m \in Int BY <1>0
  <2>6. CASE t <= m BY <2>4, <2>6
  <2>7. CASE m < t
    <3>1. \A u \in T : u <= t BY <1>0, <2>4, <2>5, <2>7
    <3> QED BY <3>1
  <2> QED BY <2>5, <2>6, <2>7
<1> QED BY <1>1, <1>2

LEMMA RaisedIs ==
  ASSUME observedUpTo \in Int, completedAt \in [Jobs -> Times],
         NEW s \in Scrapes, found[s] \in SUBSET Jobs
  PROVE  /\ Raised(s) \in Int /\ observedUpTo <= Raised(s)
         /\ \A j \in found[s] : completedAt[j] <= Raised(s)
         /\ Raised(s) = observedUpTo \/ \E j \in found[s] : Raised(s) = completedAt[j]
<1>1. Stamps(s) \in SUBSET Times BY DEF Stamps
<1>2. /\ Raised(s) \in {observedUpTo} \cup Stamps(s)
      /\ \A u \in {observedUpTo} \cup Stamps(s) : u <= Raised(s)
  BY <1>1, LatestIs DEF Raised
<1>3. Raised(s) \in Int BY <1>1, <1>2 DEF Times
<1>4. \A j \in found[s] : completedAt[j] \in Stamps(s) BY DEF Stamps
<1>5. Raised(s) = observedUpTo \/ \E j \in found[s] : Raised(s) = completedAt[j]
  BY <1>2 DEF Stamps
<1> QED BY <1>2, <1>3, <1>4, <1>5

-----------------------------------------------------------------------------
(* Types. *)

Numbers ==
  /\ now \in Times
  /\ completedAt \in [Jobs -> Times]
  /\ boot \in Int /\ observedUpTo \in Int /\ boot <= observedUpTo
  /\ bound \in [Scrapes -> Int]
  /\ observed \in [Jobs -> Nat]
  /\ boots \in 0..MaxBoots
  /\ \A s \in Scrapes : bound[s] <= observedUpTo

Names ==
  /\ row \in [Jobs -> {"pending", "deciding", "decided"}]
  /\ started \subseteq Jobs
  /\ stage \in [Scrapes -> {"idle", "asked", "read"}]
  /\ found \in [Scrapes -> SUBSET Jobs]
  /\ overlapped \in BOOLEAN /\ overtaken \subseteq Jobs

LEMMA TypeParts == TypeOK <=> Numbers /\ Names
BY Zenon DEF TypeOK, Numbers, Names

LEMMA TypeInit == Init => TypeOK
<1> SUFFICES ASSUME Init PROVE TypeOK
  OBVIOUS
<1>1. Names BY DEF Init, Names
<1>2. boot \in Int BY BoundsAssumption DEF Init
<1>3. Numbers BY <1>2, BoundsAssumption DEF Init, Numbers, Times
<1> QED BY <1>1, <1>3, TypeParts

LEMMA TypeNext == TypeOK /\ [Next]_vars => TypeOK'
<1> SUFFICES ASSUME TypeOK, [Next]_vars PROVE TypeOK'
  OBVIOUS
<1>0. Numbers /\ Names BY TypeParts
<1> SUFFICES Numbers' /\ Names'
  BY Zenon DEF TypeOK, Numbers, Names
<1> USE DEF database, scrape, process
<1>1. CASE UNCHANGED vars BY <1>0, <1>1, Zenon DEF vars, Numbers, Names
<1>2. CASE Tick
  <2>0. \A t \in Times : t < MaxTime => t + 1 \in Times BY BoundsAssumption DEF Times
  <2>1. now' \in Times BY <1>0, <1>2, <2>0, Zenon DEF Tick, Numbers
  <2> QED BY <1>0, <1>2, <2>1, Zenon DEF Tick, Numbers, Names
<1>3. ASSUME NEW j \in Jobs, MarkActive(j) \/ Decide(j) \/ Commit(j) PROVE Numbers' /\ Names'
  <2>1. completedAt' \in [Jobs -> Times]
    BY <1>0, <1>3 DEF MarkActive, Decide, Commit, Numbers
  <2>2. Numbers' BY <1>0, <1>3, <2>1, Zenon DEF MarkActive, Decide, Commit, Numbers
  <2>3. Names' BY <1>0, <1>3 DEF MarkActive, Decide, Commit, Names
  <2> QED BY <2>2, <2>3
<1>4. ASSUME NEW s \in Scrapes, Ask(s) PROVE Numbers' /\ Names'
  <2>1. observedUpTo \in Int /\ observedUpTo <= observedUpTo BY <1>0 DEF Numbers
  <2>2. bound' \in [Scrapes -> Int] /\ \A t \in Scrapes : bound'[t] <= observedUpTo
    BY <1>0, <1>4, <2>1 DEF Ask, Numbers
  <2>3. Numbers' BY <1>0, <1>4, <2>2, Zenon DEF Ask, Numbers
  <2>4. Names' BY <1>0, <1>4 DEF Ask, Names
  <2> QED BY <2>3, <2>4
<1>5. ASSUME NEW s \in Scrapes, Read(s) \/ Fail(s) PROVE Numbers' /\ Names'
  <2>1. Numbers' BY <1>0, <1>5, Zenon DEF Read, Fail, Numbers
  <2>2. Names' BY <1>0, <1>5 DEF Read, Fail, Newer, Names
  <2> QED BY <2>1, <2>2
<1>6. ASSUME NEW s \in Scrapes, Observe(s) PROVE Numbers' /\ Names'
  <2>1. /\ observedUpTo \in Int /\ completedAt \in [Jobs -> Times] /\ found[s] \in SUBSET Jobs
        /\ boot \in Int /\ boot <= observedUpTo /\ bound \in [Scrapes -> Int]
        /\ observed \in [Jobs -> Nat] /\ \A t \in Scrapes : bound[t] <= observedUpTo
    BY <1>0, Zenon DEF Numbers, Names
  <2>2. observedUpTo' = Raised(s) /\ UNCHANGED <<boot, bound>> BY <1>6 DEF Observe
  <2>3. \A b \in Int : b <= observedUpTo => b <= observedUpTo' BY <2>1, <2>2, RaisedIs
  <2>4. observedUpTo' \in Int BY <2>1, <2>2, RaisedIs
  <2>5. observed' \in [Jobs -> Nat] BY <1>6, <2>1 DEF Observe
  <2>6. \A t \in Scrapes : bound'[t] <= observedUpTo' BY <2>1, <2>2, <2>3
  <2>7. boot' \in Int /\ boot' <= observedUpTo' BY <2>1, <2>2, <2>3
  <2>8. Numbers' BY <1>0, <1>6, <2>4, <2>5, <2>6, <2>7, Zenon DEF Observe, Numbers
  <2>9. Names' BY <1>0, <1>6 DEF Observe, Names
  <2> QED BY <2>8, <2>9
<1>7. CASE Restart
  <2>1. /\ boot' \in Int /\ observedUpTo' = boot' /\ boot' <= boot'
        /\ bound' = [s \in Scrapes |-> boot'] /\ observed' = [j \in Jobs |-> 0]
    BY <1>0, <1>7, BoundsAssumption DEF Restart, Numbers, Times
  <2>2. boots' \in 0..MaxBoots BY <1>0, <1>7, BoundsAssumption DEF Restart, Numbers
  <2>3. bound' \in [Scrapes -> Int] /\ observed' \in [Jobs -> Nat]
        /\ \A s \in Scrapes : bound'[s] <= observedUpTo'
    BY <2>1
  <2>4. Numbers' BY <1>0, <1>7, <2>1, <2>2, <2>3, Zenon DEF Restart, Numbers
  <2>5. Names' BY <1>0, <1>7 DEF Restart, Names
  <2> QED BY <2>4, <2>5
<1> QED BY <1>1, <1>2, <1>3, <1>4, <1>5, <1>6, <1>7 DEF Next

\* Each variable of the histogram keeps its type, and the watermark is never behind
\* the process's start nor behind one that a query was sent with (metrics.ts:61-85).
THEOREM TypeCorrect == Spec => []TypeOK
BY TypeInit, TypeNext, PTL DEF Spec

-----------------------------------------------------------------------------
(* What is counted. *)

\* The rows a scrape holds are decided and newer than the watermark it asked with.
Fetched ==
  \A s \in Scrapes :
    /\ found[s] # {} => stage[s] = "read"
    /\ \A j \in found[s] : row[j] = "decided" /\ completedAt[j] > bound[s]

\* The watermark is not behind what was counted.
Passed ==
  \A j \in Jobs : observed[j] # 0 => row[j] = "decided" /\ completedAt[j] <= observedUpTo

\* A scrape that was never overlapped works with the watermark of this moment.
Alone ==
  overlapped = FALSE =>
    /\ \A j \in Jobs : observed[j] <= 1
    /\ \A s \in Scrapes : stage[s] # "idle" =>
         /\ bound[s] = observedUpTo
         /\ \A t \in Scrapes : stage[t] # "idle" => t = s

\* The scrapes that may still count j; each counts it once.
Turns(j) == {s \in Scrapes : stage[s] # "idle" /\ bound[s] < completedAt[j]}

TurnsLeft == \A j \in Jobs : observed[j] + Cardinality(Turns(j)) <= Cardinality(Scrapes)

\* What a scrape read is all there was below its newest row, but for the overtaken.
Whole ==
  \A s \in Scrapes, j \in started \ overtaken :
    /\ stage[s] = "read" /\ row[j] = "decided" /\ bound[s] < completedAt[j]
    /\ \E k \in found[s] : completedAt[j] <= completedAt[k]
    => j \in found[s]

CountInv == TypeOK /\ Fetched /\ Passed /\ Alone /\ TurnsLeft

MissInv == CountInv /\ Whole /\ OnlyOvertakenAreMissed

LEMMA SomeScrapes ==
  ASSUME NEW S \in SUBSET Scrapes, NEW T \in SUBSET S
  PROVE  /\ IsFiniteSet(S) /\ Cardinality(S) \in Nat /\ Cardinality(T) \in Nat
         /\ Cardinality(T) <= Cardinality(S) /\ Cardinality(S) <= Cardinality(Scrapes)
         /\ Cardinality(Scrapes) \in Nat
<1>1. IsFiniteSet(S) /\ Cardinality(S) <= Cardinality(Scrapes)
  BY BoundsAssumption, FS_Subset
<1>2. IsFiniteSet(T) /\ Cardinality(T) <= Cardinality(S) BY <1>1, FS_Subset
<1> QED BY <1>1, <1>2, BoundsAssumption, FS_CardinalityType

\* A job nobody counted has all its turns left; one that loses turns and is not
\* counted keeps to the limit; one that is counted spends the turn of that scrape.
LEMMA TurnsStep ==
  ASSUME TurnsLeft, NEW j \in Jobs, observed[j] \in Nat, Turns(j)' \in SUBSET Scrapes,
         \/ observed'[j] = 0
         \/ observed'[j] = observed[j] /\ Turns(j)' \subseteq Turns(j)
         \/ \E s \in Turns(j) : observed'[j] = observed[j] + 1 /\ Turns(j)' \subseteq Turns(j) \ {s}
  PROVE  observed'[j] + Cardinality(Turns(j)') <= Cardinality(Scrapes)
<1>0. Turns(j) \in SUBSET Scrapes BY DEF Turns
<1>1. /\ Cardinality(Scrapes) \in Nat /\ Cardinality(Turns(j)) \in Nat
      /\ Cardinality(Turns(j)') \in Nat /\ Cardinality(Turns(j)') <= Cardinality(Scrapes)
      /\ observed[j] + Cardinality(Turns(j)) <= Cardinality(Scrapes)
  BY <1>0, SomeScrapes DEF TurnsLeft
<1>2. CASE observed'[j] = 0 BY <1>1, <1>2
<1>3. CASE observed'[j] = observed[j] /\ Turns(j)' \subseteq Turns(j)
  <2>1. Cardinality(Turns(j)') <= Cardinality(Turns(j)) BY <1>0, <1>3, SomeScrapes
  <2> QED BY <1>1, <1>3, <2>1
<1>4. ASSUME NEW s \in Turns(j), observed'[j] = observed[j] + 1, Turns(j)' \subseteq Turns(j) \ {s}
      PROVE  observed'[j] + Cardinality(Turns(j)') <= Cardinality(Scrapes)
  <2>1. Turns(j) \ {s} \in SUBSET Scrapes BY <1>0
  <2>2. Cardinality(Turns(j)') <= Cardinality(Turns(j) \ {s}) BY <1>4, <2>1, SomeScrapes
  <2>3. Cardinality(Turns(j) \ {s}) = Cardinality(Turns(j)) - 1
    BY <1>0, SomeScrapes, FS_RemoveElement
  <2>4. Cardinality(Turns(j) \ {s}) \in Nat BY <2>1, SomeScrapes
  <2> QED BY <1>1, <1>4, <2>2, <2>3, <2>4
<1> QED BY <1>2, <1>3, <1>4

LEMMA CountInit == Init => CountInv
<1> SUFFICES ASSUME Init PROVE CountInv
  OBVIOUS
<1>1. Fetched /\ Passed /\ Alone BY DEF Init, Fetched, Passed, Alone
<1>2. ASSUME NEW j \in Jobs PROVE observed[j] + Cardinality(Turns(j)) <= Cardinality(Scrapes)
  <2>1. observed[j] = 0 /\ Turns(j) \in SUBSET Scrapes BY DEF Init, Turns
  <2> QED BY <2>1, SomeScrapes
<1> QED BY <1>1, <1>2, TypeInit DEF CountInv, TurnsLeft

\* The loop over the rows of one scrape.
LEMMA CountObserve ==
  ASSUME CountInv, NEW s \in Scrapes, Observe(s)
  PROVE  Fetched' /\ Passed' /\ Alone' /\ TurnsLeft'
<1>0. Numbers /\ Names BY TypeParts DEF CountInv
<1>1. /\ UNCHANGED <<row, completedAt, bound, overlapped>>
      /\ stage[s] = "read" /\ observedUpTo' = Raised(s)
      /\ \A t \in Scrapes : t # s => stage'[t] = stage[t] /\ found'[t] = found[t]
      /\ stage'[s] = "idle" /\ found'[s] = {}
      /\ \A j \in Jobs : observed'[j] = IF j \in found[s] THEN observed[j] + 1 ELSE observed[j]
  BY <1>0 DEF Observe, database, Names
<1>2. /\ observedUpTo \in Int /\ completedAt \in [Jobs -> Times] /\ found[s] \in SUBSET Jobs
      /\ observed \in [Jobs -> Nat] /\ bound \in [Scrapes -> Int]
  BY <1>0, Zenon DEF Numbers, Names
<1>3. /\ Raised(s) \in Int /\ observedUpTo <= Raised(s)
      /\ \A j \in found[s] : completedAt[j] <= Raised(s)
  BY <1>2, RaisedIs
<1>4. Fetched' BY <1>1 DEF CountInv, Fetched
<1>5. Passed'
  <2> SUFFICES ASSUME NEW j \in Jobs, observed'[j] # 0
               PROVE  row[j] = "decided" /\ completedAt[j] <= Raised(s)
    BY <1>1 DEF Passed
  <2>1. CASE j \in found[s] BY <1>3, <2>1 DEF CountInv, Fetched
  <2>2. CASE j \notin found[s]
    <3>1. row[j] = "decided" /\ completedAt[j] <= observedUpTo
      BY <1>1, <2>2 DEF CountInv, Passed
    <3>2. completedAt[j] \in Int BY <1>2 DEF Times
    <3> QED BY <1>2, <1>3, <3>1, <3>2
  <2> QED BY <2>1, <2>2
<1>6. Alone'
  <2> SUFFICES ASSUME overlapped = FALSE
               PROVE  /\ \A j \in Jobs : observed'[j] <= 1
                      /\ \A t \in Scrapes : stage'[t] = "idle"
    BY <1>1, Zenon DEF Alone
  <2>1. bound[s] = observedUpTo /\ \A t \in Scrapes : stage[t] # "idle" => t = s
    BY <1>1, Zenon DEF CountInv, Alone
  <2>2. \A j \in Jobs : observed[j] <= 1 BY Zenon DEF CountInv, Alone
  <2>3. ASSUME NEW j \in Jobs PROVE observed'[j] <= 1
    <3>1. CASE j \in found[s]
      <4>1. completedAt[j] > observedUpTo BY <2>1, <3>1 DEF CountInv, Fetched
      <4>2. completedAt[j] \in Int BY <1>2 DEF Times
      <4>3. ~(completedAt[j] <= observedUpTo) BY <1>2, <4>1, <4>2
      <4>4. observed[j] = 0 BY <4>3 DEF CountInv, Passed
      <4> QED BY <1>1, <3>1, <4>4
    <3>2. CASE j \notin found[s] BY <1>1, <2>2, <3>2
    <3> QED BY <3>1, <3>2
  <2> QED BY <1>1, <2>1, <2>3
<1>7. ASSUME NEW j \in Jobs
      PROVE  observed'[j] + Cardinality(Turns(j)') <= Cardinality(Scrapes)
  <2>1. Turns(j)' \in SUBSET Scrapes /\ Turns(j)' \subseteq Turns(j) \ {s} BY <1>1 DEF Turns
  <2>2. TurnsLeft /\ observed[j] \in Nat BY <1>2 DEF CountInv
  <2>3. CASE j \in found[s]
    <3>1. bound[s] < completedAt[j]
      <4>1. completedAt[j] \in Int /\ bound[s] \in Int BY <1>2 DEF Times
      <4> QED BY <2>3, <4>1 DEF CountInv, Fetched
    <3>2. s \in Turns(j) BY <1>1, <3>1 DEF Turns
    <3> QED BY <1>1, <2>1, <2>2, <2>3, <3>2, TurnsStep
  <2>4. CASE j \notin found[s]
    <3>1. observed'[j] = observed[j] BY <1>1, <2>4
    <3> QED BY <2>1, <2>2, <3>1, TurnsStep
  <2> QED BY <2>3, <2>4
<1> QED BY <1>4, <1>5, <1>6, <1>7 DEF TurnsLeft

LEMMA CountNext == CountInv /\ [Next]_vars => CountInv'
<1> SUFFICES ASSUME CountInv, [Next]_vars PROVE CountInv'
  OBVIOUS
<1>0. Numbers /\ Names /\ TypeOK' BY TypeParts, TypeNext DEF CountInv
<1> SUFFICES Fetched' /\ Passed' /\ Alone' /\ TurnsLeft'
  BY <1>0 DEF CountInv
<1> USE DEF database, scrape, process
<1>t. /\ observedUpTo \in Int /\ completedAt \in [Jobs -> Times] /\ now \in Times
      /\ observed \in [Jobs -> Nat] /\ bound \in [Scrapes -> Int]
      /\ row \in [Jobs -> {"pending", "deciding", "decided"}]
      /\ stage \in [Scrapes -> {"idle", "asked", "read"}] /\ found \in [Scrapes -> SUBSET Jobs]
  BY <1>0, Zenon DEF Numbers, Names
<1>1. CASE UNCHANGED vars \/ Tick \/ \E j \in Jobs : MarkActive(j)
  <2>1. UNCHANGED <<row, completedAt, observedUpTo, stage, bound, found, observed, overlapped>>
    BY <1>1 DEF vars, Tick, MarkActive
  <2>2. Fetched' /\ Passed' /\ Alone' BY <2>1, Zenon DEF CountInv, Fetched, Passed, Alone
  <2>3. TurnsLeft' BY <2>1 DEF CountInv, TurnsLeft, Turns
  <2> QED BY <2>2, <2>3
<1>2. ASSUME NEW j \in Jobs, Decide(j) PROVE Fetched' /\ Passed' /\ Alone' /\ TurnsLeft'
  <2>1. /\ UNCHANGED <<observedUpTo, stage, bound, found, observed, overlapped>>
        /\ row[j] = "pending"
        /\ \A k \in Jobs : k # j => row'[k] = row[k] /\ completedAt'[k] = completedAt[k]
    BY <1>2, <1>t DEF Decide
  <2>2. observed[j] = 0 /\ \A s \in Scrapes : j \notin found[s]
    BY <2>1 DEF CountInv, Passed, Fetched
  <2>3. Fetched' /\ Passed' BY <1>t, <2>1, <2>2 DEF CountInv, Fetched, Passed
  <2>4. Alone' BY <2>1, Zenon DEF CountInv, Alone
  <2>5. ASSUME NEW k \in Jobs
        PROVE  observed'[k] + Cardinality(Turns(k)') <= Cardinality(Scrapes)
    <3>1. Turns(k)' \in SUBSET Scrapes /\ (k # j => Turns(k)' = Turns(k)) BY <2>1 DEF Turns
    <3> QED BY <1>t, <2>1, <2>2, <3>1, TurnsStep DEF CountInv
  <2> QED BY <2>3, <2>4, <2>5 DEF TurnsLeft
<1>3. ASSUME NEW j \in Jobs, Commit(j) PROVE Fetched' /\ Passed' /\ Alone' /\ TurnsLeft'
  <2>1. /\ UNCHANGED <<completedAt, observedUpTo, stage, bound, found, observed, overlapped>>
        /\ \A k \in Jobs : row[k] = "decided" => row'[k] = "decided"
    BY <1>3, <1>t DEF Commit
  <2>2. Fetched' /\ Passed' BY <1>t, <2>1 DEF CountInv, Fetched, Passed
  <2>3. Alone' BY <2>1, Zenon DEF CountInv, Alone
  <2>4. TurnsLeft' BY <2>1 DEF CountInv, TurnsLeft, Turns
  <2> QED BY <2>2, <2>3, <2>4
<1>4. ASSUME NEW s \in Scrapes, Ask(s) PROVE Fetched' /\ Passed' /\ Alone' /\ TurnsLeft'
  <2>1. /\ UNCHANGED <<row, completedAt, observedUpTo, found, observed>>
        /\ stage[s] = "idle" /\ stage'[s] = "asked" /\ bound'[s] = observedUpTo
        /\ \A t \in Scrapes : t # s => stage'[t] = stage[t] /\ bound'[t] = bound[t]
    BY <1>4, <1>t DEF Ask
  <2>2. Fetched' BY <2>1 DEF CountInv, Fetched
  <2>3. Passed' BY <2>1 DEF CountInv, Passed
  <2>4. Alone'
    <3> SUFFICES ASSUME overlapped' = FALSE
                 PROVE  /\ \A j \in Jobs : observed'[j] <= 1
                        /\ \A t \in Scrapes : stage'[t] # "idle" => t = s
      BY <2>1, Zenon DEF Alone
    <3>1. overlapped = FALSE /\ \A t \in Scrapes : stage[t] = "idle"
      BY <1>0, <1>4, Zenon DEF Ask, Names
    <3>2. \A j \in Jobs : observed[j] <= 1 BY <3>1, Zenon DEF CountInv, Alone
    <3> QED BY <2>1, <3>1, <3>2, Zenon
  <2>5. ASSUME NEW j \in Jobs
        PROVE  observed'[j] + Cardinality(Turns(j)') <= Cardinality(Scrapes)
    <3>1. Turns(j)' \in SUBSET Scrapes BY DEF Turns
    <3>2. CASE observed[j] # 0
      <4>1. completedAt[j] <= observedUpTo BY <3>2 DEF CountInv, Passed
      <4>2. completedAt[j] \in Int BY <1>t DEF Times
      <4>3. ~(bound'[s] < completedAt'[j]) BY <1>t, <2>1, <4>1, <4>2
      <4>4. Turns(j)' \subseteq Turns(j) BY <2>1, <4>3 DEF Turns
      <4> QED BY <1>t, <2>1, <3>1, <4>4, TurnsStep DEF CountInv
    <3>3. CASE observed[j] = 0 BY <1>t, <2>1, <3>1, <3>3, TurnsStep DEF CountInv
    <3> QED BY <3>2, <3>3
  <2> QED BY <2>2, <2>3, <2>4, <2>5 DEF TurnsLeft
<1>5. ASSUME NEW s \in Scrapes, Read(s) \/ Fail(s)
      PROVE  Fetched' /\ Passed' /\ Alone' /\ TurnsLeft'
  <2>1. /\ UNCHANGED <<row, completedAt, observedUpTo, bound, observed, overlapped>>
        /\ stage[s] = "asked" /\ stage'[s] \in {"read", "idle"}
        /\ \A t \in Scrapes : t # s => stage'[t] = stage[t] /\ found'[t] = found[t]
        /\ \/ stage'[s] = "read" /\ found'[s] \subseteq Newer(s)
           \/ found'[s] = found[s]
    BY <1>5, <1>t DEF Read, Fail
  <2>2. found[s] = {} BY <2>1 DEF CountInv, Fetched
  <2>3. Fetched' BY <1>t, <2>1, <2>2 DEF CountInv, Fetched, Newer
  <2>4. Passed' BY <2>1 DEF CountInv, Passed
  <2>5. \A t \in Scrapes : stage'[t] # "idle" => stage[t] # "idle" BY <2>1
  <2>6. Alone' BY <2>1, <2>5, Zenon DEF CountInv, Alone
  <2>7. ASSUME NEW j \in Jobs
        PROVE  observed'[j] + Cardinality(Turns(j)') <= Cardinality(Scrapes)
    <3>1. Turns(j)' \in SUBSET Scrapes /\ Turns(j)' \subseteq Turns(j) BY <2>1, <2>5 DEF Turns
    <3> QED BY <1>t, <2>1, <3>1, TurnsStep DEF CountInv
  <2> QED BY <2>3, <2>4, <2>6, <2>7 DEF TurnsLeft
<1>6. ASSUME NEW s \in Scrapes, Observe(s) PROVE Fetched' /\ Passed' /\ Alone' /\ TurnsLeft'
  BY <1>6, CountObserve
<1>7. CASE Restart
  <2>1. /\ \A s \in Scrapes : stage'[s] = "idle" /\ found'[s] = {}
        /\ \A j \in Jobs : observed'[j] = 0
    BY <1>7 DEF Restart
  <2>2. Fetched' /\ Passed' /\ Alone' BY <2>1 DEF Fetched, Passed, Alone
  <2>3. ASSUME NEW j \in Jobs
        PROVE  observed'[j] + Cardinality(Turns(j)') <= Cardinality(Scrapes)
    <3>1. Turns(j)' \in SUBSET Scrapes BY DEF Turns
    <3> QED BY <1>t, <2>1, <3>1, TurnsStep DEF CountInv
  <2> QED BY <2>2, <2>3 DEF TurnsLeft
<1> QED BY <1>1, <1>2, <1>3, <1>4, <1>5, <1>6, <1>7 DEF Next

\* A process counts no job twice while no two scrapes overlap, and never more often
\* than scrapes can overlap (metrics.ts:61-85): whatever the clocks say, and however
\* the workers' commits fall between queries and loops.
THEOREM CountedOnce == Spec => []NoJobCountedTwice
<1>1. CountInv => NoJobCountedTwice
  <2> SUFFICES ASSUME CountInv PROVE NoJobCountedTwice
    OBVIOUS
  <2>0. overlapped \in BOOLEAN BY Zenon DEF CountInv, TypeOK
  <2>1. ASSUME NEW j \in Jobs PROVE observed[j] <= Cardinality(Scrapes)
    <3>1. observed[j] \in Nat BY TypeParts DEF CountInv, Numbers
    <3>2. Turns(j) \in SUBSET Scrapes BY DEF Turns
    <3>3. observed[j] + Cardinality(Turns(j)) <= Cardinality(Scrapes) BY DEF CountInv, TurnsLeft
    <3> QED BY <3>1, <3>2, <3>3, SomeScrapes
  <2>2. CASE overlapped = TRUE BY <2>1, <2>2, Zenon DEF NoJobCountedTwice
  <2>3. CASE overlapped = FALSE
    <3>1. \A j \in Jobs : observed[j] <= 1 BY <2>3, Zenon DEF CountInv, Alone
    <3> QED BY <2>3, <3>1, Zenon DEF NoJobCountedTwice
  <2> QED BY <2>0, <2>2, <2>3
<1> QED BY <1>1, CountInit, CountNext, PTL DEF Spec

-----------------------------------------------------------------------------
(* What is missed. *)

LEMMA MissInit == Init => MissInv
<1> SUFFICES ASSUME Init PROVE MissInv
  OBVIOUS
<1>1. Whole /\ OnlyOvertakenAreMissed BY DEF Init, Whole, OnlyOvertakenAreMissed
<1> QED BY <1>1, CountInit DEF MissInv

\* A commit that is not behind is past the watermark and past every row read.
LEMMA MissCommit ==
  ASSUME MissInv, NEW j \in Jobs, Commit(j)
  PROVE  Whole' /\ OnlyOvertakenAreMissed'
<1>0. Numbers /\ Names BY TypeParts DEF MissInv, CountInv
<1>1. /\ UNCHANGED <<started, completedAt, boot, observedUpTo, stage, bound, found, observed>>
      /\ \A k \in Jobs : k # j => row'[k] = row[k]
      /\ overtaken \subseteq overtaken'
      /\ j \notin overtaken' => ~Behind(j)
  BY <1>0 DEF Commit, database, scrape, Names
<1>2. started \subseteq Jobs /\ found \in [Scrapes -> SUBSET Jobs] BY <1>0 DEF Names
<1>3. j \notin overtaken' => /\ ~(completedAt[j] <= observedUpTo)
                            /\ \A s \in Scrapes : \A k \in found[s] :
                                    ~(completedAt[j] <= completedAt[k])
  BY <1>1 DEF Behind
<1>4. Whole' BY <1>1, <1>2, <1>3 DEF MissInv, Whole
<1>5. OnlyOvertakenAreMissed' BY <1>1, <1>2, <1>3 DEF MissInv, OnlyOvertakenAreMissed
<1> QED BY <1>4, <1>5

\* The loop over the rows counts every started row up to the new watermark.
LEMMA MissObserve ==
  ASSUME MissInv, NEW s \in Scrapes, Observe(s)
  PROVE  Whole' /\ OnlyOvertakenAreMissed'
<1>0. Numbers /\ Names BY TypeParts DEF MissInv, CountInv
<1>1. /\ UNCHANGED <<row, started, completedAt, bound, boot, overtaken>>
      /\ stage[s] = "read" /\ observedUpTo' = Raised(s)
      /\ \A t \in Scrapes : t # s => stage'[t] = stage[t] /\ found'[t] = found[t]
      /\ stage'[s] = "idle" /\ found'[s] = {}
      /\ \A j \in Jobs : observed'[j] = IF j \in found[s] THEN observed[j] + 1 ELSE observed[j]
  BY <1>0 DEF Observe, database, Names
<1>2. /\ observedUpTo \in Int /\ completedAt \in [Jobs -> Times] /\ found[s] \in SUBSET Jobs
      /\ observed \in [Jobs -> Nat] /\ bound \in [Scrapes -> Int] /\ started \subseteq Jobs
      /\ \A t \in Scrapes : bound[t] <= observedUpTo
  BY <1>0, Zenon DEF Numbers, Names
<1>3. Whole' BY <1>1 DEF MissInv, Whole
<1>4. OnlyOvertakenAreMissed'
  <2> SUFFICES ASSUME NEW j \in started \ overtaken, row[j] = "decided",
                      boot < completedAt[j], completedAt[j] <= Raised(s)
               PROVE  observed'[j] >= 1
    BY <1>1 DEF OnlyOvertakenAreMissed
  <2>1. /\ j \in Jobs /\ completedAt[j] \in Int /\ observed[j] \in Nat /\ bound[s] \in Int
        /\ bound[s] <= observedUpTo
    BY <1>2 DEF Times
  <2>2. CASE completedAt[j] <= observedUpTo
    <3>1. observed[j] >= 1 BY <2>2 DEF MissInv, OnlyOvertakenAreMissed
    <3> QED BY <1>1, <2>1, <3>1
  <2>3. CASE ~(completedAt[j] <= observedUpTo)
    <3>1. PICK k \in found[s] : Raised(s) = completedAt[k] BY <1>2, <2>3, RaisedIs
    <3>2. bound[s] < completedAt[j] BY <1>2, <2>1, <2>3
    <3>3. j \in found[s] BY <1>1, <3>1, <3>2 DEF MissInv, Whole
    <3> QED BY <1>1, <2>1, <3>3
  <2> QED BY <2>2, <2>3
<1> QED BY <1>3, <1>4

LEMMA MissNext == MissInv /\ [Next]_vars => MissInv'
<1> SUFFICES ASSUME MissInv, [Next]_vars PROVE MissInv'
  OBVIOUS
<1>0. Numbers /\ Names /\ CountInv' BY TypeParts, CountNext DEF MissInv, CountInv
<1> SUFFICES Whole' /\ OnlyOvertakenAreMissed'
  BY <1>0 DEF MissInv
<1> USE DEF database, scrape, process
<1>t. /\ row \in [Jobs -> {"pending", "deciding", "decided"}] /\ started \subseteq Jobs
      /\ stage \in [Scrapes -> {"idle", "asked", "read"}] /\ found \in [Scrapes -> SUBSET Jobs]
      /\ completedAt \in [Jobs -> Times] /\ bound \in [Scrapes -> Int]
  BY <1>0, Zenon DEF Numbers, Names
<1>1. CASE UNCHANGED vars \/ Tick
  <2>1. UNCHANGED <<row, started, overtaken, completedAt, boot, observedUpTo, stage, bound,
                    found, observed>>
    BY <1>1 DEF vars, Tick
  <2> QED BY <2>1, Zenon DEF MissInv, Whole, OnlyOvertakenAreMissed
<1>2. ASSUME NEW j \in Jobs, MarkActive(j) \/ Decide(j) PROVE Whole' /\ OnlyOvertakenAreMissed'
  <2>1. /\ UNCHANGED <<overtaken, boot, observedUpTo, stage, bound, found, observed>>
        /\ row[j] = "pending" /\ row'[j] # "decided"
        /\ \A k \in Jobs : k # j => row'[k] = row[k] /\ completedAt'[k] = completedAt[k]
        /\ started' \subseteq started \cup {j}
    BY <1>2, <1>t DEF MarkActive, Decide
  <2>2. \A s \in Scrapes : j \notin found[s] BY <2>1 DEF MissInv, CountInv, Fetched
  <2>3. Whole' BY <1>t, <2>1, <2>2 DEF MissInv, Whole
  <2>4. OnlyOvertakenAreMissed' BY <1>t, <2>1 DEF MissInv, OnlyOvertakenAreMissed
  <2> QED BY <2>3, <2>4
<1>3. ASSUME NEW j \in Jobs, Commit(j) PROVE Whole' /\ OnlyOvertakenAreMissed'
  BY <1>3, MissCommit
<1>4. ASSUME NEW s \in Scrapes, Ask(s) PROVE Whole' /\ OnlyOvertakenAreMissed'
  <2>1. /\ UNCHANGED <<row, started, completedAt, boot, observedUpTo, overtaken, found, observed>>
        /\ stage'[s] = "asked"
        /\ \A t \in Scrapes : t # s => stage'[t] = stage[t] /\ bound'[t] = bound[t]
    BY <1>4, <1>t DEF Ask
  <2>2. Whole' BY <2>1 DEF MissInv, Whole
  <2>3. OnlyOvertakenAreMissed' BY <2>1, Zenon DEF MissInv, OnlyOvertakenAreMissed
  <2> QED BY <2>2, <2>3
<1>5. ASSUME NEW s \in Scrapes, Read(s) \/ Fail(s) PROVE Whole' /\ OnlyOvertakenAreMissed'
  <2>1. /\ UNCHANGED <<row, started, completedAt, boot, observedUpTo, overtaken, bound, observed>>
        /\ \A t \in Scrapes : t # s => stage'[t] = stage[t] /\ found'[t] = found[t]
        /\ stage'[s] = "idle" \/ found'[s] = Newer(s) \cap started
    BY <1>5, <1>t DEF Read, Fail
  <2>2. ASSUME NEW j \in started, row[j] = "decided", bound[s] < completedAt[j]
        PROVE  j \in Newer(s)
    <3>1. j \in Jobs /\ bound[s] \in Int /\ completedAt[j] \in Int BY <1>t DEF Times
    <3> QED BY <2>2, <3>1 DEF Newer
  <2>3. Whole' BY <1>t, <2>1, <2>2 DEF MissInv, Whole
  <2>4. OnlyOvertakenAreMissed' BY <2>1, Zenon DEF MissInv, OnlyOvertakenAreMissed
  <2> QED BY <2>3, <2>4
<1>6. ASSUME NEW s \in Scrapes, Observe(s) PROVE Whole' /\ OnlyOvertakenAreMissed'
  BY <1>6, MissObserve
<1>7. CASE Restart
  <2>1. /\ \A s \in Scrapes : stage'[s] = "idle"
        /\ boot' \in Int /\ observedUpTo' = boot' /\ UNCHANGED <<started, completedAt>>
    BY <1>0, <1>7, BoundsAssumption DEF Restart, Numbers, Times
  <2>2. Whole' BY <2>1 DEF Whole
  <2>3. \A j \in started : completedAt[j] \in Int BY <1>t DEF Times
  <2>4. \A j \in started : ~(boot' < completedAt'[j] /\ completedAt'[j] <= observedUpTo')
    BY <2>1, <2>3
  <2>5. OnlyOvertakenAreMissed' BY <2>1, <2>4 DEF OnlyOvertakenAreMissed
  <2> QED BY <2>2, <2>5
<1> QED BY <1>1, <1>2, <1>3, <1>4, <1>5, <1>6, <1>7 DEF Next

\* The watermark passes no started job of this process's time uncounted, but for
\* those whose UPDATE committed behind a row already read (metrics.ts:61-85):
\* whatever the clocks say, and however many scrapes overlap.
THEOREM MissedAreOvertaken == Spec => []OnlyOvertakenAreMissed
<1>1. MissInv => OnlyOvertakenAreMissed BY DEF MissInv
<1> QED BY <1>1, MissInit, MissNext, PTL DEF Spec
=============================================================================
