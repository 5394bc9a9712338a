-------------------------- MODULE ReadinessProofs --------------------------
(***************************************************************************)
(* Proofs about Readiness, for any gateways, any dependencies that include     *)
(* storage, and any number of changes of what is reachable.                  *)
(***************************************************************************)
EXTENDS Readiness, TLAPS

USE DependenciesAssumption DEF MaxAttempts, Stages

\* An attempt that failed although storage answered: another gateway created the
\* bucket between the two calls.
Spoiled(g) == attempts[g] = outages[g] + 1

\* At most one attempt is spoiled, and only the last one ends the process.
CountInv == \A g \in Gateways :
  /\ stage[g] \in {"head", "create"} => attempts[g] < MaxAttempts
  /\ stage[g] = "exited" => attempts[g] = MaxAttempts
  /\ attempts[g] <= outages[g] + 1

\* From the spoiled attempt on the bucket is there, so that CreateBucket is called
\* again only if storage did not answer HeadBucket.
RaceInv == \A g \in Gateways :
  Spoiled(g) => bucket /\ (stage[g] = "create" => missed[g])

ListenInv == \A g \in Gateways : stage[g] = "listening" => bucket

StartInv == CountInv /\ RaceInv /\ ListenInv

\* While a request is answered, met covers what is reachable now and whatever
\* answered it so far.
ProbeInv == \A g \in Gateways :
  /\ check[g] = "asked" =>
       /\ reachable \subseteq met[g]
       /\ \A d \in Dependencies : word[g][d] = "ok" => d \in met[g]
  /\ check[g] # "asked" => \A d \in Dependencies : word[g][d] = "waiting"
  /\ check[g] = "ready" => met[g] = Dependencies

Inv == TypeOK /\ StartInv /\ ProbeInv

LEMMA InvInit == Init => Inv
<1> SUFFICES ASSUME Init PROVE Inv
  OBVIOUS
<1>0. /\ reachable \subseteq Dependencies /\ flips = 0
      /\ stage = [g \in Gateways |-> "head"]
      /\ attempts = [g \in Gateways |-> 0] /\ outages = [g \in Gateways |-> 0]
      /\ check = [g \in Gateways |-> "idle"] /\ met = [g \in Gateways |-> {}]
  BY DEF Init
<1>1. TypeOK
  <2>1. word \in [Gateways -> [Dependencies -> {"waiting", "ok", "unreachable"}]]
    BY DEF Init
  <2>2. missed \in [Gateways -> BOOLEAN] /\ bucket \in BOOLEAN BY Zenon DEF Init
  <2> QED BY <1>0, <2>1, <2>2 DEF TypeOK
<1>2. CountInv
  <2>1. SUFFICES ASSUME NEW g \in Gateways
                 PROVE  attempts[g] < MaxAttempts /\ attempts[g] <= outages[g] + 1
                        /\ stage[g] = "head"
    BY DEF CountInv
  <2>2. attempts[g] = 0 /\ outages[g] = 0 /\ stage[g] = "head" BY <1>0, Zenon
  <2> QED BY <2>2
<1>3. RaceInv
  <2>1. ASSUME NEW g \in Gateways PROVE ~Spoiled(g)
    <3>1. attempts[g] = 0 /\ outages[g] = 0 BY <1>0, Zenon
    <3> QED BY <3>1 DEF Spoiled
  <2> QED BY <2>1 DEF RaceInv
<1>4. ListenInv BY DEF Init, ListenInv
<1>5. ProbeInv BY DEF Init, ProbeInv
<1> QED BY <1>1, <1>2, <1>3, <1>4, <1>5 DEF Inv, StartInv

-----------------------------------------------------------------------------
(* The bucket bootstrap. *)

\* What a step of the bootstrap does to the schedule, one formula for each end.
Over(g) ==
  /\ stage'    = [stage EXCEPT ![g] = "listening"]
  /\ attempts' = [attempts EXCEPT ![g] = 0]
  /\ outages'  = [outages EXCEPT ![g] = 0]

GoesOn(g) ==
  /\ stage[g] = "head" /\ stage' = [stage EXCEPT ![g] = "create"]
  /\ UNCHANGED <<attempts, outages>>

Fails(g, n) ==
  /\ stage[g] = "create" /\ stage' = [stage EXCEPT
       ![g] = IF attempts[g] + 1 = MaxAttempts THEN "exited" ELSE "head"]
  /\ attempts' = [attempts EXCEPT ![g] = attempts[g] + 1]
  /\ outages' = [outages EXCEPT ![g] = outages[g] + n]

LEMMA StartCases ==
  ASSUME Inv, NEW g \in Gateways, Start(g)
  PROVE  \/ Over(g) /\ bucket'
         \/ GoesOn(g) /\ UNCHANGED bucket /\ missed' = [missed EXCEPT ![g] = ~Up]
              /\ ~(Up /\ bucket)
         \/ Fails(g, 1) /\ UNCHANGED missed
         \/ Fails(g, 0) /\ UNCHANGED missed /\ bucket /\ ~missed[g]
<1> USE DEF Start, Head, Create, Goto, Listen, Over, GoesOn, Fails
<1>1. CASE Head(g) /\ Up /\ bucket BY <1>1
<1>2. CASE Head(g) /\ ~(Up /\ bucket) BY <1>2
<1>3. CASE Create(g) /\ Up /\ ~bucket BY <1>3
<1>4. CASE Create(g) /\ ~(Up /\ ~bucket)
  <2> USE <1>4 DEF FailAttempt
  <2>1. CASE Up /\ ~missed[g]
    <3>1. outages \in [Gateways -> 0..MaxAttempts] BY DEF Inv, TypeOK
    <3>2. outages[g] + 0 = outages[g] BY <3>1
    <3>3. outages = [outages EXCEPT ![g] = outages[g]] BY <3>1
    <3>4. UNCHANGED outages BY <2>1
    <3>5. outages' = [outages EXCEPT ![g] = outages[g] + 0] BY <3>2, <3>3, <3>4
    <3> QED BY <2>1, <3>5
  <2>2. CASE ~(Up /\ ~missed[g]) BY <2>2
  <2> QED BY <2>1, <2>2
<1> QED BY <1>1, <1>2, <1>3, <1>4

LEMMA BucketStays ==
  ASSUME NEW g \in Gateways, Start(g), bucket PROVE bucket'
  BY DEF Start, Head, Create

LEMMA StartKeepsType ==
  ASSUME Inv, NEW g \in Gateways, Start(g) PROVE TypeOK'
<1>1. UNCHANGED <<reachable, flips, check, word, met>>
  BY DEF Start, Head, Create, world, probe
<1>2. bucket' \in BOOLEAN
  BY DEF Start, Head, Create, Inv, TypeOK
<1>3. missed' \in [Gateways -> BOOLEAN]
  <2>1. missed \in [Gateways -> BOOLEAN] BY DEF Inv, TypeOK
  <2>2. \/ UNCHANGED missed
        \/ \E b \in BOOLEAN : missed' = [missed EXCEPT ![g] = b]
    BY Zenon DEF Start, Head, Create, Listen
  <2> QED BY <2>1, <2>2
<1>4. attempts[g] \in Nat /\ outages[g] \in Nat /\ outages[g] <= attempts[g]
      /\ (stage[g] = "create" => attempts[g] < MaxAttempts)
  BY DEF Inv, TypeOK, StartInv, CountInv
<1>5. /\ stage' \in [Gateways -> Stages]
      /\ attempts' \in [Gateways -> 0..MaxAttempts]
      /\ outages' \in [Gateways -> 0..MaxAttempts]
      /\ \A h \in Gateways : outages'[h] <= attempts'[h]
  <2>1. /\ stage \in [Gateways -> Stages]
        /\ attempts \in [Gateways -> 0..MaxAttempts]
        /\ outages \in [Gateways -> 0..MaxAttempts]
        /\ \A h \in Gateways : outages[h] <= attempts[h]
    BY DEF Inv, TypeOK
  <2>2. CASE Over(g) BY <2>1, <2>2 DEF Over
  <2>3. CASE GoesOn(g) BY <2>1, <2>3 DEF GoesOn
  <2>4. ASSUME NEW n \in {0, 1}, Fails(g, n)
        PROVE  /\ stage' \in [Gateways -> Stages]
               /\ attempts' \in [Gateways -> 0..MaxAttempts]
               /\ outages' \in [Gateways -> 0..MaxAttempts]
               /\ \A h \in Gateways : outages'[h] <= attempts'[h]
    BY <1>4, <2>1, <2>4 DEF Fails
  <2> QED BY <2>2, <2>3, <2>4, StartCases
<1> QED BY <1>1, <1>2, <1>3, <1>5 DEF Inv, TypeOK

LEMMA StartKeepsRace ==
  ASSUME Inv, NEW g \in Gateways, Start(g) PROVE StartInv'
<1>1. /\ attempts \in [Gateways -> 0..MaxAttempts] /\ outages \in [Gateways -> 0..MaxAttempts]
      /\ stage \in [Gateways -> Stages]
      /\ missed \in [Gateways -> BOOLEAN] /\ bucket \in BOOLEAN
      /\ CountInv /\ RaceInv /\ ListenInv
  BY DEF Inv, TypeOK, StartInv
<1>2. \A h \in Gateways \ {g} :
        /\ UNCHANGED <<stage[h], missed[h]>> /\ (Spoiled(h) <=> Spoiled(h)')
  BY <1>1 DEF Start, Head, Create, Goto, Listen, FailAttempt, Spoiled
<1>3. CASE Over(g) /\ bucket'
  <2>1. CountInv' BY <1>1, <1>3 DEF Over, CountInv
  <2>2. ~Spoiled(g)' BY <1>1, <1>3 DEF Over, Spoiled
  <2> QED BY <1>1, <1>2, <1>3, <2>1, <2>2 DEF RaceInv, ListenInv, StartInv
<1>4. CASE /\ GoesOn(g) /\ UNCHANGED bucket /\ missed' = [missed EXCEPT ![g] = ~Up]
           /\ ~(Up /\ bucket)
  <2>1. CountInv' BY <1>1, <1>4 DEF GoesOn, CountInv
  <2>2. Spoiled(g) <=> Spoiled(g)' BY <1>4 DEF GoesOn, Spoiled
  \* With the bucket there, only a silent storage leads on to CreateBucket.
  <2>3. bucket => missed'[g] BY <1>1, <1>4
  <2>4. RaceInv' BY <1>1, <1>2, <1>4, <2>2, <2>3 DEF RaceInv
  <2>5. ListenInv' BY <1>1, <1>4 DEF GoesOn, ListenInv
  <2> QED BY <2>1, <2>4, <2>5 DEF StartInv
<1>5. CASE Fails(g, 1) /\ UNCHANGED missed
  <2>1. CountInv' BY <1>1, <1>5 DEF Fails, CountInv
  <2>2. Spoiled(g)' => Spoiled(g) BY <1>1, <1>5 DEF Fails, Spoiled
  <2>3. stage'[g] \in {"head", "exited"} BY <1>1, <1>5 DEF Fails
  <2>4. RaceInv' BY <1>1, <1>2, <2>2, <2>3, BucketStays DEF RaceInv
  <2>5. ListenInv' BY <1>1, <1>2, <2>3, BucketStays DEF ListenInv
  <2> QED BY <2>1, <2>4, <2>5 DEF StartInv
<1>6. CASE Fails(g, 0) /\ UNCHANGED missed /\ bucket /\ ~missed[g]
  <2>1. ~Spoiled(g) BY <1>1, <1>6 DEF Fails, RaceInv
  <2>2. CountInv' BY <1>1, <1>6, <2>1 DEF Fails, CountInv, Spoiled
  <2>3. stage'[g] \in {"head", "exited"} BY <1>1, <1>6 DEF Fails
  <2>4. bucket' BY <1>6, BucketStays
  <2>5. RaceInv' BY <1>1, <1>2, <2>3, <2>4 DEF RaceInv
  <2>6. ListenInv' BY <2>4 DEF ListenInv
  <2> QED BY <2>2, <2>5, <2>6 DEF StartInv
<1> QED BY <1>3, <1>4, <1>5, <1>6, StartCases

LEMMA StartKeeps ==
  ASSUME Inv, NEW g \in Gateways, Start(g) PROVE Inv'
<1>1. ProbeInv' BY DEF Start, Head, Create, world, probe, Inv, ProbeInv
<1> QED BY <1>1, StartKeepsType, StartKeepsRace DEF Inv

\* A start that hangs has made no attempt more and holds nothing back.
LEMMA HangKeeps == ASSUME Inv, NEW g \in Gateways, Hang(g) PROVE Inv'
<1> USE DEF Hang, Goto, world, probe, Inv
<1>1. TypeOK' BY DEF TypeOK
<1>2. StartInv' BY DEF TypeOK, StartInv, CountInv, RaceInv, ListenInv, Spoiled
<1>3. ProbeInv' BY DEF ProbeInv
<1> QED BY <1>1, <1>2, <1>3

-----------------------------------------------------------------------------
(* The probes. *)

LEMMA FlipKeeps == ASSUME Inv, Flip PROVE Inv'
<1> USE DEF Flip, boot, Inv
<1>1. reachable' \subseteq Dependencies BY DEF TypeOK
<1>2. TypeOK' BY <1>1 DEF TypeOK
<1>3. StartInv' BY DEF StartInv, CountInv, RaceInv, ListenInv, Spoiled
<1>4. ProbeInv' BY <1>1 DEF TypeOK, ProbeInv
<1> QED BY <1>2, <1>3, <1>4

LEMMA AskKeeps == ASSUME Inv, NEW g \in Gateways, Ask(g) PROVE Inv'
<1> USE DEF Ask, boot, world, Inv
<1>1. TypeOK' BY DEF TypeOK
<1>2. StartInv' BY DEF StartInv, CountInv, RaceInv, ListenInv, Spoiled
<1>3. ProbeInv' BY DEF TypeOK, ProbeInv
<1> QED BY <1>1, <1>2, <1>3

LEMMA SettleKeeps ==
  ASSUME Inv, NEW g \in Gateways, NEW d \in Dependencies, NEW w \in {"ok", "unreachable"},
         Settle(g, d, w), w = "ok" => d \in reachable
  PROVE  Inv'
<1> USE DEF Settle, boot, world, Inv
<1>1. TypeOK' BY DEF TypeOK
<1>2. StartInv' BY DEF StartInv, CountInv, RaceInv, ListenInv, Spoiled
<1>3. ProbeInv' BY DEF TypeOK, ProbeInv
<1> QED BY <1>1, <1>2, <1>3

LEMMA AnswerKeeps == ASSUME Inv, NEW g \in Gateways, Answer(g) PROVE Inv'
<1> USE DEF Answer, boot, world, Inv
<1>1. TypeOK' BY DEF TypeOK
<1>2. StartInv' BY DEF StartInv, CountInv, RaceInv, ListenInv, Spoiled
\* All said "ok", so that met covers all dependencies.
<1>3. ASSUME check'[g] = "ready" PROVE met[g] = Dependencies
  <2>1. check[g] = "asked" /\ AllOk(g) BY <1>3 DEF TypeOK
  <2>2. \A d \in Dependencies : d \in met[g] BY <2>1 DEF AllOk, ProbeInv
  <2>3. met[g] \subseteq Dependencies BY DEF TypeOK
  <2> QED BY <2>2, <2>3
<1>4. ProbeInv' BY <1>3 DEF TypeOK, ProbeInv
<1> QED BY <1>1, <1>2, <1>4

LEMMA InvNext == Inv /\ [Next]_vars => Inv'
<1> SUFFICES ASSUME Inv, [Next]_vars PROVE Inv'
  OBVIOUS
<1>1. CASE UNCHANGED vars
  BY <1>1 DEF vars, world, boot, probe, Inv, TypeOK, StartInv, CountInv, RaceInv,
              ListenInv, Spoiled, ProbeInv
<1>2. CASE Flip BY <1>2, FlipKeeps
<1>3. ASSUME NEW g \in Gateways, Start(g) PROVE Inv' BY <1>3, StartKeeps
<1>4. ASSUME NEW g \in Gateways, Ask(g) PROVE Inv' BY <1>4, AskKeeps
<1>5. ASSUME NEW g \in Gateways, Answer(g) PROVE Inv' BY <1>5, AnswerKeeps
<1>6. ASSUME NEW g \in Gateways, NEW d \in Dependencies, Hear(g, d) \/ Deadline(g, d)
      PROVE  Inv'
  BY <1>6, SettleKeeps DEF Hear, Deadline
<1>7. ASSUME NEW g \in Gateways, Hang(g) PROVE Inv' BY <1>7, HangKeeps
<1> QED BY <1>1, <1>2, <1>3, <1>4, <1>5, <1>6, <1>7 DEF Next, Probe

LEMMA InvAlways == Spec => []Inv
  BY InvInit, InvNext, PTL DEF Spec

-----------------------------------------------------------------------------
(* The theorems. *)

\* Every variable keeps its type; no gateway counts more outages than attempts,
\* nor more attempts than the schedule has.
THEOREM TypeCorrect == Spec => []TypeOK
<1>1. Inv => TypeOK BY DEF Inv
<1> QED BY <1>1, InvAlways, PTL

\* However many gateways race for the bucket, each listens only over an existing
\* one, and exits only if storage failed it in all but one of its attempts
\* (storage.ts:71-85, server.ts:21-31).
THEOREM StartHonest == Spec => []StartIsHonest
<1>1. Inv => \A g \in Gateways : stage[g] = "exited" => outages[g] >= MaxAttempts - 1
  BY DEF Inv, TypeOK, StartInv, CountInv
<1>2. Inv => StartIsHonest BY <1>1 DEF Inv, StartInv, ListenInv, StartIsHonest
<1> QED BY <1>2, InvAlways, PTL

\* A 200 of /readyz is earned: each dependency was reachable at some moment
\* between the request and the answer (health.ts:38-58).
THEOREM ReadyEarned == Spec => []ReadyIsEarned
<1>1. Inv => ReadyIsEarned BY DEF Inv, ProbeInv, ReadyIsEarned
<1> QED BY <1>1, InvAlways, PTL
=============================================================================
