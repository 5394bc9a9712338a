-------------------------- MODULE SubmissionProofs --------------------------
(***************************************************************************)
(* Proofs about Submission, for any finite set of requests, any users, keys   *)
(* and texts, and any limits.                                                *)
(***************************************************************************)
EXTENDS Submission, TLAPS, FiniteSetTheorems

-----------------------------------------------------------------------------
(* A request moves by its own steps or is cut off by the death of its gateway. *)

Serve(r) == Proceed(r) \/ AskRedis(r)
Own(r)   == Receive(r) \/ Serve(r) \/ Unavailable(r)
Cut(r)   == Die(On[r]) /\ r \in Serving(On[r])

\* A death changes nothing but the points of the requests it cuts off and their locks.
LEMMA DeathStep ==
  ASSUME TypeOK, NEW g, Die(g)
  PROVE  /\ UNCHANGED <<table, entry, reply, named, addFaults, lost>>
         /\ deaths' = deaths + 1 /\ deaths' \in 0..MaxDeaths
         /\ at' \in [Jobs -> Points]
         /\ \A k \in Jobs : \/ at'[k] = at[k] /\ k \notin Serving(g)
                            \/ at'[k] = "cut" /\ at[k] \in Steps /\ On[k] = g /\ Cut(k)
         /\ lock' \in [Users -> Jobs \cup {NoJob}]
         /\ \A u \in Users : lock'[u] = IF lock[u] \in Serving(g) THEN NoJob ELSE lock[u]
<1> USE DEF Die, TypeOK, Silent
<1>1. UNCHANGED <<table, entry, reply, named, addFaults, lost>> OBVIOUS
<1>2. deaths' = deaths + 1 /\ deaths' \in 0..MaxDeaths BY LimitsAssumption
<1>3. at' \in [Jobs -> Points] BY DEF Points
<1>4. ASSUME NEW k \in Jobs
      PROVE  \/ at'[k] = at[k] /\ k \notin Serving(g)
             \/ at'[k] = "cut" /\ at[k] \in Steps /\ On[k] = g /\ Cut(k)
  <2>1. CASE k \in Serving(g) BY <2>1 DEF Serving, Cut
  <2>2. CASE k \notin Serving(g) BY <2>2
  <2> QED BY <2>1, <2>2
<1>5. /\ lock' \in [Users -> Jobs \cup {NoJob}]
      /\ \A u \in Users : lock'[u] = IF lock[u] \in Serving(g) THEN NoJob ELSE lock[u]
  OBVIOUS
<1> QED BY <1>1, <1>2, <1>3, <1>4, <1>5

-----------------------------------------------------------------------------
(* What the workers do to the table meanwhile. *)

Mark(r) == MarkActive(r) \/ MarkQueued(r) \/ MarkCompleted(r) \/ MarkFailed(r, "INTERNAL")

\* No statement of a worker makes a row appear or disappear, decides a row twice, or
\* touches any row but its own.
LEMMA MarkStep ==
  ASSUME NEW r \in Jobs, TableTypeOK, Mark(r)
  PROVE  /\ TableTypeOK'
         /\ \A k \in Jobs : /\ k # r \/ status[k] \notin Pending => status'[k] = status[k]
                            /\ status[k] \in Pending => status'[k] \in Pending \cup Terminal
<1> USE DEF TableTypeOK, Statuses, Pending, Terminal, ErrorCodes, NotTerminal, table
<1>1. CASE MarkActive(r) \/ MarkQueued(r) BY <1>1 DEF MarkActive, MarkQueued
<1>2. CASE MarkCompleted(r) BY <1>2 DEF MarkCompleted
<1>3. CASE MarkFailed(r, "INTERNAL") BY <1>3 DEF MarkFailed
<1> QED BY <1>1, <1>2, <1>3 DEF Mark

-----------------------------------------------------------------------------
(* Every variable keeps its type. *)

LEMMA TypeInit == Init => TypeOK
  BY RequestsAssumption, LimitsAssumption
     DEF Init, TypeOK, TableInit, TableTypeOK, Statuses, ErrorCodes, Points, Replies

LEMMA TypeNext == TypeOK /\ [Next]_vars => TypeOK'
<1> SUFFICES ASSUME TypeOK, [Next]_vars PROVE TypeOK'
  OBVIOUS
<1> USE RequestsAssumption, LimitsAssumption
    DEF TypeOK, TableTypeOK, Statuses, Pending, Terminal, ErrorCodes, Points, Steps,
        InTransaction, Replies, Refusals, Goto, Answer, Refuse, Silent, Unlock, gateway,
        spent, table
<1>1. CASE UNCHANGED vars
  BY <1>1 DEF vars
<1>2. ASSUME NEW r \in Jobs, Receive(r) \/ Rate(r) \/ Validate(r) \/ Begin(r) \/ Reply(r)
      PROVE TypeOK'
  BY <1>2 DEF Receive, Rate, Validate, Begin, Reply
<1>3. ASSUME NEW r \in Jobs, Replay(r) \/ Winner(r) PROVE TypeOK'
  <2>1. ASSUME NEW job \in SameKey(r), Respond(r, job),
               UNCHANGED <<table, entry, lock, spent>>
        PROVE TypeOK'
    <3>1. job \in Jobs BY DEF SameKey
    <3> QED BY <2>1, <3>1 DEF Respond
  <2>2. ASSUME (Goto(r, "rate") /\ Silent) \/ Refuse(r, "ERROR"),
               UNCHANGED <<table, entry, lock, spent>>
        PROVE TypeOK'
    BY <2>2
  <2> QED BY <1>3, <2>1, <2>2 DEF Replay, Winner
<1>4. ASSUME NEW r \in Jobs, Acquire(r) PROVE TypeOK'
  BY <1>4 DEF Acquire
<1>5. ASSUME NEW r \in Jobs, Count(r) \/ Depth(r) PROVE TypeOK'
  BY <1>5 DEF Count, Depth
<1>6. ASSUME NEW r \in Jobs, Insert(r) PROVE TypeOK'
  <2>1. TableTypeOK' BY <1>6 DEF Insert, InsertRow
  <2>2. lock' \in [Users -> Jobs \cup {NoJob}] BY <1>6 DEF Insert
  <2>3. /\ at' \in [Jobs -> Points]
        /\ reply' \in [Jobs -> Replies]
        /\ named' \in [Jobs -> Jobs \cup {NoJob}]
    BY <1>6 DEF Insert
  <2>4. /\ entry' \in [Jobs -> {"none", "open", "done"}]
        /\ deaths' \in 0..MaxDeaths /\ addFaults' \in 0..MaxAddFaults /\ lost' \in 0..MaxLost
    BY <1>6 DEF Insert
  <2> QED BY <2>1, <2>2, <2>3, <2>4
<1>7. ASSUME NEW r \in Jobs, Enqueue(r) PROVE TypeOK'
  <2>1. TableTypeOK' BY <1>7 DEF Enqueue, AddEntry
  <2>2. lock' \in [Users -> Jobs \cup {NoJob}] BY <1>7 DEF Enqueue, AddEntry
  <2>3. /\ at' \in [Jobs -> Points]
        /\ reply' \in [Jobs -> Replies]
        /\ named' \in [Jobs -> Jobs \cup {NoJob}]
    BY <1>7 DEF Enqueue, AddEntry
  <2>4. /\ entry' \in [Jobs -> {"none", "open", "done"}]
        /\ deaths' \in 0..MaxDeaths /\ addFaults' \in 0..MaxAddFaults /\ lost' \in 0..MaxLost
    BY <1>7 DEF Enqueue, AddEntry
  <2> QED BY <2>1, <2>2, <2>3, <2>4
<1>8. ASSUME NEW r \in Jobs, Undo(r) PROVE TypeOK'
  <2>1. TableTypeOK' BY <1>8 DEF Undo, DeleteRow
  <2>2. lock' \in [Users -> Jobs \cup {NoJob}] BY <1>8 DEF Undo, DeleteRow
  <2>3. /\ at' \in [Jobs -> Points]
        /\ reply' \in [Jobs -> Replies]
        /\ named' \in [Jobs -> Jobs \cup {NoJob}]
    BY <1>8 DEF Undo, DeleteRow
  <2>4. /\ entry' \in [Jobs -> {"none", "open", "done"}]
        /\ deaths' \in 0..MaxDeaths /\ addFaults' \in 0..MaxAddFaults /\ lost' \in 0..MaxLost
    BY <1>8 DEF Undo, DeleteRow
  <2> QED BY <2>1, <2>2, <2>3, <2>4
<1>9. ASSUME NEW r \in Jobs, TimeOut(r) \/ LateDepth(r) \/ Unavailable(r) PROVE TypeOK'
  BY <1>9 DEF TimeOut, LateDepth, Unavailable
<1>10. ASSUME NEW r \in Jobs, WorkerStarts(r) \/ WorkerRetries(r) \/ WorkerEnds(r)
       PROVE TypeOK'
  <2>1. Mark(r) BY <1>10 DEF Mark, WorkerStarts, WorkerRetries, WorkerEnds
  <2>2. TableTypeOK' BY <2>1, MarkStep
  <2>3. /\ UNCHANGED <<gateway, spent>>
        /\ entry' \in [Jobs -> {"none", "open", "done"}]
    BY <1>10 DEF WorkerStarts, WorkerRetries, WorkerEnds
  <2> QED BY <2>2, <2>3
<1>11. ASSUME NEW g \in Gateways, Die(g) PROVE TypeOK'
  BY <1>11, DeathStep
<1> QED
  BY <1>1, <1>2, <1>3, <1>4, <1>5, <1>6, <1>7, <1>8, <1>9, <1>10, <1>11
     DEF Next, Proceed, AskRedis

\* Every variable of the submission path keeps its type: statuses, answers and
\* handler points are those of the code, the bounds on failures are kept.
THEOREM TypeCorrect == Spec => []TypeOK
  BY TypeInit, TypeNext, PTL DEF Spec

-----------------------------------------------------------------------------
(* The pending cap.  The transaction that counts holds the user's lock until  *)
(* its row is in, so the room it found is still there when it inserts.        *)

LockHeld == \A r \in Jobs : at[r] \in Locked => lock[Owner[r]] = r

RoomLeft == \A r \in Jobs :
  at[r] \in {"depth", "insert"} => Cardinality(PendingOf(Owner[r])) < PendingCap

CapInv == TypeOK /\ LockHeld /\ RoomLeft /\ PendingCapIsExact

LEMMA PendingFinite ==
  ASSUME NEW u
  PROVE  IsFiniteSet(PendingOf(u)) /\ Cardinality(PendingOf(u)) \in Nat
  BY RequestsAssumption, FS_Subset, FS_CardinalityType DEF PendingOf

LEMMA PendingFinitePrime ==
  ASSUME NEW u
  PROVE  IsFiniteSet(PendingOf(u)') /\ Cardinality(PendingOf(u)') \in Nat
  BY RequestsAssumption, FS_Subset, FS_CardinalityType DEF PendingOf

\* Fewer pending rows never break the cap.
LEMMA PendingShrinks ==
  ASSUME NEW u, PendingOf(u)' \subseteq PendingOf(u)
  PROVE  Cardinality(PendingOf(u)') <= Cardinality(PendingOf(u))
  BY PendingFinite, FS_Subset

\* Only an insert makes a row pending, and only for its own user.
LEMMA OnlyInsertAdds ==
  ASSUME TypeOK, NEW r \in Jobs, NEW u,
         \/ UNCHANGED status
         \/ DeleteRow(r)
         \/ Mark(r)
         \/ InsertRow(r) /\ Owner[r] # u
  PROVE  PendingOf(u)' \subseteq PendingOf(u)
<1> USE DEF PendingOf
<1>1. CASE UNCHANGED status BY <1>1
<1>2. CASE DeleteRow(r) BY <1>2 DEF DeleteRow, TypeOK, TableTypeOK, Pending
<1>3. CASE Mark(r)
  <2> SUFFICES ASSUME NEW k \in Jobs, status'[k] \in Pending PROVE status[k] \in Pending
    OBVIOUS
  <2> QED BY <1>3, MarkStep DEF TypeOK
<1>4. CASE InsertRow(r) /\ Owner[r] # u BY <1>4 DEF InsertRow, TypeOK, TableTypeOK
<1> QED BY <1>1, <1>2, <1>3, <1>4

LEMMA InsertAddsOne ==
  ASSUME TypeOK, NEW r \in Jobs, InsertRow(r), NEW u
  PROVE  Cardinality(PendingOf(u)') <= Cardinality(PendingOf(u)) + 1
<1>1. PendingOf(u)' \subseteq PendingOf(u) \cup {r}
  BY DEF PendingOf, InsertRow, TypeOK, TableTypeOK
<1>2. IsFiniteSet(PendingOf(u) \cup {r})
      /\ Cardinality(PendingOf(u) \cup {r}) <= Cardinality(PendingOf(u)) + 1
  BY PendingFinite, FS_AddElement
<1>3. Cardinality(PendingOf(u)') <= Cardinality(PendingOf(u) \cup {r})
  BY <1>1, <1>2, FS_Subset
<1> QED
  BY <1>2, <1>3, PendingFinite, PendingFinitePrime, FS_CardinalityType

\* A step of r that takes nobody's lock but gives its own up, or keeps it.
LEMMA LockStep ==
  ASSUME TypeOK, LockHeld, NEW r \in Jobs, NEW p, at' = [at EXCEPT ![r] = p],
         UNCHANGED lock \/ Unlock(r),
         p \in Locked => at[r] \in Locked /\ UNCHANGED lock
  PROVE  LockHeld'
<1> SUFFICES ASSUME NEW k \in Jobs, at'[k] \in Locked PROVE lock'[Owner[k]] = k
  BY DEF LockHeld
<1>1. Owner[k] \in Users BY RequestsAssumption
<1>2. CASE k = r BY <1>2 DEF LockHeld, TypeOK
<1>3. CASE k # r
  <2>1. lock[Owner[k]] = k BY <1>3 DEF LockHeld, TypeOK
  <2> QED BY <2>1, <1>1, <1>3 DEF Unlock
<1> QED BY <1>2, <1>3

\* A step of r that adds no pending row and enters neither gate keeps the rest.
LEMMA RoomStep ==
  ASSUME CapInv, NEW r \in Jobs, NEW p, at' = [at EXCEPT ![r] = p],
         \A u : PendingOf(u)' \subseteq PendingOf(u),
         p \in {"depth", "insert"} =>
           Cardinality(PendingOf(Owner[r])) < PendingCap
  PROVE  RoomLeft' /\ PendingCapIsExact'
<1>0. \A u : /\ Cardinality(PendingOf(u)') <= Cardinality(PendingOf(u))
             /\ Cardinality(PendingOf(u)) \in Nat
             /\ Cardinality(PendingOf(u)') \in Nat
  BY PendingShrinks, PendingFinite, PendingFinitePrime
<1>1. ASSUME NEW k \in Jobs, at'[k] \in {"depth", "insert"}
      PROVE  Cardinality(PendingOf(Owner[k])') < PendingCap
  <2>1. Cardinality(PendingOf(Owner[k])) < PendingCap
    BY <1>1 DEF CapInv, RoomLeft, TypeOK
  <2> QED BY <2>1, <1>0, LimitsAssumption
<1>2. ASSUME NEW u \in Users PROVE Cardinality(PendingOf(u)') <= PendingCap
  <2>1. Cardinality(PendingOf(u)) <= PendingCap BY DEF CapInv, PendingCapIsExact
  <2> QED BY <2>1, <1>0, LimitsAssumption
<1> QED BY <1>1, <1>2 DEF RoomLeft, PendingCapIsExact

LEMMA CapInit == Init => CapInv
<1> SUFFICES ASSUME Init PROVE CapInv
  OBVIOUS
<1>1. \A u : PendingOf(u) = {} BY DEF Init, TableInit, PendingOf, Pending
<1>2. \A u : Cardinality(PendingOf(u)) = 0 BY <1>1, FS_EmptySet
<1> QED
  BY <1>2, TypeInit, LimitsAssumption
     DEF CapInv, LockHeld, RoomLeft, PendingCapIsExact, Init, Locked

LEMMA CapNext == CapInv /\ [Next]_vars => CapInv'
<1> SUFFICES ASSUME CapInv, [Next]_vars PROVE CapInv'
  OBVIOUS
<1>0. TypeOK /\ LockHeld /\ TypeOK'
  BY TypeNext DEF CapInv
<1>1. CASE UNCHANGED vars
  <2>1. UNCHANGED <<at, lock, status>> BY <1>1 DEF vars, table, gateway
  <2>2. \A u : PendingOf(u)' = PendingOf(u) BY <2>1 DEF PendingOf
  <2>3. LockHeld' BY <1>0, <2>1 DEF LockHeld
  <2>4. RoomLeft' BY <2>1, <2>2 DEF CapInv, RoomLeft
  <2>5. PendingCapIsExact' BY <2>2 DEF CapInv, PendingCapIsExact
  <2> QED BY <1>0, <2>3, <2>4, <2>5 DEF CapInv
\* Requests outside the transaction, and the workers: no new pending row.
<1>2. ASSUME NEW r \in Jobs, NEW p \in Points \ {"depth", "insert", "count"},
             at' = [at EXCEPT ![r] = p], UNCHANGED lock \/ Unlock(r),
             UNCHANGED status \/ DeleteRow(r)
      PROVE  CapInv'
  <2>1. LockHeld' BY <1>0, <1>2, LockStep DEF Locked
  <2>2. \A u : PendingOf(u)' \subseteq PendingOf(u) BY <1>0, <1>2, OnlyInsertAdds
  <2>3. RoomLeft' /\ PendingCapIsExact' BY <1>2, <2>2, RoomStep
  <2> QED BY <1>0, <2>1, <2>3 DEF CapInv
<1>3. ASSUME NEW r \in Jobs,
             \/ Receive(r) \/ Replay(r) \/ Rate(r) \/ Validate(r) \/ Begin(r) \/ Winner(r)
             \/ Enqueue(r) \/ Undo(r) \/ Reply(r) \/ Unavailable(r) \/ TimeOut(r) \/ LateDepth(r)
      PROVE  CapInv'
  <2>1. UNCHANGED lock \/ Unlock(r)
    BY <1>3 DEF Receive, Replay, Rate, Validate, Begin, Winner, Enqueue, Undo, Reply,
                Unavailable, TimeOut, LateDepth
  <2>2. UNCHANGED status \/ DeleteRow(r)
    BY <1>3 DEF Receive, Replay, Rate, Validate, Begin, Winner, Enqueue, Undo, Reply,
                Unavailable, TimeOut, LateDepth, table
  <2>3. \E p \in Points \ {"depth", "insert", "count"} : at' = [at EXCEPT ![r] = p]
    BY <1>3 DEF Receive, Replay, Rate, Validate, Begin, Winner, Enqueue, Undo, Reply,
                Unavailable, TimeOut, LateDepth, Goto, Refuse, Answer, Respond, Points, Steps, InTransaction
  <2> QED BY <1>2, <2>1, <2>2, <2>3
<1>4. ASSUME NEW r \in Jobs, Acquire(r) PROVE CapInv'
  <2>1. LockHeld'
    <3> SUFFICES ASSUME NEW k \in Jobs, at'[k] \in Locked PROVE lock'[Owner[k]] = k
      BY DEF LockHeld
    <3>1. Owner[k] \in Users /\ Owner[r] \in Users BY RequestsAssumption
    <3>2. CASE k = r BY <1>4, <3>1, <3>2, <1>0 DEF Acquire, TypeOK
    <3>3. CASE k # r
      <4>1. lock[Owner[k]] = k BY <1>0, <1>4, <3>3 DEF Acquire, Goto, LockHeld, TypeOK
      <4>2. Owner[k] # Owner[r] BY <4>1, <1>4, RequestsAssumption DEF Acquire
      <4> QED BY <4>1, <4>2, <3>1, <1>4, <1>0 DEF Acquire, TypeOK
    <3> QED BY <3>2, <3>3
  <2>2. \A u : PendingOf(u)' \subseteq PendingOf(u)
    BY <1>4, <1>0, OnlyInsertAdds DEF Acquire, table
  <2>3. RoomLeft' /\ PendingCapIsExact'
    BY <1>4, <2>2, RoomStep DEF Acquire, Goto
  <2> QED BY <1>0, <2>1, <2>3 DEF CapInv
<1>5. ASSUME NEW r \in Jobs, Count(r) \/ Depth(r) PROVE CapInv'
  <2>1. \A u : PendingOf(u)' \subseteq PendingOf(u)
    BY <1>5, <1>0, OnlyInsertAdds DEF Count, Depth, table
  <2>2. CASE Unlock(r) /\ at' = [at EXCEPT ![r] = "answered"]
    <3>1. LockHeld' BY <1>0, <2>2, LockStep DEF Locked
    <3>2. RoomLeft' /\ PendingCapIsExact' BY <2>1, <2>2, RoomStep
    <3> QED BY <1>0, <3>1, <3>2 DEF CapInv
  <2>3. CASE UNCHANGED lock /\ at[r] \in Locked
             /\ \E p \in {"depth", "insert"} : at' = [at EXCEPT ![r] = p]
    <3>1. LockHeld' BY <1>0, <2>3, LockStep DEF Locked
    <3>2. Cardinality(PendingOf(Owner[r])) < PendingCap
      <4>1. CASE Count(r) /\ ~(Cardinality(PendingOf(Owner[r])) >= PendingCap)
        BY <4>1, PendingFinite, LimitsAssumption
      <4>2. CASE Count(r) /\ Cardinality(PendingOf(Owner[r])) >= PendingCap
        BY <4>2, <2>3, <1>0 DEF Count, Refuse, Answer, Goto, TypeOK
      <4>3. CASE Depth(r) BY <4>3 DEF Depth, CapInv, RoomLeft
      <4> QED BY <1>5, <4>1, <4>2, <4>3
    <3>3. RoomLeft' /\ PendingCapIsExact' BY <2>1, <2>3, <3>2, RoomStep
    <3> QED BY <1>0, <3>1, <3>3 DEF CapInv
  <2>4. CASE Count(r)
    BY <2>2, <2>3, <2>4 DEF Count, Refuse, Answer, Goto, Locked
  <2>5. CASE Depth(r)
    BY <2>2, <2>3, <2>5 DEF Depth, Refuse, Answer, Goto, Locked
  <2> QED BY <1>5, <2>4, <2>5
<1>6. ASSUME NEW r \in Jobs, Insert(r), InsertRow(r) PROVE CapInv'
  <2>0. at[r] = "insert" /\ Unlock(r)
        /\ \E p \in {"enqueue", "answered", "winner"} : at' = [at EXCEPT ![r] = p]
    BY <1>6 DEF Insert, Goto, Refuse, Answer
  <2>1. LockHeld' BY <1>0, <2>0, LockStep DEF Locked
  <2>2. \A u : u # Owner[r] => PendingOf(u)' \subseteq PendingOf(u)
    BY <1>0, <1>6, OnlyInsertAdds
  <2>3. \A u : /\ u # Owner[r] => Cardinality(PendingOf(u)') <= Cardinality(PendingOf(u))
               /\ Cardinality(PendingOf(u)') <= Cardinality(PendingOf(u)) + 1
               /\ Cardinality(PendingOf(u)) \in Nat
               /\ Cardinality(PendingOf(u)') \in Nat
    BY <2>2, <1>0, <1>6, InsertAddsOne, PendingShrinks, PendingFinite, PendingFinitePrime
  <2>4. Cardinality(PendingOf(Owner[r])) < PendingCap BY <2>0 DEF CapInv, RoomLeft
  <2>5. ASSUME NEW k \in Jobs, at'[k] \in {"depth", "insert"}
        PROVE  Cardinality(PendingOf(Owner[k])') < PendingCap
    <3>1. k # r /\ at[k] \in {"depth", "insert"} BY <2>5, <2>0, <1>0 DEF TypeOK
    <3>2. lock[Owner[k]] = k /\ lock[Owner[r]] = r
      BY <3>1, <2>0, <1>0 DEF LockHeld, Locked
    <3>3. Owner[k] # Owner[r] BY <3>1, <3>2
    <3>4. Cardinality(PendingOf(Owner[k])) < PendingCap BY <3>1 DEF CapInv, RoomLeft
    <3> QED BY <3>3, <3>4, <2>3, LimitsAssumption
  <2>6. ASSUME NEW u \in Users PROVE Cardinality(PendingOf(u)') <= PendingCap
    <3>1. Cardinality(PendingOf(u)) <= PendingCap BY DEF CapInv, PendingCapIsExact
    <3> QED BY <3>1, <2>3, <2>4, LimitsAssumption
  <2> QED BY <1>0, <2>1, <2>5, <2>6 DEF CapInv, RoomLeft, PendingCapIsExact
<1>7. ASSUME NEW r \in Jobs, Insert(r), UNCHANGED table PROVE CapInv'
  <2>1. UNCHANGED status /\ Unlock(r) /\ at[r] = "insert" BY <1>7 DEF Insert, table
  <2>2. at' = [at EXCEPT ![r] = "winner"] \/ InsertRow(r) BY <1>7 DEF Insert, Goto
  <2> QED BY <1>2, <1>6, <1>7, <2>1, <2>2 DEF Points, Steps
<1>8. ASSUME NEW r \in Jobs, WorkerStarts(r) \/ WorkerRetries(r) \/ WorkerEnds(r)
      PROVE CapInv'
  <2>1. Mark(r) /\ UNCHANGED <<at, lock>>
    BY <1>8 DEF Mark, WorkerStarts, WorkerRetries, WorkerEnds, gateway
  <2>2. LockHeld' BY <1>0, <2>1 DEF LockHeld
  <2>3. \A u : PendingOf(u)' \subseteq PendingOf(u) BY <1>0, <2>1, OnlyInsertAdds
  <2>4. at' = [at EXCEPT ![r] = at[r]] BY <2>1, <1>0 DEF TypeOK
  <2>5. RoomLeft' /\ PendingCapIsExact'
    BY <2>3, <2>4, RoomStep DEF CapInv, RoomLeft
  <2> QED BY <1>0, <2>2, <2>5 DEF CapInv
\* A death takes the locks of those it cuts off, and leaves nobody else's.
<1>9. ASSUME NEW g \in Gateways, Die(g) PROVE CapInv'
  <2>1. \A u : PendingOf(u)' = PendingOf(u) BY <1>0, <1>9, DeathStep DEF PendingOf, table
  <2>2. ASSUME NEW k \in Jobs, at'[k] \in Locked
        PROVE  at[k] = at'[k] /\ lock'[Owner[k]] = k
    <3>1. at'[k] = at[k] /\ k \notin Serving(g) BY <1>0, <1>9, <2>2, DeathStep DEF Locked
    <3>2. lock[Owner[k]] = k /\ Owner[k] \in Users
      BY <1>0, <2>2, <3>1, RequestsAssumption DEF LockHeld
    <3> QED BY <1>0, <1>9, <3>1, <3>2, DeathStep
  <2>3. LockHeld' BY <2>2 DEF LockHeld
  <2>4. RoomLeft' BY <2>1, <2>2 DEF CapInv, RoomLeft, Locked
  <2>5. PendingCapIsExact' BY <2>1 DEF CapInv, PendingCapIsExact
  <2> QED BY <1>0, <2>3, <2>4, <2>5 DEF CapInv
<1> QED
  BY <1>1, <1>3, <1>4, <1>5, <1>6, <1>7, <1>8, <1>9 DEF Next, Proceed, AskRedis, Insert

\* No user ever has more than PendingCap unfinished jobs, for any number of
\* concurrent submissions, gateways, failures and crashes.
THEOREM PendingCapExact == Spec => []PendingCapIsExact
<1>1. CapInv => PendingCapIsExact BY DEF CapInv
<1> QED BY <1>1, CapInit, CapNext, PTL DEF Spec

-----------------------------------------------------------------------------
(* A 202 keeps its row and its entry; a key keeps its job.                      *)

\* Rows of jobs only ever appear by an insert and disappear by the undo.
LEMMA RowSteps ==
  ASSUME TypeOK, [Next]_vars, NEW k \in Jobs
  PROVE  /\ status[k] # "ABSENT" => status'[k] # "ABSENT" \/ Undo(k)
         /\ status[k] = "ABSENT" => status'[k] = "ABSENT" \/ (Insert(k) /\ SameKey(k) = {})
<1> USE DEF TypeOK
<1>1. CASE UNCHANGED status BY <1>1
<1>2. ASSUME NEW r \in Jobs, Mark(r)
      PROVE  status'[k] = "ABSENT" <=> status[k] = "ABSENT"
  BY <1>2, MarkStep DEF Pending, Terminal
<1>3. ASSUME NEW r \in Jobs, Insert(r)
      PROVE  status[k] # "ABSENT" => status'[k] # "ABSENT"
  BY <1>3 DEF Insert, InsertRow, TableTypeOK, table
<1>4. ASSUME NEW r \in Jobs, Insert(r), status[k] = "ABSENT", status'[k] # "ABSENT"
      PROVE  k = r /\ SameKey(r) = {}
  BY <1>4 DEF Insert, InsertRow, TableTypeOK, table
<1>5. ASSUME NEW r \in Jobs, Undo(r)
      PROVE  status'[k] = status[k] \/ (k = r /\ status'[k] = "ABSENT")
  BY <1>5 DEF Undo, DeleteRow, TableTypeOK, table
<1>6. ASSUME NEW r \in Jobs,
             \/ Receive(r) \/ Replay(r) \/ Rate(r) \/ Validate(r) \/ Begin(r) \/ Acquire(r)
             \/ Count(r) \/ Depth(r) \/ Winner(r) \/ Enqueue(r) \/ Reply(r) \/ Unavailable(r)
             \/ TimeOut(r) \/ LateDepth(r)
      PROVE  UNCHANGED status
  BY <1>6 DEF Receive, Replay, Rate, Validate, Begin, Acquire, Count, Depth, Winner, Enqueue,
              Reply, Unavailable, TimeOut, LateDepth, table
<1>7. ASSUME NEW r \in Jobs, WorkerStarts(r) \/ WorkerRetries(r) \/ WorkerEnds(r)
      PROVE  Mark(r)
  BY <1>7 DEF Mark, WorkerStarts, WorkerRetries, WorkerEnds
<1>8. ASSUME NEW g \in Gateways, Die(g) PROVE UNCHANGED status
  BY <1>8, DeathStep DEF table
<1> QED
  BY <1>1, <1>2, <1>3, <1>4, <1>5, <1>6, <1>7, <1>8
     DEF Next, Proceed, AskRedis, vars, table

Progressed == \A r \in Jobs :
  /\ at[r] \notin {"answered", "cut"} => reply[r] = "none" /\ named[r] = NoJob
  /\ at[r] = "enqueue" => status[r] # "ABSENT"
  /\ at[r] = "reply" => status[r] # "ABSENT" /\ entry[r] # "none"
  /\ at[r] = "cut" => reply[r] = "none" /\ named[r] = NoJob

AcceptInv == TypeOK /\ Progressed /\ AcceptedIsKept

\* What a step does to another request's progress: nothing.
LEMMA OthersKept ==
  ASSUME TypeOK, [Next]_vars, NEW k \in Jobs
  PROVE  /\ entry[k] # "none" => entry'[k] # "none"
         /\ \/ at'[k] = at[k] /\ reply'[k] = reply[k] /\ named'[k] = named[k]
            \/ Own(k) \/ Cut(k)
<1> USE DEF TypeOK
<1>1. CASE UNCHANGED vars BY <1>1 DEF vars, gateway
<1>2. ASSUME NEW r \in Jobs, WorkerStarts(r) \/ WorkerRetries(r) \/ WorkerEnds(r)
      PROVE  /\ entry[k] # "none" => entry'[k] # "none"
             /\ UNCHANGED <<at, reply, named>>
  BY <1>2 DEF WorkerStarts, WorkerRetries, WorkerEnds, gateway
<1>3. ASSUME NEW r \in Jobs, Own(r)
      PROVE  entry[k] # "none" => entry'[k] # "none"
  BY <1>3 DEF Own, Serve, Proceed, AskRedis, Receive, Replay, Rate, Validate, Begin, Acquire,
              Count, Depth, TimeOut, LateDepth, Insert, Winner, Enqueue, AddEntry, Undo, Reply,
              Unavailable
<1>4. ASSUME NEW r \in Jobs, r # k, Own(r)
      PROVE  at'[k] = at[k] /\ reply'[k] = reply[k] /\ named'[k] = named[k]
  BY <1>4 DEF Own, Serve, Proceed, AskRedis, Receive, Replay, Rate, Validate, Begin, Acquire,
              Count, Depth, TimeOut, LateDepth, Insert, Winner, Enqueue, Undo, Reply,
              Unavailable, Goto, Silent, Answer, Refuse, Respond
<1>5. ASSUME NEW g \in Gateways, Die(g)
      PROVE  /\ UNCHANGED <<entry, reply, named>>
             /\ at'[k] = at[k] \/ Cut(k)
  BY <1>5, DeathStep
<1> QED BY <1>1, <1>2, <1>3, <1>4, <1>5 DEF Next, Own, Serve

\* What a request's own steps do to its progress.
LEMMA OwnStep ==
  ASSUME TypeOK, NEW k \in Jobs, Own(k) \/ Cut(k)
  PROVE  /\ at[k] \notin {"answered", "cut"}
         /\ at'[k] = "answered" \/ (reply'[k] = reply[k] /\ named'[k] = named[k])
         /\ at'[k] = "enqueue" => Insert(k) /\ InsertRow(k)
         /\ at'[k] = "reply" => at[k] = "enqueue" /\ entry'[k] = "open"
         /\ reply'[k] = "ACCEPTED" => reply'[k] = reply[k] \/ Reply(k)
         /\ named'[k] # NoJob => \/ named'[k] = named[k]
                                 \/ Reply(k)
                                 \/ named'[k] \in SameKey(k) /\ (Replay(k) \/ Winner(k))
         /\ at'[k] = "undo" => addFaults < MaxAddFaults \/ lost < MaxLost
<1> USE DEF TypeOK, Goto, Answer, Refuse, Silent
<1>1. CASE Receive(k) \/ Rate(k) \/ Validate(k) \/ Begin(k) \/ Acquire(k) \/ Count(k) \/ Depth(k)
           \/ TimeOut(k) \/ LateDepth(k)
  BY <1>1 DEF Receive, Rate, Validate, Begin, Acquire, Count, Depth, TimeOut, LateDepth,
              Replies, Refusals
<1>2. CASE Replay(k) \/ Winner(k)
  BY <1>2 DEF Replay, Winner, Respond, Replies, Refusals
<1>3. CASE Insert(k) BY <1>3 DEF Insert, Replies, Refusals
<1>4. CASE Enqueue(k) BY <1>4 DEF Enqueue, AddEntry
<1>5. CASE Undo(k) \/ Unavailable(k) BY <1>5 DEF Undo, Unavailable, InTransaction
<1>6. CASE Reply(k) BY <1>6 DEF Reply
<1>7. CASE Cut(k)
  <2>1. at[k] \in Steps /\ at'[k] = "cut" BY <1>7 DEF Cut, Die, Serving
  <2>2. reply'[k] = reply[k] /\ named'[k] = named[k] BY <1>7 DEF Cut, Die
  <2> QED BY <2>1, <2>2 DEF Steps, InTransaction
<1> QED BY <1>1, <1>2, <1>3, <1>4, <1>5, <1>6, <1>7 DEF Own, Serve, Proceed, AskRedis

LEMMA AcceptNext == AcceptInv /\ [Next]_vars => AcceptInv'
<1> SUFFICES ASSUME AcceptInv, [Next]_vars PROVE AcceptInv'
  OBVIOUS
<1>0. TypeOK /\ TypeOK' BY TypeNext DEF AcceptInv
<1>1. ASSUME NEW k \in Jobs, at[k] # "undo", status[k] # "ABSENT" PROVE status'[k] # "ABSENT"
  BY <1>0, <1>1, RowSteps DEF Undo
<1>2. ASSUME NEW k \in Jobs, entry[k] # "none" PROVE entry'[k] # "none"
  BY <1>0, <1>2, OthersKept
<1>3. ASSUME NEW k \in Jobs, at'[k] = at[k], reply'[k] = reply[k], named'[k] = named[k]
      PROVE  /\ at'[k] \notin {"answered", "cut"} => reply'[k] = "none" /\ named'[k] = NoJob
             /\ at'[k] = "enqueue" => status'[k] # "ABSENT"
             /\ at'[k] = "reply" => status'[k] # "ABSENT" /\ entry'[k] # "none"
             /\ at'[k] = "cut" => reply'[k] = "none" /\ named'[k] = NoJob
             /\ reply'[k] = "ACCEPTED" => status'[k] # "ABSENT" /\ entry'[k] # "none"
  BY <1>1, <1>2, <1>3 DEF AcceptInv, Progressed, AcceptedIsKept
<1>4. ASSUME NEW k \in Jobs, Own(k) \/ Cut(k)
      PROVE  /\ at'[k] \notin {"answered", "cut"} => reply'[k] = "none" /\ named'[k] = NoJob
             /\ at'[k] = "enqueue" => status'[k] # "ABSENT"
             /\ at'[k] = "reply" => status'[k] # "ABSENT" /\ entry'[k] # "none"
             /\ at'[k] = "cut" => reply'[k] = "none" /\ named'[k] = NoJob
             /\ reply'[k] = "ACCEPTED" => status'[k] # "ABSENT" /\ entry'[k] # "none"
  <2>1. reply[k] = "none" /\ named[k] = NoJob
    BY <1>0, <1>4, OwnStep DEF AcceptInv, Progressed
  <2>2. at'[k] # "answered" => reply'[k] = "none" /\ named'[k] = NoJob
    BY <1>0, <1>4, <2>1, OwnStep
  <2>3. at'[k] = "enqueue" => status'[k] # "ABSENT"
    BY <1>0, <1>4, OwnStep DEF InsertRow, TypeOK, TableTypeOK
  <2>4. at'[k] = "reply" => status'[k] # "ABSENT" /\ entry'[k] # "none"
    BY <1>0, <1>4, <1>1, OwnStep DEF AcceptInv, Progressed
  <2>5. reply'[k] = "ACCEPTED" => status'[k] # "ABSENT" /\ entry'[k] # "none"
    <3>1. reply'[k] = "ACCEPTED" => at[k] = "reply"
      BY <1>0, <1>4, <2>1, OwnStep DEF Reply
    <3> QED BY <3>1, <1>1, <1>2 DEF AcceptInv, Progressed
  <2> QED BY <2>2, <2>3, <2>4, <2>5
<1>5. Progressed' /\ AcceptedIsKept'
  BY <1>0, <1>3, <1>4, OthersKept DEF Progressed, AcceptedIsKept
<1> QED BY <1>0, <1>5 DEF AcceptInv

LEMMA AcceptInit == Init => AcceptInv
  BY TypeInit DEF Init, AcceptInv, Progressed, AcceptedIsKept

\* A submission that was answered 202 has its row and its queue entry for good,
\* whatever the other requests, the workers and the failures do.
THEOREM AcceptedKept == Spec => []AcceptedIsKept
<1>1. AcceptInv => AcceptedIsKept BY DEF AcceptInv
<1> QED BY <1>1, AcceptInit, AcceptNext, PTL DEF Spec

-----------------------------------------------------------------------------
(* While no enqueue fails and no effect is misreported, a key names one job.    *)

Reliable == MaxAddFaults = 0 /\ MaxLost = 0

Bound(j, r) == /\ status[j] # "ABSENT"
               /\ j = r \/ (Key[r] # NoKey /\ Key[j] = Key[r] /\ Owner[j] = Owner[r])

KeyInv ==
  /\ AcceptInv
  /\ \A r \in Jobs : at[r] # "undo"
  /\ \A r, k \in Jobs : k \in SameKey(r) /\ status[r] # "ABSENT" => k = r
  /\ \A r \in Jobs : named[r] # NoJob => Bound(named[r], r)

LEMMA KeyNext == Reliable /\ KeyInv /\ [Next]_vars => KeyInv'
<1> SUFFICES ASSUME Reliable, KeyInv, [Next]_vars PROVE KeyInv'
  OBVIOUS
<1>0. AcceptInv /\ AcceptInv' /\ TypeOK /\ TypeOK'
  BY AcceptNext, TypeNext DEF KeyInv, AcceptInv
<1>1. ASSUME NEW k \in Jobs, status[k] # "ABSENT" PROVE status'[k] # "ABSENT"
  BY <1>0, <1>1, RowSteps DEF KeyInv, Undo
<1>2. ASSUME NEW r \in Jobs PROVE at'[r] # "undo"
  <2>1. ~(addFaults < MaxAddFaults \/ lost < MaxLost)
    BY <1>0 DEF Reliable, TypeOK
  <2> QED BY <2>1, <1>0, OwnStep, OthersKept DEF KeyInv
<1>3. ASSUME NEW r \in Jobs, NEW k \in Jobs, k \in SameKey(r)', status'[r] # "ABSENT"
      PROVE  k = r
  <2>1. /\ Key[r] # NoKey /\ Key[k] = Key[r] /\ Owner[k] = Owner[r]
        /\ status'[k] # "ABSENT"
    BY <1>3 DEF SameKey
  <2>2. CASE status[r] # "ABSENT" /\ status[k] # "ABSENT"
    BY <2>1, <2>2 DEF KeyInv, SameKey
  <2>3. CASE status[r] = "ABSENT" /\ status[k] # "ABSENT"
    <3>1. SameKey(r) = {} BY <1>0, <1>3, <2>3, RowSteps
    <3> QED BY <2>1, <2>3, <3>1 DEF SameKey
  <2>4. CASE status[r] # "ABSENT" /\ status[k] = "ABSENT"
    <3>1. SameKey(k) = {} BY <1>0, <2>1, <2>4, RowSteps
    <3> QED BY <2>1, <2>4, <3>1 DEF SameKey
  <2>5. CASE status[r] = "ABSENT" /\ status[k] = "ABSENT"
    <3>1. Insert(r) /\ Insert(k) BY <1>0, <1>3, <2>1, <2>5, RowSteps
    <3>2. at[k] = "insert" /\ at'[k] # "insert"
      BY <3>1, <1>0 DEF Insert, Goto, Refuse, Answer, TypeOK
    <3> QED BY <3>1, <3>2, <1>0 DEF Insert, Goto, Refuse, Answer, TypeOK
  <2> QED BY <2>2, <2>3, <2>4, <2>5
<1>4. ASSUME NEW r \in Jobs, named'[r] # NoJob PROVE Bound(named[r], r)'
  <2>1. named'[r] \in Jobs BY <1>0, <1>4 DEF TypeOK
  <2>2. Bound(named'[r], r)
    <3>1. CASE named'[r] = named[r] BY <1>4, <3>1 DEF KeyInv
    <3>2. CASE Reply(r)
      <4>1. named'[r] = r BY <3>2, <1>0 DEF Reply, Answer, TypeOK
      <4> QED BY <4>1, <3>2, <1>0 DEF Reply, AcceptInv, Progressed, Bound
    <3>3. CASE named'[r] \in SameKey(r) BY <3>3 DEF SameKey, Bound
    <3> QED BY <1>0, <1>4, <3>1, <3>2, <3>3, OwnStep, OthersKept
  <2> QED BY <2>1, <2>2, <1>1 DEF Bound
<1> QED BY <1>0, <1>2, <1>3, <1>4 DEF KeyInv

LEMMA KeyInit == Init => KeyInv
  BY AcceptInit DEF Init, KeyInv, TableInit

LEMMA KeyImplies == KeyInv => KeyNamesOneJob
<1> SUFFICES ASSUME KeyInv, NEW r \in Jobs, named[r] # NoJob
             PROVE  /\ status[named[r]] # "ABSENT"
                    /\ \A k \in Jobs : /\ Key[r] # NoKey /\ Key[k] = Key[r]
                                       /\ Owner[k] = Owner[r] /\ named[k] # NoJob
                                       => named[k] = named[r]
  BY DEF KeyNamesOneJob
<1>0. TypeOK BY DEF KeyInv, AcceptInv
<1>1. named[r] \in Jobs /\ Bound(named[r], r) BY <1>0 DEF KeyInv, TypeOK
<1>2. ASSUME NEW k \in Jobs, Key[r] # NoKey, Key[k] = Key[r], Owner[k] = Owner[r],
             named[k] # NoJob
      PROVE  named[k] = named[r]
  <2>1. named[k] \in Jobs /\ Bound(named[k], k) BY <1>0, <1>2 DEF KeyInv, TypeOK
  <2>2. named[k] \in SameKey(named[r]) BY <1>1, <1>2, <2>1 DEF Bound, SameKey
  <2> QED BY <1>1, <2>1, <2>2 DEF KeyInv, Bound
<1> QED BY <1>1, <1>2 DEF Bound

\* Two 2xx answers to one key of one user name the same job, which exists, as
\* long as Redis takes every enqueue and no report is lost; processes may die.
\* SubmitForgotten shows that the first condition cannot be dropped.
THEOREM KeysNameOneJob == ASSUME Reliable PROVE Spec => []KeyNamesOneJob
<1>1. KeyInv /\ [Next]_vars => KeyInv' BY KeyNext
<1> QED BY <1>1, KeyInit, KeyImplies, PTL DEF Spec

-----------------------------------------------------------------------------
(* Pending rows that nobody will work on: what makes them.                      *)

\* A request's step orphans no other request's row, and its own only by a report
\* that was false.
LEMMA OrphanStep ==
  ASSUME TypeOK, [Next]_vars, NEW r \in Jobs, Own(r)
  PROVE  /\ Orphans' \subseteq Orphans \cup {r}
         /\ r \in Orphans' => r \in Orphans \/ lost' > lost
<1> USE DEF TypeOK
<1>1. ASSUME NEW k \in Jobs, k # r, k \in Orphans' PROVE k \in Orphans
  <2>1. at'[k] = at[k] /\ entry'[k] = entry[k] /\ status'[k] = status[k]
    BY <1>1 DEF Own, Serve, Proceed, AskRedis, Receive, Replay, Rate, Validate, Begin, Acquire,
                Count, Depth, TimeOut, LateDepth, Insert, Winner, Enqueue, AddEntry, Undo,
                Reply, Unavailable, Goto, Answer, Refuse, Respond, InsertRow, DeleteRow,
                TableTypeOK, table
  <2> QED BY <1>1, <2>1 DEF Orphans
<1>2. ASSUME r \in Orphans', r \notin Orphans PROVE lost' > lost
  <2>0. /\ status'[r] \in Pending /\ entry'[r] = "none" /\ at'[r] \notin {"enqueue", "undo"}
        /\ entry[r] = "none"
    BY <1>2, OthersKept DEF Orphans
  <2>1. status[r] \notin Pending \/ at[r] \in {"enqueue", "undo"}
    BY <1>2, <2>0 DEF Orphans
  <2>2. CASE Insert(r) BY <2>0, <2>2, <2>1 DEF Insert, Goto, table
  <2>3. CASE Enqueue(r) BY <2>0, <2>3 DEF Enqueue, AddEntry, Goto
  <2>4. CASE Undo(r) BY <2>0, <2>4 DEF Undo, DeleteRow, TableTypeOK, Pending
  <2>5. CASE Receive(r) \/ Replay(r) \/ Rate(r) \/ Validate(r) \/ Begin(r) \/ Acquire(r)
             \/ Count(r) \/ Depth(r) \/ TimeOut(r) \/ LateDepth(r) \/ Winner(r) \/ Reply(r)
             \/ Unavailable(r)
    BY <2>0, <2>1, <2>5 DEF Receive, Replay, Rate, Validate, Begin, Acquire, Count, Depth,
                            TimeOut, LateDepth, Winner, Reply, Unavailable, InTransaction, table
  <2> QED BY <2>2, <2>3, <2>4, <2>5 DEF Own, Serve, Proceed, AskRedis
<1>3. Orphans' \subseteq Jobs BY DEF Orphans
<1> QED BY <1>1, <1>2, <1>3

\* A worker touches no row without an entry.
LEMMA WorkersOrphanNothing ==
  ASSUME TypeOK, [Next]_vars, NEW r \in Jobs,
         WorkerStarts(r) \/ WorkerRetries(r) \/ WorkerEnds(r)
  PROVE  Orphans' \subseteq Orphans
<1>1. Mark(r) /\ entry[r] = "open" /\ UNCHANGED at
  BY DEF Mark, WorkerStarts, WorkerRetries, WorkerEnds, gateway
<1>2. ASSUME NEW k \in Jobs, k \in Orphans' PROVE k \in Orphans
  <2>1. entry[k] = "none" /\ entry'[k] = "none" BY <1>2, OthersKept DEF Orphans
  <2>2. k # r BY <1>1, <2>1
  <2>3. status'[k] = status[k] BY <1>1, <2>2, MarkStep DEF TypeOK
  <2> QED BY <1>1, <1>2, <2>1, <2>3 DEF Orphans
<1> QED BY <1>2 DEF Orphans

\* A death orphans only what was committed and not enqueued yet.
LEMMA DeathOrphans ==
  ASSUME TypeOK, NEW g, Die(g), NEW r \in Orphans' \ Orphans
  PROVE  On[r] = g /\ at[r] \in {"enqueue", "undo"}
<1>1. r \in Jobs BY DEF Orphans
<1>2. UNCHANGED <<status, entry>> BY DeathStep DEF table
<1>3. at[r] \in {"enqueue", "undo"} BY <1>1, <1>2 DEF Orphans
<1>4. at'[r] # at[r] BY <1>3 DEF Orphans
<1> QED BY <1>1, <1>3, <1>4, DeathStep

\* A row is orphaned by a false report, one by each, or by the death of the gateway
\* that served its request between commit and enqueue (jobs.ts:189-205), however
\* many requests and gateways there are: never by a refused enqueue, nor by a worker.
THEOREM OrphansCaused == Spec => OrphansHaveACause
<1> DEFINE Made == Orphans' \ Orphans
           Cause == \/ Made = {}
                    \/ lost' > lost /\ Cardinality(Made) = 1
                    \/ /\ deaths' > deaths
                       /\ \E g \in Gateways :
                            \A r \in Made : On[r] = g /\ at[r] \in {"enqueue", "undo"}
<1>1. ASSUME TypeOK, [Next]_vars PROVE Cause \/ UNCHANGED vars
  <2>1. ASSUME NEW r \in Jobs, Own(r) PROVE Cause
    <3>1. /\ Orphans' \subseteq Orphans \cup {r}
          /\ r \in Orphans' => r \in Orphans \/ lost' > lost
      BY <1>1, <2>1, OrphanStep
    <3>2. Made = {} \/ (Made = {r} /\ lost' > lost) BY <3>1
    <3>3. Cardinality({r}) = 1 BY FS_Singleton
    <3> QED BY <3>2, <3>3
  <2>2. ASSUME NEW r \in Jobs, WorkerStarts(r) \/ WorkerRetries(r) \/ WorkerEnds(r)
        PROVE  Cause
    BY <1>1, <2>2, WorkersOrphanNothing
  <2>3. ASSUME NEW g \in Gateways, Die(g) PROVE Cause
    <3>1. \A r \in Made : On[r] = g /\ at[r] \in {"enqueue", "undo"}
      BY <1>1, <2>3, DeathOrphans
    <3>2. deaths' > deaths BY <1>1, <2>3, DeathStep DEF TypeOK
    <3> QED BY <3>1, <3>2
  <2> QED BY <1>1, <2>1, <2>2, <2>3 DEF Next, Own, Serve
<1> QED BY <1>1, TypeCorrect, PTL DEF Spec, OrphansHaveACause

-----------------------------------------------------------------------------
(* A refusal leaves nothing: it is only given before the insert.                *)

Before == {"new", "replay", "rate", "validate", "begin", "late", "winner"} \cup InTransaction

Rules == Refusals \ {"ERROR"}

Clean(r) == status[r] = "ABSENT" /\ entry[r] = "none"

RefuseInv ==
  /\ TypeOK
  /\ \A r \in Jobs : at[r] \in Before => Clean(r) /\ reply[r] = "none"
  /\ \A r \in Jobs : at[r] \in {"enqueue", "undo", "reply", "cut"} => reply[r] \notin Rules
  /\ \A r \in Jobs : reply[r] \in Rules => Clean(r)
  /\ \A r \in Jobs : \A u \in Users : lock[u] = r => at[r] \in Locked

\* Nothing appears under a request but by its own insert and its own enqueue.
LEMMA CleanKept ==
  ASSUME TypeOK, [Next]_vars, NEW r \in Jobs, Clean(r), at[r] # "enqueue",
         Insert(r) => UNCHANGED table
  PROVE  Clean(r)'
<1> USE DEF TypeOK
<1>1. status'[r] = "ABSENT" BY RowSteps DEF Clean, table
<1>2. CASE UNCHANGED entry BY <1>1, <1>2 DEF Clean
<1>3. ASSUME NEW k \in Jobs, WorkerStarts(k) \/ WorkerRetries(k) \/ WorkerEnds(k)
      PROVE  entry'[r] = entry[r]
  BY <1>3 DEF WorkerStarts, WorkerRetries, WorkerEnds, Clean
<1>4. ASSUME NEW k \in Jobs, Own(k) PROVE entry'[r] = entry[r]
  BY <1>4 DEF Own, Serve, Proceed, AskRedis, Receive, Replay, Rate, Validate, Begin, Acquire,
              Count, Depth, TimeOut, LateDepth, Insert, Winner, Enqueue, AddEntry, Undo, Reply,
              Unavailable
<1>5. ASSUME NEW g \in Gateways, Die(g) PROVE UNCHANGED entry
  BY <1>5, DeathStep
<1> QED BY <1>1, <1>2, <1>3, <1>4, <1>5 DEF Next, Own, Serve, Clean, vars

\* What a request's own step, or its end, makes of the invariant.
LEMMA RefuseOwn ==
  ASSUME RefuseInv, [Next]_vars, NEW r \in Jobs, Own(r) \/ Cut(r)
  PROVE  /\ at'[r] \in Before => Clean(r)' /\ reply'[r] = "none"
         /\ at'[r] \in {"enqueue", "undo", "reply", "cut"} => reply'[r] \notin Rules
         /\ reply'[r] \in Rules => Clean(r)'
         /\ \A u \in Users : lock'[u] = r => at'[r] \in Locked
<1> USE DEF RefuseInv, TypeOK, Goto, Answer, Refuse, Silent, Before, InTransaction, Rules,
            Refusals, Locked
<1>0. \A u \in Users : Unlock(r) => lock'[u] # r BY RequestsAssumption DEF Unlock
<1>1. CASE Cut(r)
  <2>1. at[r] \in Steps /\ at'[r] = "cut" /\ reply'[r] = reply[r] /\ UNCHANGED <<table, entry>>
    BY <1>1, DeathStep DEF Cut, Serving
  <2>2. \A u \in Users : lock'[u] # r
    BY <1>1, DeathStep, RequestsAssumption DEF Cut
  <2>3. reply[r] \notin Rules BY <2>1 DEF Steps
  <2> QED BY <2>1, <2>2, <2>3
<1>2. CASE at[r] \in Before /\ UNCHANGED table
  <2>1. Clean(r)' BY <1>2, CleanKept
  <2>2. reply[r] = "none" BY <1>2
  <2>3. CASE Receive(r) \/ Replay(r) \/ Rate(r) \/ Validate(r) \/ Begin(r) \/ Winner(r)
    <3>1. at[r] \notin Locked /\ UNCHANGED lock
      BY <2>3 DEF Receive, Replay, Rate, Validate, Begin, Winner
    <3>2. at'[r] = "answered" \/ (at'[r] \in Before /\ reply'[r] = "none")
      BY <2>2, <2>3 DEF Receive, Replay, Rate, Validate, Begin, Winner, Respond
    <3> QED BY <2>1, <3>1, <3>2
  <2>4. CASE Acquire(r) \/ Count(r) \/ Depth(r)
    <3>1. /\ at'[r] = "answered" \/ (at'[r] \in Locked /\ reply'[r] = "none")
          /\ at'[r] = "answered" => Unlock(r)
      BY <2>2, <2>4 DEF Acquire, Count, Depth
    <3> QED BY <1>0, <2>1, <3>1
  <2>5. CASE Insert(r) \/ Unavailable(r) \/ TimeOut(r)
    <3>1. /\ Unlock(r)
          /\ \/ at'[r] \in {"answered", "winner", "enqueue", "late"} /\ reply'[r] = "none"
             \/ at'[r] = "answered" /\ reply'[r] = "ERROR"
      BY <2>2, <2>5 DEF Insert, Unavailable, TimeOut
    <3> QED BY <1>0, <2>1, <3>1
  <2>6. CASE LateDepth(r)
    <3>1. at[r] \notin Locked /\ UNCHANGED lock /\ at'[r] = "answered" BY <2>6 DEF LateDepth
    <3> QED BY <2>1, <3>1
  <2>7. ~(Enqueue(r) \/ Undo(r) \/ Reply(r)) BY <1>2 DEF Enqueue, Undo, Reply
  <2> QED BY <1>1, <2>3, <2>4, <2>5, <2>6, <2>7 DEF Own, Serve, Proceed, AskRedis
<1>3. CASE at[r] \in Before /\ ~UNCHANGED table
  <2>1. Cut(r) \/ Insert(r)
    BY <1>3 DEF Own, Serve, Proceed, AskRedis, Receive, Replay, Rate, Validate, Begin,
                Acquire, Count, Depth, TimeOut, LateDepth, Winner, Enqueue, Undo, Reply,
                Unavailable
  <2>2. CASE Insert(r)
    <3>1. /\ Unlock(r)
          /\ \/ at'[r] = "enqueue" /\ reply'[r] = "none"
             \/ at'[r] = "answered" /\ reply'[r] = "ERROR"
      BY <1>3, <2>2 DEF Insert
    <3> QED BY <1>0, <3>1
  <2> QED BY <1>1, <2>1, <2>2
<1>4. CASE at[r] \notin Before
  <2>1. CASE Enqueue(r)
    <3>1. at[r] = "enqueue" /\ at'[r] \in {"reply", "undo"} /\ UNCHANGED <<reply, lock>>
      BY <2>1 DEF Enqueue
    <3> QED BY <3>1
  <2>2. CASE Undo(r) \/ Reply(r)
    <3>1. /\ at[r] \in {"undo", "reply"} /\ at'[r] = "answered" /\ UNCHANGED lock
          /\ reply'[r] \in {"ERROR", "ACCEPTED"}
      BY <2>2 DEF Undo, Reply
    <3> QED BY <3>1
  <2>3. ~(\/ Receive(r) \/ Replay(r) \/ Rate(r) \/ Validate(r) \/ Begin(r) \/ Acquire(r)
          \/ Count(r) \/ Depth(r) \/ TimeOut(r) \/ LateDepth(r) \/ Insert(r) \/ Winner(r)
          \/ Unavailable(r))
    BY <1>4 DEF Receive, Replay, Rate, Validate, Begin, Acquire, Count, Depth, TimeOut,
                LateDepth, Insert, Winner, Unavailable
  <2> QED BY <1>1, <2>1, <2>2, <2>3 DEF Own, Serve, Proceed, AskRedis
<1> QED BY <1>1, <1>2, <1>3, <1>4

\* What it makes of another request's: nothing.
LEMMA LockOthers ==
  ASSUME TypeOK, [Next]_vars, NEW r \in Jobs, NEW u \in Users, lock'[u] = r, ~Own(r)
  PROVE  lock[u] = r
<1>1. CASE UNCHANGED lock BY <1>1
<1>2. ASSUME NEW k \in Jobs, k # r, Own(k) PROVE lock[u] = r
  <2>1. UNCHANGED lock \/ Unlock(k) \/ Acquire(k)
    BY <1>2 DEF Own, Serve, Proceed, AskRedis, Receive, Replay, Rate, Validate, Begin, Count,
                Depth, TimeOut, LateDepth, Insert, Winner, Enqueue, Undo, Reply, Unavailable
  <2>2. CASE Unlock(k) BY <2>2, RequestsAssumption DEF Unlock
  <2>3. CASE Acquire(k) BY <1>2, <2>3, RequestsAssumption DEF Acquire, TypeOK
  <2> QED BY <2>1, <2>2, <2>3, <1>1
<1>3. ASSUME NEW k \in Jobs, WorkerStarts(k) \/ WorkerRetries(k) \/ WorkerEnds(k)
      PROVE  UNCHANGED lock
  BY <1>3 DEF WorkerStarts, WorkerRetries, WorkerEnds, gateway
<1>4. ASSUME NEW g \in Gateways, Die(g) PROVE lock[u] = r
  BY <1>4, DeathStep, RequestsAssumption
<1> QED BY <1>1, <1>2, <1>3, <1>4 DEF Next, Own, Serve, vars, gateway

LEMMA RefuseNext == RefuseInv /\ [Next]_vars => RefuseInv'
<1> SUFFICES ASSUME RefuseInv, [Next]_vars PROVE RefuseInv'
  OBVIOUS
<1>0. TypeOK /\ TypeOK' BY TypeNext DEF RefuseInv
<1> SUFFICES ASSUME NEW r \in Jobs
             PROVE  /\ at'[r] \in Before => Clean(r)' /\ reply'[r] = "none"
                    /\ at'[r] \in {"enqueue", "undo", "reply", "cut"} => reply'[r] \notin Rules
                    /\ reply'[r] \in Rules => Clean(r)'
                    /\ \A u \in Users : lock'[u] = r => at'[r] \in Locked
  BY <1>0 DEF RefuseInv
<1>1. CASE Own(r) \/ Cut(r) BY <1>1, RefuseOwn
<1>2. CASE ~Own(r) /\ ~Cut(r)
  <2>1. at'[r] = at[r] /\ reply'[r] = reply[r] BY <1>0, <1>2, OthersKept
  <2>2. ~Insert(r) BY <1>2 DEF Own, Serve, Proceed
  <2>3. CASE Clean(r) /\ at[r] # "enqueue"
    <3>1. Clean(r)' BY <1>0, <2>2, <2>3, CleanKept
    <3> QED BY <1>0, <1>2, <2>1, <3>1, LockOthers DEF RefuseInv
  <2>4. CASE ~(Clean(r) /\ at[r] # "enqueue")
    <3>1. at[r] \notin Before /\ reply[r] \notin Rules
      BY <2>4 DEF RefuseInv, Before, InTransaction
    <3> QED BY <1>0, <1>2, <2>1, <3>1, LockOthers DEF RefuseInv
  <2> QED BY <2>3, <2>4
<1> QED BY <1>1, <1>2

LEMMA RefuseInit == Init => RefuseInv
  BY TypeInit, RequestsAssumption
     DEF Init, TableInit, RefuseInv, Clean, Rules, Refusals

\* Whoever is refused by a rule or a limit has neither row nor entry nor the lock,
\* then and ever after (jobs.ts:98-187, errors.ts:121-146): no refusal is given
\* once the row is in.
THEOREM RefusalsLeaveNothing == Spec => []RefusalLeavesNothing
<1>1. RefuseInv => RefusalLeavesNothing
  <2> SUFFICES ASSUME RefuseInv, NEW r \in Jobs, reply[r] \in Rules
               PROVE  status[r] = "ABSENT" /\ entry[r] = "none" /\ lock[Owner[r]] # r
    BY DEF RefusalLeavesNothing, Rules
  <2>1. Clean(r) BY DEF RefuseInv
  <2>2. at[r] \notin Before /\ at[r] \notin {"enqueue", "undo", "reply", "cut"}
    BY DEF RefuseInv, Rules, Refusals
  <2>3. lock[Owner[r]] # r
    BY <2>2, RequestsAssumption DEF RefuseInv, Before, InTransaction, Locked
  <2> QED BY <2>1, <2>3 DEF Clean
<1> QED BY <1>1, RefuseInit, RefuseNext, PTL DEF Spec

-----------------------------------------------------------------------------
(* The text of a row. *)

Of(t, class) == {i \in DOMAIN t : t[i] = class}

\* What the rules let through: something besides white space, no more than the
\* limit, and no more of another script than of Bengali.
LEMMA RulesHold ==
  ASSUME NEW t \in Seq(Classes), Verdict(t) = "OK"
  PROVE  /\ Len(t) <= MaxTextLength
         /\ Cardinality(Of(t, "bengali")) > 0
         /\ Cardinality(Of(t, "bengali")) >= Cardinality(Of(t, "other"))
<1> DEFINE B == Of(t, "bengali")
           O == Of(t, "other")
<1>1. Places(t, {"bengali"}) = B /\ Places(t, {"bengali", "other"}) = B \cup O
  BY DEF Places, Of
<1>2. /\ B \cup O # {}
      /\ ~(Len(t) > MaxTextLength)
      /\ ~(2 * Cardinality(B) < Cardinality(B \cup O))
  BY <1>1 DEF Verdict, IsForeign
<1>3. /\ IsFiniteSet(B) /\ IsFiniteSet(O)
      /\ Cardinality(B) \in Nat /\ Cardinality(O) \in Nat /\ Cardinality(B \cup O) \in Nat
  <2>1. IsFiniteSet(DOMAIN t) BY FS_Interval
  <2>2. B \in SUBSET DOMAIN t /\ O \in SUBSET DOMAIN t /\ B \cup O \in SUBSET DOMAIN t
    BY DEF Of
  <2> QED BY <2>1, <2>2, FS_Subset, FS_CardinalityType
<1>4. Cardinality(B \cup O) = Cardinality(B) + Cardinality(O)
  <2>1. B \cap O = {} BY DEF Of
  <2>2. Cardinality(B \cup O) = Cardinality(B) + Cardinality(O) - Cardinality(B \cap O)
    BY <1>3, FS_Union
  <2>3. Cardinality(B \cap O) = 0 BY <2>1, FS_EmptySet
  <2> HIDE DEF B, O
  <2> QED BY <1>3, <2>2, <2>3
<1>5. Cardinality(B \cup O) # 0
  <2>1. IsFiniteSet(B \cup O) BY <1>3, FS_Union
  <2> QED BY <1>2, <2>1, FS_EmptySet
<1>6. Len(t) \in Nat OBVIOUS
<1> HIDE DEF B, O
<1>7. Cardinality(B) > 0 /\ Cardinality(B) >= Cardinality(O) BY <1>2, <1>3, <1>4, <1>5
<1> QED BY <1>2, <1>6, <1>7, LengthAssumption DEF B, O

Speakable(r) == Text[r] # Malformed /\ Verdict(Text[r]) = "OK"

\* Nobody gets past the validation with anything else.
SpeakInv ==
  /\ TypeOK
  /\ \A r \in Jobs : at[r] \in {"begin"} \cup InTransaction \/ status[r] # "ABSENT"
                       => Speakable(r)

LEMMA SpeakInit == Init => SpeakInv
BY TypeInit DEF Init, TableInit, SpeakInv, InTransaction

LEMMA SpeakNext == SpeakInv /\ [Next]_vars => SpeakInv'
<1> SUFFICES ASSUME SpeakInv, [Next]_vars PROVE SpeakInv'
  OBVIOUS
<1>0. TypeOK /\ TypeOK' BY TypeNext DEF SpeakInv
<1> USE DEF InTransaction
<1> SUFFICES ASSUME NEW r \in Jobs,
                    at'[r] \in {"begin"} \cup InTransaction \/ status'[r] # "ABSENT"
             PROVE  Speakable(r)
  BY <1>0 DEF SpeakInv, Speakable
<1>1. CASE status[r] # "ABSENT" BY <1>1 DEF SpeakInv
<1>2. CASE at[r] \in {"begin"} \cup InTransaction BY <1>2 DEF SpeakInv
<1>3. CASE status[r] = "ABSENT" /\ at[r] \notin {"begin"} \cup InTransaction
  <2>1. ~Insert(r) BY <1>3 DEF Insert
  <2>2. status'[r] = "ABSENT" BY <1>0, <1>3, <2>1, RowSteps
  <2>3. at'[r] \in {"begin"} \cup InTransaction BY <2>2
  <2>4. ~Cut(r) BY <1>0, <2>3, DeathStep DEF Cut, Serving
  <2>5. Own(r) BY <1>0, <1>3, <2>3, <2>4, OthersKept
  <2>6. Validate(r)
    BY <1>0, <1>3, <2>3, <2>5
       DEF TypeOK, Own, Serve, Proceed, AskRedis, Goto, Answer, Refuse, Receive, Replay,
           Respond, Rate, Begin, Acquire, Count, Depth, TimeOut, LateDepth, Insert, Winner,
           Enqueue, Undo, Reply, Unavailable
  <2> QED BY <1>0, <2>3, <2>6 DEF TypeOK, Validate, Speakable, Refuse, Answer, Goto
<1> QED BY <1>1, <1>2, <1>3

\* Every row's text can be spoken (tts-text.ts:26-50, jobs.ts:123-128), for any texts,
\* any limit on their length, and whichever way the row came about.
THEOREM RowsSpeakable == Spec => []RowsAreSpeakable
<1>1. SpeakInv => RowsAreSpeakable
  <2> SUFFICES ASSUME SpeakInv, NEW r \in Jobs, status[r] # "ABSENT"
               PROVE  /\ Text[r] # Malformed
                      /\ Len(Text[r]) <= MaxTextLength
                      /\ Cardinality(Of(Text[r], "bengali")) > 0
                      /\ Cardinality(Of(Text[r], "bengali")) >= Cardinality(Of(Text[r], "other"))
    BY DEF RowsAreSpeakable, Of
  <2>1. Speakable(r) BY DEF SpeakInv
  <2>2. Text[r] \in Seq(Classes) BY <2>1, TextsAssumption DEF Speakable
  <2> QED BY <2>1, <2>2, RulesHold DEF Speakable
<1> QED BY <1>1, SpeakInit, SpeakNext, PTL DEF Spec
=============================================================================
