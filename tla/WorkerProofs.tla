---------------------------- MODULE WorkerProofs ----------------------------
(***************************************************************************)
(* Proofs about Worker, for any jobs, any number of workers, any attempt and  *)
(* stall limits, and any number of exits, lapsed locks and lost connections.  *)
(***************************************************************************)
EXTENDS Worker, TLAPS

-----------------------------------------------------------------------------
(* The statements on the table. *)

\* A worker's statement, whichever it is.
Mark(j) == \/ MarkActive(j) \/ MarkQueued(j) \/ MarkCompleted(j)
           \/ MarkFailed(j, "TIMEOUT") \/ MarkFailed(j, "INTERNAL")

LEMMA MarkType ==
  ASSUME NEW j \in Jobs, TableTypeOK, Mark(j)
  PROVE  TableTypeOK'
<1> USE DEF TableTypeOK, Statuses, Pending, Terminal, ErrorCodes, NotTerminal, table
<1>1. CASE MarkActive(j)    BY <1>1 DEF MarkActive
<1>2. CASE MarkQueued(j)    BY <1>2 DEF MarkQueued
<1>3. CASE MarkCompleted(j) BY <1>3 DEF MarkCompleted
<1>4. CASE MarkFailed(j, "TIMEOUT") \/ MarkFailed(j, "INTERNAL")
  BY <1>4 DEF MarkFailed
<1> QED BY <1>1, <1>2, <1>3, <1>4 DEF Mark

LEMMA SameTable ==
  ASSUME TableTypeOK, UNCHANGED table
  PROVE  TableTypeOK'
  BY DEF TableTypeOK, table

LEMMA RowType ==
  ASSUME NEW j \in Jobs, TableTypeOK, InsertRow(j) \/ DeleteRow(j)
  PROVE  TableTypeOK'
  BY DEF TableTypeOK, Statuses, Pending, Terminal, ErrorCodes, InsertRow, DeleteRow

\* The guard at work: no statement of a worker touches a row that is decided, or
\* any row but its own, makes a row appear or disappear, or decides a row twice.
LEMMA MarkGuard ==
  ASSUME NEW j \in Jobs, TableTypeOK, Mark(j), NEW k \in Jobs
  PROVE  /\ k # j \/ status[k] \notin Pending =>
              /\ status'[k] = status[k]
              /\ audioKey'[k] = audioKey[k]
              /\ errorCode'[k] = errorCode[k]
         /\ status[k] \in Pending => status'[k] \in Pending \cup Terminal
<1> USE DEF TableTypeOK, Statuses, Pending, Terminal, NotTerminal, table
<1>1. CASE MarkActive(j)    BY <1>1 DEF MarkActive
<1>2. CASE MarkQueued(j)    BY <1>2 DEF MarkQueued
<1>3. CASE MarkCompleted(j) BY <1>3 DEF MarkCompleted
<1>4. CASE MarkFailed(j, "TIMEOUT") \/ MarkFailed(j, "INTERNAL")
  BY <1>4 DEF MarkFailed
<1> QED BY <1>1, <1>2, <1>3, <1>4 DEF Mark

-----------------------------------------------------------------------------
(* Every variable keeps its type, and a worker that is in a handler has a task. *)

Busy == InProcess \cup Bypassing \cup Ended

HasTask == \A w \in Workers : pc[w] \in Busy => task[w] \in Jobs

TypeInv == TypeOK /\ HasTask

\* What Query leaves behind, whatever the statement.
Queried(w, ok, err) ==
  /\ pc' = [pc EXCEPT ![w] = ok] \/ pc' = [pc EXCEPT ![w] = err]
  /\ linked' = linked \/ linked' = [linked EXCEPT ![w] = FALSE]
  /\ faults' = faults \/ (faults < MaxFaults /\ faults' = faults + 1)

LEMMA LinkType ==
  ASSUME TypeOK, NEW w \in Workers,
         linked' = linked \/ linked' = [linked EXCEPT ![w] = FALSE],
         faults' = faults \/ (faults < MaxFaults /\ faults' = faults + 1)
  PROVE  linked' \in [Workers -> BOOLEAN] /\ faults' \in 0..MaxFaults
<1>1. linked' \in [Workers -> BOOLEAN] BY DEF TypeOK
<1>2. faults' \in 0..MaxFaults BY BudgetAssumption DEF TypeOK
<1> QED BY <1>1, <1>2

\* A step that queries for the entry in hand: one statement of the table's, or none.
Asks(w) ==
  /\ pc[w] \in Busy
  /\ Mark(task[w]) \/ UNCHANGED table
  /\ \/ pc[w] = "load" /\ (Queried(w, "returned", "raised") \/ Queried(w, "activate", "raised"))
     \/ pc[w] = "activate" /\ Queried(w, "synth", "raised")
     \/ pc[w] = "complete" /\ Queried(w, "returned", "recover")
     \/ pc[w] = "timeout" /\ Queried(w, "fatal", "raised")
     \/ pc[w] = "recover" /\ Queried(w, "raised", "raised")
  /\ UNCHANGED Rest

LEMMA QueryingSteps ==
  ASSUME NEW w \in Workers,
         Load(w) \/ Activate(w) \/ Complete(w) \/ RecordTimeout(w) \/ Recover(w)
  PROVE  Asks(w)
<1> USE DEF Asks, Queried, Query, Goto, Mark, Busy, InProcess
<1>1. CASE Load(w) BY <1>1 DEF Load
<1>2. CASE Activate(w) BY <1>2 DEF Activate
<1>3. CASE Complete(w) BY <1>3 DEF Complete
<1>4. CASE RecordTimeout(w) BY <1>4 DEF RecordTimeout
<1>5. CASE Recover(w) BY <1>5 DEF Recover
<1> QED BY <1>1, <1>2, <1>3, <1>4, <1>5

LEMMA TypeInit == Init => TypeInv
  BY BudgetAssumption
     DEF Init, TypeInv, TypeOK, HasTask, TableInit, TableTypeOK, QueueInit, QueueTypeOK,
         Statuses, ErrorCodes, Points, Places, Busy, InProcess, Bypassing, Ended

LEMMA TypeNext == TypeInv /\ [Next]_vars => TypeInv'
<1> SUFFICES ASSUME TypeInv, [Next]_vars PROVE TypeInv'
  OBVIOUS
<1> USE BudgetAssumption, AttemptsAssumption, MaxStalledAssumption, NoWorkerAssumption,
        NoJobAssumption
    DEF TypeInv, TypeOK, HasTask, QueueTypeOK, Places, Points, Busy, InProcess, Bypassing,
        Ended, worker, ghosts, spent, queue, Goto, Release
<1>1. CASE UNCHANGED vars BY <1>1 DEF vars, table, TableTypeOK
<1>2. ASSUME NEW j \in Jobs, Submit(j) \/ Withdraw(j) PROVE TypeInv'
  <2>1. TableTypeOK' BY <1>2, RowType DEF Submit, Withdraw
  <2> QED BY <1>2, <2>1 DEF Submit, Withdraw, Add
<1>3. ASSUME NEW j \in Jobs, Expire(j) \/ Recheck(j) \/ Retry(j) PROVE TypeInv'
  <2>1. UNCHANGED <<table, worker, ghosts, faults, exits>>
    BY <1>3 DEF Expire, Recheck, Retry
  <2>2. TableTypeOK' BY <2>1, SameTable
  <2>3. expiries' \in 0..MaxExpiries BY <1>3 DEF Expire, Recheck, Retry
  <2>4. CASE Expire(j) BY <2>1, <2>2, <2>3, <2>4 DEF Expire, Lapse
  <2>5. CASE Recheck(j) BY <2>1, <2>2, <2>3, <2>5 DEF Recheck, CheckStalled
  <2>6. CASE Retry(j) BY <2>1, <2>2, <2>3, <2>6 DEF Retry, BackoffElapsed
  <2> QED BY <1>3, <2>4, <2>5, <2>6
<1>4. ASSUME NEW w \in Workers, NEW j \in Jobs, Fetch(w, j) PROVE TypeInv'
  <2>1. TableTypeOK' BY <1>4, SameTable DEF Fetch
  <2>2. CASE Take(j, w) BY <1>4, <2>1, <2>2 DEF Fetch, Take, TakeDeferred
  <2>3. CASE TakeDeferred(j) BY <1>4, <2>1, <2>3 DEF Fetch, Take, TakeDeferred
  <2> QED BY <1>4, <2>2, <2>3 DEF Fetch
<1>5. ASSUME NEW w \in Workers, Asks(w) PROVE TypeInv'
  <2>1. TableTypeOK'
    <3>1. CASE Mark(task[w]) BY <1>5, <3>1, MarkType DEF Asks
    <3>2. CASE UNCHANGED table BY <3>2, SameTable
    <3> QED BY <1>5, <3>1, <3>2 DEF Asks
  <2>2. /\ pc' \in [Workers -> Points]
        /\ linked' \in [Workers -> BOOLEAN]
        /\ faults' \in 0..MaxFaults
    <3>1. \E p \in Points : pc' = [pc EXCEPT ![w] = p] BY <1>5 DEF Asks, Queried
    <3>2. pc' \in [Workers -> Points] BY <3>1
    <3>3. /\ linked' = linked \/ linked' = [linked EXCEPT ![w] = FALSE]
          /\ faults' = faults \/ (faults < MaxFaults /\ faults' = faults + 1)
      BY <1>5 DEF Asks, Queried
    <3> QED BY <3>2, <3>3, LinkType
  <2>3. HasTask' BY <1>5 DEF Asks, Queried, Rest
  <2> QED BY <1>5, <2>1, <2>2, <2>3 DEF Asks, Rest
<1>6. ASSUME NEW w \in Workers, Synthesize(w) \/ TimeOut(w) \/ ThreadEnds(w) \/ Upload(w)
      PROVE TypeInv'
  <2>1. TableTypeOK' BY <1>6, SameTable DEF Synthesize, TimeOut, ThreadEnds, Upload
  <2> QED BY <1>6, <2>1 DEF Synthesize, TimeOut, ThreadEnds, Upload, Store, Rest
<1>7. ASSUME NEW w \in Workers, Settle(w) PROVE TypeInv'
  <2>1. TableTypeOK' BY <1>7, SameTable DEF Settle
  <2> QED BY <1>7, <2>1 DEF Settle, FinishOk, FinishRaised
<1>8. ASSUME NEW w \in Workers, Inspect(w) PROVE TypeInv'
  <2>1. TableTypeOK' BY <1>8, SameTable DEF Inspect
  <2>2. linked' \in [Workers -> BOOLEAN] /\ faults' \in 0..MaxFaults
    <3>1. /\ linked' = linked \/ linked' = [linked EXCEPT ![w] = FALSE]
          /\ faults' = faults \/ (faults < MaxFaults /\ faults' = faults + 1)
      BY <1>8 DEF Inspect
    <3> QED BY <3>1, LinkType
  <2>3. CASE pc' = [pc EXCEPT ![w] = "record"] /\ UNCHANGED <<task, tried>>
    BY <1>8, <2>1, <2>2, <2>3 DEF Inspect
  <2>4. CASE Release(w) BY <1>8, <2>1, <2>2, <2>4 DEF Inspect
  <2> QED BY <1>8, <2>3, <2>4 DEF Inspect
<1>9. ASSUME NEW w \in Workers, Record(w) PROVE TypeInv'
  <2>1. TableTypeOK'
    <3>1. Mark(task[w]) \/ UNCHANGED table BY <1>9 DEF Record, Query, Mark
    <3>2. CASE Mark(task[w]) BY <1>9, <3>2, MarkType DEF Record
    <3>3. CASE UNCHANGED table BY <3>3, SameTable
    <3> QED BY <3>1, <3>2, <3>3
  <2>2. Queried(w, "idle", "idle") BY <1>9 DEF Record, Query, Queried
  <2>3. pc' = [pc EXCEPT ![w] = "idle"] BY <2>2 DEF Queried
  <2>4. linked' \in [Workers -> BOOLEAN] /\ faults' \in 0..MaxFaults
    BY <2>2, LinkType DEF Queried
  <2> QED BY <1>9, <2>1, <2>3, <2>4 DEF Record
<1>10. ASSUME NEW w \in Workers, Stop(w) \/ Crash(w) \/ Start(w) PROVE TypeInv'
  <2>1. TableTypeOK' BY <1>10, SameTable DEF Stop, Crash, Start, Exit
  <2>2. CASE Stop(w) BY <2>1, <2>2 DEF Stop, Exit
  <2>3. CASE Crash(w) BY <2>1, <2>3 DEF Crash, Exit
  <2>4. CASE Start(w) BY <2>1, <2>4 DEF Start
  <2> QED BY <1>10, <2>2, <2>3, <2>4
<1> QED
  BY <1>1, <1>2, <1>3, <1>4, <1>5, <1>6, <1>7, <1>8, <1>9, <1>10, QueryingSteps
     DEF Next, Handle, FetchSome

\* Every variable of the worker side keeps its type: statuses, error codes, lists
\* and handler points are those of the code, the bounds on failures are kept.
THEOREM TypeCorrect == Spec => []TypeOK
<1>1. TypeInv => TypeOK BY DEF TypeInv
<1> QED BY <1>1, TypeInit, TypeNext, PTL DEF Spec

-----------------------------------------------------------------------------
(* The inductive invariant: how the table, the queue and the workers hang       *)
(* together.  Each conjunct is needed for another one to survive some step.     *)

\* An entry that was never added has no trace anywhere.
Fresh == \A j \in Jobs : place[j] = "none" =>
  /\ status[j] = "ABSENT" /\ uploads[j] = 0 /\ deliveries[j] = 0
  /\ made[j] = 0 /\ stalls[j] = 0 /\ ~deferred[j]

\* What a worker handles was added.
Known == \A w \in Workers : pc[w] \in Busy => place[task[w]] # "none"

\* A live lock belongs to a worker that is handling that very entry.
Held == \A j \in Jobs : holder[j] # NoWorker =>
  /\ place[j] = "active"
  /\ task[holder[j]] = j
  /\ pc[holder[j]] \in InProcess \cup Ended

\* process() returns only once the row is decided or gone.
Skipped == \A w \in Workers : pc[w] = "returned" => status[task[w]] \notin Pending

\* mark_completed comes after the upload.
Stored == \A w \in Workers : pc[w] = "complete" => uploads[task[w]] > 0

\* Every delivery is paid for by an attempt or a stall.
CountOf(j) ==
  /\ place[j] \in {"waiting", "delayed"} /\ ~deferred[j] =>
       deliveries[j] <= made[j] + stalls[j] /\ made[j] < Attempts /\ stalls[j] <= MaxStalled
  /\ place[j] = "active" =>
       deliveries[j] <= made[j] + stalls[j] + 1 /\ made[j] < Attempts /\ stalls[j] <= MaxStalled
  /\ deliveries[j] <= Attempts + MaxStalled

Counted == \A j \in Jobs : CountOf(j)

Inv == /\ TypeInv /\ Fresh /\ Known /\ Held /\ Skipped /\ Stored /\ Counted
       /\ ResultIsBacked /\ CompletedEntryIsDecided

LEMMA InvInit == Init => Inv
<1> SUFFICES ASSUME Init PROVE Inv
  OBVIOUS
<1>1. TypeInv BY TypeInit
<1>2. Fresh /\ Known /\ Held /\ Skipped /\ Stored
  BY DEF Init, TableInit, QueueInit, Fresh, Known, Held, Skipped, Stored, Busy, InProcess,
         Bypassing, Ended
<1>3. Counted
  BY AttemptsAssumption, MaxStalledAssumption DEF Init, QueueInit, Counted, CountOf
<1>4. ResultIsBacked /\ CompletedEntryIsDecided
  BY DEF Init, TableInit, QueueInit, ResultIsBacked, CompletedEntryIsDecided
<1> QED BY <1>1, <1>2, <1>3, <1>4 DEF Inv

\* A statement of a worker on a row it may touch keeps results coherent, given that
\* a completion finds the audio stored.
LEMMA MarkBacked ==
  ASSUME NEW j \in Jobs, TableTypeOK, Mark(j), ResultIsBacked, UNCHANGED uploads,
         MarkCompleted(j) => uploads[j] > 0 \/ UNCHANGED table
  PROVE  ResultIsBacked'
<1> USE DEF ResultIsBacked, TableTypeOK, Statuses, Pending, Terminal, ErrorCodes, NotTerminal,
            table
<1>1. CASE UNCHANGED table BY <1>1
<1>2. CASE MarkActive(j)    BY <1>2 DEF MarkActive
<1>3. CASE MarkQueued(j)    BY <1>3 DEF MarkQueued
<1>4. CASE MarkCompleted(j) BY <1>1, <1>4 DEF MarkCompleted
<1>5. CASE MarkFailed(j, "TIMEOUT") \/ MarkFailed(j, "INTERNAL")
  BY <1>5 DEF MarkFailed
<1> QED BY <1>2, <1>3, <1>4, <1>5 DEF Mark

\* Where a step leaves the table, the queue, the counts and the workers alone, the
\* conjuncts about them are left alone.
LEMMA QueueKept ==
  ASSUME Inv, UNCHANGED <<queue, ghosts, status>>
  PROVE  Fresh' /\ Counted' /\ CompletedEntryIsDecided'
  BY DEF Inv, Fresh, Counted, CountOf, CompletedEntryIsDecided, queue, ghosts

\* The gateway's two steps.
LEMMA SubmitKeeps ==
  ASSUME Inv, NEW j \in Jobs, Submit(j)
  PROVE  /\ Fresh' /\ Known' /\ Held' /\ Skipped' /\ Stored' /\ Counted'
         /\ ResultIsBacked' /\ CompletedEntryIsDecided'
<1> USE DEF Inv, TypeInv, TypeOK, QueueTypeOK, TableTypeOK, Submit, InsertRow, Add, worker,
            ghosts, spent, Pending
<1>1. Fresh' BY DEF Fresh
<1>2. Known' BY DEF Known, HasTask
<1>3. Held' BY DEF Held
<1>4. Skipped'
  BY DEF Skipped, Known, HasTask, Busy, Ended
<1>5. Stored' BY DEF Stored
<1>6. Counted' BY AttemptsAssumption, MaxStalledAssumption DEF Counted, CountOf, Fresh
<1>7. ResultIsBacked' BY DEF ResultIsBacked
<1>8. CompletedEntryIsDecided' BY DEF CompletedEntryIsDecided
<1> QED BY <1>1, <1>2, <1>3, <1>4, <1>5, <1>6, <1>7, <1>8

LEMMA WithdrawKeeps ==
  ASSUME Inv, NEW j \in Jobs, Withdraw(j)
  PROVE  /\ Fresh' /\ Known' /\ Held' /\ Skipped' /\ Stored' /\ Counted'
         /\ ResultIsBacked' /\ CompletedEntryIsDecided'
<1> USE DEF Inv, TypeInv, TypeOK, QueueTypeOK, TableTypeOK, Withdraw, DeleteRow, queue, worker,
            ghosts, spent, Pending
<1>1. Fresh' BY DEF Fresh
<1>2. Known' BY DEF Known
<1>3. Held' BY DEF Held
<1>4. Skipped' BY DEF Skipped
<1>5. Stored' BY DEF Stored
<1>6. Counted' BY DEF Counted, CountOf
<1>7. ResultIsBacked' BY DEF ResultIsBacked
<1>8. CompletedEntryIsDecided' BY DEF CompletedEntryIsDecided
<1> QED BY <1>1, <1>2, <1>3, <1>4, <1>5, <1>6, <1>7, <1>8

\* Lapsed locks, the stall check and the backoff.
LEMMA TimersKeep ==
  ASSUME Inv, NEW j \in Jobs, Expire(j) \/ Recheck(j) \/ Retry(j)
  PROVE  /\ Fresh' /\ Known' /\ Held' /\ Skipped' /\ Stored' /\ Counted'
         /\ ResultIsBacked' /\ CompletedEntryIsDecided'
<1> USE DEF Inv, TypeInv, TypeOK, QueueTypeOK, Expire, Recheck, Retry, Lapse, CheckStalled,
            BackoffElapsed, table, worker, ghosts
<1>1. Fresh' BY DEF Fresh
<1>2. Known' BY DEF Known, HasTask
<1>3. Held' BY DEF Held
<1>4. Skipped' BY DEF Skipped
<1>5. Stored' BY DEF Stored
<1>6. Counted'
  <2>1. CASE Expire(j) BY <2>1 DEF Counted, CountOf
  <2>2. CASE Retry(j) BY <2>2 DEF Counted, CountOf
  <2>3. CASE Recheck(j)
    <3> SUFFICES ASSUME NEW k \in Jobs PROVE CountOf(k)'
      BY DEF Counted, CountOf
    <3>1. CASE k # j BY <2>3, <3>1 DEF Counted, CountOf
    <3>2. CASE k = j
      <4>1. /\ place'[j] = "waiting" /\ made'[j] = made[j]
            /\ stalls'[j] = stalls[j] + 1 /\ deliveries'[j] = deliveries[j]
        BY <2>3
      <4>2. deferred'[j] <=> (stalls[j] + 1 > MaxStalled) BY <2>3
      <4>3. /\ deliveries[j] <= made[j] + stalls[j] + 1
            /\ made[j] < Attempts /\ stalls[j] <= MaxStalled
            /\ deliveries[j] <= Attempts + MaxStalled
        BY <2>3 DEF Counted, CountOf
      <4>4. /\ made[j] \in Nat /\ stalls[j] \in Nat /\ deliveries[j] \in Nat
            /\ stalls[j] + 1 <= MaxStalled \/ stalls[j] + 1 > MaxStalled
        BY MaxStalledAssumption
      <4> HIDE DEF Inv, Recheck, CheckStalled
      <4> QED
        BY <3>2, <4>1, <4>2, <4>3, <4>4, AttemptsAssumption, MaxStalledAssumption DEF CountOf
    <3> QED BY <3>1, <3>2
  <2> QED BY <2>1, <2>2, <2>3
<1>7. ResultIsBacked' BY DEF ResultIsBacked
<1>8. CompletedEntryIsDecided' BY DEF CompletedEntryIsDecided
<1> QED BY <1>1, <1>2, <1>3, <1>4, <1>5, <1>6, <1>7, <1>8

\* A worker takes an entry.
LEMMA FetchKeeps ==
  ASSUME Inv, NEW w \in Workers, NEW j \in Jobs, Fetch(w, j)
  PROVE  /\ Fresh' /\ Known' /\ Held' /\ Skipped' /\ Stored' /\ Counted'
         /\ ResultIsBacked' /\ CompletedEntryIsDecided'
<1> USE DEF Inv, TypeInv, TypeOK, QueueTypeOK, Fetch, Take, TakeDeferred, table, Goto
<1>1. Fresh' BY DEF Fresh
<1>2. Known' BY DEF Known, HasTask, Busy
<1>3. Held'
  BY NoWorkerAssumption DEF Held, InProcess, Ended
<1>4. Skipped' BY DEF Skipped
<1>5. Stored' BY DEF Stored
<1>6. Counted'
  <2> SUFFICES ASSUME NEW k \in Jobs PROVE CountOf(k)'
    BY DEF Counted
  <2>1. CASE k # j BY <2>1 DEF Counted, CountOf
  <2>2. CASE k = j
    BY <2>2, AttemptsAssumption, MaxStalledAssumption DEF Counted, CountOf
  <2> QED BY <2>1, <2>2
<1>7. ResultIsBacked' BY DEF ResultIsBacked
<1>8. CompletedEntryIsDecided' BY DEF CompletedEntryIsDecided
<1> QED BY <1>1, <1>2, <1>3, <1>4, <1>5, <1>6, <1>7, <1>8

\* The querying steps, once the statement and its answer are known.
LEMMA ReturnedIsDecided ==
  ASSUME Inv, NEW w \in Workers,
         Load(w) \/ Activate(w) \/ Complete(w) \/ RecordTimeout(w) \/ Recover(w),
         pc'[w] = "returned"
  PROVE  status'[task[w]] \notin Pending
<1> USE DEF Inv, TypeInv, TypeOK, TableTypeOK, HasTask, Busy, InProcess, Query, Goto
<1>1. CASE Load(w) BY <1>1 DEF Load, Skip, table
<1>2. CASE Complete(w)
  BY <1>2 DEF Complete, MarkCompleted, NotTerminal, Pending, table
<1>3. CASE Activate(w) BY <1>3 DEF Activate
<1>4. CASE RecordTimeout(w) BY <1>4 DEF RecordTimeout
<1>5. CASE Recover(w) BY <1>5 DEF Recover
<1> QED BY <1>1, <1>2, <1>3, <1>4, <1>5

LEMMA AsksBacked ==
  ASSUME Inv, NEW w \in Workers,
         Load(w) \/ Activate(w) \/ Complete(w) \/ RecordTimeout(w) \/ Recover(w)
  PROVE  ResultIsBacked'
<1> USE DEF Inv, TypeInv, TypeOK, HasTask, Busy, InProcess, Query, Rest, ghosts
<1>1. task[w] \in Jobs BY DEF Load, Activate, Complete, RecordTimeout, Recover
<1>2. UNCHANGED uploads BY DEF Load, Activate, Complete, RecordTimeout, Recover
<1>3. CASE UNCHANGED table BY <1>2, <1>3 DEF ResultIsBacked, table
<1>4. CASE Complete(w) /\ Mark(task[w])
  <2>1. uploads[task[w]] > 0 BY <1>4 DEF Complete, Stored
  <2> QED BY <1>1, <1>2, <1>4, <2>1, MarkBacked
<1>5. CASE /\ \/ MarkActive(task[w]) \/ MarkQueued(task[w])
              \/ MarkFailed(task[w], "TIMEOUT") \/ MarkFailed(task[w], "INTERNAL")
  <2>1. MarkCompleted(task[w]) => UNCHANGED table
    BY <1>1, <1>5 DEF MarkCompleted, MarkActive, MarkQueued, MarkFailed, NotTerminal, table,
                      TableTypeOK, Pending
  <2> QED BY <1>1, <1>2, <1>5, <2>1, MarkBacked DEF Mark
<1> QED
  BY <1>3, <1>4, <1>5 DEF Load, Activate, Complete, RecordTimeout, Recover, Mark

\* What decides a row keeps it decided; no statement makes a row pending again.
LEMMA MarkDecided ==
  ASSUME TableTypeOK, NEW j \in Jobs, Mark(j) \/ UNCHANGED table, NEW k \in Jobs,
         status[k] \notin Pending
  PROVE  status'[k] = status[k]
  BY MarkGuard DEF table

LEMMA AsksKeep ==
  ASSUME Inv, NEW w \in Workers,
         Load(w) \/ Activate(w) \/ Complete(w) \/ RecordTimeout(w) \/ Recover(w)
  PROVE  /\ Fresh' /\ Known' /\ Held' /\ Skipped' /\ Stored' /\ Counted'
         /\ ResultIsBacked' /\ CompletedEntryIsDecided'
<1>0. Asks(w) BY QueryingSteps
<1> USE DEF Inv, TypeInv, TypeOK, QueueTypeOK, Rest, queue, ghosts
<1>1. task[w] \in Jobs BY <1>0 DEF Asks, HasTask
<1>2. \A k \in Jobs : status[k] \notin Pending => status'[k] = status[k]
  BY <1>0, <1>1, MarkDecided DEF Asks
<1>3. /\ UNCHANGED <<place, holder, made, stalls, deferred, task, uploads, deliveries>>
      /\ \E p \in InProcess \cup Ended : pc' = [pc EXCEPT ![w] = p]
      /\ pc[w] \in InProcess
  BY <1>0 DEF Asks, Queried, InProcess, Ended
<1>4. Fresh' BY <1>2, <1>3 DEF Fresh, Pending
<1>5. Known' BY <1>3 DEF Known, Busy
<1>6. Held' BY <1>3, NoWorkerAssumption DEF Held
<1>7. Skipped'
  <2> SUFFICES ASSUME NEW v \in Workers, pc'[v] = "returned"
               PROVE  status'[task'[v]] \notin Pending
    BY DEF Skipped
  <2>1. CASE v = w BY <1>3, <2>1, ReturnedIsDecided
  <2>2. CASE v # w
    <3>1. pc[v] = "returned" /\ task'[v] = task[v] /\ task[v] \in Jobs
      BY <1>3, <2>2 DEF HasTask, Busy, Ended
    <3> QED BY <3>1, <1>2 DEF Skipped
  <2> QED BY <2>1, <2>2
<1>8. Stored'
  <2>1. pc'[w] # "complete" BY <1>0 DEF Asks, Queried
  <2> QED BY <1>3, <2>1 DEF Stored
<1>9. Counted' BY <1>3 DEF Counted, CountOf
<1>10. ResultIsBacked' BY AsksBacked
<1>11. CompletedEntryIsDecided' BY <1>2, <1>3 DEF CompletedEntryIsDecided
<1> QED BY <1>4, <1>5, <1>6, <1>7, <1>8, <1>9, <1>10, <1>11

\* Inference and the upload touch neither the table nor the queue.
LEMMA InferenceKeeps ==
  ASSUME Inv, NEW w \in Workers, Synthesize(w) \/ TimeOut(w) \/ ThreadEnds(w) \/ Upload(w)
  PROVE  /\ Fresh' /\ Known' /\ Held' /\ Skipped' /\ Stored' /\ Counted'
         /\ ResultIsBacked' /\ CompletedEntryIsDecided'
<1> USE DEF Inv, TypeInv, TypeOK, QueueTypeOK, Synthesize, TimeOut, ThreadEnds, Upload, Goto,
            Rest, queue, table, ghosts
<1>0. /\ UNCHANGED <<status, audioKey, errorCode, place, holder, made, stalls, deferred,
                     task, deliveries>>
      /\ pc' = pc \/ (/\ pc[w] \in {"synth", "upload"}
                      /\ \E p \in InProcess \ {"synth"} : pc' = [pc EXCEPT ![w] = p])
      /\ uploads' = uploads \/ (pc[w] = "upload" /\ Store(w))
  BY DEF InProcess
<1>9. \A k \in Jobs : /\ uploads'[k] \in Nat /\ uploads'[k] >= uploads[k]
                      /\ uploads'[k] # uploads[k] => place[k] # "none"
  BY <1>0 DEF Store, HasTask, Known, Busy, InProcess
<1>1. Fresh' BY <1>0, <1>9 DEF Fresh
<1>2. Known' BY <1>0 DEF Known, Busy, InProcess
<1>3. Held' BY <1>0 DEF Held, InProcess
<1>4. Skipped' BY <1>0 DEF Skipped, InProcess
<1>5. Stored'
  <2> SUFFICES ASSUME NEW v \in Workers, pc'[v] = "complete"
               PROVE  uploads'[task[v]] > 0
    BY <1>0 DEF Stored
  <2>1. CASE pc[v] = "complete"
    <3>1. task[v] \in Jobs /\ uploads[task[v]] > 0
      BY <2>1 DEF Stored, HasTask, Busy, InProcess
    <3> QED BY <3>1, <1>9
  <2>2. CASE pc[v] # "complete"
    <3>1. Upload(w) /\ v = w /\ task[w] \in Jobs BY <2>2, <1>0 DEF HasTask, Busy, InProcess
    <3> QED BY <3>1 DEF Store
  <2> QED BY <2>1, <2>2
<1>6. Counted' BY <1>0 DEF Counted, CountOf
<1>7. ResultIsBacked' BY <1>0, <1>9 DEF ResultIsBacked
<1>8. CompletedEntryIsDecided' BY <1>0 DEF CompletedEntryIsDecided
<1> QED BY <1>1, <1>2, <1>3, <1>4, <1>5, <1>6, <1>7, <1>8

\* BullMQ settles the entry; a worker without its lock changes nothing.
LEMMA SettleKeeps ==
  ASSUME Inv, NEW w \in Workers, Settle(w)
  PROVE  /\ Fresh' /\ Known' /\ Held' /\ Skipped' /\ Stored' /\ Counted'
         /\ ResultIsBacked' /\ CompletedEntryIsDecided'
<1> USE DEF Inv, TypeInv, TypeOK, QueueTypeOK, Settle, FinishOk, FinishRaised, Release, Goto,
            table, ghosts
<1>0. task[w] \in Jobs /\ pc[w] \in Ended BY DEF HasTask, Busy
<1>9. holder[task[w]] = w => place[task[w]] = "active" BY NoWorkerAssumption, <1>0 DEF Held
<1>1. Fresh' BY <1>0, <1>9 DEF Fresh, queue
<1>2. Known' BY <1>0 DEF Known, Busy, InProcess, Bypassing, Ended, HasTask, queue
<1>3. Held'
  <2> SUFFICES ASSUME NEW j \in Jobs, holder'[j] # NoWorker
               PROVE  /\ place'[j] = "active"
                      /\ task'[holder'[j]] = j
                      /\ pc'[holder'[j]] \in InProcess \cup Ended
    BY DEF Held
  <2>1. holder'[j] = holder[j] /\ holder[j] \in Workers BY <1>0 DEF queue
  <2>2. holder[j] # w
    <3> SUFFICES ASSUME holder[j] = w PROVE FALSE
      OBVIOUS
    <3>1. task[w] = j BY <2>1, NoWorkerAssumption DEF Held
    <3> QED BY <3>1, <2>1, NoWorkerAssumption
  <2>3. j # task[w] \/ holder[task[w]] # w BY <2>2
  <2>4. place'[j] = place[j] BY <2>3, <1>0 DEF queue
  <2> QED BY <2>1, <2>2, <2>4, NoWorkerAssumption DEF Held
<1>4. Skipped' BY <1>0 DEF Skipped
<1>5. Stored' BY <1>0 DEF Stored
<1>6. Counted'
  <2> SUFFICES ASSUME NEW k \in Jobs PROVE CountOf(k)'
    BY DEF Counted
  <2>1. CASE k # task[w] \/ holder[task[w]] # w
    <3>1. /\ place'[k] = place[k] /\ made'[k] = made[k] /\ stalls'[k] = stalls[k]
          /\ deferred'[k] = deferred[k] /\ deliveries'[k] = deliveries[k]
      BY <2>1, <1>0 DEF queue
    <3> QED BY <3>1 DEF Counted, CountOf
  <2>2. CASE k = task[w] /\ holder[task[w]] = w
    <3>1. /\ deliveries[k] <= made[k] + stalls[k] + 1
          /\ made[k] < Attempts /\ stalls[k] <= MaxStalled
          /\ deliveries[k] <= Attempts + MaxStalled
      BY <2>2, <1>9 DEF Counted, CountOf
    <3>2. CASE pc[w] = "returned" BY <2>2, <3>1, <3>2 DEF CountOf
    <3>3. CASE pc[w] # "returned"
      BY <2>2, <3>1, <3>3, AttemptsAssumption, MaxStalledAssumption DEF CountOf, AttemptLimit
    <3> QED BY <3>2, <3>3
  <2> QED BY <2>1, <2>2
<1>7. ResultIsBacked' BY DEF ResultIsBacked
<1>8. CompletedEntryIsDecided' BY <1>0 DEF CompletedEntryIsDecided, Skipped, queue
<1> QED BY <1>1, <1>2, <1>3, <1>4, <1>5, <1>6, <1>7, <1>8

\* The failed-event listener.
LEMMA InspectKeeps ==
  ASSUME Inv, NEW w \in Workers, Inspect(w)
  PROVE  /\ Fresh' /\ Known' /\ Held' /\ Skipped' /\ Stored' /\ Counted'
         /\ ResultIsBacked' /\ CompletedEntryIsDecided'
<1> USE DEF Inv, TypeInv, TypeOK, QueueTypeOK, Inspect, Release, Goto, table, queue, ghosts
<1>1. Fresh' BY DEF Fresh
<1>2. Known' BY DEF Known, Busy, InProcess, Bypassing, Ended
<1>3. Held' BY NoWorkerAssumption DEF Held, InProcess, Ended
<1>4. Skipped' BY DEF Skipped
<1>5. Stored' BY DEF Stored
<1>6. Counted' BY DEF Counted, CountOf
<1>7. ResultIsBacked' BY DEF ResultIsBacked
<1>8. CompletedEntryIsDecided' BY DEF CompletedEntryIsDecided
<1> QED BY <1>1, <1>2, <1>3, <1>4, <1>5, <1>6, <1>7, <1>8

LEMMA RecordKeeps ==
  ASSUME Inv, NEW w \in Workers, Record(w)
  PROVE  /\ Fresh' /\ Known' /\ Held' /\ Skipped' /\ Stored' /\ Counted'
         /\ ResultIsBacked' /\ CompletedEntryIsDecided'
<1> USE DEF Inv, TypeInv, TypeOK, QueueTypeOK, queue, ghosts
<1>0. /\ task[w] \in Jobs /\ pc[w] = "record"
      /\ MarkFailed(task[w], "INTERNAL") \/ UNCHANGED table
      /\ pc' = [pc EXCEPT ![w] = "idle"] /\ task' = [task EXCEPT ![w] = NoJob]
      /\ UNCHANGED <<place, holder, made, stalls, deferred, uploads, deliveries>>
  BY DEF Record, Query, Goto, HasTask, Busy, Bypassing
<1>9. \A k \in Jobs : status[k] \notin Pending => status'[k] = status[k]
  BY <1>0, MarkDecided DEF Mark
<1>1. Fresh' BY <1>0, <1>9 DEF Fresh, Pending
<1>2. Known' BY <1>0 DEF Known, Busy, InProcess, Bypassing, Ended
<1>3. Held' BY <1>0, NoWorkerAssumption DEF Held, InProcess, Ended
<1>4. Skipped' BY <1>0, <1>9 DEF Skipped, HasTask, Busy, Ended
<1>5. Stored' BY <1>0 DEF Stored
<1>6. Counted' BY <1>0 DEF Counted, CountOf
<1>7. ResultIsBacked'
  <2>1. CASE UNCHANGED table BY <1>0, <2>1 DEF ResultIsBacked, table
  <2>2. CASE MarkFailed(task[w], "INTERNAL")
    <3>1. MarkCompleted(task[w]) => UNCHANGED table
      BY <1>0, <2>2 DEF MarkCompleted, MarkFailed, NotTerminal, TableTypeOK, Pending, table
    <3> QED BY <1>0, <2>2, <3>1, MarkBacked DEF Mark
  <2> QED BY <1>0, <2>1, <2>2
<1>8. CompletedEntryIsDecided' BY <1>0, <1>9 DEF CompletedEntryIsDecided
<1> QED BY <1>1, <1>2, <1>3, <1>4, <1>5, <1>6, <1>7, <1>8

\* A process ends or starts; its locks go with it.
LEMMA ProcessKeeps ==
  ASSUME Inv, NEW w \in Workers, Stop(w) \/ Crash(w) \/ Start(w)
  PROVE  /\ Fresh' /\ Known' /\ Held' /\ Skipped' /\ Stored' /\ Counted'
         /\ ResultIsBacked' /\ CompletedEntryIsDecided'
<1> USE DEF Inv, TypeInv, TypeOK, QueueTypeOK, Stop, Crash, Start, Exit, Goto, table, queue,
            ghosts
<1>1. Fresh' BY DEF Fresh
<1>2. Known' BY DEF Known, Busy, InProcess, Bypassing, Ended
<1>3. Held' BY NoWorkerAssumption DEF Held, InProcess, Ended
<1>4. Skipped' BY DEF Skipped
<1>5. Stored' BY DEF Stored
<1>6. Counted' BY DEF Counted, CountOf
<1>7. ResultIsBacked' BY DEF ResultIsBacked
<1>8. CompletedEntryIsDecided' BY DEF CompletedEntryIsDecided
<1> QED BY <1>1, <1>2, <1>3, <1>4, <1>5, <1>6, <1>7, <1>8

LEMMA InvNext == Inv /\ [Next]_vars => Inv'
<1> SUFFICES ASSUME Inv, [Next]_vars PROVE Inv'
  OBVIOUS
<1>0. TypeInv' BY TypeNext DEF Inv
<1>1. CASE UNCHANGED vars
  BY <1>0, <1>1 DEF vars, table, queue, worker, ghosts, Inv, Fresh, Known, Held, Skipped, Stored,
              Counted, CountOf, ResultIsBacked, CompletedEntryIsDecided
<1>2. CASE Next
  BY <1>0, <1>2, SubmitKeeps, WithdrawKeeps, TimersKeep, FetchKeeps, AsksKeep, InferenceKeeps,
     SettleKeeps, InspectKeeps, RecordKeeps, ProcessKeeps
     DEF Inv, Next, Handle, FetchSome
<1> QED BY <1>1, <1>2

\* The invariant above holds in every reachable state.
THEOREM Invariance == Spec => []Inv
  BY InvInit, InvNext, PTL DEF Spec

\* A COMPLETED job has its audio in the store and a key for it, a FAILED one has an
\* error code, and no job has both, under any interleaving, crash or lost lock.
THEOREM ResultsAreBacked == Spec => []ResultIsBacked
<1>1. Inv => ResultIsBacked BY DEF Inv
<1> QED BY <1>1, Invariance, PTL

\* BullMQ never completes an entry whose row is still undecided.
THEOREM CompletedEntriesAreDecided == Spec => []CompletedEntryIsDecided
<1>1. Inv => CompletedEntryIsDecided BY DEF Inv
<1> QED BY <1>1, Invariance, PTL

\* No job is handed to the processor more than Attempts + MaxStalled times, however
\* often workers die or lose locks on it.
THEOREM DeliveriesAreBounded == Spec => []DeliveriesBounded
<1>1. Inv => DeliveriesBounded BY DEF Inv, Counted, CountOf, DeliveriesBounded
<1> QED BY <1>1, Invariance, PTL

-----------------------------------------------------------------------------
(* What a step does to the table, and the two results about decisions. *)

LEMMA TableSteps ==
  ASSUME Inv, [Next]_vars
  PROVE  \/ UNCHANGED table
         \/ \E j \in Jobs : Mark(j)
         \/ \E j \in Jobs : status[j] = "ABSENT" /\ InsertRow(j)
         \/ \E j \in Jobs : DeleteRow(j)
<1>1. CASE UNCHANGED vars BY <1>1 DEF vars
<1>2. ASSUME NEW j \in Jobs, Submit(j) PROVE status[j] = "ABSENT" /\ InsertRow(j)
  BY <1>2 DEF Submit, Inv, Fresh
<1>3. ASSUME NEW j \in Jobs, Withdraw(j) PROVE DeleteRow(j)
  BY <1>3 DEF Withdraw
<1>4. ASSUME NEW j \in Jobs, Expire(j) \/ Recheck(j) \/ Retry(j) PROVE UNCHANGED table
  BY <1>4 DEF Expire, Recheck, Retry
<1>5. ASSUME NEW w \in Workers, Asks(w) PROVE UNCHANGED table \/ \E j \in Jobs : Mark(j)
  BY <1>5 DEF Asks, Inv, TypeInv, HasTask
<1>6. ASSUME NEW w \in Workers,
             \/ FetchSome(w) \/ Synthesize(w) \/ TimeOut(w) \/ ThreadEnds(w) \/ Upload(w)
             \/ Settle(w) \/ Inspect(w) \/ Stop(w) \/ Crash(w) \/ Start(w)
      PROVE  UNCHANGED table
  BY <1>6 DEF FetchSome, Fetch, Synthesize, TimeOut, ThreadEnds, Upload, Settle, Inspect, Stop,
              Crash, Start, Exit
<1>7. ASSUME NEW w \in Workers, Record(w) PROVE UNCHANGED table \/ \E j \in Jobs : Mark(j)
  <2>1. task[w] \in Jobs BY <1>7 DEF Record, Inv, TypeInv, HasTask, Busy, Bypassing
  <2> QED BY <1>7, <2>1 DEF Record, Query, Mark
<1> QED
  BY <1>1, <1>2, <1>3, <1>4, <1>5, <1>6, <1>7, QueryingSteps DEF Next, Handle

\* A COMPLETED or FAILED row never changes again, except that the gateway may delete
\* it when it withdraws a submission.
THEOREM DecisionsAreFinal == Spec => DecisionIsFinal
<1> DEFINE Final == \A j \in Jobs :
      status[j] \in Terminal =>
        \/ status'[j] = "ABSENT"
        \/ /\ status'[j] = status[j]
           /\ audioKey'[j] = audioKey[j]
           /\ errorCode'[j] = errorCode[j]
<1>1. Inv /\ [Next]_vars => [Final]_vars
  <2> SUFFICES ASSUME Inv, [Next]_vars, NEW k \in Jobs, status[k] \in Terminal
               PROVE  \/ status'[k] = "ABSENT"
                      \/ /\ status'[k] = status[k]
                         /\ audioKey'[k] = audioKey[k]
                         /\ errorCode'[k] = errorCode[k]
    OBVIOUS
  <2> USE DEF Inv, TypeInv, TypeOK
  <2>1. CASE UNCHANGED table BY <2>1 DEF table
  <2>2. ASSUME NEW j \in Jobs, Mark(j) PROVE status'[k] = status[k]
             /\ audioKey'[k] = audioKey[k] /\ errorCode'[k] = errorCode[k]
    BY <2>2, MarkGuard DEF Terminal, Pending
  <2>3. ASSUME NEW j \in Jobs, status[j] = "ABSENT", InsertRow(j)
        PROVE  status'[k] = status[k] /\ audioKey'[k] = audioKey[k]
                 /\ errorCode'[k] = errorCode[k]
    BY <2>3 DEF InsertRow, TableTypeOK, Terminal
  <2>4. ASSUME NEW j \in Jobs, DeleteRow(j)
        PROVE  \/ status'[k] = "ABSENT"
               \/ /\ status'[k] = status[k]
                  /\ audioKey'[k] = audioKey[k]
                  /\ errorCode'[k] = errorCode[k]
    BY <2>4 DEF DeleteRow, TableTypeOK
  <2> QED BY <2>1, <2>2, <2>3, <2>4, TableSteps
<1> QED BY <1>1, Invariance, PTL DEF Spec, DecisionIsFinal

-----------------------------------------------------------------------------
(* The workers, the queue and the table implement JobOutcome.                  *)

\* The entry's place matters to the abstract job only by being "none" or not.
SamePresence == \A j \in Jobs : place'[j] = "none" <=> place[j] = "none"

\* A step seen from the abstract job: nothing; audio appears; or one row moves.
LEMMA StepShape ==
  ASSUME Inv, [Next]_vars
  PROVE  \/ UNCHANGED <<table, uploads>> /\ SamePresence
         \/ \E j \in Jobs : Submit(j)
         \/ \E j \in Jobs : Withdraw(j)
         \/ \E w \in Workers : /\ pc[w] = "upload" /\ Store(w)
                               /\ UNCHANGED table /\ SamePresence
         \/ \E j \in Jobs : /\ Mark(j) /\ place[j] # "none"
                            /\ MarkCompleted(j) => uploads[j] > 0 \/ UNCHANGED table
                            /\ UNCHANGED uploads /\ SamePresence
<1> USE DEF Inv, TypeInv, TypeOK, QueueTypeOK
<1>1. CASE UNCHANGED vars BY <1>1 DEF vars, queue, ghosts, SamePresence
<1>2. ASSUME NEW j \in Jobs, Expire(j) \/ Recheck(j) \/ Retry(j)
      PROVE  UNCHANGED <<table, uploads>> /\ SamePresence
  BY <1>2 DEF Expire, Recheck, Retry, Lapse, CheckStalled, BackoffElapsed, ghosts, SamePresence
<1>3. ASSUME NEW w \in Workers, FetchSome(w)
      PROVE  UNCHANGED <<table, uploads>> /\ SamePresence
  BY <1>3 DEF FetchSome, Fetch, Take, TakeDeferred, SamePresence
<1>4. ASSUME NEW w \in Workers, Settle(w)
      PROVE  UNCHANGED <<table, uploads>> /\ SamePresence
  <2>1. task[w] \in Jobs /\ place[task[w]] # "none"
    BY <1>4 DEF Settle, HasTask, Known, Busy
  <2> QED BY <1>4, <2>1 DEF Settle, FinishOk, FinishRaised, queue, ghosts, SamePresence
<1>5. ASSUME NEW w \in Workers,
             \/ Synthesize(w) \/ TimeOut(w) \/ ThreadEnds(w) \/ Inspect(w)
             \/ Stop(w) \/ Crash(w) \/ Start(w)
      PROVE  UNCHANGED <<table, uploads>> /\ SamePresence
  BY <1>5 DEF Synthesize, TimeOut, ThreadEnds, Inspect, Stop, Crash, Start, Exit, Rest, queue,
              ghosts, SamePresence
<1>6. ASSUME NEW w \in Workers, Upload(w)
      PROVE  \/ UNCHANGED <<table, uploads>> /\ SamePresence
             \/ pc[w] = "upload" /\ Store(w) /\ UNCHANGED table /\ SamePresence
  BY <1>6 DEF Upload, queue, SamePresence
<1>7. ASSUME NEW w \in Workers,
             Load(w) \/ Activate(w) \/ Complete(w) \/ RecordTimeout(w) \/ Recover(w)
      PROVE  \/ UNCHANGED <<table, uploads>> /\ SamePresence
             \/ \E j \in Jobs : /\ Mark(j) /\ place[j] # "none"
                                /\ MarkCompleted(j) => uploads[j] > 0 \/ UNCHANGED table
                                /\ UNCHANGED uploads /\ SamePresence
  <2>0. Asks(w) BY <1>7, QueryingSteps
  <2>1. task[w] \in Jobs /\ place[task[w]] # "none" /\ UNCHANGED uploads /\ SamePresence
    BY <2>0 DEF Asks, HasTask, Known, Rest, queue, ghosts, SamePresence
  <2>2. CASE UNCHANGED table BY <2>1, <2>2
  <2>3. CASE Complete(w)
    <3>1. uploads[task[w]] > 0 BY <2>3 DEF Complete, Stored
    <3> QED BY <2>0, <2>1, <2>2, <3>1 DEF Asks
  <2>4. CASE /\ \/ MarkActive(task[w]) \/ MarkQueued(task[w])
                \/ MarkFailed(task[w], "TIMEOUT") \/ MarkFailed(task[w], "INTERNAL")
    <3>1. MarkCompleted(task[w]) => UNCHANGED table
      BY <2>1, <2>4 DEF MarkCompleted, MarkActive, MarkQueued, MarkFailed, NotTerminal, table,
                        TableTypeOK, Pending
    <3> QED BY <2>1, <2>4, <3>1 DEF Mark
  <2> QED
    BY <1>7, <2>2, <2>3, <2>4 DEF Load, Activate, RecordTimeout, Recover, Query
<1>8. ASSUME NEW w \in Workers, Record(w)
      PROVE  \/ UNCHANGED <<table, uploads>> /\ SamePresence
             \/ \E j \in Jobs : /\ Mark(j) /\ place[j] # "none"
                                /\ MarkCompleted(j) => uploads[j] > 0 \/ UNCHANGED table
                                /\ UNCHANGED uploads /\ SamePresence
  <2>1. task[w] \in Jobs /\ place[task[w]] # "none" /\ UNCHANGED uploads /\ SamePresence
    BY <1>8 DEF Record, HasTask, Known, Busy, Bypassing, queue, ghosts, SamePresence
  <2>2. UNCHANGED table \/ MarkFailed(task[w], "INTERNAL") BY <1>8 DEF Record, Query
  <2>3. MarkFailed(task[w], "INTERNAL") /\ MarkCompleted(task[w]) => UNCHANGED table
    BY <2>1 DEF MarkCompleted, MarkFailed, NotTerminal, table, TableTypeOK, Pending
  <2> QED BY <2>1, <2>2, <2>3 DEF Mark
<1> QED
  BY <1>1, <1>2, <1>3, <1>4, <1>5, <1>6, <1>7, <1>8 DEF Next, Handle

\* One row's move, as the abstract job sees it.
LEMMA MarkOutcome ==
  ASSUME TableTypeOK, NEW j \in Jobs, Mark(j), place[j] # "none", SamePresence,
         MarkCompleted(j) => uploads[j] > 0 \/ UNCHANGED table
  PROVE  /\ \A k \in Jobs : k # j => OutcomeOf(k)' = OutcomeOf(k)
         /\ \/ OutcomeOf(j)' = OutcomeOf(j)
            \/ OutcomeOf(j) = "pending" /\ OutcomeOf(j)' = "completed" /\ uploads[j] > 0
            \/ OutcomeOf(j) = "pending" /\ OutcomeOf(j)' = "failed"
<1>1. \A k \in Jobs : k # j => OutcomeOf(k)' = OutcomeOf(k)
  BY MarkGuard DEF OutcomeOf, SamePresence
<1> USE DEF OutcomeOf, SamePresence, TableTypeOK, Statuses, Pending, Terminal, NotTerminal, table
<1>2. CASE UNCHANGED table BY <1>2
<1>3. CASE MarkActive(j) \/ MarkQueued(j) BY <1>3 DEF MarkActive, MarkQueued
<1>4. CASE MarkCompleted(j) BY <1>2, <1>4 DEF MarkCompleted
<1>5. CASE MarkFailed(j, "TIMEOUT") \/ MarkFailed(j, "INTERNAL") BY <1>5 DEF MarkFailed
<1> QED BY <1>1, <1>3, <1>4, <1>5 DEF Mark

LEMMA PromiseStep == Inv /\ [Next]_vars => [Promise!ONext]_(Promise!ovars)
<1> SUFFICES ASSUME Inv, [Next]_vars PROVE [Promise!ONext]_(Promise!ovars)
  OBVIOUS
<1> DEFINE out == [j \in Jobs |-> OutcomeOf(j)]
           aud == [j \in Jobs |-> uploads[j] > 0]
<1>0. TableTypeOK /\ uploads \in [Jobs -> Nat] BY DEF Inv, TypeInv, TypeOK
<1>1. CASE UNCHANGED <<table, uploads>> /\ SamePresence
  <2>1. \A j \in Jobs : OutcomeOf(j)' = OutcomeOf(j)
    BY <1>1 DEF OutcomeOf, SamePresence, table
  <2>2. out' = out /\ aud' = aud BY <1>1, <2>1
  <2> QED BY <2>2 DEF Promise!ovars
<1>2. ASSUME NEW j \in Jobs, Submit(j) PROVE Promise!ONext
  <2>1. /\ OutcomeOf(j) = "none" /\ OutcomeOf(j)' = "pending"
        /\ \A k \in Jobs : k # j => OutcomeOf(k)' = OutcomeOf(k)
        /\ UNCHANGED uploads
    BY <1>0, <1>2 DEF Submit, InsertRow, Add, OutcomeOf, Inv, Fresh, TypeInv, TypeOK, QueueTypeOK,
                TableTypeOK, Pending, ghosts
  <2>2. /\ out[j] = "none"
        /\ out' = [out EXCEPT ![j] = "pending"]
        /\ aud' = aud
    BY <2>1
  <2> QED BY <2>2 DEF Promise!ONext, Promise!Accept
<1>3. ASSUME NEW j \in Jobs, Withdraw(j) PROVE Promise!ONext
  <2>1. /\ OutcomeOf(j) \in {"pending", "completed", "failed"} /\ OutcomeOf(j)' = "gone"
        /\ \A k \in Jobs : k # j => OutcomeOf(k)' = OutcomeOf(k)
        /\ UNCHANGED uploads
    BY <1>0, <1>3 DEF Withdraw, DeleteRow, OutcomeOf, TableTypeOK, Statuses, Pending, Terminal, queue,
                ghosts
  <2>2. /\ out[j] \in {"pending", "completed", "failed"}
        /\ out' = [out EXCEPT ![j] = "gone"]
        /\ aud' = aud
    BY <2>1
  <2> QED BY <2>2 DEF Promise!ONext, Promise!Revoke
<1>4. ASSUME NEW w \in Workers, pc[w] = "upload", Store(w), UNCHANGED table, SamePresence
      PROVE  Promise!ONext
  <2>0. task[w] \in Jobs /\ place[task[w]] # "none"
    BY <1>4 DEF Inv, TypeInv, HasTask, Known, Busy, InProcess
  <2>1. OutcomeOf(task[w]) # "none"
    BY <2>0, <1>0 DEF OutcomeOf, TableTypeOK, Statuses
  <2>2. \A k \in Jobs : OutcomeOf(k)' = OutcomeOf(k)
    BY <1>4 DEF OutcomeOf, SamePresence, table
  <2>3. /\ out[task[w]] # "none"
        /\ out' = out
        /\ aud' = [aud EXCEPT ![task[w]] = TRUE]
    <3>1. \A k \in Jobs : k # task[w] => uploads'[k] = uploads[k]
      BY <1>0, <1>4, <2>0 DEF Store
    <3>2. uploads'[task[w]] > 0 BY <1>0, <1>4, <2>0 DEF Store
    <3>3. \A k \in Jobs : aud'[k] = [aud EXCEPT ![task[w]] = TRUE][k]
      BY <3>1, <3>2, Zenon
    <3> QED BY <2>0, <2>1, <2>2, <3>3
  <2> QED BY <2>0, <2>3 DEF Promise!ONext, Promise!Deliver
<1>5. ASSUME NEW j \in Jobs, Mark(j), place[j] # "none",
             MarkCompleted(j) => uploads[j] > 0 \/ UNCHANGED table,
             UNCHANGED uploads, SamePresence
      PROVE  [Promise!ONext]_(Promise!ovars)
  <2>1. /\ \A k \in Jobs : k # j => OutcomeOf(k)' = OutcomeOf(k)
        /\ \/ OutcomeOf(j)' = OutcomeOf(j)
           \/ OutcomeOf(j) = "pending" /\ OutcomeOf(j)' = "completed" /\ uploads[j] > 0
           \/ OutcomeOf(j) = "pending" /\ OutcomeOf(j)' = "failed"
    BY <1>0, <1>5, MarkOutcome
  <2>2. aud' = aud BY <1>5
  <2>3. CASE OutcomeOf(j)' = OutcomeOf(j)
    <3>1. out' = out BY <2>1, <2>3
    <3> QED BY <2>2, <3>1 DEF Promise!ovars
  <2>4. CASE OutcomeOf(j) = "pending" /\ OutcomeOf(j)' = "completed" /\ uploads[j] > 0
    <3>1. out[j] = "pending" /\ aud[j] /\ out' = [out EXCEPT ![j] = "completed"]
      BY <2>1, <2>4
    <3> QED BY <2>2, <3>1 DEF Promise!ONext, Promise!Succeed
  <2>5. CASE OutcomeOf(j) = "pending" /\ OutcomeOf(j)' = "failed"
    <3>1. out[j] = "pending" /\ out' = [out EXCEPT ![j] = "failed"] BY <2>1, <2>5
    <3> QED BY <2>2, <3>1 DEF Promise!ONext, Promise!Fail
  <2> QED BY <2>1, <2>3, <2>4, <2>5
<1> QED BY <1>1, <1>2, <1>3, <1>4, <1>5, StepShape

\* What the service promises about a job holds of the workers as they are written.
THEOREM PromiseIsKept == Spec => KeepsPromise
<1>1. Init => Promise!OInit
  <2> SUFFICES ASSUME Init PROVE Promise!OInit
    OBVIOUS
  <2>1. \A j \in Jobs : OutcomeOf(j) = "none" /\ (uploads[j] > 0) = FALSE
    BY DEF Init, TableInit, QueueInit, OutcomeOf, Pending
  <2>2. [j \in Jobs |-> OutcomeOf(j)] = [j \in Jobs |-> "none"] BY <2>1
  <2>3. [j \in Jobs |-> uploads[j] > 0] = [j \in Jobs |-> FALSE] BY <2>1
  <2> QED BY <2>2, <2>3 DEF Promise!OInit
<1> QED BY <1>1, PromiseStep, Invariance, PTL DEF Spec, KeepsPromise, Promise!OSpec

-----------------------------------------------------------------------------
(* Entries that BullMQ gave up on.  The failed row is one statement on a        *)
(* connection that psycopg never reopens, and for an over-stalled entry a       *)
(* listener's: while no connection drops and no process dies in the listener,   *)
(* the row is decided.                                                          *)

ListenerSurvives == \A w \in Workers : pc[w] \in Bypassing => ~Crash(w)

AllLinked == \A w \in Workers : linked[w] = TRUE

\* What makes BullMQ give up: an unrecoverable error, or an error of the last attempt.
GivesUp(w) == pc[w] = "fatal" \/ (pc[w] = "raised" /\ FinalAttempt(w))

Recorded == \A w \in Workers : GivesUp(w) => status[task[w]] \notin Pending

\* The count a worker read at its fetch is the entry's, while it holds the lock.
CountRead == \A j \in Jobs : holder[j] # NoWorker => tried[holder[j]] = made[j]

FailInv == Inv /\ AllLinked /\ Recorded /\ CountRead /\ FailedEntryIsDecided

\* Only a submission makes a row pending, and its entry is new.
LEMMA NeverPendingAgain ==
  ASSUME Inv, [Next]_vars, NEW k \in Jobs, place[k] # "none", status'[k] \in Pending
  PROVE  status[k] \in Pending
<1> USE DEF Inv, TypeInv, TypeOK
<1>1. ASSUME NEW j \in Jobs, Submit(j) PROVE status[k] \in Pending
  BY <1>1 DEF Submit, InsertRow, TableTypeOK
<1>2. ASSUME NEW j \in Jobs, Mark(j) PROVE status[k] \in Pending
  BY <1>2, MarkGuard
<1>3. CASE UNCHANGED table BY <1>3 DEF table
<1>4. ASSUME NEW j \in Jobs, DeleteRow(j) PROVE status[k] \in Pending
  BY <1>4 DEF DeleteRow, TableTypeOK, Pending
<1> QED BY <1>1, <1>2, <1>3, <1>4, StepShape DEF Withdraw

LEMMA LinksLast ==
  ASSUME MaxFaults = 0, TypeOK, AllLinked, [Next]_vars
  PROVE  AllLinked'
<1>0. ~(faults < MaxFaults) BY DEF TypeOK
<1> USE DEF TypeOK, AllLinked
<1>1. CASE UNCHANGED linked BY <1>1
<1>2. ASSUME NEW j \in Jobs, Submit(j) \/ Withdraw(j) \/ Expire(j) \/ Recheck(j) \/ Retry(j)
      PROVE  UNCHANGED linked
  BY <1>2 DEF Submit, Withdraw, Expire, Recheck, Retry, worker
<1>3. ASSUME NEW w \in Workers, Load(w) \/ Activate(w) \/ Complete(w) \/ RecordTimeout(w)
                                \/ Recover(w) \/ Record(w) \/ Inspect(w)
      PROVE  UNCHANGED linked
  BY <1>0, <1>3 DEF Load, Activate, Complete, RecordTimeout, Recover, Record, Inspect, Query
<1>4. ASSUME NEW w \in Workers,
             \/ FetchSome(w) \/ Synthesize(w) \/ TimeOut(w) \/ ThreadEnds(w) \/ Upload(w)
             \/ Settle(w) \/ Stop(w) \/ Crash(w)
      PROVE  UNCHANGED linked
  BY <1>4 DEF FetchSome, Fetch, Synthesize, TimeOut, ThreadEnds, Upload, Settle, Stop, Crash,
              Exit
<1>5. ASSUME NEW w \in Workers, Start(w) PROVE AllLinked' BY <1>5 DEF Start
<1> QED BY <1>1, <1>2, <1>3, <1>4, <1>5 DEF Next, Handle, vars, worker

\* A connection that answers: whoever is about to give up has decided the row.
LEMMA AnsweredQueries ==
  ASSUME MaxFaults = 0, Inv, AllLinked, NEW w \in Workers,
         Load(w) \/ Activate(w) \/ Complete(w) \/ RecordTimeout(w) \/ Recover(w)
  PROVE  GivesUp(w)' => status'[task[w]] \notin Pending
<1>0. /\ ~(faults < MaxFaults) /\ linked[w] /\ task[w] \in Jobs
      /\ pc \in [Workers -> Points] /\ TableTypeOK
  <2>1. linked[w] BY Zenon DEF AllLinked
  <2> QED BY <2>1 DEF Inv, TypeInv, TypeOK, HasTask, Busy, InProcess, Load, Activate,
                      Complete, RecordTimeout, Recover
<1>1. CASE Load(w) \/ Activate(w) \/ Complete(w)
  BY <1>0, <1>1 DEF Load, Activate, Complete, Query, Goto, GivesUp
<1>2. CASE RecordTimeout(w)
  BY <1>0, <1>2 DEF RecordTimeout, Query, MarkFailed, NotTerminal, Pending, TableTypeOK, table
<1>3. CASE Recover(w)
  <2>1. pc'[w] = "raised" /\ (FinalAttempt(w)' <=> FinalAttempt(w))
    BY <1>0, <1>3 DEF Recover, Query, Goto, Rest, FinalAttempt
  <2>2. FinalAttempt(w) => status'[task[w]] \notin Pending
    BY <1>0, <1>3 DEF Recover, Query, MarkFailed, NotTerminal, Pending, TableTypeOK, table
  <2> QED BY <2>1, <2>2 DEF GivesUp
<1> QED BY <1>1, <1>2, <1>3

\* A worker whose handler stands still gives up no more than before.
LEMMA OthersRecorded ==
  ASSUME Inv, [Next]_vars, Recorded, NEW v \in Workers, GivesUp(v)',
         pc'[v] = pc[v], task'[v] = task[v], tried'[v] = tried[v]
  PROVE  status'[task'[v]] \notin Pending
<1>1. GivesUp(v) BY DEF GivesUp, FinalAttempt
<1>2. task[v] \in Jobs /\ place[task[v]] # "none"
  BY <1>1 DEF GivesUp, Inv, TypeInv, HasTask, Known, Busy, Ended
<1> QED BY <1>1, <1>2, NeverPendingAgain DEF Recorded

\* Steps of one worker's handler that leave BullMQ's entries alone.
LEMMA HandlerFails ==
  ASSUME FailInv, [Next]_vars, MaxFaults = 0, NEW w \in Workers,
         \/ Load(w) \/ Activate(w) \/ Complete(w) \/ RecordTimeout(w) \/ Recover(w)
         \/ Synthesize(w) \/ TimeOut(w) \/ ThreadEnds(w) \/ Upload(w)
  PROVE  Recorded' /\ CountRead' /\ FailedEntryIsDecided'
<1>0. Inv /\ AllLinked /\ Recorded /\ CountRead /\ FailedEntryIsDecided BY DEF FailInv
<1> USE DEF Inv, TypeInv, TypeOK, QueueTypeOK
<1>1. /\ UNCHANGED <<queue, task, tried>>
      /\ \A v \in Workers : v # w => pc'[v] = pc[v]
      /\ pc'[w] = pc[w] \/ pc[w] \in InProcess
  BY <1>0 DEF Load, Activate, Complete, RecordTimeout, Recover, Query, Goto, Synthesize, TimeOut,
              ThreadEnds, Upload, Rest, InProcess
<1>2. Recorded'
  <2> SUFFICES ASSUME NEW v \in Workers, GivesUp(v)' PROVE status'[task'[v]] \notin Pending
    BY DEF Recorded
  <2>1. CASE pc'[v] = pc[v] BY <1>0, <1>1, <2>1, OthersRecorded
  <2>2. CASE pc'[v] # pc[v]
    <3>1. v = w BY <1>1, <2>2
    <3>2. ~(Synthesize(w) \/ TimeOut(w) \/ ThreadEnds(w) \/ Upload(w))
      BY <2>2, <3>1, <1>0 DEF Synthesize, TimeOut, ThreadEnds, Upload, Goto, GivesUp
    <3> QED BY <1>0, <1>1, <3>1, <3>2, AnsweredQueries
  <2> QED BY <2>1, <2>2
<1>3. CountRead' BY <1>0, <1>1, NoWorkerAssumption DEF CountRead, queue
<1>4. FailedEntryIsDecided'
  <2> SUFFICES ASSUME NEW k \in Jobs, place[k] = "failed", status'[k] \in Pending
               PROVE  \E v \in Workers : task'[v] = k /\ pc'[v] \in Bypassing
    BY <1>1 DEF FailedEntryIsDecided, queue
  <2>1. status[k] \in Pending BY <1>0, NeverPendingAgain
  <2>2. PICK v \in Workers : task[v] = k /\ pc[v] \in Bypassing
    BY <1>0, <2>1 DEF FailedEntryIsDecided
  <2> QED BY <1>1, <2>2 DEF InProcess, Bypassing
<1> QED BY <1>2, <1>3, <1>4

\* The gateway's steps and BullMQ's timers: no worker moves, no entry fails.
LEMMA OutsideFails ==
  ASSUME FailInv, [Next]_vars, NEW j \in Jobs,
         Submit(j) \/ Withdraw(j) \/ Expire(j) \/ Recheck(j) \/ Retry(j)
  PROVE  Recorded' /\ CountRead' /\ FailedEntryIsDecided'
<1>0. Inv /\ Recorded /\ CountRead /\ FailedEntryIsDecided BY DEF FailInv
<1> USE DEF Inv, TypeInv, TypeOK, QueueTypeOK
<1>1. /\ UNCHANGED <<pc, task, tried, made>>
      /\ \A k \in Jobs : holder'[k] = holder[k] \/ holder'[k] = NoWorker
      /\ \A k \in Jobs : place'[k] = "failed" => place[k] = "failed"
  BY <1>0 DEF Submit, Withdraw, Expire, Recheck, Retry, Add, Lapse, CheckStalled, BackoffElapsed,
              worker, queue
<1>2. Recorded' BY <1>0, <1>1, OthersRecorded DEF Recorded
<1>3. CountRead' BY <1>0, <1>1 DEF CountRead
<1>4. FailedEntryIsDecided'
  BY <1>0, <1>1, NeverPendingAgain DEF FailedEntryIsDecided
<1> QED BY <1>2, <1>3, <1>4

\* A fetch reads the count with the lock; BullMQ's own failure goes to the listener.
LEMMA FetchFails ==
  ASSUME FailInv, [Next]_vars, NEW w \in Workers, NEW j \in Jobs, Fetch(w, j)
  PROVE  Recorded' /\ CountRead' /\ FailedEntryIsDecided'
<1>0. Inv /\ Recorded /\ CountRead /\ FailedEntryIsDecided BY DEF FailInv
<1> USE DEF Inv, TypeInv, TypeOK, QueueTypeOK
<1>1. /\ \A v \in Workers : v # w => pc'[v] = pc[v] /\ task'[v] = task[v] /\ tried'[v] = tried[v]
      /\ pc[w] = "idle" /\ task'[w] = j /\ pc'[w] \in {"load", "bypassed"}
      /\ UNCHANGED <<made, status>>
  BY <1>0 DEF Fetch, Take, TakeDeferred, Goto, table
<1>2. Recorded'
  <2> SUFFICES ASSUME NEW v \in Workers, GivesUp(v)' PROVE status'[task'[v]] \notin Pending
    BY DEF Recorded
  <2>1. v # w BY <1>1 DEF GivesUp
  <2> QED BY <1>0, <1>1, <2>1, OthersRecorded
<1>3. CountRead'
  <2> SUFFICES ASSUME NEW k \in Jobs, holder'[k] # NoWorker
               PROVE  tried'[holder'[k]] = made'[k]
    BY DEF CountRead
  <2>1. CASE holder'[k] = holder[k] /\ holder[k] # w
    BY <1>0, <1>1, <2>1 DEF CountRead
  <2>2. CASE holder'[k] = holder[k] /\ holder[k] = w
    BY <1>0, <1>1, <2>2, NoWorkerAssumption DEF Held, InProcess, Ended
  <2>3. CASE holder'[k] # holder[k]
    BY <1>0, <2>3 DEF Fetch, Take, TakeDeferred
  <2> QED BY <2>1, <2>2, <2>3
<1>4. FailedEntryIsDecided'
  <2> SUFFICES ASSUME NEW k \in Jobs, place'[k] = "failed", status[k] \in Pending
               PROVE  \E v \in Workers : task'[v] = k /\ pc'[v] \in Bypassing
    BY <1>1 DEF FailedEntryIsDecided
  <2>1. CASE place[k] = "failed"
    <3>1. PICK v \in Workers : task[v] = k /\ pc[v] \in Bypassing
      BY <1>0, <2>1 DEF FailedEntryIsDecided
    <3> QED BY <1>1, <3>1 DEF Bypassing
  <2>2. CASE place[k] # "failed"
    <3>1. k = j /\ pc'[w] = "bypassed"
      BY <1>0, <2>2 DEF Fetch, Take, TakeDeferred, Goto
    <3> QED BY <1>1, <3>1 DEF Bypassing
  <2> QED BY <2>1, <2>2
<1> QED BY <1>2, <1>3, <1>4

\* BullMQ gives an entry up only for the lock's holder, and by the holder's count.
LEMMA SettleFails ==
  ASSUME FailInv, [Next]_vars, NEW w \in Workers, Settle(w)
  PROVE  Recorded' /\ CountRead' /\ FailedEntryIsDecided'
<1>0. Inv /\ Recorded /\ CountRead /\ FailedEntryIsDecided BY DEF FailInv
<1> USE DEF Inv, TypeInv, TypeOK, QueueTypeOK
<1>1. /\ \A v \in Workers : v # w => pc'[v] = pc[v] /\ task'[v] = task[v] /\ tried'[v] = tried[v]
      /\ pc[w] \in Ended /\ pc'[w] = "idle" /\ task[w] \in Jobs /\ UNCHANGED status
      /\ \A k \in Jobs : k # task[w] \/ holder[task[w]] # w =>
           place'[k] = place[k] /\ holder'[k] = holder[k] /\ made'[k] = made[k]
      /\ holder[task[w]] = w => holder'[task[w]] = NoWorker
  BY <1>0 DEF Settle, Release, Goto, FinishOk, FinishRaised, queue, table, HasTask, Busy
<1>2. Recorded'
  <2> SUFFICES ASSUME NEW v \in Workers, GivesUp(v)' PROVE status'[task'[v]] \notin Pending
    BY DEF Recorded
  <2>1. v # w BY <1>1 DEF GivesUp
  <2> QED BY <1>0, <1>1, <2>1, OthersRecorded
<1>3. CountRead'
  <2> SUFFICES ASSUME NEW k \in Jobs, holder'[k] # NoWorker
               PROVE  tried'[holder'[k]] = made'[k]
    BY DEF CountRead
  <2>1. k # task[w] \/ holder[task[w]] # w BY <1>1
  <2>2. holder'[k] = holder[k] /\ made'[k] = made[k] BY <1>1, <2>1
  <2>3. task[holder[k]] = k /\ holder[k] \in Workers
    BY <1>0, <2>2, NoWorkerAssumption DEF Held
  <2>4. holder[k] # w BY <2>1, <2>3
  <2> QED BY <1>0, <1>1, <2>2, <2>3, <2>4 DEF CountRead
<1>4. FailedEntryIsDecided'
  <2> SUFFICES ASSUME NEW k \in Jobs, place'[k] = "failed", status[k] \in Pending
               PROVE  \E v \in Workers : task'[v] = k /\ pc'[v] \in Bypassing
    BY <1>1 DEF FailedEntryIsDecided
  <2>1. CASE place[k] = "failed"
    <3>1. PICK v \in Workers : task[v] = k /\ pc[v] \in Bypassing
      BY <1>0, <2>1 DEF FailedEntryIsDecided
    <3> QED BY <1>1, <3>1 DEF Bypassing, Ended
  <2>2. CASE place[k] # "failed"
    <3>1. k = task[w] /\ holder[k] = w BY <1>1, <2>2
    <3>2. made[k] = tried[w] BY <1>0, <3>1, NoWorkerAssumption DEF CountRead
    <3>3. pc[w] = "fatal" \/ (pc[w] # "returned" /\ made[k] + 1 >= AttemptLimit)
      BY <1>0, <1>1, <2>2, <3>1 DEF Settle, FinishOk, FinishRaised
    <3>4. GivesUp(w) BY <1>1, <3>2, <3>3 DEF GivesUp, FinalAttempt, Ended
    <3> QED BY <1>0, <3>1, <3>4 DEF Recorded
  <2> QED BY <2>1, <2>2
<1> QED BY <1>2, <1>3, <1>4

\* The listener decides the row before it is done with it.
LEMMA ListenerFails ==
  ASSUME FailInv, [Next]_vars, MaxFaults = 0, NEW w \in Workers, Inspect(w) \/ Record(w)
  PROVE  Recorded' /\ CountRead' /\ FailedEntryIsDecided'
<1>0. /\ Inv /\ AllLinked /\ Recorded /\ CountRead /\ FailedEntryIsDecided
      /\ linked[w] /\ ~(faults < MaxFaults)
  <2>1. AllLinked /\ linked[w] BY Zenon DEF FailInv, AllLinked
  <2> QED BY <2>1 DEF FailInv, Inv, TypeInv, TypeOK
<1> USE DEF Inv, TypeInv, TypeOK, QueueTypeOK, TableTypeOK
<1>1. /\ \A v \in Workers : v # w => pc'[v] = pc[v] /\ task'[v] = task[v] /\ tried'[v] = tried[v]
      /\ pc[w] \in Bypassing /\ pc'[w] \in {"idle", "record"} /\ task[w] \in Jobs
      /\ UNCHANGED queue
  BY <1>0 DEF Inspect, Record, Query, Release, Goto, HasTask, Busy, Bypassing
<1>2. \/ pc'[w] = "record" /\ task'[w] = task[w]
      \/ status'[task[w]] \notin Pending
  BY <1>0, <1>1 DEF Inspect, Record, Query, Release, Goto, MarkFailed, NotTerminal, Pending, table
<1>3. Recorded'
  <2> SUFFICES ASSUME NEW v \in Workers, GivesUp(v)' PROVE status'[task'[v]] \notin Pending
    BY DEF Recorded
  <2>1. v # w BY <1>1 DEF GivesUp
  <2> QED BY <1>0, <1>1, <2>1, OthersRecorded
<1>4. CountRead'
  <2> SUFFICES ASSUME NEW k \in Jobs, holder[k] # NoWorker
               PROVE  tried'[holder[k]] = made[k]
    BY <1>1 DEF CountRead, queue
  <2>1. holder[k] \in Workers /\ pc[holder[k]] \in InProcess \cup Ended
    BY <1>0 DEF Held
  <2>2. holder[k] # w BY <1>1, <2>1 DEF InProcess, Ended, Bypassing
  <2> QED BY <1>0, <1>1, <2>1, <2>2 DEF CountRead
<1>5. FailedEntryIsDecided'
  <2> SUFFICES ASSUME NEW k \in Jobs, place[k] = "failed", status'[k] \in Pending
               PROVE  \E v \in Workers : task'[v] = k /\ pc'[v] \in Bypassing
    BY <1>1 DEF FailedEntryIsDecided, queue
  <2>1. status[k] \in Pending BY <1>0, NeverPendingAgain
  <2>2. PICK v \in Workers : task[v] = k /\ pc[v] \in Bypassing
    BY <1>0, <2>1 DEF FailedEntryIsDecided
  <2> QED BY <1>1, <1>2, <2>2 DEF Bypassing
<1> QED BY <1>3, <1>4, <1>5

\* Processes come and go, but not from the listener.
LEMMA ProcessFails ==
  ASSUME FailInv, [Next]_vars, ListenerSurvives, NEW w \in Workers,
         Stop(w) \/ Crash(w) \/ Start(w)
  PROVE  Recorded' /\ CountRead' /\ FailedEntryIsDecided'
<1>0. Inv /\ Recorded /\ CountRead /\ FailedEntryIsDecided BY DEF FailInv
<1> USE DEF Inv, TypeInv, TypeOK, QueueTypeOK
<1>1. /\ \A v \in Workers : v # w => pc'[v] = pc[v] /\ task'[v] = task[v] /\ tried'[v] = tried[v]
      /\ pc'[w] \in {"idle", "down"} /\ pc[w] \notin Bypassing
      /\ UNCHANGED <<place, made, status>>
  BY <1>0 DEF Stop, Crash, Start, Exit, Goto, ListenerSurvives, Bypassing, queue, table
<1>2. \A k \in Jobs : holder'[k] = NoWorker \/ (holder'[k] = holder[k] /\ holder[k] # w)
  <2>1. CASE Crash(w) BY <1>0, <2>1 DEF Crash
  <2>2. CASE Stop(w) \/ Start(w)
    BY <1>0, <2>2, NoWorkerAssumption DEF Stop, Start, Held, InProcess, Ended, queue
  <2> QED BY <2>1, <2>2
<1>3. Recorded'
  <2> SUFFICES ASSUME NEW v \in Workers, GivesUp(v)' PROVE status'[task'[v]] \notin Pending
    BY DEF Recorded
  <2>1. v # w BY <1>1 DEF GivesUp
  <2> QED BY <1>0, <1>1, <2>1, OthersRecorded
<1>4. CountRead' BY <1>0, <1>1, <1>2 DEF CountRead
<1>5. FailedEntryIsDecided' BY <1>0, <1>1 DEF FailedEntryIsDecided
<1> QED BY <1>3, <1>4, <1>5

LEMMA FailInit == Init => FailInv
<1> SUFFICES ASSUME Init PROVE FailInv
  OBVIOUS
<1>1. AllLinked BY DEF Init, AllLinked
<1>2. Recorded /\ CountRead /\ FailedEntryIsDecided
  BY DEF Init, QueueInit, Recorded, GivesUp, CountRead, FailedEntryIsDecided
<1> QED BY <1>1, <1>2, InvInit DEF FailInv

LEMMA FailNext ==
  ASSUME MaxFaults = 0, FailInv, [Next]_vars, [ListenerSurvives]_vars
  PROVE  FailInv'
<1>0. Inv' /\ AllLinked'
  <2>1. Inv' BY InvNext DEF FailInv
  <2>2. AllLinked' BY LinksLast DEF FailInv, Inv, TypeInv
  <2> QED BY <2>1, <2>2
<1>1. CASE UNCHANGED vars
  <2>1. UNCHANGED <<status, place, holder, made, pc, task, tried>>
    BY <1>1 DEF vars, table, queue, worker
  <2>2. Recorded' /\ CountRead' /\ FailedEntryIsDecided'
    BY <2>1 DEF FailInv, Recorded, GivesUp, FinalAttempt, CountRead, FailedEntryIsDecided
  <2> QED BY <1>0, <2>2 DEF FailInv
<1>2. CASE Next /\ ListenerSurvives
  <2>1. Recorded' /\ CountRead' /\ FailedEntryIsDecided'
    BY <1>2, OutsideFails, FetchFails, HandlerFails, SettleFails, ListenerFails, ProcessFails
       DEF Next, Handle, FetchSome
  <2> QED BY <1>0, <2>1 DEF FailInv
<1> QED BY <1>1, <1>2

\* An entry that BullMQ gave up on has a decided row, or a worker whose listener is
\* just recording the failure (processor.py:96-120): for any number of crashes,
\* stops and lapsed locks, as long as no crash hits the listener and no connection
\* drops.  WorkerLostLink shows that the last condition cannot be dropped.
THEOREM FailuresRecorded ==
  ASSUME MaxFaults = 0
  PROVE  Spec /\ [][ListenerSurvives]_vars => []FailedEntryIsDecided
<1>1. FailInv /\ [Next]_vars /\ [ListenerSurvives]_vars => FailInv' BY FailNext
<1>2. FailInv => FailedEntryIsDecided BY DEF FailInv
<1> QED BY <1>1, <1>2, FailInit, PTL DEF Spec

\* Every stall is paid for by a lapsed lock or a process that ended, and a listener
\* only hears of entries that stalled more often than forgiven.
Paid(j) ==
  /\ stalls[j] <= exits + expiries
  /\ place[j] = "active" /\ holder[j] = NoWorker => stalls[j] < exits + expiries
  /\ deferred[j] = TRUE => stalls[j] > MaxStalled

OverStalled == \A w \in Workers : pc[w] \in Bypassing => stalls[task[w]] > MaxStalled

PaidInv == Inv /\ OverStalled /\ \A j \in Jobs : Paid(j)

LEMMA SumsGrow ==
  ASSUME NEW a \in Nat, NEW b \in Nat, NEW c \in Nat, NEW d \in Nat, NEW n \in Nat,
         c >= a, d >= b
  PROVE  /\ n <= a + b => n <= c + d
         /\ n < a + b => n < c + d
         /\ n <= a + b /\ c + d > a + b => n < c + d
OBVIOUS

LEMMA PaidNext == PaidInv /\ [Next]_vars => PaidInv'
<1> SUFFICES ASSUME PaidInv, [Next]_vars PROVE PaidInv'
  OBVIOUS
<1>0. Inv /\ Inv' BY InvNext DEF PaidInv
<1> USE DEF TypeInv, TypeOK, QueueTypeOK
<1>n. exits \in Nat /\ expiries \in Nat BY <1>0, BudgetAssumption DEF Inv
\* A step that neither stalls an entry nor leaves one without its lock.
<1>1. ASSUME exits' >= exits, expiries' >= expiries, exits' \in Nat, expiries' \in Nat,
             UNCHANGED <<stalls, deferred>>,
             \A k \in Jobs : place'[k] = "active" /\ holder'[k] = NoWorker =>
               \/ place[k] = "active" /\ holder[k] = NoWorker
               \/ exits' + expiries' > exits + expiries
      PROVE  \A j \in Jobs : Paid(j)'
  <2> SUFFICES ASSUME NEW j \in Jobs PROVE Paid(j)'
    OBVIOUS
  <2>1. Paid(j) /\ stalls[j] \in Nat BY <1>0 DEF PaidInv, Inv
  <2>2. stalls'[j] = stalls[j] /\ deferred'[j] = deferred[j] BY <1>1
  <2>6. stalls[j] <= exits + expiries BY <2>1, Zenon DEF Paid
  <2>0. exits' >= exits /\ expiries' >= expiries /\ exits' \in Nat /\ expiries' \in Nat
    BY <1>1, Zenon
  <2>7. /\ stalls[j] <= exits + expiries => stalls[j] <= exits' + expiries'
        /\ stalls[j] < exits + expiries => stalls[j] < exits' + expiries'
        /\ stalls[j] <= exits + expiries /\ exits' + expiries' > exits + expiries
             => stalls[j] < exits' + expiries'
    <3>1. \A n \in Nat : /\ n <= exits + expiries => n <= exits' + expiries'
                         /\ n < exits + expiries => n < exits' + expiries'
                         /\ n <= exits + expiries /\ exits' + expiries' > exits + expiries
                              => n < exits' + expiries'
      BY <1>n, <2>0, SumsGrow
    <3> QED BY <2>1, <3>1, Zenon
  <2>3. deferred'[j] = TRUE => stalls'[j] > MaxStalled BY <2>1, <2>2, Zenon DEF Paid
  <2>4. stalls'[j] <= exits' + expiries' BY <2>2, <2>6, <2>7, Zenon
  <2>5. place'[j] = "active" /\ holder'[j] = NoWorker => stalls'[j] < exits' + expiries'
    <3> SUFFICES ASSUME place'[j] = "active", holder'[j] = NoWorker
                 PROVE  stalls'[j] < exits' + expiries'
      OBVIOUS
    <3>0. \/ place[j] = "active" /\ holder[j] = NoWorker
          \/ exits' + expiries' > exits + expiries
      BY <1>1, Zenon
    <3>1. CASE place[j] = "active" /\ holder[j] = NoWorker
      <4>1. stalls[j] < exits + expiries BY <2>1, <3>1, Zenon DEF Paid
      <4> QED BY <2>2, <2>7, <4>1, Zenon
    <3>2. CASE exits' + expiries' > exits + expiries
      BY <2>2, <2>6, <2>7, <3>2, Zenon
    <3> QED BY <3>0, <3>1, <3>2
  <2> QED BY <2>3, <2>4, <2>5, Zenon DEF Paid
<1>2. ASSUME UNCHANGED stalls,
             \A w \in Workers : pc'[w] \in Bypassing => pc[w] \in Bypassing /\ task'[w] = task[w]
      PROVE  OverStalled'
  BY <1>2 DEF PaidInv, OverStalled
<1>3. CASE UNCHANGED vars
  <2>1. UNCHANGED <<stalls, deferred, place, holder, exits, expiries, pc, task>>
    BY <1>3 DEF vars, queue, worker, spent
  <2> QED BY <1>0, <1>1, <1>2, <1>n, <2>1 DEF PaidInv
<1>4. ASSUME NEW j \in Jobs, Submit(j) \/ Withdraw(j) \/ Retry(j) PROVE PaidInv'
  <2>1. /\ UNCHANGED <<stalls, deferred, exits, expiries, pc, task, holder>>
        /\ \A k \in Jobs : place'[k] = "active" => place[k] = "active"
    BY <1>0, <1>4 DEF Inv, Submit, Withdraw, Retry, Add, BackoffElapsed, worker, queue, spent
  <2> QED BY <1>0, <1>1, <1>2, <1>n, <2>1 DEF PaidInv
<1>5. ASSUME NEW j \in Jobs, Expire(j) PROVE PaidInv'
  <2>1. /\ UNCHANGED <<stalls, deferred, exits, pc, task, place>> /\ expiries' = expiries + 1
    BY <1>5 DEF Expire, Lapse, worker
  <2>2. exits' + expiries' > exits + expiries /\ expiries' \in Nat BY <1>n, <2>1
  <2> QED BY <1>0, <1>1, <1>2, <1>n, <2>1, <2>2 DEF PaidInv
<1>6. ASSUME NEW j \in Jobs, Recheck(j) PROVE PaidInv'
  <2>1. /\ UNCHANGED <<exits, expiries, pc, task, holder>>
        /\ place[j] = "active" /\ holder[j] = NoWorker /\ place'[j] = "waiting"
        /\ stalls'[j] = stalls[j] + 1
        /\ deferred'[j] = (stalls[j] + 1 > MaxStalled)
        /\ \A k \in Jobs : k # j => /\ place'[k] = place[k] /\ stalls'[k] = stalls[k]
                                    /\ deferred'[k] = deferred[k]
    BY <1>0, <1>6 DEF Inv, Recheck, CheckStalled, worker, spent
  <2>2. ASSUME NEW k \in Jobs PROVE Paid(k)'
    <3>1. Paid(k) /\ stalls[k] \in Nat BY <1>0 DEF PaidInv, Inv
    <3>2. CASE k # j BY <2>1, <3>1, <3>2 DEF Paid
    <3>3. CASE k = j
      <4>1. stalls'[k] <= exits + expiries /\ place'[k] # "active"
        BY <1>n, <2>1, <3>1, <3>3 DEF Paid
      <4>2. deferred'[k] = TRUE => stalls[k] + 1 > MaxStalled BY <2>1, <3>3, Zenon
      <4> QED BY <2>1, <3>3, <4>1, <4>2 DEF Paid
    <3> QED BY <3>2, <3>3
  <2>3. OverStalled'
    <3> SUFFICES ASSUME NEW w \in Workers, pc[w] \in Bypassing
                 PROVE  stalls'[task[w]] > MaxStalled
      BY <2>1 DEF OverStalled
    <3>1. task[w] \in Jobs /\ stalls[task[w]] > MaxStalled /\ stalls[task[w]] \in Nat
      BY <1>0 DEF PaidInv, OverStalled, Inv, HasTask, Busy
    <3> QED BY <2>1, <3>1, MaxStalledAssumption
  <2> QED BY <1>0, <2>2, <2>3 DEF PaidInv
<1>7. ASSUME NEW w \in Workers, NEW j \in Jobs, Fetch(w, j) PROVE PaidInv'
  <2>1. /\ UNCHANGED <<stalls, deferred, exits, expiries>>
        /\ \A v \in Workers : v # w => pc'[v] = pc[v] /\ task'[v] = task[v]
        /\ task'[w] = j
        /\ pc'[w] \in Bypassing => deferred[j]
        /\ \A k \in Jobs : place'[k] = "active" /\ holder'[k] = NoWorker
                             => place[k] = "active" /\ holder[k] = NoWorker
    BY <1>0, <1>7, NoWorkerAssumption
       DEF Inv, Fetch, Take, TakeDeferred, Goto, Bypassing, spent
  <2>2. deferred[j] => stalls[j] > MaxStalled
    <3>1. Paid(j) /\ deferred[j] \in BOOLEAN BY <1>0 DEF PaidInv, Inv
    <3>2. deferred[j] => deferred[j] = TRUE BY <3>1, Zenon
    <3> QED BY <3>1, <3>2, Zenon DEF Paid
  <2>3. OverStalled' BY <2>1, <2>2 DEF PaidInv, OverStalled
  <2> QED BY <1>0, <1>1, <1>n, <2>1, <2>3 DEF PaidInv
<1>8. ASSUME NEW w \in Workers,
             \/ Load(w) \/ Activate(w) \/ Complete(w) \/ RecordTimeout(w) \/ Recover(w)
             \/ Synthesize(w) \/ TimeOut(w) \/ ThreadEnds(w) \/ Upload(w)
             \/ Inspect(w) \/ Record(w) \/ Start(w)
      PROVE  PaidInv'
  <2>1. UNCHANGED <<queue, exits, expiries>>
    BY <1>8 DEF Load, Activate, Complete, RecordTimeout, Recover, Synthesize, TimeOut, ThreadEnds,
                Upload, Inspect, Record, Start, Rest, spent
  <2>2. \A v \in Workers : pc'[v] \in Bypassing => pc[v] \in Bypassing /\ task'[v] = task[v]
    BY <1>0, <1>8 DEF Inv, Load, Activate, Complete, RecordTimeout, Recover, Synthesize, TimeOut,
                ThreadEnds, Upload, Inspect, Record, Start, Rest, Query, Release, Goto, Bypassing
  <2> QED BY <1>0, <1>1, <1>2, <1>n, <2>1, <2>2 DEF PaidInv, queue
<1>9. ASSUME NEW w \in Workers, Settle(w) PROVE PaidInv'
  <2>1. /\ UNCHANGED <<stalls, deferred, exits, expiries>>
        /\ \A v \in Workers : pc'[v] \in Bypassing => pc[v] \in Bypassing /\ task'[v] = task[v]
        /\ \A k \in Jobs : place'[k] = "active" /\ holder'[k] = NoWorker
                             => place[k] = "active" /\ holder[k] = NoWorker
    BY <1>0, <1>9 DEF Inv, HasTask, Busy, Settle, FinishOk, FinishRaised, Release, Goto, Bypassing,
                      queue, spent
  <2> QED BY <1>0, <1>1, <1>2, <1>n, <2>1 DEF PaidInv
<1>10. ASSUME NEW w \in Workers, Stop(w) \/ Crash(w) PROVE PaidInv'
  <2>1. /\ UNCHANGED <<stalls, deferred, expiries, place>> /\ exits' = exits + 1
        /\ \A v \in Workers : pc'[v] \in Bypassing => pc[v] \in Bypassing /\ task'[v] = task[v]
    BY <1>0, <1>10 DEF Inv, Stop, Crash, Exit, Bypassing, queue
  <2>2. exits' + expiries' > exits + expiries /\ exits' \in Nat BY <1>n, <2>1
  <2> QED BY <1>0, <1>1, <1>2, <1>n, <2>1, <2>2 DEF PaidInv
<1> QED
  BY <1>3, <1>4, <1>5, <1>6, <1>7, <1>8, <1>9, <1>10 DEF Next, Handle, FetchSome

LEMMA PaidInit == Init => PaidInv
<1> SUFFICES ASSUME Init PROVE PaidInv
  OBVIOUS
<1>1. OverStalled BY DEF Init, OverStalled, Bypassing
<1>2. ASSUME NEW j \in Jobs PROVE Paid(j)
  <2>1. stalls[j] = 0 /\ deferred[j] = FALSE /\ place[j] = "none" /\ exits = 0 /\ expiries = 0
    BY DEF Init, QueueInit
  <2> QED BY <2>1 DEF Paid
<1> QED BY <1>1, <1>2, InvInit DEF PaidInv

\* When the budget of exits and lapsed locks is only just enough for one entry to
\* stall once too often, no exit is left for the listener that hears of it.
LEMMA NoExitToSpare ==
  ASSUME PaidInv, MaxExits + MaxExpiries <= MaxStalled + 1
  PROVE  ListenerSurvives
<1> SUFFICES ASSUME NEW w \in Workers, pc[w] \in Bypassing PROVE ~Crash(w)
  BY DEF ListenerSurvives
<1>1. task[w] \in Jobs /\ stalls[task[w]] > MaxStalled
  <2>1. task[w] \in Jobs BY DEF PaidInv, Inv, TypeInv, HasTask, Busy
  <2>2. stalls[task[w]] > MaxStalled BY Zenon DEF PaidInv, OverStalled
  <2> QED BY <2>1, <2>2
<1>2. stalls[task[w]] <= exits + expiries BY <1>1, Zenon DEF PaidInv, Paid
<1>3. /\ stalls[task[w]] \in Nat /\ exits \in 0..MaxExits /\ expiries \in 0..MaxExpiries
  BY <1>1 DEF PaidInv, Inv, TypeInv, TypeOK, QueueTypeOK
<1>4. exits = MaxExits
  BY <1>1, <1>2, <1>3, BudgetAssumption, MaxStalledAssumption
<1> QED BY <1>3, <1>4, BudgetAssumption DEF Crash, Exit

\* The same without a condition on the crashes: when processes end and locks lapse
\* at most once more than BullMQ forgives an entry to stall, no entry is given up
\* on with an undecided row that nobody is recording (processor.py:96-120).  The
\* bounds of the run WorkerProgress are an instance.
THEOREM FailuresRecordedInBudget ==
  ASSUME MaxFaults = 0, MaxExits + MaxExpiries <= MaxStalled + 1
  PROVE  Spec => []FailedEntryIsDecided
<1>1. FailInv /\ PaidInv /\ [Next]_vars => (FailInv /\ PaidInv)'
  BY FailNext, PaidNext, NoExitToSpare, Zenon
<1>2. Init => FailInv /\ PaidInv BY FailInit, PaidInit
<1>3. FailInv => FailedEntryIsDecided BY DEF FailInv
<1> QED BY <1>1, <1>2, <1>3, PTL DEF Spec
=============================================================================
