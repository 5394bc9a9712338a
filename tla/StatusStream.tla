---------------------------- MODULE StatusStream ----------------------------
(***************************************************************************)
(* GET /v1/jobs/:id/events (src/gateway/src/routes/jobs.ts:237-297): streams  *)
(* of one job's status, each fed by its own interval poll of the row, the     *)
(* registry of open streams (lib/sse.ts) and what a shutdown does to both     *)
(* (server.ts, lib/shutdown.ts).                                             *)
(*                                                                         *)
(* The row's life is a history of statuses; a read of the row is the number   *)
(* of the status it saw.  A step is what Node runs between two awaits, or one *)
(* read by the database.                                                     *)
(***************************************************************************)
EXTENDS Integers, Sequences

CONSTANTS
  Streams,       \* connections that ask for the job's events
  Slots,         \* bound: polls of one stream that may be in flight together
  MaxMoves       \* bound: status changes of the row

ASSUME BoundsAssumption == MaxMoves \in Nat

VARIABLES
  history,       \* the statuses the row has had; the last one is its status now
  server,        \* "up", "draining" (the signal came), "exited", "killed"
  stage,         \* stage[s]: where the request's handler is
  seen,          \* seen[s]: what findOwnedJob read
  last,          \* last[s]: the status lastStatus holds, by its number
  timer,         \* timer[s]: the interval is running
  polls,         \* polls[s][k]: Idle, Asked, or the number of the status read
  hub,           \* the registered responses
  cause,         \* cause[s]: why res.end() was first called, or "none"
  gone,          \* gone[s]: the connection is closed
  events,        \* events[s]: what the client was sent, in order
  crossed        \* crossed[s]: two of the stream's polls were in flight together

handler == <<stage, seen, last>>
watch   == <<timer, polls, crossed>>
client  == <<gone, events>>
vars    == <<history, server, handler, watch, hub, cause, client>>

Idle     == -1
Asked    == 0
Pending  == {"QUEUED", "ACTIVE"}
Terminal == {"COMPLETED", "FAILED"}
Statuses == Pending \cup Terminal \cup {"ABSENT"}
Versions == 1..(MaxMoves + 1)

Now    == Len(history)
Row    == history[Now]
Is(v, S) == history[v] \in S

TypeOK ==
  /\ history \in Seq(Statuses) /\ Now \in Versions
  /\ server \in {"up", "draining", "exited", "killed"}
  /\ stage  \in [Streams -> {"new", "lookup", "found", "streaming", "refused"}]
  /\ seen   \in [Streams -> {Idle} \cup Versions]
  /\ last   \in [Streams -> {Idle} \cup Versions]
  /\ timer  \in [Streams -> BOOLEAN]
  /\ polls  \in [Streams -> [Slots -> {Idle, Asked} \cup Versions]]
  /\ hub \subseteq Streams
  /\ cause  \in [Streams -> {"none", "decided", "missing", "error", "shutdown"}]
  /\ gone   \in [Streams -> BOOLEAN]
  /\ events \in [Streams -> Seq(Versions)]
  /\ crossed \in [Streams -> BOOLEAN]
  /\ \A s \in Streams : timer[s] => last[s] \in Versions

Init ==
  /\ history = <<"QUEUED">>
  /\ server  = "up"
  /\ stage   = [s \in Streams |-> "new"]
  /\ seen    = [s \in Streams |-> Idle]
  /\ last    = [s \in Streams |-> Idle]
  /\ timer   = [s \in Streams |-> FALSE]
  /\ polls   = [s \in Streams |-> [k \in Slots |-> Idle]]
  /\ hub     = {}
  /\ cause   = [s \in Streams |-> "none"]
  /\ gone    = [s \in Streams |-> FALSE]
  /\ events  = [s \in Streams |-> <<>>]
  /\ crossed = [s \in Streams |-> FALSE]

-----------------------------------------------------------------------------
Alive        == server \in {"up", "draining"}
Goto(s, p)   == stage' = [stage EXCEPT ![s] = p]
Slot(s, k, v) == polls' = [polls EXCEPT ![s][k] = v]

\* res.write: nobody reads what is written to a closed or ended response.
Send(s, v) ==
  events' = IF gone[s] \/ cause[s] # "none" THEN events
            ELSE [events EXCEPT ![s] = Append(@, v)]

\* res.end(): only the first call counts.
End(s, why) == cause' = IF cause[s] = "none" THEN [cause EXCEPT ![s] = why] ELSE cause

\* stop(): clearInterval and sse.remove.
StopTimerOnly(s) ==
  /\ timer' = [timer EXCEPT ![s] = FALSE]
  /\ UNCHANGED hub

Stop(s) ==
  /\ timer' = [timer EXCEPT ![s] = FALSE]
  /\ hub'   = hub \ {s}

-----------------------------------------------------------------------------
(* The request until its stream is open. *)

Open(s) ==
  /\ server = "up"
  /\ stage[s] = "new"
  /\ Goto(s, "lookup")
  /\ UNCHANGED <<history, server, seen, last, watch, hub, cause, client>>

\* findOwnedJob: the row is read, there is none (404), or the query fails (500).
Lookup(s) ==
  /\ Alive /\ stage[s] = "lookup"
  /\ \/ /\ Row # "ABSENT"
        /\ seen' = [seen EXCEPT ![s] = Now]
        /\ Goto(s, "found")
     \/ Goto(s, "refused") /\ UNCHANGED seen
  /\ UNCHANGED <<history, server, last, watch, hub, cause, client>>

\* After the await: the snapshot, then the watch -- even if the client has gone
\* or the shutdown has begun meanwhile.
SnapshotForgets(s) ==
  /\ Alive /\ stage[s] = "found"
  /\ Goto(s, "streaming")
  /\ Send(s, seen[s])
  /\ IF Is(seen[s], Terminal)
     THEN End(s, "decided") /\ UNCHANGED <<timer, hub>>
     ELSE /\ timer' = [timer EXCEPT ![s] = TRUE]
          /\ hub'   = hub \cup {s}
          /\ UNCHANGED cause
  /\ UNCHANGED <<history, server, seen, last, polls, crossed, gone>>

Snapshot(s) ==
  /\ Alive /\ stage[s] = "found"
  /\ Goto(s, "streaming")
  /\ Send(s, seen[s])
  /\ IF Is(seen[s], Terminal)
     THEN End(s, "decided") /\ UNCHANGED <<last, timer, hub>>
     ELSE /\ last'  = [last EXCEPT ![s] = seen[s]]
          /\ timer' = [timer EXCEPT ![s] = TRUE]
          /\ hub'   = hub \cup {s}
          /\ UNCHANGED cause
  /\ UNCHANGED <<history, server, seen, polls, crossed, gone>>

-----------------------------------------------------------------------------
(* The interval. *)

\* A tick starts a poll whether or not the previous one was answered.
Poll(s, k) ==
  /\ timer[s]
  /\ polls[s][k] = Idle
  /\ Slot(s, k, Asked)
  /\ crossed' = [crossed EXCEPT ![s] = @ \/ \E i \in Slots : polls[s][i] # Idle]
  /\ UNCHANGED <<history, server, handler, timer, hub, cause, client>>

\* The database reads the row; the answer is on its way.
Read(s, k) ==
  /\ polls[s][k] = Asked
  /\ Slot(s, k, Now)
  /\ UNCHANGED <<history, server, handler, timer, crossed, hub, cause, client>>

\* The query fails.
PollFails(s, k) ==
  /\ polls[s][k] = Asked
  /\ Slot(s, k, Idle)
  /\ Stop(s)
  /\ End(s, "error")
  /\ UNCHANGED <<history, server, handler, crossed, client>>

\* The continuation of a poll whose answer saw status number v.
Missing(s, k) ==
  LET v == polls[s][k] IN
  /\ v > 0 /\ Is(v, {"ABSENT"})
  /\ Slot(s, k, Idle)
  /\ Stop(s)
  /\ End(s, "missing")
  /\ UNCHANGED <<history, server, handler, crossed, client>>

RememberNothing(s, v) == UNCHANGED last
Remember(s, v)        == last' = [last EXCEPT ![s] = v]

Report(s, v) ==
  IF history[v] # history[last[s]]
  THEN Remember(s, v) /\ Send(s, v)
  ELSE UNCHANGED <<last, events>>

GoOn(s, v) == UNCHANGED <<timer, hub, cause>>

Conclude(s, v) ==
  IF Is(v, Terminal) THEN Stop(s) /\ End(s, "decided")
                     ELSE UNCHANGED <<timer, hub, cause>>

Found(s, k) ==
  LET v == polls[s][k] IN
  /\ v > 0 /\ ~Is(v, {"ABSENT"})
  /\ Slot(s, k, Idle)
  /\ Report(s, v)
  /\ Conclude(s, v)
  /\ UNCHANGED <<history, server, stage, seen, crossed, gone>>

-----------------------------------------------------------------------------
(* The connection.  The close listener exists from the snapshot on, and only  *)
(* for a stream that watches.                                                *)

Close(s) ==
  /\ ~gone[s]
  /\ gone' = [gone EXCEPT ![s] = TRUE]
  /\ IF stage[s] = "streaming" THEN Stop(s) ELSE UNCHANGED <<timer, hub>>
  /\ UNCHANGED <<history, server, handler, polls, crossed, cause, events>>

Disconnect(s) ==
  /\ Alive
  /\ stage[s] \in {"lookup", "found", "streaming"}
  /\ Close(s)

\* The ended response is flushed and closes.
Finish(s) ==
  /\ Alive
  /\ cause[s] # "none"
  /\ Close(s)

-----------------------------------------------------------------------------
(* SIGTERM or SIGINT, also a second one: end every registered stream, stop      *)
(* accepting, wait for the rest.                                             *)

Shutdown ==
  /\ Alive
  /\ server' = "draining"
  /\ cause' = [s \in Streams |-> IF s \in hub /\ cause[s] = "none" THEN "shutdown" ELSE cause[s]]
  /\ hub' = {}
  /\ UNCHANGED <<history, handler, watch, client>>

\* The process ends and takes its timers and polls along.
Leave(how) ==
  /\ server = "draining"
  /\ server' = how
  /\ timer' = [s \in Streams |-> FALSE]
  /\ polls' = [s \in Streams |-> [k \in Slots |-> Idle]]
  /\ hub'   = {}
  /\ gone'  = [s \in Streams |-> TRUE]
  /\ UNCHANGED <<history, handler, crossed, cause, events>>

Drained  == (\A s \in Streams : stage[s] \in {"new", "refused"} \/ gone[s]) /\ Leave("exited")
Failsafe == Leave("killed")

-----------------------------------------------------------------------------
\* Workers move the row between the pending statuses and decide it; the undo of
\* a failed submission deletes it (Worker.tla, Submission.tla).
Move ==
  /\ Row \in Pending
  /\ Now <= MaxMoves
  /\ \E next \in Statuses \ {Row} : history' = Append(history, next)
  /\ UNCHANGED <<server, handler, watch, hub, cause, client>>

-----------------------------------------------------------------------------
Answer(s) == \E k \in Slots :
  Read(s, k) \/ PollFails(s, k) \/ Missing(s, k) \/ Found(s, k)
Tick(s)   == \E k \in Slots : Poll(s, k)

Next ==
  \/ \E s \in Streams : \/ Open(s) \/ Lookup(s) \/ Snapshot(s)
                        \/ Tick(s) \/ Answer(s) \/ Disconnect(s) \/ Finish(s)
  \/ Shutdown \/ Drained \/ Failsafe \/ Move

Spec == Init /\ [][Next]_vars

\* Intervals fire, the database answers, Node runs the continuations and closes
\* ended responses; the failsafe timer of a shutdown fires.  Nothing makes a row
\* move, a client leave or a signal come.
FairSpec ==
  /\ Spec
  /\ \A s \in Streams : WF_vars(Answer(s)) /\ WF_vars(Tick(s)) /\ WF_vars(Finish(s))
  /\ WF_vars(Failsafe)

-----------------------------------------------------------------------------
(* Properties. *)

\* The stream "closes after a terminal status" (README.md:200) and "the terminal
\* event is never missed" (README.md:418): the decision is always the last event,
\* and a stream ends as decided exactly when its client was told so, unless the
\* client had left before.
TerminalIsLast ==
  \A s \in Streams :
    /\ \A i \in 1..(Len(events[s]) - 1) : ~Is(events[s][i], Terminal)
    /\ events[s] # <<>> /\ Is(events[s][Len(events[s])], Terminal) => cause[s] = "decided"
    /\ cause[s] = "decided" /\ ~gone[s] => events[s] # <<>> /\ Is(events[s][Len(events[s])], Terminal)

\* The registry holds exactly the streams that still poll and were not ended, so
\* closeAll reaches every one of them and keeps no finished response
\* (sse.ts:3-7, jobs.ts:267, 292-296).
HubHoldsLive ==
  hub = {s \in Streams : timer[s] /\ cause[s] = "none"}

\* Without overlapping polls a client sees the row's statuses in the order the
\* row had them, and no status twice in a row (jobs.ts:252-279).
EventsKeepOrder ==
  \A s \in Streams : ~crossed[s] =>
    \A i \in 1..(Len(events[s]) - 1) :
      /\ events[s][i] < events[s][i + 1]
      /\ history[events[s][i]] # history[events[s][i + 1]]

\* No interval outlives what it watches: once the job is decided or gone, or the
\* response ended, the poll stops, even for a client that left before the close
\* listener existed.
StreamIsReleased ==
  \A s \in Streams :
    timer[s] /\ (Row \notin Pending \/ cause[s] # "none") ~> ~timer[s]
=============================================================================
