-------------------------- MODULE StatusStreamProofs -------------------------
(***************************************************************************)
(* Proofs about StatusStream, for any number of streams, of polls in flight   *)
(* and of status changes.                                                     *)
(*                                                                         *)
(* Streams share the row's history, the registry and the shutdown, so that    *)
(* the invariant is a predicate of one stream: a step keeps it for the stream *)
(* that takes it (one lemma per action) and for every other one (OthersKept). *)
(***************************************************************************)
EXTENDS StatusStream, SequenceTheorems, TLAPS

-----------------------------------------------------------------------------
(* The inductive invariant. *)

\* A number of a status the row has had.
Had == 1..Now

\* Nothing of a stream exists before its snapshot.
Quiet(s) ==
  stage[s] # "streaming" =>
    /\ timer[s] = FALSE /\ cause[s] = "none" /\ s \notin hub
    /\ events[s] = <<>> /\ last[s] = Idle
    /\ \A k \in Slots : polls[s][k] = Idle

\* Whoever polls, or was asked to, knows a status to compare with.
Watching(s) ==
  timer[s] = TRUE \/ (\E k \in Slots : polls[s][k] # Idle) => last[s] \in Had

\* All that a stream knows was true once.
Past(s) ==
  /\ stage[s] = "found" => seen[s] \in Had
  /\ last[s] \in Had \cup {Idle}
  /\ \A k \in Slots : polls[s][k] \in Had \cup {Idle, Asked}
  /\ \A i \in 1..Len(events[s]) : events[s][i] \in Had

\* A stream that has not ended has seen and sent no decision.
Undecided(s) ==
  cause[s] = "none" =>
    /\ last[s] # Idle => ~Is(last[s], Terminal)
    /\ \A i \in 1..Len(events[s]) : ~Is(events[s][i], Terminal)

\* While somebody listens, the last event is the status to compare with.
InStep(s) ==
  stage[s] = "streaming" /\ cause[s] = "none" /\ gone[s] = FALSE =>
    /\ Len(events[s]) > 0
    /\ events[s][Len(events[s])] = last[s]

\* Polls that never crossed: one at a time, and its answer is no older than the
\* status to compare with.
OneAtATime(s) ==
  crossed[s] = FALSE =>
    /\ \A k, l \in Slots : polls[s][k] # Idle /\ polls[s][l] # Idle => k = l
    /\ \A k \in Slots : polls[s][k] > 0 => polls[s][k] >= last[s]

\* The properties, of one stream.
DecisionLast(s) ==
  /\ \A i \in 1..(Len(events[s]) - 1) : ~Is(events[s][i], Terminal)
  /\ Len(events[s]) > 0 /\ Is(events[s][Len(events[s])], Terminal) => cause[s] = "decided"
  /\ cause[s] = "decided" /\ gone[s] = FALSE =>
       Len(events[s]) > 0 /\ Is(events[s][Len(events[s])], Terminal)

InOrder(s) ==
  crossed[s] = FALSE =>
    \A i \in 1..(Len(events[s]) - 1) :
      /\ events[s][i] < events[s][i + 1]
      /\ history[events[s][i]] # history[events[s][i + 1]]

Registered(s) == s \in hub <=> timer[s] = TRUE /\ cause[s] = "none"

One(s) == /\ Quiet(s) /\ Watching(s) /\ Past(s) /\ Undecided(s) /\ InStep(s)
          /\ OneAtATime(s) /\ DecisionLast(s) /\ InOrder(s) /\ Registered(s)

StreamInv == TypeOK /\ \A s \in Streams : One(s)

-----------------------------------------------------------------------------
(* Types. *)

LEMMA VersionsGrow ==
  ASSUME TypeOK
  PROVE  Now \in Nat \ {0} /\ Had \subseteq Versions
  BY BoundsAssumption, LenProperties DEF TypeOK, Now, Had, Versions

\* What one stream sends is one of the row's statuses.
LEMMA SendType ==
  ASSUME TypeOK, NEW s \in Streams, NEW v \in Versions, Send(s, v)
  PROVE  events' \in [Streams -> Seq(Versions)]
<1>1. events[s] \in Seq(Versions) BY DEF TypeOK
<1>2. Append(events[s], v) \in Seq(Versions) BY <1>1, AppendProperties
<1> QED BY <1>2 DEF TypeOK, Send

LEMMA TypeInit == Init => TypeOK
  BY BoundsAssumption DEF Init, TypeOK, Now, Versions, Statuses, Pending

LEMMA MoveKeeps ==
  ASSUME TypeOK, Move
  PROVE  /\ history' \in Seq(Statuses) /\ Now' = Now + 1 /\ Now' \in Versions
         /\ \A v \in Had : history'[v] = history[v]
<1>1. history \in Seq(Statuses) /\ Now \in Nat BY VersionsGrow DEF TypeOK
<1>2. PICK next \in Statuses : history' = Append(history, next) BY DEF Move
<1> QED BY <1>1, <1>2, AppendProperties, BoundsAssumption
        DEF Move, Now, Had, Versions

\* A continuation runs for one stream and one poll.
Continue(s, k) == PollFails(s, k) \/ Missing(s, k) \/ Found(s, k)

LEMMA TypeNext == TypeOK /\ (\A s \in Streams : Past(s)) /\ [Next]_vars => TypeOK'
<1> SUFFICES ASSUME TypeOK, \A s \in Streams : Past(s), [Next]_vars
             PROVE  TypeOK'
  OBVIOUS
<1> USE DEF TypeOK, handler, watch, client, Goto, Now, Idle, Asked
<1>0. Had \subseteq Versions BY VersionsGrow
<1>1. CASE UNCHANGED vars BY <1>1 DEF vars
<1>2. ASSUME NEW s \in Streams, Open(s) PROVE TypeOK' BY <1>2 DEF Open
<1>3. ASSUME NEW s \in Streams, Lookup(s) PROVE TypeOK'
  <2>1. stage' \in [Streams -> {"new", "lookup", "found", "streaming", "refused"}]
    BY <1>3 DEF Lookup
  <2>2. seen' \in [Streams -> {Idle} \cup Versions] BY <1>3 DEF Lookup
  <2> QED BY <1>3, <2>1, <2>2 DEF Lookup
<1>4. ASSUME NEW s \in Streams, Snapshot(s) PROVE TypeOK'
  <2>1. seen[s] \in Versions BY <1>0, <1>4 DEF Past, Snapshot
  <2>2. events' \in [Streams -> Seq(Versions)] BY <1>4, <2>1, SendType DEF Snapshot
  <2>3. cause' \in [Streams -> {"none", "decided", "missing", "error", "shutdown"}]
    BY <1>4 DEF Snapshot, End
  <2> QED BY <1>4, <2>1, <2>2, <2>3 DEF Snapshot
<1>5. ASSUME NEW s \in Streams, NEW k \in Slots, Poll(s, k) PROVE TypeOK'
  <2>1. crossed' \in [Streams -> BOOLEAN] BY <1>5, Zenon DEF Poll
  <2> QED BY <1>5, <2>1 DEF Poll, Slot
<1>6. ASSUME NEW s \in Streams, NEW k \in Slots, Read(s, k) PROVE TypeOK'
  BY <1>6 DEF Read, Slot
<1>7. ASSUME NEW s \in Streams, NEW k \in Slots, Continue(s, k) PROVE TypeOK'
  <2>1. cause' \in [Streams -> {"none", "decided", "missing", "error", "shutdown"}]
    BY <1>7 DEF Continue, PollFails, Missing, Found, Conclude, End
  <2>2. polls' \in [Streams -> [Slots -> {Idle, Asked} \cup Versions]]
    <3>1. \E v \in {Idle} : polls' = [polls EXCEPT ![s][k] = v]
      BY <1>7 DEF Continue, PollFails, Missing, Found, Slot
    <3> QED BY <3>1
  <2>3. UNCHANGED <<timer, hub>> \/ Stop(s)
    BY <1>7 DEF Continue, PollFails, Missing, Found, Conclude
  <2>4. /\ timer' \in [Streams -> BOOLEAN] /\ hub' \subseteq Streams
        /\ \A t \in Streams : timer'[t] => timer[t]
    BY <2>3 DEF Stop
  <2>5. CASE Found(s, k)
    <3>1. polls[s][k] \in Versions
      <4>1. polls[s][k] \in Had \cup {Idle, Asked} BY DEF Past
      <4>2. polls[s][k] > 0 BY <2>5 DEF Found
      <4> QED BY <4>1, <4>2, <1>0
    <3>2. events' \in [Streams -> Seq(Versions)]
      BY <2>5, <3>1, SendType DEF Found, Report
    <3>3. last' = last \/ last' = [last EXCEPT ![s] = polls[s][k]]
      BY <2>5 DEF Found, Report, Remember
    <3> QED BY <2>1, <2>2, <2>5, <2>4, <3>1, <3>2, <3>3 DEF Found
  <2> QED BY <1>7, <2>1, <2>2, <2>5, <2>4 DEF Continue, PollFails, Missing
<1>8. ASSUME NEW s \in Streams, Disconnect(s) \/ Finish(s) PROVE TypeOK'
  BY <1>8 DEF Disconnect, Finish, Close, Stop
<1>9. CASE Shutdown BY <1>9 DEF Shutdown
<1>10. CASE Drained \/ Failsafe
  <2>1. polls' \in [Streams -> [Slots -> {Idle, Asked} \cup Versions]]
    BY <1>10 DEF Drained, Failsafe, Leave
  <2> QED BY <1>10, <2>1 DEF Drained, Failsafe, Leave
<1>11. CASE Move BY <1>11, MoveKeeps DEF Move
<1> QED
  BY <1>1, <1>2, <1>3, <1>4, <1>5, <1>6, <1>7, <1>8, <1>9, <1>10, <1>11
     DEF Next, Tick, Answer, Continue

-----------------------------------------------------------------------------
(* The streams a step does not concern. *)

Untouched(s) ==
  /\ stage'[s] = stage[s] /\ seen'[s] = seen[s] /\ last'[s] = last[s]
  /\ timer'[s] = timer[s] /\ polls'[s] = polls[s] /\ crossed'[s] = crossed[s]
  /\ s \in hub' <=> s \in hub
  /\ cause'[s] = cause[s] /\ gone'[s] = gone[s] /\ events'[s] = events[s]

LEMMA OthersKept ==
  ASSUME NEW s \in Streams, One(s), Untouched(s), UNCHANGED history
  PROVE  One(s)'
<1>1. Now' = Now /\ Had' = Had BY DEF Now, Had
<1>2. Quiet(s)' BY DEF One, Quiet, Untouched
<1>3. Watching(s)' BY <1>1 DEF One, Watching, Untouched
<1>4. Past(s)' BY <1>1 DEF One, Past, Untouched
<1>5. Undecided(s)' BY DEF One, Undecided, Untouched, Is
<1>6. InStep(s)' BY DEF One, InStep, Untouched
<1>7. OneAtATime(s)' BY DEF One, OneAtATime, Untouched
<1>8. DecisionLast(s)' BY DEF One, DecisionLast, Untouched, Is
<1>9. InOrder(s)' BY DEF One, InOrder, Untouched
<1>10. Registered(s)' BY DEF One, Registered, Untouched
<1> QED BY <1>2, <1>3, <1>4, <1>5, <1>6, <1>7, <1>8, <1>9, <1>10 DEF One

\* The steps one stream takes, and what they leave alone.
Step(s) == \/ Open(s) \/ Lookup(s) \/ Snapshot(s) \/ Disconnect(s) \/ Finish(s)
           \/ \E k \in Slots : Poll(s, k) \/ Read(s, k) \/ Continue(s, k)

LEMMA StepsAreLocal ==
  ASSUME TypeOK, NEW s \in Streams, Step(s), NEW t \in Streams, t # s
  PROVE  Untouched(t) /\ UNCHANGED history
<1> USE DEF TypeOK, Untouched, handler, watch, client, Goto, Slot, Send, Stop, End
<1>1. CASE Open(s) \/ Lookup(s) BY <1>1 DEF Open, Lookup
<1>2. CASE Snapshot(s) BY <1>2 DEF Snapshot
<1>3. CASE Disconnect(s) \/ Finish(s) BY <1>3 DEF Disconnect, Finish, Close
<1>4. ASSUME NEW k \in Slots, Poll(s, k) \/ Read(s, k) PROVE Untouched(t) /\ UNCHANGED history
  BY <1>4 DEF Poll, Read
<1>5. ASSUME NEW k \in Slots, Continue(s, k) PROVE Untouched(t) /\ UNCHANGED history
  <2>1. CASE PollFails(s, k) \/ Missing(s, k) BY <2>1 DEF PollFails, Missing
  <2>2. CASE Found(s, k) BY <2>2 DEF Found, Report, Remember, Conclude
  <2> QED BY <1>5, <2>1, <2>2 DEF Continue
<1> QED BY <1>1, <1>2, <1>3, <1>4, <1>5 DEF Step

-----------------------------------------------------------------------------
(* The request until its stream is open. *)

LEMMA OpeningKeeps ==
  ASSUME TypeOK, NEW s \in Streams, One(s), Open(s) \/ Lookup(s)
  PROVE  One(s)'
<1>1. /\ UNCHANGED <<history, last, timer, polls, crossed, hub, cause, gone, events>>
      /\ Now' = Now /\ Had' = Had
  BY DEF Open, Lookup, handler, watch, client, Now, Had
<1>2. /\ stage[s] # "streaming" /\ stage'[s] # "streaming"
      /\ stage'[s] = "found" => seen'[s] = Now
  BY DEF TypeOK, Open, Lookup, Goto
<1>3. Quiet(s)' BY <1>1, <1>2 DEF One, Quiet
<1>4. Watching(s)' BY <1>1 DEF One, Watching
<1>5. Past(s)'
  <2>1. Now \in Had BY VersionsGrow DEF Had
  <2> QED BY <1>1, <1>2, <2>1 DEF One, Past
<1>6. Undecided(s)' BY <1>1 DEF One, Undecided, Is
<1>7. InStep(s)' BY <1>1, <1>2 DEF InStep
<1>8. OneAtATime(s)' BY <1>1 DEF One, OneAtATime
<1>9. DecisionLast(s)' BY <1>1 DEF One, DecisionLast, Is
<1>10. InOrder(s)' BY <1>1 DEF One, InOrder
<1>11. Registered(s)' BY <1>1 DEF One, Registered
<1> QED BY <1>3, <1>4, <1>5, <1>6, <1>7, <1>8, <1>9, <1>10, <1>11 DEF One

\* The first event is the status that was read; a decision ends the stream at
\* once, anything else is what the polls are compared with.
LEMMA SnapshotKeeps ==
  ASSUME TypeOK, NEW s \in Streams, One(s), Snapshot(s)
  PROVE  One(s)'
<1>1. UNCHANGED <<history, polls, crossed, gone>> /\ Now' = Now /\ Had' = Had
  BY DEF Snapshot, Now, Had
<1>2. /\ stage[s] = "found" /\ stage'[s] = "streaming"
      /\ timer[s] = FALSE /\ cause[s] = "none" /\ s \notin hub
      /\ events[s] = <<>> /\ last[s] = Idle /\ seen[s] \in Had
      /\ \A k \in Slots : polls[s][k] = Idle
  BY DEF TypeOK, Snapshot, Goto, One, Quiet, Past
<1>3. /\ gone[s] = TRUE => events'[s] = <<>>
      /\ gone[s] = FALSE => events'[s] = <<seen[s]>>
  BY <1>2 DEF TypeOK, Snapshot, Send
<1>4. /\ Len(events'[s]) \in {0, 1}
      /\ Len(events'[s]) = 1 => events'[s][1] = seen[s]
      /\ gone[s] = FALSE => Len(events'[s]) = 1
  <2>1. gone[s] = TRUE \/ gone[s] = FALSE BY Zenon DEF TypeOK
  <2>2. CASE gone[s] = TRUE
    <3>1. Len(events'[s]) = 0 BY <1>3, <2>2
    <3> QED BY <2>2, <3>1
  <2>3. CASE gone[s] = FALSE
    <3>1. events'[s] = <<seen[s]>> BY <1>3, <2>3
    <3>2. Len(events'[s]) = 1 /\ events'[s][1] = seen[s] BY <3>1
    <3> QED BY <3>2
  <2> QED BY <2>1, <2>2, <2>3
<1>5. Len(events'[s]) \in Nat /\ \A i \in 1..Len(events'[s]) : events'[s][i] = seen[s]
  BY <1>4
<1>6. CASE Is(seen[s], Terminal)
  <2>1. timer'[s] = FALSE /\ last'[s] = Idle /\ s \notin hub' /\ cause'[s] = "decided"
    BY <1>2, <1>6 DEF TypeOK, Snapshot, End
  <2>2. Quiet(s)' /\ Watching(s)' BY <1>1, <1>2, <2>1 DEF Quiet, Watching
  <2>3. Past(s)' BY <1>1, <1>2, <1>5, <2>1 DEF Past, Idle
  <2>4. Undecided(s)' /\ InStep(s)' BY <2>1 DEF Undecided, InStep
  <2>5. OneAtATime(s)' BY <1>1, <1>2 DEF OneAtATime, Idle
  <2>6. DecisionLast(s)'
    <3>1. history'[seen[s]] \in Terminal BY <1>1, <1>6 DEF Is
    <3>2. CASE Len(events'[s]) = 0
      BY <1>1, <1>4, <2>1, <3>2 DEF DecisionLast
    <3>3. CASE Len(events'[s]) = 1
      <4>1. events'[s][Len(events'[s])] = seen[s] BY <1>4, <3>3
      <4> QED BY <2>1, <3>1, <3>3, <4>1 DEF DecisionLast, Is
    <3> QED BY <1>4, <3>2, <3>3
  <2>7. InOrder(s)' BY <1>4 DEF InOrder
  <2>8. Registered(s)' BY <2>1 DEF Registered
  <2> QED BY <2>2, <2>3, <2>4, <2>5, <2>6, <2>7, <2>8 DEF One
<1>7. CASE ~Is(seen[s], Terminal)
  <2>1. timer'[s] = TRUE /\ last'[s] = seen[s] /\ s \in hub' /\ cause'[s] = "none"
    BY <1>2, <1>7 DEF TypeOK, Snapshot
  <2>2. Quiet(s)' /\ Watching(s)' BY <1>1, <1>2, <2>1 DEF Quiet, Watching
  <2>3. Past(s)' BY <1>1, <1>2, <1>5, <2>1 DEF Past, Idle
  <2>4. Undecided(s)' BY <1>1, <1>5, <1>7, <2>1 DEF Undecided, Is
  <2>5. InStep(s)' BY <1>1, <1>4, <2>1 DEF InStep
  <2>6. OneAtATime(s)' BY <1>1, <1>2 DEF OneAtATime, Idle
  <2>7. DecisionLast(s)' BY <1>1, <1>4, <1>7, <2>1 DEF DecisionLast, Is
  <2>8. InOrder(s)' BY <1>4 DEF InOrder
  <2>9. Registered(s)' BY <2>1 DEF Registered
  <2> QED BY <2>2, <2>3, <2>4, <2>5, <2>6, <2>7, <2>8, <2>9 DEF One
<1> QED BY <1>6, <1>7

-----------------------------------------------------------------------------
(* The interval. *)

LEMMA PollKeeps ==
  ASSUME TypeOK, NEW s \in Streams, NEW k \in Slots, One(s), Poll(s, k) \/ Read(s, k)
  PROVE  One(s)'
<1>1. /\ UNCHANGED <<history, stage, seen, last, timer, hub, cause, gone, events>>
      /\ Now' = Now /\ Had' = Had
  BY DEF Poll, Read, handler, client, Now, Had
<1>2. \A l \in Slots : l # k => polls'[s][l] = polls[s][l]
  BY DEF TypeOK, Poll, Read, Slot
<1>3. polls'[s][k] \in Had \cup {Asked}
  <2>1. Now \in Had BY VersionsGrow DEF Had
  <2> QED BY <2>1 DEF TypeOK, Poll, Read, Slot
<1>4. timer[s] = TRUE \/ polls[s][k] # Idle BY DEF TypeOK, Poll, Read, Idle, Asked
<1>5. stage[s] = "streaming" BY <1>4 DEF One, Quiet
<1>6. last[s] \in Had BY <1>4 DEF One, Watching
<1>7. Quiet(s)' BY <1>1, <1>5 DEF Quiet
<1>8. Watching(s)' BY <1>1, <1>6 DEF Watching
<1>9. Past(s)' BY <1>1, <1>2, <1>3 DEF One, Past
<1>10. Undecided(s)' BY <1>1 DEF One, Undecided, Is
<1>11. InStep(s)' BY <1>1 DEF One, InStep
<1>12. OneAtATime(s)'
  <2>1. CASE Poll(s, k)
    <3>1. polls'[s][k] = Asked BY <2>1 DEF TypeOK, Poll, Slot
    <3>2. crossed'[s] = FALSE => crossed[s] = FALSE /\ \A i \in Slots : polls[s][i] = Idle
      BY <2>1, Zenon DEF TypeOK, Poll
    <3> QED BY <1>1, <1>2, <3>1, <3>2 DEF OneAtATime, Asked, Idle
  <2>2. CASE Read(s, k)
    <3>1. polls[s][k] = Asked /\ polls'[s][k] = Now /\ crossed' = crossed
      BY <2>2 DEF TypeOK, Read, Slot
    <3>2. last[s] <= Now /\ Now # Idle /\ Now \in Nat
      BY <1>6, VersionsGrow DEF Had, Idle
    <3> QED BY <1>1, <1>2, <3>1, <3>2 DEF One, OneAtATime, Asked, Idle
  <2> QED BY <2>1, <2>2
<1>13. DecisionLast(s)' BY <1>1 DEF One, DecisionLast, Is
<1>14. InOrder(s)'
  <2>1. crossed'[s] = FALSE => crossed[s] = FALSE BY Zenon DEF TypeOK, Poll, Read
  <2> QED BY <1>1, <2>1 DEF One, InOrder
<1>15. Registered(s)' BY <1>1 DEF One, Registered
<1> QED BY <1>7, <1>8, <1>9, <1>10, <1>11, <1>12, <1>13, <1>14, <1>15 DEF One

\* A poll that fails or finds no row ends the stream with what it had sent.
LEMMA GivingUpKeeps ==
  ASSUME TypeOK, NEW s \in Streams, NEW k \in Slots, One(s),
         PollFails(s, k) \/ Missing(s, k)
  PROVE  One(s)'
<1>1. /\ UNCHANGED <<history, stage, seen, last, crossed, gone, events>>
      /\ Now' = Now /\ Had' = Had
  BY DEF PollFails, Missing, handler, client, Now, Had
<1>2. /\ \A l \in Slots : l # k => polls'[s][l] = polls[s][l]
      /\ polls'[s][k] = Idle /\ polls[s][k] # Idle
  BY DEF TypeOK, PollFails, Missing, Slot, Idle, Asked
<1>3. timer'[s] = FALSE /\ s \notin hub'
  BY DEF TypeOK, PollFails, Missing, Stop
<1>4. /\ cause'[s] # "none"
      /\ cause'[s] = "decided" => cause[s] = "decided"
      /\ cause[s] = "decided" => cause'[s] = "decided"
  BY DEF TypeOK, PollFails, Missing, End
<1>5. stage[s] = "streaming" BY <1>2 DEF One, Quiet
<1>6. Quiet(s)' BY <1>1, <1>5 DEF Quiet
<1>7. Watching(s)' BY <1>1, <1>2 DEF One, Watching
<1>8. Past(s)' BY <1>1, <1>2 DEF One, Past
<1>9. Undecided(s)' /\ InStep(s)' BY <1>4 DEF Undecided, InStep
<1>10. OneAtATime(s)'
  <2>1. ~(polls'[s][k] > 0) BY <1>2 DEF Idle
  <2> QED BY <1>1, <1>2, <2>1 DEF One, OneAtATime
<1>11. DecisionLast(s)' BY <1>1, <1>4 DEF One, DecisionLast, Is
<1>12. InOrder(s)' BY <1>1 DEF One, InOrder
<1>13. Registered(s)' BY <1>3 DEF Registered
<1> QED BY <1>6, <1>7, <1>8, <1>9, <1>10, <1>11, <1>12, <1>13 DEF One

\* What an answer does to the client: it is sent exactly when it differs from the
\* status to compare with and somebody still listens to a stream that goes on.
Heard(s, v) ==
  /\ history[v] # history[last[s]] /\ gone[s] = FALSE /\ cause[s] = "none"
  /\ last'[s] = v /\ events'[s] = Append(events[s], v)

Unheard(s, v) ==
  /\ events'[s] = events[s]
  /\ \/ history[v] = history[last[s]] /\ last'[s] = last[s]
     \/ last'[s] = v /\ (gone[s] = TRUE \/ cause[s] # "none")

LEMMA HeardOrNot ==
  ASSUME TypeOK, NEW s \in Streams, NEW k \in Slots, Found(s, k)
  PROVE  Heard(s, polls[s][k]) \/ Unheard(s, polls[s][k])
<1> DEFINE v == polls[s][k]
<1>1. Report(s, v) BY DEF Found
<1>2. CASE history[v] = history[last[s]] BY <1>1, <1>2 DEF Report, Unheard
<1>3. CASE history[v] # history[last[s]]
  <2>1. last'[s] = v /\ Send(s, v) BY <1>1, <1>3 DEF Report, Remember, TypeOK
  <2>2. gone[s] = TRUE \/ gone[s] = FALSE BY Zenon DEF TypeOK
  <2>3. CASE gone[s] = TRUE BY <2>1, <2>3 DEF Send, Unheard
  <2>4. CASE cause[s] # "none" BY <2>1, <2>4 DEF Send, Unheard
  <2>5. CASE gone[s] = FALSE /\ cause[s] = "none"
    BY <1>3, <2>1, <2>5 DEF Send, Heard, TypeOK
  <2> QED BY <2>2, <2>3, <2>4, <2>5
<1> QED BY <1>2, <1>3

\* A row that was read and found: the answer, and the end it may bring.
LEMMA FoundKeeps ==
  ASSUME TypeOK, NEW s \in Streams, NEW k \in Slots, One(s), Found(s, k)
  PROVE  One(s)'
<1> DEFINE v == polls[s][k]
<1>1. /\ UNCHANGED <<history, stage, seen, crossed, gone>>
      /\ Now' = Now /\ Had' = Had
  BY DEF Found, Now, Had
<1>2. /\ \A l \in Slots : l # k => polls'[s][l] = polls[s][l]
      /\ polls'[s][k] = Idle /\ v # Idle /\ v \in Had
  <2>1. v \in Had \cup {Idle, Asked} /\ v > 0 BY DEF One, Past, Found
  <2> QED BY <2>1 DEF TypeOK, Found, Slot, Idle, Asked
<1>3. stage[s] = "streaming" BY <1>2 DEF One, Quiet
<1>4. last[s] \in Had BY <1>2 DEF One, Watching
<1>0. Heard(s, v) \/ Unheard(s, v) BY HeardOrNot
<1>5. last'[s] \in {last[s], v} BY <1>0 DEF Heard, Unheard
<1>6. /\ Is(v, Terminal) => timer'[s] = FALSE /\ s \notin hub'
      /\ ~Is(v, Terminal) => timer'[s] = timer[s] /\ (s \in hub' <=> s \in hub)
  BY DEF TypeOK, Found, Conclude, Stop
<1>7. /\ Is(v, Terminal) => cause'[s] = IF cause[s] = "none" THEN "decided" ELSE cause[s]
      /\ ~Is(v, Terminal) => cause'[s] = cause[s]
  BY DEF TypeOK, Found, Conclude, End
<1>8. Len(events[s]) \in Nat /\ \A i \in 1..Len(events[s]) : events[s][i] \in Had
  <2>1. events[s] \in Seq(Versions) BY DEF TypeOK
  <2> QED BY <2>1, LenProperties DEF One, Past
<1>9. Heard(s, v) => /\ Len(events'[s]) = Len(events[s]) + 1
                     /\ events'[s][Len(events[s]) + 1] = v
                     /\ \A i \in 1..Len(events[s]) : events'[s][i] = events[s][i]
  <2>1. events[s] \in Seq(Versions) /\ v \in Versions
    BY <1>2, VersionsGrow DEF TypeOK
  <2> QED BY <2>1, AppendProperties DEF Heard
<1>10. Quiet(s)' BY <1>1, <1>3 DEF Quiet
<1>11. Watching(s)' BY <1>1, <1>2, <1>4, <1>5 DEF Watching
<1>12. Past(s)'
  <2>1. \A i \in 1..Len(events'[s]) : events'[s][i] \in Had
    <3>1. CASE Heard(s, v)
      <4>1. \A i \in 1..Len(events'[s]) : i \in 1..Len(events[s]) \/ i = Len(events[s]) + 1
        BY <1>8, <1>9, <3>1
      <4> QED BY <1>2, <1>8, <1>9, <3>1, <4>1
    <3>2. CASE Unheard(s, v) BY <1>8, <3>2 DEF Unheard
    <3> QED BY <1>0, <3>1, <3>2
  <2> QED BY <1>1, <1>2, <1>4, <1>5, <2>1 DEF One, Past
<1>13. Undecided(s)'
  <2> SUFFICES ASSUME cause'[s] = "none"
               PROVE  /\ ~Is(last[s], Terminal)'
                      /\ \A i \in 1..Len(events'[s]) : ~(history'[events'[s][i]] \in Terminal)
    BY DEF Undecided, Is
  <2>1. cause[s] = "none" /\ ~Is(v, Terminal) BY <1>7
  <2>2. ~Is(last[s], Terminal) /\ \A i \in 1..Len(events[s]) : ~Is(events[s][i], Terminal)
    BY <1>4, <2>1 DEF One, Undecided, Had, Idle
  <2>3. \A i \in 1..Len(events'[s]) : ~(history[events'[s][i]] \in Terminal)
    <3>1. CASE Heard(s, v)
      <4>1. \A i \in 1..Len(events'[s]) : i \in 1..Len(events[s]) \/ i = Len(events[s]) + 1
        BY <1>8, <1>9, <3>1
      <4> QED BY <1>9, <2>1, <2>2, <3>1, <4>1 DEF Is
    <3>2. CASE Unheard(s, v) BY <2>2, <3>2 DEF Unheard, Is
    <3> QED BY <1>0, <3>1, <3>2
  <2> QED BY <1>1, <1>5, <2>1, <2>2, <2>3 DEF Is
<1>14. InStep(s)'
  <2> SUFFICES ASSUME stage'[s] = "streaming", cause'[s] = "none", gone'[s] = FALSE
               PROVE  Len(events'[s]) > 0 /\ events'[s][Len(events'[s])] = last'[s]
    BY DEF InStep
  <2>1. cause[s] = "none" /\ gone[s] = FALSE BY <1>1, <1>7
  <2>2. Len(events[s]) > 0 /\ events[s][Len(events[s])] = last[s]
    BY <1>3, <2>1 DEF One, InStep
  <2>3. CASE Heard(s, v) BY <1>8, <1>9, <2>3 DEF Heard
  <2>4. CASE Unheard(s, v) BY <2>1, <2>2, <2>4 DEF Unheard
  <2> QED BY <2>3, <2>4, <1>0
<1>15. OneAtATime(s)'
  <2>1. crossed'[s] = FALSE => \A l \in Slots : polls'[s][l] = Idle
    BY <1>1, <1>2 DEF One, OneAtATime
  <2> QED BY <2>1 DEF OneAtATime, Idle
<1>16. DecisionLast(s)'
  <2>1. CASE Heard(s, v)
    <3>1. cause[s] = "none" BY <2>1 DEF Heard
    <3>2. \A i \in 1..Len(events[s]) : ~Is(events[s][i], Terminal)
      BY <3>1 DEF One, Undecided
    <3>3. \A i \in 1..(Len(events'[s]) - 1) : ~(history[events'[s][i]] \in Terminal)
      BY <1>8, <1>9, <2>1, <3>2 DEF Is
    <3>4. events'[s][Len(events'[s])] = v /\ Len(events'[s]) > 0 BY <1>8, <1>9, <2>1
    <3>5. cause'[s] = "decided" <=> history[v] \in Terminal BY <1>7, <3>1 DEF Is
    <3> QED BY <1>1, <3>3, <3>4, <3>5 DEF DecisionLast, Is
  <2>2. CASE Unheard(s, v)
    <3>1. events'[s] = events[s] BY <2>2 DEF Unheard
    <3>2. cause[s] = "decided" => cause'[s] = "decided" BY <1>7
    <3>3. gone[s] = FALSE /\ cause'[s] = "decided" => cause[s] = "decided"
      <4> SUFFICES ASSUME gone[s] = FALSE, cause[s] # "decided", cause'[s] = "decided"
                   PROVE  FALSE
        OBVIOUS
      <4>1. cause[s] = "none" /\ Is(v, Terminal) BY <1>7
      <4>2. history[v] = history[last[s]] BY <2>2, <4>1 DEF Unheard
      <4>3. ~Is(last[s], Terminal) BY <1>4, <4>1 DEF One, Undecided, Had, Idle
      <4> QED BY <4>1, <4>2, <4>3 DEF Is
    <3> QED BY <1>1, <3>1, <3>2, <3>3 DEF One, DecisionLast, Is
  <2> QED BY <2>1, <2>2, <1>0
<1>17. InOrder(s)'
  <2> SUFFICES ASSUME crossed'[s] = FALSE,
                      NEW i \in 1..(Len(events'[s]) - 1)
               PROVE  /\ events'[s][i] < events'[s][i + 1]
                      /\ history[events'[s][i]] # history[events'[s][i + 1]]
    BY <1>1 DEF InOrder
  <2>1. \A j \in 1..(Len(events[s]) - 1) :
          /\ events[s][j] < events[s][j + 1]
          /\ history[events[s][j]] # history[events[s][j + 1]]
    BY <1>1 DEF One, InOrder
  <2>2. CASE Heard(s, v)
    <3>1. events[s][Len(events[s])] = last[s]
      BY <1>3, <2>2 DEF One, InStep, Heard
    <3>2. v >= last[s] BY <1>1, <1>2 DEF One, OneAtATime, Had
    <3>3. last[s] < v /\ history[last[s]] # history[v]
      BY <1>2, <1>4, <2>2, <3>2 DEF Heard, Had
    <3>4. CASE i = Len(events[s]) BY <1>8, <1>9, <2>2, <3>1, <3>3, <3>4
    <3>5. CASE i # Len(events[s])
      <4>1. i \in 1..(Len(events[s]) - 1) BY <1>8, <1>9, <2>2, <3>5
      <4>2. events'[s][i] = events[s][i] /\ events'[s][i + 1] = events[s][i + 1]
        BY <1>8, <1>9, <2>2, <4>1
      <4> QED BY <2>1, <4>1, <4>2
    <3> QED BY <3>4, <3>5
  <2>3. CASE Unheard(s, v) BY <2>1, <2>3 DEF Unheard
  <2> QED BY <2>2, <2>3, <1>0
<1>18. Registered(s)' BY <1>6, <1>7 DEF One, Registered
<1> QED BY <1>10, <1>11, <1>12, <1>13, <1>14, <1>15, <1>16, <1>17, <1>18 DEF One

-----------------------------------------------------------------------------
(* The connection, the shutdown and the row. *)

LEMMA CloseKeeps ==
  ASSUME TypeOK, NEW s \in Streams, One(s), Close(s)
  PROVE  One(s)'
<1>1. /\ UNCHANGED <<history, stage, seen, last, polls, crossed, cause, events>>
      /\ Now' = Now /\ Had' = Had /\ gone'[s] = TRUE
  BY DEF TypeOK, Close, handler, Now, Had
<1>2. timer'[s] = FALSE /\ s \notin hub'
  BY DEF TypeOK, Close, Stop, One, Quiet
<1>3. gone[s] = FALSE BY Zenon DEF TypeOK, Close
<1>4. Quiet(s)' BY <1>1, <1>2 DEF One, Quiet
<1>5. Watching(s)' BY <1>1, <1>2 DEF One, Watching
<1>6. Past(s)' BY <1>1 DEF One, Past
<1>7. Undecided(s)' BY <1>1 DEF One, Undecided, Is
<1>8. InStep(s)' BY <1>1 DEF InStep
<1>9. OneAtATime(s)' BY <1>1 DEF One, OneAtATime
<1>10. DecisionLast(s)' BY <1>1 DEF One, DecisionLast, Is
<1>11. InOrder(s)' BY <1>1 DEF One, InOrder
<1>12. Registered(s)' BY <1>2 DEF Registered
<1> QED BY <1>4, <1>5, <1>6, <1>7, <1>8, <1>9, <1>10, <1>11, <1>12 DEF One

\* closeAll ends what is registered, and that is everything that still polls.
LEMMA ShutdownKeeps ==
  ASSUME TypeOK, NEW s \in Streams, One(s), Shutdown
  PROVE  One(s)'
<1>1. /\ UNCHANGED <<history, stage, seen, last, timer, polls, crossed, gone, events>>
      /\ Now' = Now /\ Had' = Had
  BY DEF Shutdown, handler, watch, client, Now, Had
<1>2. /\ s \in hub => cause'[s] = "shutdown"
      /\ s \notin hub => cause'[s] = cause[s]
      /\ s \notin hub'
  BY DEF TypeOK, Shutdown, One, Registered
<1>3. s \in hub => cause[s] = "none" BY DEF One, Registered
<1>4. Quiet(s)' BY <1>1, <1>2 DEF One, Quiet
<1>5. Watching(s)' BY <1>1 DEF One, Watching
<1>6. Past(s)' BY <1>1 DEF One, Past
<1>7. Undecided(s)' BY <1>1, <1>2 DEF One, Undecided, Is
<1>8. InStep(s)' BY <1>1, <1>2 DEF One, InStep
<1>9. OneAtATime(s)' BY <1>1 DEF One, OneAtATime
<1>10. DecisionLast(s)' BY <1>1, <1>2, <1>3 DEF One, DecisionLast, Is
<1>11. InOrder(s)' BY <1>1 DEF One, InOrder
<1>12. Registered(s)' BY <1>1, <1>2 DEF One, Registered
<1> QED BY <1>4, <1>5, <1>6, <1>7, <1>8, <1>9, <1>10, <1>11, <1>12 DEF One

LEMMA LeaveKeeps ==
  ASSUME TypeOK, NEW s \in Streams, One(s), NEW how, Leave(how)
  PROVE  One(s)'
<1>1. /\ UNCHANGED <<history, stage, seen, last, crossed, cause, events>>
      /\ Now' = Now /\ Had' = Had
  BY DEF Leave, handler, Now, Had
<1>2. timer'[s] = FALSE /\ gone'[s] = TRUE /\ s \notin hub' BY DEF Leave
<1>3. \A k \in Slots : polls'[s][k] = Idle BY DEF Leave
<1>4. Quiet(s)' BY <1>1, <1>2, <1>3 DEF One, Quiet
<1>5. Watching(s)' BY <1>2, <1>3 DEF Watching
<1>6. Past(s)' BY <1>1, <1>3 DEF One, Past
<1>7. Undecided(s)' BY <1>1 DEF One, Undecided, Is
<1>8. InStep(s)' BY <1>2 DEF InStep
<1>9. OneAtATime(s)' BY <1>3 DEF OneAtATime, Idle
<1>10. DecisionLast(s)' BY <1>1, <1>2 DEF One, DecisionLast, Is
<1>11. InOrder(s)' BY <1>1 DEF One, InOrder
<1>12. Registered(s)' BY <1>2 DEF Registered
<1> QED BY <1>4, <1>5, <1>6, <1>7, <1>8, <1>9, <1>10, <1>11, <1>12 DEF One

\* A new status is appended: what was seen of the row stays what it was.
LEMMA HistoryKeeps ==
  ASSUME TypeOK, NEW s \in Streams, One(s), Move
  PROVE  One(s)'
<1>1. UNCHANGED <<stage, seen, last, timer, polls, crossed, hub, cause, gone, events>>
  BY DEF Move, handler, watch, client
<1>2. /\ Had \subseteq Had' /\ \A v \in Had : history'[v] = history[v]
      /\ \A i \in 1..Len(events[s]) : events[s][i] \in Had
      /\ Len(events[s]) \in Nat
  <2>1. Had \subseteq Had' BY MoveKeeps, VersionsGrow DEF Had
  <2>2. events[s] \in Seq(Versions) BY DEF TypeOK
  <2> QED BY <2>1, <2>2, MoveKeeps, LenProperties DEF One, Past
<1>3. Quiet(s)' BY <1>1 DEF One, Quiet
<1>4. Watching(s)' BY <1>1, <1>2 DEF One, Watching
<1>5. Past(s)' BY <1>1, <1>2 DEF One, Past
<1>6. Undecided(s)'
  <2>1. last[s] # Idle => last[s] \in Had BY DEF One, Past
  <2> QED BY <1>1, <1>2, <2>1 DEF One, Undecided, Is
<1>7. InStep(s)' BY <1>1 DEF One, InStep
<1>8. OneAtATime(s)' BY <1>1 DEF One, OneAtATime
<1>9. DecisionLast(s)'
  <2>1. \A i \in 1..Len(events[s]) : history'[events[s][i]] = history[events[s][i]]
    BY <1>2
  <2>2. /\ \A i \in 1..(Len(events[s]) - 1) : i \in 1..Len(events[s])
        /\ Len(events[s]) > 0 => Len(events[s]) \in 1..Len(events[s])
    BY <1>2
  <2> QED BY <1>1, <2>1, <2>2 DEF One, DecisionLast, Is
<1>10. InOrder(s)'
  <2>1. \A i \in 1..Len(events[s]) : history'[events[s][i]] = history[events[s][i]]
    BY <1>2
  <2>2. \A i \in 1..(Len(events[s]) - 1) : i \in 1..Len(events[s]) /\ i + 1 \in 1..Len(events[s])
    BY <1>2
  <2> QED BY <1>1, <2>1, <2>2 DEF One, InOrder
<1>11. Registered(s)' BY <1>1 DEF One, Registered
<1> QED BY <1>3, <1>4, <1>5, <1>6, <1>7, <1>8, <1>9, <1>10, <1>11 DEF One

-----------------------------------------------------------------------------
(* The invariant, and the theorems. *)

LEMMA InvInit == Init => StreamInv
<1> SUFFICES ASSUME Init, NEW s \in Streams PROVE One(s)
  BY TypeInit DEF StreamInv
<1>1. /\ stage[s] = "new" /\ seen[s] = Idle /\ last[s] = Idle /\ timer[s] = FALSE
      /\ s \notin hub /\ cause[s] = "none" /\ gone[s] = FALSE /\ events[s] = <<>>
      /\ \A k \in Slots : polls[s][k] = Idle
  BY DEF Init
<1>2. Len(events[s]) = 0 BY <1>1
<1>3. Quiet(s) /\ Watching(s) /\ Past(s) /\ Undecided(s) /\ InStep(s) /\ Registered(s)
  BY <1>1, <1>2 DEF Quiet, Watching, Past, Undecided, InStep, Registered
<1>4. OneAtATime(s) BY <1>1 DEF OneAtATime, Idle
<1>5. DecisionLast(s) /\ InOrder(s) BY <1>1, <1>2 DEF DecisionLast, InOrder
<1> QED BY <1>3, <1>4, <1>5 DEF One

LEMMA OwnKept ==
  ASSUME TypeOK, NEW s \in Streams, One(s), Step(s)
  PROVE  One(s)'
<1>1. CASE Open(s) \/ Lookup(s) BY <1>1, OpeningKeeps
<1>2. CASE Snapshot(s) BY <1>2, SnapshotKeeps
<1>3. CASE Disconnect(s) \/ Finish(s) BY <1>3, CloseKeeps DEF Disconnect, Finish
<1>4. ASSUME NEW k \in Slots, Poll(s, k) \/ Read(s, k) PROVE One(s)' BY <1>4, PollKeeps
<1>5. ASSUME NEW k \in Slots, Continue(s, k) PROVE One(s)'
  BY <1>5, GivingUpKeeps, FoundKeeps DEF Continue
<1> QED BY <1>1, <1>2, <1>3, <1>4, <1>5 DEF Step

LEMMA InvNext == StreamInv /\ [Next]_vars => StreamInv'
<1> SUFFICES ASSUME StreamInv, [Next]_vars PROVE StreamInv'
  OBVIOUS
<1>1. TypeOK /\ \A t \in Streams : One(t) BY DEF StreamInv
<1>2. TypeOK' BY <1>1, TypeNext DEF One
<1> SUFFICES ASSUME NEW t \in Streams PROVE One(t)'
  BY <1>2 DEF StreamInv
<1>3. CASE UNCHANGED vars
  <2>1. Untouched(t) /\ UNCHANGED history
    BY <1>3 DEF vars, handler, watch, client, Untouched
  <2> QED BY <1>1, <2>1, OthersKept
<1>4. ASSUME NEW s \in Streams, Step(s) PROVE One(t)'
  <2>1. CASE t = s BY <1>1, <1>4, <2>1, OwnKept
  <2>2. CASE t # s BY <1>1, <1>4, <2>2, StepsAreLocal, OthersKept
  <2> QED BY <2>1, <2>2
<1>5. CASE Shutdown BY <1>1, <1>5, ShutdownKeeps
<1>6. CASE Drained \/ Failsafe BY <1>1, <1>6, LeaveKeeps DEF Drained, Failsafe
<1>7. CASE Move BY <1>1, <1>7, HistoryKeeps
<1>8. Next => Shutdown \/ Drained \/ Failsafe \/ Move \/ \E s \in Streams : Step(s)
  BY DEF Next, Step, Tick, Answer, Continue
<1> QED BY <1>3, <1>4, <1>5, <1>6, <1>7, <1>8

LEMMA InvAlways == Spec => []StreamInv
  BY InvInit, InvNext, PTL DEF Spec

\* Every variable of the streams keeps its type, and an interval that runs has a
\* status to compare with: pollOnce never compares with an unset lastStatus
\* (jobs.ts:252-279).
THEOREM TypeCorrect == Spec => []TypeOK
<1>1. StreamInv => TypeOK BY DEF StreamInv
<1> QED BY <1>1, InvAlways, PTL

\* The decision is the last event a client gets, and a stream ends as decided
\* exactly when its client was told (jobs.ts:252-290), whatever polls overlap, fail
\* or race the client's leaving and the shutdown.
THEOREM DecisionIsLast == Spec => []TerminalIsLast
<1>1. StreamInv => TerminalIsLast
  <2> SUFFICES ASSUME StreamInv, NEW s \in Streams
               PROVE  /\ \A i \in 1..(Len(events[s]) - 1) : ~Is(events[s][i], Terminal)
                      /\ events[s] # <<>> /\ Is(events[s][Len(events[s])], Terminal)
                           => cause[s] = "decided"
                      /\ cause[s] = "decided" /\ ~gone[s]
                           => events[s] # <<>> /\ Is(events[s][Len(events[s])], Terminal)
    BY DEF TerminalIsLast
  <2>1. events[s] \in Seq(Versions) /\ DecisionLast(s) BY DEF StreamInv, TypeOK, One
  <2>2. events[s] # <<>> <=> Len(events[s]) > 0 BY <2>1, EmptySeq
  <2>3. ~gone[s] <=> gone[s] = FALSE BY Zenon DEF StreamInv, TypeOK
  <2> QED BY <2>1, <2>2, <2>3 DEF DecisionLast
<1> QED BY <1>1, InvAlways, PTL

\* The registry of open streams holds exactly those that poll and were not ended
\* (sse.ts:3-16, jobs.ts:267, 292-296), so that closeAll of a shutdown reaches
\* every one of them.
THEOREM RegistryExact == Spec => []HubHoldsLive
<1>1. StreamInv => HubHoldsLive
  <2> SUFFICES ASSUME StreamInv PROVE HubHoldsLive
    OBVIOUS
  <2>1. hub \subseteq Streams /\ \A s \in Streams : Registered(s)
    BY DEF StreamInv, TypeOK, One
  <2>2. \A s \in Streams : timer[s] <=> timer[s] = TRUE BY Zenon DEF StreamInv, TypeOK
  <2> QED BY <2>1, <2>2, Zenon DEF HubHoldsLive, Registered
<1> QED BY <1>1, InvAlways, PTL

\* A client whose stream never had two polls in flight sees statuses in the row's
\* own order and none twice in a row (jobs.ts:252-279).
THEOREM OrderKept == Spec => []EventsKeepOrder
<1>1. StreamInv => EventsKeepOrder
  <2> SUFFICES ASSUME StreamInv, NEW s \in Streams, ~crossed[s]
               PROVE  \A i \in 1..(Len(events[s]) - 1) :
                        /\ events[s][i] < events[s][i + 1]
                        /\ history[events[s][i]] # history[events[s][i + 1]]
    BY DEF EventsKeepOrder
  <2>1. crossed[s] = FALSE BY Zenon DEF StreamInv, TypeOK
  <2>2. InOrder(s) BY DEF StreamInv, One
  <2> QED BY <2>1, <2>2 DEF InOrder
<1> QED BY <1>1, InvAlways, PTL
=============================================================================
