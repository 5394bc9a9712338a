--------------------------- MODULE JobReadsProofs ---------------------------
(***************************************************************************)
(* What holds of a user's reads for any number of jobs, any page size and any *)
(* clock: the pages of a listing neither repeat nor skip a job, and a link     *)
(* that was shown leads to the audio.                                         *)
(***************************************************************************)
EXTENDS JobReads, TLAPS, FiniteSetTheorems, WellFoundedInduction

-----------------------------------------------------------------------------
(* The rows behind a read. *)

LEMMA SameTable ==
  ASSUME TableTypeOK, UNCHANGED table
  PROVE  TableTypeOK'
BY DEF TableTypeOK, table

\* A worker leaves every row there that was there, and a decided one as it is.
LEMMA WorkStep ==
  ASSUME NEW j \in Jobs, TableTypeOK, Work(j)
  PROVE  /\ TableTypeOK'
         /\ \A k \in Jobs : /\ status'[k] = "ABSENT" <=> status[k] = "ABSENT"
                            /\ status[k] \in {"ABSENT", "COMPLETED"} => status'[k] = status[k]
<1> USE DEF TableTypeOK, Statuses, Pending, Terminal, ErrorCodes, NotTerminal, table
<1>1. CASE MarkActive(j) \/ MarkQueued(j) BY <1>1 DEF MarkActive, MarkQueued
<1>2. CASE MarkCompleted(j) BY <1>2 DEF MarkCompleted
<1>3. CASE MarkFailed(j, "INTERNAL") BY <1>3 DEF MarkFailed
<1> QED BY <1>1, <1>2, <1>3 DEF Work

-----------------------------------------------------------------------------
(* The order of the history and its pages. *)

\* The jobs of S that come before j, and after it.
Higher(S, j) == {i \in S : Above(i, j)}
Deeper(S, j) == {i \in S : Above(j, i)}

Ordered == createdAt \in [Jobs -> Nat]

\* orderBy created_at desc, id desc is a strict total order on the jobs.
LEMMA AboveOrder ==
  ASSUME Ordered, NEW i \in Jobs, NEW j \in Jobs, NEW k \in Jobs
  PROVE  /\ ~Above(i, i)
         /\ Above(i, j) => ~Above(j, i)
         /\ Above(i, j) /\ Above(j, k) => Above(i, k)
         /\ i = j \/ Above(i, j) \/ Above(j, i)
<1>1. i \in Nat /\ j \in Nat /\ k \in Nat BY JobsAssumption
<1>2. createdAt[i] \in Nat /\ createdAt[j] \in Nat /\ createdAt[k] \in Nat BY DEF Ordered
<1> QED BY <1>1, <1>2 DEF Above

LEMMA SetsOfJobs ==
  ASSUME NEW S \in SUBSET Jobs
  PROVE  IsFiniteSet(S) /\ Cardinality(S) \in Nat
BY JobsAssumption, FS_Subset, FS_CardinalityType

\* A subset that lacks an element is smaller.
LEMMA FewerJobs ==
  ASSUME NEW S \in SUBSET Jobs, NEW T \in SUBSET S, NEW j \in S \ T
  PROVE  Cardinality(T) < Cardinality(S)
<1>1. T \in SUBSET Jobs OBVIOUS
<1>2. IsFiniteSet(S) /\ Cardinality(S) \in Nat /\ Cardinality(T) \in Nat BY <1>1, SetsOfJobs
<1>3. Cardinality(T) <= Cardinality(S) /\ (Cardinality(S) = Cardinality(T) => S = T)
  BY <1>2, FS_Subset
<1>4. S # T OBVIOUS
<1> QED BY <1>2, <1>3, <1>4

LEMMA SomethingLeast ==
  ASSUME NEW N \in SUBSET Nat, N # {}
  PROVE  \E n \in N : \A m \in N : n <= m
<1>1. PICK n \in N : \A m \in N : ~(<<m, n>> \in OpToRel(<, Nat))
  BY NatLessThanWellFounded, WFMin
<1>2. ASSUME NEW m \in N PROVE n <= m
  <2>1. ~(m < n) BY <1>1 DEF OpToRel
  <2> QED BY <2>1
<1> QED BY <1>2

\* Every set of jobs that is not empty has a first and a last one.
LEMMA Extremes ==
  ASSUME Ordered, NEW S \in SUBSET Jobs, S # {}
  PROVE  /\ \E j \in S : \A i \in S : i = j \/ Above(j, i)
         /\ \E j \in S : \A i \in S : i = j \/ Above(i, j)
<1>1. \E j \in S : \A i \in S : i = j \/ Above(j, i)
  <2> DEFINE N == {Cardinality(Higher(S, j)) : j \in S}
  <2>1. N \in SUBSET Nat /\ N # {} BY SetsOfJobs DEF Higher
  <2>n. PICK n \in N : \A m \in N : n <= m BY <2>1, SomethingLeast
  <2> HIDE DEF N
  <2>m. PICK j \in S : n = Cardinality(Higher(S, j)) BY <2>n DEF N
  <2>2. ASSUME NEW i \in S PROVE Cardinality(Higher(S, j)) <= Cardinality(Higher(S, i))
    <3>1. Cardinality(Higher(S, i)) \in N BY DEF N
    <3> QED BY <2>n, <2>m, <3>1
  <2>3. ASSUME NEW i \in S, Above(i, j) PROVE FALSE
    <3>1. Higher(S, i) \in SUBSET Higher(S, j) /\ i \in Higher(S, j) \ Higher(S, i)
      BY <2>3, AboveOrder DEF Higher
    <3>2. Higher(S, j) \in SUBSET Jobs /\ Higher(S, i) \in SUBSET Jobs BY DEF Higher
    <3>3. Cardinality(Higher(S, i)) < Cardinality(Higher(S, j)) BY <3>1, <3>2, FewerJobs
    <3> QED BY <2>2, <3>2, <3>3, SetsOfJobs
  <2> QED BY <2>2, <2>3, AboveOrder
<1>2. \E j \in S : \A i \in S : i = j \/ Above(i, j)
  <2> DEFINE N == {Cardinality(Deeper(S, j)) : j \in S}
  <2>1. N \in SUBSET Nat /\ N # {} BY SetsOfJobs DEF Deeper
  <2>n. PICK n \in N : \A m \in N : n <= m BY <2>1, SomethingLeast
  <2> HIDE DEF N
  <2>m. PICK j \in S : n = Cardinality(Deeper(S, j)) BY <2>n DEF N
  <2>2. ASSUME NEW i \in S PROVE Cardinality(Deeper(S, j)) <= Cardinality(Deeper(S, i))
    <3>1. Cardinality(Deeper(S, i)) \in N BY DEF N
    <3> QED BY <2>n, <2>m, <3>1
  <2>3. ASSUME NEW i \in S, Above(j, i) PROVE FALSE
    <3>1. Deeper(S, i) \in SUBSET Deeper(S, j) /\ i \in Deeper(S, j) \ Deeper(S, i)
      BY <2>3, AboveOrder DEF Deeper
    <3>2. Deeper(S, j) \in SUBSET Jobs /\ Deeper(S, i) \in SUBSET Jobs BY DEF Deeper
    <3>3. Cardinality(Deeper(S, i)) < Cardinality(Deeper(S, j)) BY <3>1, <3>2, FewerJobs
    <3> QED BY <2>2, <3>2, <3>3, SetsOfJobs
  <2> QED BY <2>2, <2>3, AboveOrder
<1> QED BY <1>1, <1>2

\* The first n of S, and whatever is above one of them, are the first n of S.
LEMMA TopIsUpward ==
  ASSUME Ordered, NEW S \in SUBSET Jobs, NEW n \in Nat,
         NEW i \in S, NEW j \in Top(S, n), Above(i, j)
  PROVE  i \in Top(S, n)
<1>1. j \in S /\ Cardinality(Higher(S, j)) < n BY DEF Top, Higher
<1>2. Higher(S, i) \in SUBSET Higher(S, j) /\ i \in Higher(S, j) \ Higher(S, i)
  BY <1>1, AboveOrder DEF Higher
<1>3. Higher(S, j) \in SUBSET Jobs /\ Higher(S, i) \in SUBSET Jobs BY DEF Higher
<1>4. Cardinality(Higher(S, i)) < Cardinality(Higher(S, j)) BY <1>2, <1>3, FewerJobs
<1>5. Cardinality(Higher(S, i)) < n BY <1>1, <1>3, <1>4, SetsOfJobs
<1> QED BY <1>5 DEF Top, Higher

\* There are first ones, when there are any.
LEMMA TopIsThere ==
  ASSUME Ordered, NEW S \in SUBSET Jobs, S # {}, NEW n \in Nat \ {0}
  PROVE  Top(S, n) # {}
<1>1. PICK j \in S : \A i \in S : i = j \/ Above(j, i) BY Extremes
<1>2. Higher(S, j) = {} BY <1>1, AboveOrder DEF Higher
<1>3. Cardinality(Higher(S, j)) < n BY <1>2, FS_EmptySet
<1> QED BY <1>3 DEF Top, Higher

\* Fewer than n first ones are all there are.
LEMMA TopIsAll ==
  ASSUME Ordered, NEW S \in SUBSET Jobs, NEW n \in Nat \ {0}, Cardinality(Top(S, n)) < n
  PROVE  Top(S, n) = S
<1>1. Top(S, n) \in SUBSET S BY DEF Top
<1>2. SUFFICES ASSUME S \ Top(S, n) # {} PROVE FALSE
  BY <1>1
<1>3. PICK j \in S \ Top(S, n) : \A i \in S \ Top(S, n) : i = j \/ Above(j, i)
  BY <1>2, Extremes
<1>4. Higher(S, j) \in SUBSET Top(S, n) BY <1>3, AboveOrder DEF Higher
<1>5. Top(S, n) \in SUBSET Jobs BY <1>1
<1>6. Higher(S, j) \in SUBSET Jobs BY <1>4, <1>5
<1>7. Cardinality(Higher(S, j)) <= Cardinality(Top(S, n))
  BY <1>4, <1>5, SetsOfJobs, FS_Subset
<1>8. Cardinality(Higher(S, j)) < n BY <1>5, <1>6, <1>7, SetsOfJobs
<1> QED BY <1>3, <1>8 DEF Top, Higher

\* One page: `fetched` takes one row more than the page shows.  The page lies
\* above everything that is left; it is all there is when nothing more was
\* fetched, and it has a last job, which becomes the cursor, when more was.
LEMMA OnePage ==
  ASSUME Ordered, NEW S \in SUBSET Jobs, NEW limit \in Nat \ {0},
         NEW fetched, fetched = Top(S, limit + 1), NEW page, page = Top(fetched, limit)
  PROVE  /\ page \in SUBSET S
         /\ \A i \in page, j \in S \ page : Above(i, j)
         /\ ~(Cardinality(fetched) > limit) => page = S
         /\ Cardinality(fetched) > limit =>
              /\ Lowest(page) \in page
              /\ \A i \in page : i = Lowest(page) \/ Above(i, Lowest(page))
<1>1. fetched \in SUBSET S /\ page \in SUBSET fetched BY DEF Top
<1>2. fetched \in SUBSET Jobs /\ page \in SUBSET Jobs BY <1>1
<1>3. limit + 1 \in Nat \ {0} /\ limit + 1 \in Nat OBVIOUS
<1>4. ASSUME NEW i \in page, NEW j \in S \ page PROVE Above(i, j)
  <2>1. SUFFICES ASSUME Above(j, i) PROVE FALSE
    BY <1>2, AboveOrder
  <2>2. j \in fetched BY <1>1, <1>3, <2>1, TopIsUpward
  <2>3. j \in page BY <1>2, <2>1, <2>2, TopIsUpward
  <2> QED BY <2>3
<1>5. ASSUME ~(Cardinality(fetched) > limit) PROVE page = S
  <2>1. Cardinality(fetched) < limit + 1 BY <1>2, <1>5, SetsOfJobs
  <2>2. fetched = S BY <1>3, <2>1, TopIsAll
  <2>3. ASSUME NEW j \in fetched PROVE j \in page
    <3>1. Higher(fetched, j) \in SUBSET fetched /\ j \in fetched \ Higher(fetched, j)
      BY <1>2, AboveOrder DEF Higher
    <3>2. Higher(fetched, j) \in SUBSET Jobs BY <1>2, <3>1
    <3>3. Cardinality(Higher(fetched, j)) < Cardinality(fetched) BY <1>2, <3>1, FewerJobs
    <3>4. Cardinality(Higher(fetched, j)) < limit BY <1>2, <2>1, <3>2, <3>3, SetsOfJobs
    <3> QED BY <3>4 DEF Top, Higher
  <2> QED BY <1>1, <2>2, <2>3
<1>6. ASSUME Cardinality(fetched) > limit
      PROVE  /\ Lowest(page) \in page
             /\ \A i \in page : i = Lowest(page) \/ Above(i, Lowest(page))
  <2>1. fetched # {} BY <1>6, FS_EmptySet
  <2>2. page # {} BY <1>2, <2>1, TopIsThere
  <2>3. \E j \in page : \A i \in page : i = j \/ Above(i, j) BY <1>2, <2>2, Extremes
  <2> QED BY <2>3 DEF Lowest
<1> QED BY <1>1, <1>4, <1>5, <1>6

-----------------------------------------------------------------------------
(* Types, and the reads that are left. *)

StillReading == reply = "fetching" => blips < MaxReads

TypeInv == TypeOK /\ StillReading

\* The parts of the type invariant: numbers, and the rest.
Numbers == /\ now \in 1..MaxTime
           /\ createdAt \in [Jobs -> 0..MaxTime]
           /\ \A j \in Jobs : status[j] # "ABSENT" => createdAt[j] > 0
           /\ times \in [Jobs -> Nat]
           /\ blips \in 0..MaxReads
           /\ StillReading

Names == /\ TableTypeOK
         /\ undone \subseteq Jobs
         /\ paging \in {"before", "listing", "finished"}
         /\ cursor \in Jobs \cup {NoCursor}
         /\ links \subseteq Jobs /\ there \subseteq Jobs /\ adrift \in BOOLEAN
         /\ target \in Jobs \cup {NoCursor}
         /\ heard \in {"nothing yet", "object"} \cup Failures
         /\ reply \in {"none", "fetching", "OK"} \cup DomainErrors \cup Faults

LEMMA TypeParts == TypeInv <=> Numbers /\ Names
BY Zenon DEF TypeInv, TypeOK, Numbers, Names

LEMMA TypedOrder == TypeOK => Ordered
<1> SUFFICES ASSUME TypeOK PROVE Ordered
  OBVIOUS
<1>1. createdAt \in [Jobs -> 0..MaxTime] BY Zenon DEF TypeOK
<1> QED BY <1>1, BoundsAssumption DEF Ordered

LEMMA Answers ==
  /\ {"NotFound", "JobFailed", "JobNotReady"} \subseteq DomainErrors
  /\ {"StorageUnavailable", "DatabaseError"} \subseteq Faults
  /\ StatusOf("NotFound") = 404
  /\ StatusOf("StorageUnavailable") = 500 /\ StatusOf("DatabaseError") = 500
  /\ "fetching" \notin DomainErrors \cup Faults
BY DEF DomainErrors, RENDERERS, Faults, StatusOf

\* What a page takes and leaves, in a state of the system.
LEMMA PageOf ==
  ASSUME TypeOK, NEW limit \in 1..MaxLimit,
         NEW fetched, fetched = Top(BelowCursor(cursor), limit + 1),
         NEW page, page = Top(fetched, limit)
  PROVE  /\ page \in SUBSET BelowCursor(cursor)
         /\ BelowCursor(cursor) \in SUBSET Rows
         /\ Rows \in SUBSET Jobs
         /\ \A i \in page, j \in BelowCursor(cursor) \ page : Above(i, j)
         /\ ~(Cardinality(fetched) > limit) => page = BelowCursor(cursor)
         /\ Cardinality(fetched) > limit =>
              /\ Lowest(page) \in page
              /\ \A i \in page : i = Lowest(page) \/ Above(i, Lowest(page))
<1>1. BelowCursor(cursor) \in SUBSET Rows /\ Rows \in SUBSET Jobs BY DEF BelowCursor, Rows
<1>2. limit \in Nat \ {0} BY BoundsAssumption
<1>3. BelowCursor(cursor) \in SUBSET Jobs BY <1>1
<1> HIDE DEF Lowest
<1> QED BY <1>1, <1>2, <1>3, OnePage, TypedOrder

LEMMA TypeInit == Init => TypeInv
<1> SUFFICES ASSUME Init PROVE TypeInv
  OBVIOUS
<1>1. TableTypeOK BY DEF Init, TableInit, TableTypeOK, Statuses, ErrorCodes
<1>2. \A j \in Jobs : status[j] = "ABSENT" BY DEF Init, TableInit
<1>3. Numbers
  <2>1. now = 1 /\ createdAt = [j \in Jobs |-> 0] /\ times = [j \in Jobs |-> 0] /\ blips = 0
    BY DEF Init
  <2>2. 1 \in 1..MaxTime /\ 0 \in 0..MaxTime /\ 0 \in 0..MaxReads /\ 0 < MaxReads
    BY BoundsAssumption DEF MaxReads
  <2> QED BY <1>2, <2>1, <2>2, Zenon DEF Numbers, StillReading
<1>4. Names BY <1>1 DEF Init, Names
<1> QED BY <1>3, <1>4, TypeParts

LEMMA TypeNext == TypeInv /\ [Next]_vars => TypeInv'
<1> SUFFICES ASSUME TypeInv, [Next]_vars PROVE TypeInv'
  OBVIOUS
<1>0. Numbers /\ Names BY TypeParts
<1> SUFFICES Numbers' /\ Names'
  BY Zenon DEF TypeInv, TypeOK, Numbers, Names
<1> USE DEF Names
<1>1. CASE UNCHANGED vars
  <2>1. TableTypeOK' BY <1>0, <1>1, SameTable DEF vars
  <2>2. Numbers' BY <1>0, <1>1 DEF vars, table, clock, listing, audio, Numbers, StillReading
  <2> QED BY <1>0, <1>1, <2>1, <2>2 DEF vars, clock, listing, audio
<1>2. CASE Tick
  <2>1. TableTypeOK' BY <1>0, <1>2, SameTable DEF Tick
  <2>2. Numbers'
    <3>0. \A n \in 1..MaxTime : n < MaxTime => n + 1 \in 1..MaxTime BY BoundsAssumption
    <3>1. now' \in 1..MaxTime BY <1>0, <1>2, <3>0, Zenon DEF Tick, Numbers
    <3>2. UNCHANGED <<status, createdAt, times, blips, reply>>
      BY <1>2 DEF Tick, table, listing, audio
    <3> QED BY <1>0, <3>1, <3>2, Zenon DEF Numbers, StillReading
  <2> QED BY <1>0, <1>2, <2>1, <2>2 DEF Tick, listing, audio
<1>3. ASSUME NEW j \in Jobs, Stamp(j) PROVE Numbers' /\ Names'
  <2>1. TableTypeOK' BY <1>0, <1>3, SameTable DEF Stamp
  <2>2. createdAt' \in [Jobs -> 0..MaxTime]
        /\ \A k \in Jobs : createdAt[k] > 0 => createdAt'[k] > 0
    <3>1. now \in 1..MaxTime /\ createdAt \in [Jobs -> 0..MaxTime] BY <1>0 DEF Numbers
    <3> QED BY <1>3, <3>1, BoundsAssumption DEF Stamp
  <2>3. Numbers' BY <1>0, <1>3, <2>2 DEF Stamp, table, listing, audio, Numbers, StillReading
  <2> QED BY <1>0, <1>3, <2>1, <2>3 DEF Stamp, listing, audio
<1>4. ASSUME NEW j \in Jobs, Submit(j) \/ Undo(j) \/ Work(j) PROVE Numbers' /\ Names'
  <2>1. TableTypeOK'
    <3>1. CASE InsertRow(j) \/ DeleteRow(j)
      BY <1>0, <3>1 DEF TableTypeOK, Statuses, Pending, Terminal, ErrorCodes, InsertRow, DeleteRow
    <3> QED BY <1>0, <1>4, <3>1, WorkStep DEF Submit, Undo
  <2>2. ASSUME NEW k \in Jobs, status'[k] # "ABSENT" PROVE createdAt[k] > 0
    <3>1. CASE Submit(j) BY <1>0, <2>2, <3>1 DEF Submit, InsertRow, TableTypeOK, Numbers
    <3>2. CASE Undo(j) BY <1>0, <2>2, <3>2 DEF Undo, DeleteRow, TableTypeOK, Numbers
    <3>3. CASE Work(j) BY <1>0, <2>2, <3>3, WorkStep DEF Numbers
    <3> QED BY <1>4, <3>1, <3>2, <3>3
  <2>3. UNCHANGED <<now, createdAt, listing, audio>> /\ undone' \in SUBSET Jobs
    BY <1>0, <1>4 DEF Submit, Undo, Work, clock
  <2>4. Numbers' BY <1>0, <2>2, <2>3 DEF listing, audio, Numbers, StillReading
  <2> QED BY <1>0, <2>1, <2>3, <2>4 DEF listing, audio
<1>5. ASSUME NEW limit \in 1..MaxLimit, ReadPage(limit) PROVE Numbers' /\ Names'
  <2>1. TableTypeOK' BY <1>0, <1>5, SameTable DEF ReadPage
  <2> DEFINE fetched == Top(BelowCursor(cursor), limit + 1)
             page    == Top(fetched, limit)
  <2>a. TypeOK BY Zenon DEF TypeInv
  <2>b. /\ page \in SUBSET BelowCursor(cursor)
        /\ BelowCursor(cursor) \in SUBSET Rows
        /\ Rows \in SUBSET Jobs
        /\ (Cardinality(fetched) > limit => Lowest(page) \in page)
    <3> HIDE DEF fetched, page
    <3>1. fetched = Top(BelowCursor(cursor), limit + 1) /\ page = Top(fetched, limit)
      BY DEF fetched, page
    <3> QED BY <2>a, <3>1, PageOf
  <2>2. /\ times' = [j \in Jobs |-> IF j \in page THEN times[j] + 1 ELSE times[j]]
        /\ links' = links \cup Linked(page)
        /\ \/ Cardinality(fetched) > limit /\ paging' = "listing" /\ cursor' = Lowest(page)
           \/ paging' = "finished" /\ UNCHANGED cursor
    BY <1>5, Zenon DEF ReadPage, NextCursor
  <2> HIDE DEF fetched, page
  <2>3. Numbers'
    <3>0. times \in [Jobs -> Nat] BY <1>0, Zenon DEF Numbers
    <3>1. times' \in [Jobs -> Nat] BY <2>2, <3>0
    <3>2. UNCHANGED <<table, clock, audio>> BY <1>5 DEF ReadPage
    <3> QED BY <1>0, <3>1, <3>2 DEF table, clock, audio, Numbers, StillReading
  <2>4. links' \in SUBSET Jobs /\ cursor' \in Jobs \cup {NoCursor}
    BY <1>0, <2>b, <2>2 DEF Linked
  <2>5. there' \in SUBSET Jobs /\ adrift' \in BOOLEAN /\ UNCHANGED <<clock, audio>>
    BY <1>0, <1>5, <2>b DEF ReadPage
  <2> QED BY <1>0, <2>1, <2>2, <2>3, <2>4, <2>5 DEF clock, audio
<1>6. ASSUME NEW j \in Jobs, ReadJob(j) PROVE Numbers' /\ Names'
  <2>1. TableTypeOK' BY <1>0, <1>6, SameTable DEF ReadJob
  <2>2. Numbers' BY <1>0, <1>6 DEF ReadJob, table, clock, audio, Numbers, StillReading
  <2> QED BY <1>0, <1>6, <2>1, <2>2 DEF ReadJob, Linked, clock, audio
<1>7. ASSUME NEW j \in Jobs, FollowLink(j) PROVE Numbers' /\ Names'
  <2>1. TableTypeOK' BY <1>0, <1>7, SameTable DEF FollowLink
  <2>2. /\ reply' \in {"NotFound", "JobFailed", "JobNotReady", "fetching", "DatabaseError"}
        /\ blips' = 0 /\ heard' = "nothing yet" /\ target' = j
        /\ UNCHANGED <<table, clock, listing>>
    BY <1>7 DEF FollowLink
  <2>3. Numbers'
    <3>1. 0 \in 0..MaxReads /\ 0 < MaxReads BY DEF MaxReads
    <3>2. UNCHANGED <<status, now, createdAt, times>> BY <2>2 DEF table, clock, listing
    <3> QED BY <1>0, <2>2, <3>1, <3>2, Zenon DEF Numbers, StillReading
  <2> QED BY <1>0, <2>1, <2>2, <2>3, Answers DEF clock, listing
<1>8. CASE ReadObject
  <2>1. TableTypeOK' BY <1>0, <1>8, SameTable DEF ReadObject
  <2>2. /\ heard' \in {"nothing yet", "object"} \cup Failures
        /\ reply' \in {"fetching", "OK", "StorageUnavailable"}
        /\ UNCHANGED <<table, clock, listing, target>>
    BY <1>0, <1>8 DEF ReadObject, Deliver
  <2>3. blips' \in 0..MaxReads /\ StillReading'
    <3>1. blips \in 0..MaxReads /\ blips < MaxReads
      BY <1>0, <1>8 DEF ReadObject, Numbers, StillReading
    <3>2. CASE Deliver BY <3>1, <3>2 DEF Deliver, StillReading
    <3>3. CASE blips' = blips + 1 /\ (blips + 1 < MaxReads \/ reply' = "StorageUnavailable")
      BY <3>1, <3>3 DEF StillReading, MaxReads
    <3> QED BY <1>8, <3>2, <3>3, Zenon DEF ReadObject
  <2>4. Numbers'
    <3>1. UNCHANGED <<status, now, createdAt, times>> BY <2>2 DEF table, clock, listing
    <3> QED BY <1>0, <2>3, <3>1, Zenon DEF Numbers
  <2> QED BY <1>0, <2>1, <2>2, <2>4, Answers DEF clock, listing
<1> QED
  BY <1>1, <1>2, <1>3, <1>4, <1>5, <1>6, <1>7, <1>8 DEF Next

\* Each variable of the model keeps its type: every row has its stamp, the next
\* cursor is a job, a reply is one the routes define (jobs.ts:210-322).
THEOREM TypeCorrect == Spec => []TypeOK
<1>1. TypeInv => TypeOK BY DEF TypeInv
<1> QED BY <1>1, TypeInit, TypeNext, PTL DEF Spec

-----------------------------------------------------------------------------
(* Links. *)

Backed == \A j \in Jobs : status[j] = "COMPLETED" => audioKey[j] = TRUE

\* A row that was undone does not come back.
Gone == \A j \in undone : status[j] = "ABSENT"

Shown == \A j \in links : status[j] = "COMPLETED" \/ j \in undone

Answered ==
  /\ \/ reply \in {"none", "fetching", "OK", "DatabaseError"}
     \/ reply = "NotFound" /\ target \in undone
     \/ reply = "StorageUnavailable" /\ (heard = "refused" \/ blips = MaxReads)
  /\ heard = "refused" => reply # "fetching"

LinkInv == TypeInv /\ Backed /\ Gone /\ Shown /\ Answered

LEMMA LinkInit == Init => LinkInv
<1> SUFFICES ASSUME Init PROVE LinkInv
  OBVIOUS
<1>1. Backed /\ Gone /\ Shown /\ Answered
  BY DEF Init, TableInit, Backed, Gone, Shown, Answered
<1> QED BY <1>1, TypeInit DEF LinkInv

\* A change of the table keeps the links' promise when no row that a link was shown
\* for leaves COMPLETED but by an undo.
LEMMA TableLinks ==
  ASSUME LinkInv, NEW j \in Jobs, Submit(j) \/ Undo(j) \/ Work(j)
  PROVE  Backed' /\ Gone' /\ Shown' /\ Answered'
<1>0. TableTypeOK /\ undone \in SUBSET Jobs /\ links \in SUBSET Jobs
  BY Zenon DEF LinkInv, TypeInv, TypeOK
<1>1. Answered'
  <2>1. UNCHANGED audio /\ \A k \in undone : k \in undone'
    BY DEF Submit, Undo, Work, clock
  <2> QED BY <2>1, Zenon DEF LinkInv, Answered, audio
<1>2. CASE Submit(j)
  BY <1>0, <1>1, <1>2 DEF LinkInv, Submit, InsertRow, TableTypeOK, Backed, Gone, Shown, clock, listing
<1>3. CASE Undo(j)
  BY <1>0, <1>1, <1>3 DEF LinkInv, Undo, DeleteRow, TableTypeOK, Backed, Gone, Shown, listing
<1>4. CASE Work(j)
  <2>1. UNCHANGED <<undone, links>> BY <1>4 DEF Work, clock, listing
  <2>2. Gone' /\ Shown'
    <3>1. \A k \in Jobs : status[k] \in {"ABSENT", "COMPLETED"} => status'[k] = status[k]
      BY <1>0, <1>4, WorkStep
    <3> QED BY <1>0, <2>1, <3>1 DEF LinkInv, Gone, Shown
  <2>3. Backed'
    BY <1>0, <1>4 DEF LinkInv, Backed, Work, MarkActive, MarkQueued, MarkCompleted, MarkFailed,
                      NotTerminal, Pending, TableTypeOK, table
  <2> QED BY <1>1, <2>2, <2>3
<1> QED BY <1>2, <1>3, <1>4

LEMMA LinkNext == LinkInv /\ [Next]_vars => LinkInv'
<1> SUFFICES ASSUME LinkInv, [Next]_vars PROVE LinkInv'
  OBVIOUS
<1>0. TypeInv /\ TypeInv' BY TypeNext DEF LinkInv
<1> SUFFICES Backed' /\ Gone' /\ Shown' /\ Answered'
  BY <1>0 DEF LinkInv
<1>1. CASE UNCHANGED vars \/ Tick \/ \E j \in Jobs : Stamp(j)
  <2>1. UNCHANGED <<table, undone, listing, audio>>
    BY <1>1 DEF vars, clock, Tick, Stamp
  <2> QED BY <2>1 DEF LinkInv, Backed, Gone, Shown, Answered, table, listing, audio
<1>2. ASSUME NEW j \in Jobs, Submit(j) \/ Undo(j) \/ Work(j)
      PROVE  Backed' /\ Gone' /\ Shown' /\ Answered'
  BY <1>2, TableLinks
<1>3. ASSUME \/ \E limit \in 1..MaxLimit : ReadPage(limit)
             \/ \E j \in Jobs : ReadJob(j)
      PROVE  Backed' /\ Gone' /\ Shown' /\ Answered'
  <2>1. UNCHANGED <<table, clock, audio>> BY <1>3 DEF ReadPage, ReadJob
  <2>2. \A j \in links' : j \in links \/ status[j] = "COMPLETED"
    BY <1>3 DEF ReadPage, ReadJob, Linked
  <2> QED BY <2>1, <2>2 DEF LinkInv, Backed, Gone, Shown, Answered, table, clock, audio
<1>4. ASSUME NEW j \in Jobs, FollowLink(j)
      PROVE  Backed' /\ Gone' /\ Shown' /\ Answered'
  <2>1. /\ UNCHANGED <<table, clock, listing>> /\ target' = j /\ j \in links
        /\ heard' = "nothing yet"
    BY <1>4 DEF FollowLink
  <2>2. CASE j \in undone
    <3>0. status[j] = "ABSENT" BY <2>2 DEF LinkInv, Gone
    <3>1. reply' \in {"NotFound", "DatabaseError"} BY <1>4, <3>0 DEF FollowLink, Pending
    <3> QED BY <2>1, <2>2, <3>1 DEF LinkInv, Backed, Gone, Shown, Answered, table, clock, listing
  <2>3. CASE j \notin undone
    <3>1. status[j] = "COMPLETED" /\ audioKey[j] = TRUE
      BY <2>1, <2>3 DEF LinkInv, Shown, Backed
    <3>2. reply' \in {"fetching", "DatabaseError"} BY <1>4, <3>1 DEF FollowLink, Pending
    <3> QED BY <2>1, <3>2 DEF LinkInv, Backed, Gone, Shown, Answered, table, clock, listing
  <2> QED BY <2>2, <2>3
<1>5. CASE ReadObject
  <2>1. UNCHANGED <<table, clock, listing, target>> BY <1>5 DEF ReadObject
  <2>2. Answered'
    <3>1. CASE Deliver BY <3>1 DEF Deliver, Answered
    <3>2. ASSUME NEW failure \in Failures,
                 blips' = blips + 1, heard' = failure,
                 reply' = IF IsTransient(failure) /\ blips + 1 < MaxReads
                          THEN "fetching" ELSE "StorageUnavailable"
          PROVE  Answered'
      <4>1. blips \in 0..MaxReads /\ blips < MaxReads
        BY <1>0, <1>5, Zenon DEF ReadObject, TypeInv, TypeOK, StillReading
      <4>2. blips + 1 < MaxReads \/ blips' = MaxReads BY <3>2, <4>1 DEF MaxReads
      <4> QED BY <1>5, <3>2, <4>2 DEF ReadObject, IsTransient, Answered
    <3> QED BY <1>5, <3>1, <3>2 DEF ReadObject
  <2> QED BY <2>1, <2>2 DEF LinkInv, Backed, Gone, Shown, table, clock, listing
<1> QED BY <1>1, <1>2, <1>3, <1>4, <1>5 DEF Next

\* An audioUrl that was shown is never answered "failed" or "not ready"; it fails for
\* a row that was undone, a lookup that failed in the database, a storage that failed
\* three reads on end or one that refused, and a refusal is not asked again
\* (jobs.ts:63-70, 299-316, storage.ts:54-65, 112): with any number of jobs and undos.
THEOREM LinksHold == Spec => []LinkLeadsToAudio
<1>1. LinkInv => LinkLeadsToAudio
  <2> SUFFICES ASSUME Answered
               PROVE  \/ reply \in {"none", "fetching", "OK"}
                      \/ StatusOf(reply) = 404 /\ target \in undone
                      \/ /\ StatusOf(reply) = 500
                         /\ reply = "DatabaseError" \/ heard = "refused" \/ blips = MaxReads
    BY Zenon DEF LinkInv, Answered, LinkLeadsToAudio
  <2>1. CASE reply \in {"none", "fetching", "OK"} BY <2>1
  <2>2. CASE reply = "NotFound" /\ target \in undone
    <3>1. StatusOf(reply) = 404 BY <2>2, Answers, Zenon
    <3> QED BY <2>2, <3>1, Zenon
  <2>3. CASE reply = "StorageUnavailable" /\ (heard = "refused" \/ blips = MaxReads)
    <3>1. StatusOf(reply) = 500 BY <2>3, Answers, Zenon
    <3> QED BY <2>3, <3>1, Zenon
  <2>4. CASE reply = "DatabaseError"
    <3>1. StatusOf(reply) = 500 BY <2>4, Answers, Zenon
    <3> QED BY <2>4, <3>1, Zenon
  <2> QED BY <2>1, <2>2, <2>3, <2>4 DEF Answered
<1> QED BY <1>1, LinkInit, LinkNext, PTL DEF Spec

-----------------------------------------------------------------------------
(* Pages. *)

NotBegun ==
  paging = "before" => /\ cursor = NoCursor /\ there = {} /\ adrift = FALSE
                       /\ \A j \in Jobs : times[j] = 0

\* What the pages have listed lies at the cursor or above it.
ListedAbove ==
  /\ \A j \in Jobs : times[j] # 0 => createdAt[j] > 0
  /\ paging = "listing" =>
       /\ cursor \in Jobs /\ createdAt[cursor] > 0
       /\ \A j \in Jobs : times[j] # 0 => j = cursor \/ Above(j, cursor)

Lasting == \A j \in there : status[j] # "ABSENT" \/ j \in undone

\* What they have yet to list lies below it.
LeftBelow ==
  paging = "listing" /\ adrift = FALSE =>
    \A j \in there \cap Rows : times[j] = 1 \/ Above(cursor, j)

OnceInv == TypeInv /\ NotBegun /\ ListedAbove /\ NoJobListedTwice

PageInv == OnceInv /\ LinkInv /\ Lasting /\ LeftBelow /\ LastingJobsAreListed

LEMMA PageInit == Init => PageInv
<1> SUFFICES ASSUME Init PROVE PageInv
  OBVIOUS
<1>1. /\ \A j \in Jobs : times[j] = 0
      /\ paging = "before" /\ cursor = NoCursor /\ there = {} /\ adrift = FALSE
  BY DEF Init
<1>2. NotBegun /\ Lasting /\ LeftBelow /\ LastingJobsAreListed
  BY <1>1 DEF NotBegun, Lasting, LeftBelow, LastingJobsAreListed
<1>3. ListedAbove /\ NoJobListedTwice BY <1>1 DEF ListedAbove, NoJobListedTwice
<1> QED BY <1>2, <1>3, TypeInit, LinkInit DEF PageInv, OnceInv

\* While the pages rest, what they listed stays where it is: a stamp is only given
\* to a job that has none.
LEMMA ListedStays ==
  ASSUME TypeInv, NotBegun, ListedAbove, NoJobListedTwice,
         UNCHANGED <<paging, cursor, times, there, adrift>>,
         \A j \in Jobs : createdAt[j] > 0 => createdAt'[j] = createdAt[j]
  PROVE  NotBegun' /\ ListedAbove' /\ NoJobListedTwice'
<1>1. UNCHANGED <<paging, cursor, times, there, adrift>> OBVIOUS
<1>2. NotBegun' /\ NoJobListedTwice' BY <1>1 DEF NotBegun, NoJobListedTwice
<1>3. ASSUME NEW j \in Jobs, times'[j] # 0 PROVE createdAt'[j] > 0 /\ createdAt'[j] = createdAt[j]
  BY <1>1, <1>3 DEF ListedAbove
<1>4. ASSUME paging' = "listing"
      PROVE  /\ cursor' \in Jobs /\ createdAt'[cursor'] > 0
             /\ \A j \in Jobs : times'[j] # 0 => j = cursor' \/ Above(j, cursor)'
  <2>1. cursor \in Jobs /\ createdAt[cursor] > 0 /\ createdAt'[cursor] = createdAt[cursor]
    BY <1>1, <1>4 DEF ListedAbove
  <2>2. ASSUME NEW j \in Jobs, times'[j] # 0 PROVE j = cursor' \/ Above(j, cursor)'
    <3>1. j = cursor \/ Above(j, cursor) BY <1>1, <1>4, <2>2 DEF ListedAbove
    <3> QED BY <1>1, <1>3, <2>1, <2>2, <3>1 DEF Above
  <2> QED BY <1>1, <2>1, <2>2
<1> QED BY <1>2, <1>3, <1>4 DEF ListedAbove

\* The rows below a cursor have not been listed, and it lies above them.
LEMMA BelowIsNew ==
  ASSUME OnceInv, NEW j \in BelowCursor(cursor), paging # "finished"
  PROVE  /\ times[j] = 0 /\ createdAt[j] > 0
         /\ paging = "listing" => cursor \in Rows /\ Above(cursor, j)
<1>1. TypeOK /\ Ordered BY TypedOrder DEF OnceInv, TypeInv
<1>2. j \in Jobs /\ status[j] # "ABSENT" BY DEF BelowCursor, Rows
<1>3. createdAt[j] > 0 BY <1>1, <1>2, TypeParts DEF OnceInv, Numbers
<1>4. CASE paging = "before" BY <1>2, <1>3, <1>4 DEF OnceInv, NotBegun
<1>5. CASE paging = "listing"
  <2>1. cursor \in Jobs /\ cursor # NoCursor
    BY <1>5, JobsAssumption DEF OnceInv, ListedAbove
  <2>2. cursor \in Rows /\ Above(cursor, j) BY <2>1 DEF BelowCursor
  <2>3. ~(j = cursor \/ Above(j, cursor)) BY <1>1, <1>2, <2>1, <2>2, AboveOrder
  <2>4. times[j] = 0 BY <1>2, <1>5, <2>3 DEF OnceInv, ListedAbove
  <2> QED BY <1>3, <2>2, <2>4
<1>6. paging \in {"before", "listing", "finished"} BY <1>1, Zenon DEF TypeOK
<1> QED BY <1>4, <1>5, <1>6

\* One page, whatever its size: it lists jobs below the cursor that lie above all it
\* leaves out, and ends at its new cursor or lists everything.
LEMMA PageStep ==
  ASSUME OnceInv, NEW limit \in 1..MaxLimit, ReadPage(limit)
  PROVE  \E page \in SUBSET BelowCursor(cursor) :
           /\ \A j \in page : times'[j] = 1
           /\ \A j \in Jobs \ page : times'[j] = times[j]
           /\ \A i \in page, j \in BelowCursor(cursor) \ page : Above(i, j)
           /\ \/ /\ paging' = "listing" /\ cursor' \in page
                 /\ \A i \in page : i = cursor' \/ Above(i, cursor')
              \/ paging' = "finished" /\ page = BelowCursor(cursor)
<1> DEFINE fetched == Top(BelowCursor(cursor), limit + 1)
           page    == Top(fetched, limit)
<1>1. TypeOK BY DEF OnceInv, TypeInv
<1>2. /\ times' = [j \in Jobs |-> IF j \in page THEN times[j] + 1 ELSE times[j]]
      /\ \/ Cardinality(fetched) > limit /\ paging' = "listing" /\ cursor' = Lowest(page)
         \/ ~(Cardinality(fetched) > limit) /\ paging' = "finished"
  BY Zenon DEF ReadPage, NextCursor
<1>3. fetched = Top(BelowCursor(cursor), limit + 1) /\ page = Top(fetched, limit)
  OBVIOUS
<1> HIDE DEF fetched, page
<1>4. /\ page \in SUBSET BelowCursor(cursor)
      /\ BelowCursor(cursor) \in SUBSET Rows
      /\ Rows \in SUBSET Jobs
      /\ \A i \in page, j \in BelowCursor(cursor) \ page : Above(i, j)
      /\ ~(Cardinality(fetched) > limit) => page = BelowCursor(cursor)
      /\ Cardinality(fetched) > limit =>
           /\ Lowest(page) \in page
           /\ \A i \in page : i = Lowest(page) \/ Above(i, Lowest(page))
  BY <1>1, <1>3, PageOf
<1>5. ASSUME NEW j \in page PROVE times'[j] = 1
  <2>1. times[j] = 0 BY <1>4, BelowIsNew DEF ReadPage
  <2>2. times'[j] = times[j] + 1 BY <1>2, <1>4, Zenon
  <2> QED BY <2>1, <2>2
<1>6. ASSUME NEW j \in Jobs \ page PROVE times'[j] = times[j]
  BY <1>2
<1> page \in SUBSET BelowCursor(cursor) BY <1>4
<1> WITNESS page \in SUBSET BelowCursor(cursor)
<1> QED BY <1>2, <1>4, <1>5, <1>6, Zenon

\* A page lists nothing twice, and what is listed then lies at the new cursor or
\* above it.
LEMMA PageOnce ==
  ASSUME OnceInv, NEW limit \in 1..MaxLimit, ReadPage(limit)
  PROVE  NotBegun' /\ ListedAbove' /\ NoJobListedTwice'
<1>1. TypeOK /\ Ordered BY TypedOrder DEF OnceInv, TypeInv
<1>2. PICK page \in SUBSET BelowCursor(cursor) :
        /\ \A j \in page : times'[j] = 1
        /\ \A j \in Jobs \ page : times'[j] = times[j]
        /\ \/ /\ paging' = "listing" /\ cursor' \in page
              /\ \A i \in page : i = cursor' \/ Above(i, cursor')
           \/ paging' = "finished"
  BY PageStep
<1>3. UNCHANGED createdAt /\ paging # "finished" /\ page \in SUBSET Jobs
  BY DEF ReadPage, clock, BelowCursor, Rows
<1>4. \A j \in page : createdAt[j] > 0 BY <1>3, BelowIsNew
<1>5. NoJobListedTwice' BY <1>2 DEF OnceInv, NoJobListedTwice
<1>6. NotBegun' BY <1>2 DEF NotBegun
<1>7. \A j \in Jobs : times'[j] # 0 => createdAt'[j] > 0
  BY <1>2, <1>3, <1>4 DEF OnceInv, ListedAbove
<1>8. ASSUME paging' = "listing", NEW j \in Jobs, times'[j] # 0
      PROVE  j = cursor' \/ Above(j, cursor')
  <2>1. cursor' \in page /\ \A i \in page : i = cursor' \/ Above(i, cursor') BY <1>2, <1>8
  <2>2. CASE j \in page BY <2>1, <2>2
  <2>3. CASE j \notin page
    <3>1. times[j] # 0 BY <1>2, <1>8, <2>3
    <3>2. paging = "listing" BY <1>1, <1>3, <3>1, Zenon DEF TypeOK, OnceInv, NotBegun
    <3>3. cursor \in Jobs /\ (j = cursor \/ Above(j, cursor))
      BY <3>1, <3>2 DEF OnceInv, ListedAbove
    <3>4. cursor' \in Jobs /\ Above(cursor, cursor') BY <1>3, <2>1, <3>2, BelowIsNew
    <3> QED BY <1>1, <3>3, <3>4, AboveOrder
  <2> QED BY <2>2, <2>3
<1>9. ASSUME paging' = "listing"
      PROVE  cursor' \in Jobs /\ createdAt'[cursor'] > 0
  BY <1>2, <1>3, <1>4, <1>9
<1>10. \A j \in Jobs : Above(j, cursor)' <=> Above(j, cursor') BY <1>3 DEF Above
<1>11. ListedAbove' BY <1>7, <1>8, <1>9, <1>10, Zenon DEF ListedAbove
<1> QED BY <1>5, <1>6, <1>11

\* Every other step leaves the listing alone.
LEMMA OutsideListing ==
  ASSUME TypeInv, [Next]_vars, ~\E limit \in 1..MaxLimit : ReadPage(limit)
  PROVE  /\ UNCHANGED <<paging, cursor, times, there, adrift>>
         /\ \A j \in Jobs : createdAt[j] > 0 => createdAt'[j] = createdAt[j]
<1>1. createdAt \in [Jobs -> 0..MaxTime] BY Zenon DEF TypeInv, TypeOK
<1>2. CASE \E j \in Jobs : Stamp(j) BY <1>1, <1>2 DEF Stamp, listing
<1>3. CASE \/ UNCHANGED vars \/ Tick \/ ReadObject
           \/ \E j \in Jobs : Submit(j) \/ Undo(j) \/ Work(j) \/ ReadJob(j) \/ FollowLink(j)
  BY <1>3 DEF vars, Tick, ReadObject, Submit, Undo, Work, ReadJob, FollowLink, listing, clock
<1> QED BY <1>2, <1>3 DEF Next

LEMMA OnceNext == OnceInv /\ [Next]_vars => OnceInv'
<1> SUFFICES ASSUME OnceInv, [Next]_vars PROVE OnceInv'
  OBVIOUS
<1>0. TypeInv /\ TypeInv' BY TypeNext DEF OnceInv
<1>1. CASE \E limit \in 1..MaxLimit : ReadPage(limit)
  BY <1>0, <1>1, PageOnce DEF OnceInv
<1>2. CASE ~\E limit \in 1..MaxLimit : ReadPage(limit)
  BY <1>0, <1>2, OutsideListing, ListedStays DEF OnceInv
<1> QED BY <1>1, <1>2

\* No job is on two pages of one listing (README.md:385, jobs.ts:210-230), for any
\* page sizes and whatever rows come and go between the pages.
THEOREM NeverListedTwice == Spec => []NoJobListedTwice
<1>1. OnceInv => NoJobListedTwice BY DEF OnceInv
<1>2. Init => OnceInv BY PageInit DEF PageInv
<1> QED BY <1>1, <1>2, OnceNext, PTL DEF Spec

\* A row that was there and is not is one that was undone: the only row a
\* submission adds is one that was not there.
LEMMA LastingKept ==
  ASSUME TypeInv, Gone, Lasting, [Next]_vars, UNCHANGED there
  PROVE  Lasting' /\ \A j \in there : j \in Rows' => j \in Rows
<1>0. TableTypeOK /\ there \in SUBSET Jobs /\ undone \in SUBSET Jobs
  BY Zenon DEF TypeInv, TypeOK
<1>1. CASE UNCHANGED vars \/ Tick \/ ReadObject
           \/ (\E j \in Jobs : Stamp(j) \/ ReadJob(j) \/ FollowLink(j))
           \/ (\E limit \in 1..MaxLimit : ReadPage(limit))
  <2>1. UNCHANGED <<status, undone>>
    BY <1>1 DEF vars, Tick, ReadObject, Stamp, ReadJob, FollowLink, ReadPage, clock, table
  <2> QED BY <2>1 DEF Lasting, Rows
<1>2. ASSUME NEW j \in Jobs, Submit(j)
      PROVE  Lasting' /\ \A k \in there : k \in Rows' => k \in Rows
  <2>1. j \notin there /\ UNCHANGED undone BY <1>2 DEF Submit, Lasting, clock
  <2>2. \A k \in Jobs : k # j => status'[k] = status[k]
    BY <1>0, <1>2 DEF Submit, InsertRow, TableTypeOK
  <2> QED BY <1>0, <2>1, <2>2 DEF Lasting, Rows
<1>3. ASSUME NEW j \in Jobs, Undo(j)
      PROVE  Lasting' /\ \A k \in there : k \in Rows' => k \in Rows
  <2>1. undone' = undone \cup {j} /\ status'[j] = "ABSENT"
    BY <1>0, <1>3 DEF Undo, DeleteRow, TableTypeOK
  <2>2. \A k \in Jobs : k # j => status'[k] = status[k]
    BY <1>0, <1>3 DEF Undo, DeleteRow, TableTypeOK
  <2> QED BY <1>0, <2>1, <2>2 DEF Lasting, Rows
<1>4. ASSUME NEW j \in Jobs, Work(j)
      PROVE  Lasting' /\ \A k \in there : k \in Rows' => k \in Rows
  <2>1. UNCHANGED undone BY <1>4 DEF Work, clock
  <2>2. \A k \in Jobs : status'[k] = "ABSENT" <=> status[k] = "ABSENT"
    BY <1>0, <1>4, WorkStep
  <2> QED BY <1>0, <2>1, <2>2 DEF Lasting, Rows
<1> QED BY <1>1, <1>2, <1>3, <1>4 DEF Next

\* A page shows every lasting job that lies above its new cursor.
LEMMA PageLeaves ==
  ASSUME PageInv, NEW limit \in 1..MaxLimit, ReadPage(limit)
  PROVE  Lasting' /\ LeftBelow' /\ LastingJobsAreListed'
<1>1. TypeOK /\ OnceInv BY DEF PageInv, OnceInv, TypeInv
<1>2. PICK page \in SUBSET BelowCursor(cursor) :
        /\ \A j \in page : times'[j] = 1
        /\ \A j \in Jobs \ page : times'[j] = times[j]
        /\ \A i \in page, j \in BelowCursor(cursor) \ page : Above(i, j)
        /\ \/ paging' = "listing" /\ cursor' \in page
           \/ paging' = "finished" /\ page = BelowCursor(cursor)
  BY <1>1, PageStep
<1>3. /\ UNCHANGED <<status, createdAt, undone>> /\ Rows' = Rows /\ paging # "finished"
      /\ there' = IF paging = "before" THEN Rows ELSE there
      /\ adrift' = (adrift \/ cursor \notin Rows \cup {NoCursor})
  BY DEF ReadPage, clock, table, Rows
<1>4. paging \in {"before", "listing"} /\ adrift \in BOOLEAN /\ there \subseteq Jobs
  BY <1>1, <1>3, Zenon DEF TypeOK
<1>5. Lasting'
  <2>1. CASE paging = "before" BY <1>3, <2>1 DEF Lasting, Rows
  <2>2. CASE paging = "listing" BY <1>3, <2>2 DEF PageInv, Lasting
  <2> QED BY <1>4, <2>1, <2>2
\* A lasting job is on an earlier page, on this one, or below the cursor still.
<1>6. ASSUME adrift' = FALSE, NEW j \in there' \cap Rows', j \notin page
      PROVE  times'[j] = 1 \/ j \in BelowCursor(cursor)
  <2>1. j \in Jobs /\ j \in Rows /\ times'[j] = times[j] BY <1>2, <1>3, <1>6 DEF Rows
  <2>2. CASE paging = "before"
    BY <1>1, <2>1, <2>2 DEF OnceInv, NotBegun, BelowCursor
  <2>3. CASE paging = "listing"
    <3>1. adrift = FALSE /\ cursor \in Rows \cup {NoCursor} BY <1>3, <1>4, <1>6, Zenon
    <3>2. cursor \in Rows BY <1>1, <2>3, <3>1, JobsAssumption DEF OnceInv, ListedAbove
    <3>3. j \in there BY <1>3, <1>6, <2>3
    <3>4. times[j] = 1 \/ Above(cursor, j) BY <2>1, <2>3, <3>1, <3>3 DEF PageInv, LeftBelow
    <3> QED BY <2>1, <3>2, <3>4 DEF BelowCursor
  <2> QED BY <1>4, <2>2, <2>3
<1>7. LeftBelow'
  <2>1. ASSUME paging' = "listing", adrift' = FALSE, NEW j \in there' \cap Rows'
        PROVE  times'[j] = 1 \/ Above(cursor', j)
    BY <1>2, <1>6, <2>1
  <2>2. \A j \in Jobs : Above(cursor, j)' <=> Above(cursor', j) BY <1>3 DEF Above
  <2>3. Rows' \subseteq Jobs BY DEF Rows
  <2> QED BY <2>1, <2>2, <2>3, Zenon DEF LeftBelow
<1>8. LastingJobsAreListed'
  <2> SUFFICES ASSUME paging' = "finished", ~adrift', NEW j \in there' \cap Rows'
               PROVE  times'[j] = 1
    BY DEF LastingJobsAreListed
  <2>1. adrift' = FALSE BY <1>3, <1>4, Zenon
  <2>2. page = BelowCursor(cursor) BY <1>2
  <2> QED BY <1>2, <1>6, <2>1, <2>2
<1> QED BY <1>5, <1>7, <1>8

LEMMA PageNext == PageInv /\ [Next]_vars => PageInv'
<1> SUFFICES ASSUME PageInv, [Next]_vars PROVE PageInv'
  OBVIOUS
<1>0. OnceInv /\ OnceInv' /\ TypeInv BY OnceNext DEF PageInv, OnceInv
<1>1. Gone /\ LinkInv' BY LinkNext DEF PageInv, LinkInv
<1>2. CASE \E limit \in 1..MaxLimit : ReadPage(limit)
  BY <1>0, <1>1, <1>2, PageLeaves DEF PageInv
<1>3. CASE ~\E limit \in 1..MaxLimit : ReadPage(limit)
  <2>1. /\ UNCHANGED <<paging, cursor, times, there, adrift>>
        /\ \A j \in Jobs : createdAt[j] > 0 => createdAt'[j] = createdAt[j]
    BY <1>0, <1>3, OutsideListing
  <2>2. Lasting' /\ \A j \in there : j \in Rows' => j \in Rows
    BY <1>0, <1>1, <2>1, LastingKept DEF PageInv
  <2>3. LastingJobsAreListed' BY <2>1, <2>2 DEF PageInv, LastingJobsAreListed
  <2>4. ASSUME paging' = "listing", adrift' = FALSE, NEW j \in there' \cap Rows'
        PROVE  times'[j] = 1 \/ Above(cursor, j)'
    <3>1. j \in Rows /\ j \in Jobs /\ (times[j] = 1 \/ Above(cursor, j))
      BY <2>1, <2>2, <2>4 DEF PageInv, LeftBelow, Rows
    <3>2. cursor \in Jobs /\ createdAt[cursor] > 0
      BY <2>1, <2>4 DEF PageInv, OnceInv, ListedAbove
    <3>3. createdAt[j] > 0 BY <1>0, <3>1, TypeParts DEF Numbers, Rows
    <3> QED BY <2>1, <3>1, <3>2, <3>3 DEF Above
  <2> QED BY <1>0, <1>1, <2>2, <2>3, <2>4 DEF PageInv, LeftBelow
<1> QED BY <1>2, <1>3

\* A listing that followed its cursors to the end has shown every job that was there
\* throughout, unless a cursor lost its row (jobs.ts:214-224): for any history, any
\* page sizes, and stamps that tie or arrive late.
THEOREM NothingSkipped == Spec => []LastingJobsAreListed
<1>1. PageInv => LastingJobsAreListed BY DEF PageInv
<1> QED BY <1>1, PageInit, PageNext, PTL DEF Spec
=============================================================================
