------------------------------ MODULE Accounts ------------------------------
(***************************************************************************)
(* Accounts and API keys: registration (routes/auth.ts), key management under *)
(* Basic auth (routes/keys.ts) and the Bearer check in front of every other   *)
(* route (middleware/auth.ts), with any number of requests in flight.  A step  *)
(* is what a handler does between two awaits, or one statement of PostgreSQL.  *)
(*                                                                         *)
(* A registration inserts at most one row and a management request at most    *)
(* one key, so that a request also names the row it may insert.               *)
(***************************************************************************)
EXTENDS Refusals

CONSTANTS
  Emails,
  Registrations, \* POST /v1/auth/register; each sends a password of its own
  Managements,   \* requests on /v1/keys
  Uses,          \* requests that present an API key (GET /v1/me)
  Nobody

ASSUME RequestsAssumption ==
  /\ Registrations \cap Managements = {}
  /\ Uses \cap (Registrations \cup Managements) = {}
  /\ Nobody \notin Registrations \cup Managements \cup Uses \cup Emails

Requests == Registrations \cup Managements \cup Uses

\* A key is named for the request that generates it; its hash finds its row.
Keys == Managements

VARIABLES
  holder,        \* holder[e]: the registration whose row has the email e
  owner,         \* owner[k]: the email of the user whose key k is
  revokedBy,     \* revokedBy[k]: the request that set revoked_at
  lastUsed,      \* lastUsed[k]: has last_used_at been written
  at, reply,
  email,         \* the email a request registers or signs in with
  key,           \* the key a request revokes or presents
  touching,      \* accepted uses whose last_used_at UPDATE is under way
  late           \* uses that arrived after a 204 for their key

tables  == <<holder, owner, revokedBy, lastUsed>>
handler == <<at, reply, email, key>>
vars    == <<tables, handler, touching, late>>

Answers == {"none", "Created", "Listed", "NoContent", "OK"} \cup DomainErrors \cup Faults
Points  == {"new", "find", "insert", "create", "list", "revoke", "lookup", "answered"}

TypeOK ==
  /\ holder    \in [Emails -> Registrations \cup {Nobody}]
  /\ owner     \in [Keys -> Emails \cup {Nobody}]
  /\ revokedBy \in [Keys -> Managements \cup {Nobody}]
  /\ lastUsed  \in [Keys -> BOOLEAN]
  /\ at        \in [Requests -> Points]
  /\ reply     \in [Requests -> Answers]
  /\ email     \in [Requests -> Emails \cup {Nobody}]
  /\ key       \in [Requests -> Keys \cup {Nobody}]
  /\ touching \subseteq Uses /\ late \subseteq Uses
  /\ \A k \in Keys : revokedBy[k] # Nobody => owner[k] # Nobody

Init ==
  /\ holder    = [e \in Emails |-> Nobody]
  /\ owner     = [k \in Keys |-> Nobody]
  /\ revokedBy = [k \in Keys |-> Nobody]
  /\ lastUsed  = [k \in Keys |-> FALSE]
  /\ at        = [r \in Requests |-> "new"]
  /\ reply     = [r \in Requests |-> "none"]
  /\ email     = [r \in Requests |-> Nobody]
  /\ key       = [r \in Requests |-> Nobody]
  /\ touching  = {} /\ late = {}

-----------------------------------------------------------------------------
Goto(r, point)   == at' = [at EXCEPT ![r] = point] /\ UNCHANGED reply
Answer(r, what)  == at' = [at EXCEPT ![r] = "answered"] /\ reply' = [reply EXCEPT ![r] = what]
Bring(r, e, k)   == email' = [email EXCEPT ![r] = e] /\ key' = [key EXCEPT ![r] = k]
BringNothing     == UNCHANGED <<email, key>>

\* A 2xx a client has seen: a key is known to nobody before its 201.
Shown   == {k \in Keys : reply[k] = "Created"}
Retired == {key[m] : m \in {n \in Managements : reply[n] = "NoContent"}}

\* Any await on the database may fail.
Unavailable(r) ==
  /\ at[r] \in Points \ {"new", "answered"}
  /\ Answer(r, "DatabaseError")
  /\ BringNothing
  /\ UNCHANGED <<tables, touching, late>>

-----------------------------------------------------------------------------
(* POST /v1/auth/register. *)

Register(r) ==
  /\ at[r] = "new"
  /\ \/ Answer(r, "ValidationFailed") /\ BringNothing
     \/ \E e \in Emails : Goto(r, "find") /\ Bring(r, e, Nobody)
  /\ UNCHANGED <<tables, touching, late>>

\* findUnique; then the hash of the password is awaited.
FindEmail(r) ==
  /\ at[r] = "find"
  /\ IF holder[email[r]] # Nobody THEN Answer(r, "EmailTaken") ELSE Goto(r, "insert")
  /\ BringNothing
  /\ UNCHANGED <<tables, touching, late>>

\* user.create: the unique index on email has the last word.  The row may be
\* there although the reply of the database was lost.
UpsertUser(r) ==
  /\ at[r] = "insert"
  /\ holder' = [holder EXCEPT ![email[r]] = r]
  /\ Answer(r, "Created")
  /\ BringNothing
  /\ UNCHANGED <<owner, revokedBy, lastUsed, touching, late>>

CreateUser(r) ==
  /\ at[r] = "insert"
  /\ IF holder[email[r]] = Nobody
     THEN /\ holder' = [holder EXCEPT ![email[r]] = r]
          /\ Answer(r, "Created") \/ Answer(r, "DatabaseError")
     ELSE Answer(r, "UniqueViolation") /\ UNCHANGED holder
  /\ BringNothing
  /\ UNCHANGED <<owner, revokedBy, lastUsed, touching, late>>

-----------------------------------------------------------------------------
(* /v1/keys. *)

\* basicAuth: the row of the email and its password hash are read at once, and
\* neither changes afterwards; an unknown email and a wrong password are told
\* apart by nothing.
SignIn(m) ==
  /\ at[m] = "new"
  /\ \/ Answer(m, "MissingCredentials") /\ BringNothing
     \/ Answer(m, "InvalidCredentials") /\ BringNothing
     \/ Answer(m, "DatabaseError") /\ BringNothing
     \/ \E e \in Emails, k \in Keys :
          /\ holder[e] # Nobody
          /\ \/ Goto(m, "create") /\ Bring(m, e, Nobody)
             \/ Goto(m, "list")   /\ Bring(m, e, Nobody)
             \/ Goto(m, "revoke") /\ Bring(m, e, k)
  /\ UNCHANGED <<tables, touching, late>>

\* POST: 201 is the only answer that holds the key.
CreateMisfiled(m) ==
  /\ at[m] = "create"
  /\ owner' = [owner EXCEPT ![m] = m]
  /\ Answer(m, "Created")
  /\ BringNothing
  /\ UNCHANGED <<holder, revokedBy, lastUsed, touching, late>>

CreateKey(m) ==
  /\ at[m] = "create"
  /\ owner' = [owner EXCEPT ![m] = email[m]]
  /\ Answer(m, "Created") \/ Answer(m, "DatabaseError")
  /\ BringNothing
  /\ UNCHANGED <<holder, revokedBy, lastUsed, touching, late>>

ListKeys(m) ==
  /\ at[m] = "list"
  /\ Answer(m, "Listed")
  /\ BringNothing
  /\ UNCHANGED <<tables, touching, late>>

\* DELETE: one UPDATE on the caller's own, not yet revoked key, and its count.
OwnKey(m)  == owner[key[m]] = email[m]
Revoke(m, mine) ==
  /\ at[m] = "revoke"
  /\ IF mine
     THEN /\ revokedBy' = [revokedBy EXCEPT ![key[m]] = m]
          /\ Answer(m, "NoContent") \/ Answer(m, "DatabaseError")
     ELSE Answer(m, "NotFound") /\ UNCHANGED revokedBy
  /\ BringNothing
  /\ UNCHANGED <<holder, owner, lastUsed, touching, late>>

RevokeKeyAgain(m) == Revoke(m, OwnKey(m))
RevokeKey(m)      == Revoke(m, OwnKey(m) /\ revokedBy[key[m]] = Nobody)

-----------------------------------------------------------------------------
(* apiKeyAuth and what follows it. *)

\* The header is missing, no key of this service, or a key a client was shown.
Present(u) ==
  /\ at[u] = "new"
  /\ \/ /\ Answer(u, "MissingApiKey") \/ Answer(u, "InvalidApiKey")
        /\ BringNothing
        /\ UNCHANGED late
     \/ \E k \in Shown :
          /\ Goto(u, "lookup")
          /\ Bring(u, Nobody, k)
          /\ late' = IF k \in Retired THEN late \cup {u} ELSE late
  /\ UNCHANGED <<tables, touching>>

\* The route's own handler, here GET /v1/me.
Serve(u) == Answer(u, "OK")

\* The row of the key's hash; for a live key last_used_at is written without
\* waiting for it, and the route's handler answers.
LookUpKey(u) ==
  /\ at[u] = "lookup"
  /\ IF revokedBy[key[u]] # Nobody
     THEN Answer(u, "RevokedApiKey") /\ UNCHANGED touching
     ELSE Serve(u) /\ touching' = touching \cup {u}
  /\ BringNothing
  /\ UNCHANGED <<tables, late>>

\* The UPDATE lands, whatever became of the key meanwhile, or fails silently.
TouchRecord(u) ==
  /\ u \in touching
  /\ touching' = touching \ {u}
  /\ revokedBy' = [revokedBy EXCEPT ![key[u]] = Nobody]
  /\ UNCHANGED <<holder, owner, lastUsed, handler, late>>

Touch(u) ==
  /\ u \in touching
  /\ touching' = touching \ {u}
  /\ \/ lastUsed' = [lastUsed EXCEPT ![key[u]] = TRUE]
     \/ UNCHANGED lastUsed
  /\ UNCHANGED <<holder, owner, revokedBy, handler, late>>

-----------------------------------------------------------------------------
Next ==
  \/ \E r \in Requests : Unavailable(r)
  \/ \E r \in Registrations : Register(r) \/ FindEmail(r) \/ CreateUser(r)
  \/ \E m \in Managements : SignIn(m) \/ CreateKey(m) \/ ListKeys(m) \/ RevokeKey(m)
  \/ \E u \in Uses : Present(u) \/ LookUpKey(u) \/ Touch(u)

Spec == Init /\ [][Next]_vars

-----------------------------------------------------------------------------
(* Properties. *)

\* Two registrations of one email may both pass the check before either inserts
\* (auth.ts:20-25): still at most one is told 201, and it is the one whose
\* password opens the account from then on.
CreatedOpensAccount ==
  \A r \in Registrations : reply[r] = "Created" => holder[email[r]] = r

\* One 204 for each key, to a request of its owner (keys.ts:39-49); no other
\* request, nor an UPDATE of last_used_at that lands later, ever undoes it.
RevocationStands ==
  \A m \in Managements : reply[m] = "NoContent" =>
    revokedBy[key[m]] = m /\ OwnKey(m)

\* Revoking a key "takes effect immediately" (README.md:168): whoever presents
\* it after the 204 is told so, or gets a 500, and is never served.
RevokedIsRefused ==
  \A u \in late : at[u] = "answered" => reply[u] \in {"RevokedApiKey", "DatabaseError"}
=============================================================================
