--------------------------- MODULE AccountsProofs ---------------------------
(***************************************************************************)
(* Proofs about Accounts, for any sets of emails and of requests.            *)
(***************************************************************************)
EXTENDS Accounts, TLAPS

\* The answers the handlers give.
LEMMA AnswerNames ==
  {"none", "Created", "Listed", "NoContent", "OK", "ValidationFailed", "EmailTaken",
   "MissingCredentials", "InvalidCredentials", "NotFound", "MissingApiKey",
   "InvalidApiKey", "RevokedApiKey", "DatabaseError", "UniqueViolation"} \subseteq Answers
  BY DEF Answers, DomainErrors, RENDERERS, Faults

-----------------------------------------------------------------------------
(* Where each kind of request may be, and what it has brought by then.        *)

RegistrationInv == \A r \in Registrations :
  /\ at[r] \in {"new", "find", "insert", "answered"}
  /\ at[r] \in {"find", "insert"} => email[r] \in Emails

ManagementInv == \A m \in Managements :
  /\ at[m] \in {"new", "create", "list", "revoke", "answered"}
  /\ at[m] \in {"create", "list", "revoke"} => email[m] \in Emails
  /\ at[m] = "revoke" => key[m] \in Keys
  /\ at[m] \in {"new", "create"} => owner[m] = Nobody

UseInv == \A u \in Uses :
  /\ at[u] \in {"new", "lookup", "answered"}
  /\ at[u] = "lookup" \/ u \in touching => key[u] \in Keys

Silence == \A r \in Requests : at[r] # "answered" => reply[r] = "none"

\* Whoever was told 201 has the row of its email; whoever was told 204 revoked a
\* key of its own.
OpenedInv == \A r \in Registrations :
  reply[r] = "Created" => email[r] \in Emails /\ holder[email[r]] = r

StoodInv == \A m \in Managements : reply[m] = "NoContent" =>
  key[m] \in Keys /\ email[m] \in Emails /\ revokedBy[key[m]] = m /\ OwnKey(m)

\* A use that came after a 204 finds its key revoked, now and ever after.
LateInv == \A u \in late :
  /\ at[u] # "new" /\ key[u] \in Keys /\ revokedBy[key[u]] # Nobody
  /\ at[u] = "answered" => reply[u] \in {"RevokedApiKey", "DatabaseError"}

Inv == /\ TypeOK /\ RegistrationInv /\ ManagementInv /\ UseInv /\ Silence
       /\ OpenedInv /\ StoodInv /\ LateInv

LEMMA InvInit == Init => Inv
  BY RequestsAssumption, AnswerNames
     DEF Init, Inv, TypeOK, RegistrationInv, ManagementInv, UseInv, Silence, OpenedInv,
         StoodInv, LateInv, Points, Keys, Requests

-----------------------------------------------------------------------------
(* One lemma for each kind of request.                                        *)

LEMMA UnavailableKeeps ==
  ASSUME Inv, NEW r \in Requests, Unavailable(r) PROVE Inv'
<1> USE RequestsAssumption, AnswerNames DEF Requests
<1>1. /\ at' = [at EXCEPT ![r] = "answered"] /\ reply' = [reply EXCEPT ![r] = "DatabaseError"]
      /\ UNCHANGED <<email, key, holder, owner, revokedBy, lastUsed, touching, late>>
      /\ at[r] \in Points \ {"new", "answered"}
  BY DEF Unavailable, Answer, BringNothing, tables
<1> HIDE DEF Requests
<1>2. TypeOK' BY <1>1 DEF Inv, TypeOK, Points
<1>3. RegistrationInv' /\ ManagementInv' /\ UseInv'
  BY <1>1 DEF Inv, TypeOK, RegistrationInv, ManagementInv, UseInv, Requests, Keys
<1>4. Silence' /\ OpenedInv' /\ StoodInv'
  BY <1>1 DEF Inv, TypeOK, Silence, OpenedInv, StoodInv, Requests, OwnKey
<1>5. LateInv' BY <1>1 DEF Inv, TypeOK, LateInv, Requests
<1> QED BY <1>2, <1>3, <1>4, <1>5 DEF Inv

LEMMA RegistrationKeeps ==
  ASSUME Inv, NEW r \in Registrations, Register(r) \/ FindEmail(r) \/ CreateUser(r)
  PROVE  Inv'
<1> USE RequestsAssumption, AnswerNames
<1>1. r \in Requests /\ r \notin Managements /\ r \notin Uses BY DEF Requests
<1>2. /\ UNCHANGED <<owner, revokedBy, lastUsed, touching, late>>
      /\ \A q \in Requests \ {r} :
           UNCHANGED <<at[q], reply[q], email[q], key[q]>>
  BY <1>1 DEF Register, FindEmail, CreateUser, Answer, Goto, Bring, BringNothing, tables,
              Inv, TypeOK
<1>3. TypeOK'
  <2>1. CASE Register(r)
    BY <2>1, <1>1 DEF Register, Answer, Goto, Bring, BringNothing, tables, Inv, TypeOK, Points
  <2>2. CASE FindEmail(r)
    BY <2>2, <1>1 DEF FindEmail, Answer, Goto, BringNothing, tables, Inv, TypeOK, Points
  <2>3. CASE CreateUser(r)
    BY <2>3, <1>1 DEF CreateUser, Answer, BringNothing, Inv, TypeOK, Points, RegistrationInv
  <2> QED BY <2>1, <2>2, <2>3
<1>4. RegistrationInv'
  <2>1. CASE Register(r)
    BY <2>1, <1>1 DEF Register, Answer, Goto, Bring, BringNothing, Inv, TypeOK, RegistrationInv, Requests
  <2>2. CASE FindEmail(r)
    BY <2>2, <1>1 DEF FindEmail, Answer, Goto, BringNothing, Inv, TypeOK, RegistrationInv, Requests
  <2>3. CASE CreateUser(r)
    BY <2>3, <1>1 DEF CreateUser, Answer, BringNothing, Inv, TypeOK, RegistrationInv, Requests
  <2> QED BY <2>1, <2>2, <2>3
<1>5. ManagementInv' /\ UseInv'
  BY <1>1, <1>2 DEF Inv, ManagementInv, UseInv, Requests, Keys
<1>6. Silence'
  BY <1>1, <1>2 DEF Register, FindEmail, CreateUser, Answer, Goto, Inv, TypeOK, Silence
<1>7. OpenedInv'
  <2>1. CASE Register(r)
    BY <2>1, <1>1, <1>2 DEF Register, Answer, Goto, tables, Inv, TypeOK, Silence, OpenedInv, Requests
  <2>2. CASE FindEmail(r)
    BY <2>2, <1>1, <1>2 DEF FindEmail, Answer, Goto, tables, Inv, TypeOK, Silence, OpenedInv, Requests
  <2>3. CASE CreateUser(r)
    BY <2>3, <1>1, <1>2 DEF CreateUser, Answer, BringNothing, Inv, TypeOK, OpenedInv,
                            RegistrationInv, Requests
  <2> QED BY <2>1, <2>2, <2>3
<1>8. StoodInv' /\ LateInv'
  <2>1. StoodInv'
    BY <1>1, <1>2 DEF Inv, StoodInv, OwnKey, Requests
  <2>2. late \subseteq Uses BY DEF Inv, TypeOK
  <2>3. LateInv' BY <1>1, <1>2, <2>2 DEF Inv, LateInv, Requests
  <2> QED BY <2>1, <2>3
<1> QED BY <1>3, <1>4, <1>5, <1>6, <1>7, <1>8 DEF Inv

LEMMA ManagementKeeps ==
  ASSUME Inv, NEW m \in Managements,
         SignIn(m) \/ CreateKey(m) \/ ListKeys(m) \/ RevokeKey(m)
  PROVE  Inv'
<1> USE RequestsAssumption, AnswerNames
<1>1. m \in Requests /\ m \in Keys /\ m \notin Registrations /\ m \notin Uses
  BY DEF Requests, Keys
<1>2. /\ UNCHANGED <<holder, lastUsed, touching, late>>
      /\ \A q \in Requests \ {m} :
           UNCHANGED <<at[q], reply[q], email[q], key[q]>>
  BY <1>1 DEF SignIn, CreateKey, ListKeys, RevokeKey, Revoke, Answer, Goto, Bring,
              BringNothing, tables, Inv, TypeOK
<1>3. RegistrationInv' /\ UseInv' /\ OpenedInv'
  BY <1>1, <1>2 DEF Inv, RegistrationInv, UseInv, OpenedInv, Requests
<1>4. CASE SignIn(m)
  <2>1. TypeOK'
    BY <1>4, <1>1 DEF SignIn, Answer, Goto, Bring, BringNothing, tables, Inv, TypeOK, Points
  <2>2. ManagementInv'
    BY <1>4, <1>1, <1>2 DEF SignIn, Answer, Goto, Bring, BringNothing, tables, Inv, TypeOK,
                            ManagementInv, Requests
  <2>3. Silence' /\ StoodInv'
    BY <1>4, <1>1, <1>2 DEF SignIn, Answer, Goto, tables, Inv, TypeOK, Silence, StoodInv,
                            OwnKey, Requests
  <2>4. LateInv'
    BY <1>4, <1>1, <1>2 DEF SignIn, tables, Inv, TypeOK, LateInv, Requests
  <2> QED BY <1>3, <2>1, <2>2, <2>3, <2>4 DEF Inv
<1>5. CASE CreateKey(m)
  <2>1. email[m] \in Emails /\ owner[m] = Nobody BY <1>5 DEF CreateKey, Inv, ManagementInv
  <2>2. TypeOK'
    BY <1>5, <1>1, <2>1 DEF CreateKey, Answer, BringNothing, Inv, TypeOK, Points
  <2>3. ManagementInv'
    BY <1>5, <1>1, <1>2 DEF CreateKey, Answer, BringNothing, Inv, TypeOK, ManagementInv,
                            Requests, Keys
  <2>4. Silence'
    BY <1>5, <1>1, <1>2 DEF CreateKey, Answer, Inv, TypeOK, Silence
  \* The key that is created had no owner, so that nobody has revoked it.
  <2>5. StoodInv'
    BY <1>5, <1>1, <1>2, <2>1 DEF CreateKey, Answer, BringNothing, Inv, TypeOK, StoodInv,
                                  OwnKey, Requests
  <2>6. LateInv'
    BY <1>5, <1>1, <1>2 DEF CreateKey, Inv, TypeOK, LateInv, Requests
  <2> QED BY <1>3, <2>2, <2>3, <2>4, <2>5, <2>6 DEF Inv
<1>6. CASE ListKeys(m)
  <2>1. TypeOK'
    BY <1>6, <1>1 DEF ListKeys, Answer, BringNothing, tables, Inv, TypeOK, Points
  <2>2. ManagementInv'
    BY <1>6, <1>1, <1>2 DEF ListKeys, Answer, BringNothing, tables, Inv, TypeOK,
                            ManagementInv, Requests
  <2>3. Silence' /\ StoodInv'
    BY <1>6, <1>1, <1>2 DEF ListKeys, Answer, BringNothing, tables, Inv, TypeOK, Silence,
                            StoodInv, OwnKey, Requests
  <2>4. LateInv'
    BY <1>6, <1>1, <1>2 DEF ListKeys, tables, Inv, TypeOK, LateInv, Requests
  <2> QED BY <1>3, <2>1, <2>2, <2>3, <2>4 DEF Inv
<1>7. CASE RevokeKey(m)
  <2> USE <1>7, <1>1, <1>2 DEF RevokeKey, Revoke
  <2>1. email[m] \in Emails /\ key[m] \in Keys BY DEF Inv, ManagementInv
  <2>2. TypeOK'
    BY <2>1 DEF Answer, BringNothing, OwnKey, Inv, TypeOK, Points
  <2>3. ManagementInv'
    BY DEF Answer, BringNothing, Inv, TypeOK, ManagementInv, Requests
  <2>4. Silence' BY DEF Answer, Inv, TypeOK, Silence
  \* Only a key that nobody has revoked is revoked: no earlier 204 is overwritten.
  <2>5. \A k \in Keys : revokedBy[k] # Nobody => revokedBy'[k] = revokedBy[k]
    BY <2>1 DEF Inv, TypeOK
  <2>6. ASSUME NEW n \in Managements, n # m, reply'[n] = "NoContent"
        PROVE  /\ key'[n] \in Keys /\ email'[n] \in Emails
               /\ revokedBy'[key'[n]] = n /\ OwnKey(n)'
    BY <2>5, <2>6 DEF Inv, StoodInv, OwnKey, Requests
  <2>7. ASSUME reply'[m] = "NoContent"
        PROVE  /\ key'[m] \in Keys /\ email'[m] \in Emails
               /\ revokedBy'[key'[m]] = m /\ OwnKey(m)'
    BY <2>1, <2>7 DEF Answer, BringNothing, OwnKey, Inv, TypeOK
  <2>8. StoodInv' BY <2>6, <2>7 DEF StoodInv
  <2>9. LateInv' BY <2>5 DEF Inv, TypeOK, LateInv, Requests
  <2> QED BY <1>3, <2>2, <2>3, <2>4, <2>8, <2>9 DEF Inv
<1> QED BY <1>4, <1>5, <1>6, <1>7

LEMMA UseKeeps ==
  ASSUME Inv, NEW u \in Uses, Present(u) \/ LookUpKey(u) \/ Touch(u)
  PROVE  Inv'
<1> USE RequestsAssumption, AnswerNames
<1>1. u \in Requests /\ u \notin Registrations /\ u \notin Managements
  BY DEF Requests
<1>2. /\ UNCHANGED <<holder, owner, revokedBy>>
      /\ \A q \in Requests \ {u} :
           UNCHANGED <<at[q], reply[q], email[q], key[q]>>
  BY <1>1 DEF Present, LookUpKey, Touch, Serve, Answer, Goto, Bring, BringNothing, tables,
              handler, Inv, TypeOK
<1>3. RegistrationInv' /\ ManagementInv' /\ OpenedInv' /\ StoodInv'
  BY <1>1, <1>2 DEF Inv, RegistrationInv, ManagementInv, OpenedInv, StoodInv, OwnKey, Requests
<1>4. CASE Present(u)
  <2>1. Shown \subseteq Keys BY DEF Shown
  <2>2. TypeOK'
    BY <1>4, <1>1, <2>1 DEF Present, Answer, Goto, Bring, BringNothing, tables, Inv, TypeOK,
                            Points
  <2>3. UseInv'
    BY <1>4, <1>1, <1>2, <2>1 DEF Present, Answer, Goto, Bring, BringNothing, tables, Inv,
                                  TypeOK, UseInv, Requests
  <2>4. Silence'
    BY <1>4, <1>1, <1>2 DEF Present, Answer, Goto, Inv, TypeOK, Silence
  \* A key whose 204 was seen is revoked.
  <2>5. \A k \in Retired : revokedBy[k] # Nobody
    BY DEF Retired, Inv, StoodInv
  <2>6. u \notin late BY <1>4 DEF Present, Inv, LateInv
  <2>7. LateInv'
    BY <1>4, <1>1, <1>2, <2>1, <2>5, <2>6
       DEF Present, Answer, Goto, Bring, Inv, TypeOK, LateInv, Requests
  <2> QED BY <1>3, <2>2, <2>3, <2>4, <2>7 DEF Inv
<1>5. CASE LookUpKey(u)
  <2>1. TypeOK'
    BY <1>5, <1>1 DEF LookUpKey, Serve, Answer, BringNothing, tables, Inv, TypeOK, Points
  <2>2. UseInv'
    BY <1>5, <1>1, <1>2 DEF LookUpKey, Serve, Answer, BringNothing, Inv, TypeOK, UseInv,
                            Requests
  <2>3. Silence'
    BY <1>5, <1>1, <1>2 DEF LookUpKey, Serve, Answer, Inv, TypeOK, Silence
  <2>4. LateInv'
    BY <1>5, <1>1, <1>2 DEF LookUpKey, Answer, BringNothing, Inv, TypeOK, LateInv, Requests
  <2> QED BY <1>3, <2>1, <2>2, <2>3, <2>4 DEF Inv
<1>6. CASE Touch(u)
  <2>1. UNCHANGED <<handler, late>> /\ touching' \subseteq touching
    BY <1>6 DEF Touch
  <2>2. TypeOK'
    BY <1>6, <1>1, <2>1 DEF Touch, handler, Inv, TypeOK, UseInv
  <2>3. UseInv' /\ Silence' /\ LateInv'
    BY <1>1, <1>2, <2>1 DEF handler, Inv, UseInv, Silence, LateInv
  <2> QED BY <1>3, <2>2, <2>3 DEF Inv
<1> QED BY <1>4, <1>5, <1>6

LEMMA InvNext == Inv /\ [Next]_vars => Inv'
<1> SUFFICES ASSUME Inv, [Next]_vars PROVE Inv'
  OBVIOUS
<1>1. CASE UNCHANGED vars
  BY <1>1 DEF vars, tables, handler, Inv, TypeOK, RegistrationInv, ManagementInv, UseInv,
              Silence, OpenedInv, StoodInv, LateInv, OwnKey
<1>2. ASSUME NEW r \in Requests, Unavailable(r) PROVE Inv'
  BY <1>2, UnavailableKeeps
<1>3. ASSUME NEW r \in Registrations, Register(r) \/ FindEmail(r) \/ CreateUser(r)
      PROVE  Inv'
  BY <1>3, RegistrationKeeps
<1>4. ASSUME NEW m \in Managements,
             SignIn(m) \/ CreateKey(m) \/ ListKeys(m) \/ RevokeKey(m)
      PROVE  Inv'
  BY <1>4, ManagementKeeps
<1>5. ASSUME NEW u \in Uses, Present(u) \/ LookUpKey(u) \/ Touch(u) PROVE Inv'
  BY <1>5, UseKeeps
<1> QED BY <1>1, <1>2, <1>3, <1>4, <1>5 DEF Next

LEMMA InvAlways == Spec => []Inv
  BY InvInit, InvNext, PTL DEF Spec

-----------------------------------------------------------------------------
(* The theorems. *)

\* Every variable keeps its type, and a revoked key has an owner.
THEOREM TypeCorrect == Spec => []TypeOK
<1>1. Inv => TypeOK BY DEF Inv
<1> QED BY <1>1, InvAlways, PTL

\* However many registrations of an email race, the one that was told 201 is
\* the one whose password opens the account (auth.ts:18-27).
THEOREM CreatedOpens == Spec => []CreatedOpensAccount
<1>1. Inv => CreatedOpensAccount BY DEF Inv, OpenedInv, CreatedOpensAccount
<1> QED BY <1>1, InvAlways, PTL

\* A 204 goes to one request of the key's owner, and nothing undoes what it says
\* (keys.ts:38-50).
THEOREM RevocationStays == Spec => []RevocationStands
<1>1. Inv => RevocationStands BY DEF Inv, StoodInv, RevocationStands
<1> QED BY <1>1, InvAlways, PTL

\* Nobody who presents a key after the 204 for it is served (middleware/auth.ts
\* :65-92), however late the updates of last_used_at land.
THEOREM RevokedRefused == Spec => []RevokedIsRefused
<1>1. Inv => RevokedIsRefused BY DEF Inv, LateInv, RevokedIsRefused
<1> QED BY <1>1, InvAlways, PTL
=============================================================================
