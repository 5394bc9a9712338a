------------------------------ MODULE Refusals ------------------------------
(***************************************************************************)
(* How a refusal becomes an HTTP answer (src/gateway/src/lib/errors.ts): the  *)
(* one table of domain errors, and what the error handler makes of anything   *)
(* thrown that is not in it.                                                  *)
(***************************************************************************)
EXTENDS Integers

\* RENDERERS: the status of every refusal the gateway defines.
RENDERERS ==
  [ Unauthenticated  |-> 401, MissingCredentials |-> 401, InvalidCredentials |-> 401,
    MissingApiKey    |-> 401, InvalidApiKey      |-> 401, RevokedApiKey      |-> 401,
    EmailTaken       |-> 409, NotFound           |-> 404, InvalidParameter   |-> 400,
    ValidationFailed |-> 422, RateLimited        |-> 429, PendingCapExceeded |-> 429,
    QueueFull        |-> 503, IdempotencyConflict |-> 409,
    JobFailed        |-> 409, JobNotReady        |-> 409,
    TextEmpty        |-> 422, TextTooLong        |-> 422, TextNotBengali     |-> 422 ]

DomainErrors == DOMAIN RENDERERS

\* Whatever else is thrown under a handler: a dependency that did not answer, or
\* a violated constraint nobody translated.
Faults == {"StorageUnavailable", "DatabaseError", "UniqueViolation"}

\* errorHandler: a domain error has its status, a body that does not parse is a
\* 400, everything else a 500.
StatusOf(err) == CASE err \in DomainErrors -> RENDERERS[err]
                   [] err = "SyntaxError"  -> 400
                   [] OTHER                -> 500
=============================================================================
