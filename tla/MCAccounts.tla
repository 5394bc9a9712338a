----------------------------- MODULE MCAccounts -----------------------------
(* Small instances of Accounts for TLC. *)
EXTENDS Accounts, TLC

\* Requests of one kind, and emails, differ in nothing but their names.
Interchangeable ==
  Permutations(Emails) \cup Permutations(Registrations)
    \cup Permutations(Managements) \cup Permutations(Uses)
=============================================================================
