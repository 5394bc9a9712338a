---------------------------- MODULE MCSubmission ----------------------------
(* Small instances of Submission for TLC: who sends which request. *)
EXTENDS Submission, TLC

CONSTANTS r1, r2, r3, r4, ann, bob, k1, g1, g2

\* Ann sends three requests, bob one; ann sends all.
MixedOwner == [r \in Jobs |-> IF r = r4 THEN bob ELSE ann]
OneOwner   == [r \in Jobs |-> ann]

\* Two of ann's requests and bob's meet on one gateway, the third of ann's is on
\* another; two and two.
MixedOn == [r \in Jobs |-> IF r = r3 THEN g2 ELSE g1]
PairsOn == [r \in Jobs |-> IF r \in {r1, r3} THEN g1 ELSE g2]

\* No request carries a key; two of ann's carry the same one; all carry it.
NoKeys   == [r \in Jobs |-> NoKey]
MixedKey == [r \in Jobs |-> IF r \in {r1, r2} THEN k1 ELSE NoKey]
OneKey   == [r \in Jobs |-> k1]

\* A text that just meets the rules and one that just breaks them.
hello  == <<"bengali", "space", "other">>
mumble == <<"bengali", "space", "other", "other">>

\* All texts equal; two equal, one missing and one the text rules reject.
OneText    == [r \in Jobs |-> hello]
RetryTexts == [r \in Jobs |-> CASE r \in {r1, r2} -> hello
                                [] r = r3 -> Malformed
                                [] OTHER  -> mumble]

\* Requests that differ in nothing but their name.
Interchangeable == Permutations({r1, r2})
=============================================================================
