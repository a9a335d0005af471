----------------------------- MODULE MCApproval -----------------------------
(* Instances of Approval for TLC. *)
EXTENDS Approval, TLC

CONSTANTS r1, r2

\* The exact scope of each request, and one that covers both.
MCScopes == {{r1}, {r1, r2}}

Symmetric == Permutations(Asks) \cup Permutations(Decisions)
=============================================================================
