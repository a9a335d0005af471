-------------------------- MODULE MCWorkloadTokens --------------------------
(* Instances of WorkloadTokens for TLC. *)
EXTENDS WorkloadTokens, TLC

Symmetric == Permutations(Calls)
=============================================================================
