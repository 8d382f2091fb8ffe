------------------------ MODULE MCRunReconciliation --------------------------
(* Instances of RunReconciliation for TLC. *)
EXTENDS RunReconciliation, TLC

Interchangeable == Permutations(Runs) \union Permutations(Pulls)
==============================================================================
