------------------------------- MODULE MCChain -------------------------------
(* An instance of Chain for TLC. *)
EXTENDS Chain, TLC

CONSTANTS t1, t2, p1, p2

(* Tasks are alike, and so are evaluations; no liveness is checked here. *)
Symmetry == Permutations({t1, t2}) \union Permutations({p1, p2})
==============================================================================
