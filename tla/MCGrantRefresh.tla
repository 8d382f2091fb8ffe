--------------------------- MODULE MCGrantRefresh ----------------------------
(* Instances of GrantRefresh for TLC. *)
EXTENDS GrantRefresh, TLC

CONSTANTS c1, c2

(* Callers are alike; no liveness is checked here. *)
Symmetry == Permutations({c1, c2})
==============================================================================
