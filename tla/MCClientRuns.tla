---------------------------- MODULE MCClientRuns -----------------------------
(* An instance of ClientRuns for TLC: a session that starts a run on an    *)
(* instance that may fail, and another, on an instance that does not, from *)
(* which the same owner reports.                                           *)
EXTENDS ClientRuns, TLC

CONSTANTS i1, i2, s1, s2, c1

Homes == (s1 :> i1) @@ (s2 :> i2)
==============================================================================
