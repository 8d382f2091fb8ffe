-------------------------- MODULE MCAgentPresence --------------------------
(* Two instances and every fault.  The first dial is given to i1: the two  *)
(* have the same part.                                                     *)
EXTENDS AgentPresence

CONSTANTS i1, i2

AllInstances == {i1, i2}
AllFaults == {"directory", "write", "silence", "crash"}
FirstToOne == [c \in Connections |-> IF c = 1 THEN {i1} ELSE AllInstances]
==============================================================================
