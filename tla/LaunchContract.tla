--------------------------- MODULE LaunchContract ----------------------------
(***************************************************************************)
(* What the server promises about a run it means to send to a workstation. *)
(* A run is recorded open.  It is handed over at most once, and only while *)
(* it is open; its work leaves the server only after that.  A run that     *)
(* ended before being handed over never leaves.  The instances, statements *)
(* and messages that keep this promise are those of AgentLaunch.           *)
(***************************************************************************)
CONSTANT Runs

VARIABLES
    life,    \* "absent", "open" or "ended"
    handed,  \* whether the right to send the run was taken
    left     \* whether its dispatch left the server

TypeOK ==
    /\ life \in [Runs -> {"absent", "open", "ended"}]
    /\ handed \in [Runs -> BOOLEAN]
    /\ left \in [Runs -> BOOLEAN]

Init ==
    /\ life = [r \in Runs |-> "absent"]
    /\ handed = [r \in Runs |-> FALSE]
    /\ left = [r \in Runs |-> FALSE]

Record(r) ==
    /\ life[r] = "absent"
    /\ life' = [life EXCEPT ![r] = "open"]
    /\ UNCHANGED <<handed, left>>

Hand(r) ==
    /\ life[r] = "open" /\ ~handed[r]
    /\ handed' = [handed EXCEPT ![r] = TRUE]
    /\ UNCHANGED <<life, left>>

Leave(r) ==
    /\ handed[r] /\ ~left[r]
    /\ left' = [left EXCEPT ![r] = TRUE]
    /\ UNCHANGED <<life, handed>>

End(r) ==
    /\ life[r] = "open"
    /\ life' = [life EXCEPT ![r] = "ended"]
    /\ UNCHANGED <<handed, left>>

(* A reclaim ends several runs at once, none of them handed over. *)
Withdraw(S) ==
    /\ \A r \in S : life[r] = "open" /\ ~handed[r]
    /\ life' = [r \in Runs |-> IF r \in S THEN "ended" ELSE life[r]]
    /\ UNCHANGED <<handed, left>>

Next ==
    \/ \E r \in Runs : Record(r) \/ Hand(r) \/ Leave(r) \/ End(r)
    \/ \E S \in SUBSET Runs : Withdraw(S)

Spec == Init /\ [][Next]_<<life, handed, left>>
==============================================================================
