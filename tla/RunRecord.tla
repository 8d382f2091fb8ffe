------------------------------ MODULE RunRecord ------------------------------
(***************************************************************************)
(* What the server promises about the record of a remote run, whoever      *)
(* writes it: a launcher, a session, the workstation, the board or a       *)
(* reclaim.  A run is inserted open and ends once.  A person or an agent   *)
(* ends it by what they know, the server by what it infers from a silence; *)
(* an end that says so may be corrected, towards what somebody knows, and  *)
(* a completion is never rewritten.  A run deleted after its end does not  *)
(* come back.  AgentLaunch, RunReconciliation and ClientRuns each tell a   *)
(* part of that life and keep this promise.                                *)
(***************************************************************************)
EXTENDS TLAPS

CONSTANT Runs

VARIABLES
    state,  \* of the record; "presumed" is an end the server inferred,
            \* "completed" stands for failed as well
    noted,  \* whether its end may be corrected: it bears the disconnect note
    buried  \* deleted after its end

vars == <<state, noted, buried>>

Ended == {"presumed", "canceled", "completed"}

TypeOK ==
    /\ state \in [Runs -> {"absent", "running"} \union Ended]
    /\ noted \in [Runs -> BOOLEAN]
    /\ buried \in [Runs -> BOOLEAN]

Init ==
    /\ state = [r \in Runs |-> "absent"]
    /\ noted = [r \in Runs |-> FALSE]
    /\ buried = [r \in Runs |-> FALSE]

Insert(r) ==
    /\ state[r] = "absent" /\ ~buried[r]
    /\ state' = [state EXCEPT ![r] = "running"]
    /\ UNCHANGED <<noted, buried>>

(* A statement that ends the runs rs. *)
Becomes(rs, end, note) ==
    /\ state' = [r \in Runs |-> IF r \in rs THEN end ELSE state[r]]
    /\ noted' = [r \in Runs |-> IF r \in rs THEN note ELSE noted[r]]
    /\ UNCHANGED buried

End(rs, end, note) ==
    /\ \A r \in rs : state[r] = "running"
    /\ Becomes(rs, end, note)

Correct(r, end, note) ==
    /\ state[r] \in {"presumed", "canceled"} /\ noted[r]
    /\ end # "presumed"
    /\ Becomes({r}, end, note)

Remove(r) ==
    /\ state[r] # "absent"
    /\ state' = [state EXCEPT ![r] = "absent"]
    /\ noted' = [noted EXCEPT ![r] = FALSE]
    /\ buried' = [buried EXCEPT ![r] = @ \/ state[r] \in Ended]

Next ==
    \/ \E r \in Runs : Insert(r) \/ Remove(r)
    \/ \E rs \in SUBSET Runs, end \in Ended, note \in BOOLEAN : End(rs, end, note)
    \/ \E r \in Runs, end \in Ended, note \in BOOLEAN : Correct(r, end, note)

Spec == Init /\ [][Next]_vars

------------------------------------------------------------------------------
(* A run that is over. *)
Over(r) == state[r] \in Ended \/ (buried[r] /\ state[r] = "absent")

(* Once a run has ended it is never open again, deleted in between or not. *)
EndedForGood ==
    \A r \in Runs : [](state[r] \in Ended => [](state[r] # "running"))

(* What somebody knows replaces what the server inferred, never the        *)
(* reverse, and a completion only goes with its record.                    *)
KnownEndStands ==
    [][\A r \in Runs :
         /\ state[r] \in {"canceled", "completed"} => state'[r] # "presumed"
         /\ state[r] = "completed" => state'[r] \in {"completed", "absent"}]_vars

(* The three below hold for every record that keeps the contract, so for   *)
(* every module that implements it.                                        *)
LEMMA TypeCorrect == Spec => []TypeOK
<1>1. Init => TypeOK
  BY DEF Init, TypeOK
<1>2. TypeOK /\ [Next]_vars => TypeOK'
  <2> SUFFICES ASSUME TypeOK, [Next]_vars PROVE TypeOK'
    OBVIOUS
  <2> USE DEF TypeOK, Ended
  <2>1. ASSUME NEW r \in Runs, Insert(r) \/ Remove(r) PROVE TypeOK'
    BY <2>1 DEF Insert, Remove
  <2>2. ASSUME NEW rs \in SUBSET Runs, NEW end \in Ended, NEW note \in BOOLEAN, End(rs, end, note)
        PROVE  TypeOK'
    BY <2>2 DEF End, Becomes
  <2>3. ASSUME NEW r \in Runs, NEW end \in Ended, NEW note \in BOOLEAN, Correct(r, end, note)
        PROVE  TypeOK'
    BY <2>3 DEF Correct, Becomes
  <2>4. CASE UNCHANGED vars
    BY <2>4 DEF vars
  <2>5. QED
    BY <2>1, <2>2, <2>3, <2>4 DEF Next
<1>3. QED
  BY <1>1, <1>2, PTL DEF Spec

(* A run that is over stays over, whatever step comes next. *)
LEMMA OverStays ==
    ASSUME NEW r \in Runs, TypeOK, Over(r), [Next]_vars
    PROVE  Over(r)'
<1>1. CASE \E q \in Runs : Insert(q)
  BY <1>1 DEF TypeOK, Over, Insert, Ended
<1>2. CASE \E q \in Runs : Remove(q)
  BY <1>2 DEF TypeOK, Over, Remove, Ended
<1>3. CASE \E rs \in SUBSET Runs, end \in Ended, note \in BOOLEAN : End(rs, end, note)
  BY <1>3 DEF TypeOK, Over, End, Becomes, Ended
<1>4. CASE \E q \in Runs, end \in Ended, note \in BOOLEAN : Correct(q, end, note)
  BY <1>4 DEF TypeOK, Over, Correct, Becomes, Ended
<1>5. CASE UNCHANGED vars
  BY <1>5 DEF vars, Over
<1>6. QED
  BY <1>1, <1>2, <1>3, <1>4, <1>5 DEF Next

(* A run that ended is never open again (#407, #675). *)
THEOREM EndedForGoodHolds == Spec => EndedForGood
<1> SUFFICES ASSUME NEW r \in Runs
             PROVE  Spec => [](state[r] \in Ended => [](state[r] # "running"))
  BY DEF EndedForGood
<1>1. state[r] \in Ended => Over(r)
  BY DEF Over
<1>2. TypeOK /\ Over(r) /\ [Next]_vars => Over(r)'
  BY OverStays
<1>3. Over(r) => state[r] # "running"
  BY DEF Over, Ended
<1>4. QED
  BY <1>1, <1>2, <1>3, TypeCorrect, PTL DEF Spec

(* What somebody knows of a run stands against what the server infers. *)
THEOREM KnownEndStandsHolds == Spec => KnownEndStands
<1>1. TypeOK /\ [Next]_vars =>
        [\A r \in Runs :
           /\ state[r] \in {"canceled", "completed"} => state'[r] # "presumed"
           /\ state[r] = "completed" => state'[r] \in {"completed", "absent"}]_vars
  BY DEF TypeOK, Next, vars, Insert, End, Correct, Becomes, Remove, Ended
<1>2. QED
  BY <1>1, TypeCorrect, PTL DEF Spec, KnownEndStands
==============================================================================
