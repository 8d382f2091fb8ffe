------------------------ MODULE GrantRefresh_proofs -------------------------
(***************************************************************************)
(* What refreshes, refusals and consents may do to the grant of a person,  *)
(* for any callers, trackers, consents and faults.                         *)
(***************************************************************************)
EXTENDS GrantRefresh, TLAPS

LEMMA StepCases ==
    ASSUME [Next]_vars
    PROVE  \/ Connect \/ Paste \/ Delete
           \/ \E k \in Grants : Withdraw(k) \/ Revoke(k)
           \/ Age \/ Expire
           \/ \E c \in Callers :
                \/ Look(c) \/ ClaimRefresh(c) \/ LookAgain(c)
                \/ Rotate(c) \/ Deny(c) \/ Fail(c)
                \/ Store(c) \/ DisconnectClaimed(c) \/ Release(c)
                \/ Use(c) \/ Mark(c) \/ Crash(c)
           \/ UNCHANGED vars
  BY DEF Next, Person, Provider, Caller

------------------------------------------------------------------------------
(* The state keeps its type. *)
LEMMA SavesTyped ==
    ASSUME TypeOK, NEW kind \in {"oauth", "api_token"}, NEW grant \in Nat, Saves(kind, grant)
    PROVE  row' \in Rows
<1>1. row' = [kind |-> kind, grant |-> grant, token |-> 0, fresh |-> (kind = "oauth"),
              version |-> NextVersion, claim |-> "none", off |-> FALSE]
  BY DEF Saves, NoRow
<1>2. NextVersion \in Nat
  BY DEF NextVersion, TypeOK, Rows
<1>3. QED
  BY <1>1, <1>2 DEF Rows

LEMMA RevokesTyped ==
    ASSUME TypeOK, Lineage, NEW forges, Revokes(forges)
    PROVE  revoking' \subseteq Grants
<1>1. Granted => row.grant \in Grants
  BY GrantAssumption DEF TypeOK, Lineage, Grants
<1>2. QED
  BY <1>1 DEF Revokes, TypeOK

LEMMA SettlesTyped ==
    ASSUME TypeOK, NEW c \in Callers, NEW settled \in Rows, Settles(c, settled)
    PROVE  TypeOK'
<1>1. row' \in Rows
  BY DEF Settles, TypeOK
<1>2. call' \in [Callers -> Calls]
  BY DEF Settles, Leaves, TypeOK, Calls, Idle
<1>3. QED
  BY <1>1, <1>2 DEF Settles, TypeOK, providerVars, historyVars

LEMMA UnclaimedTyped ==
    ASSUME TypeOK
    PROVE  Unclaimed \in Rows
<1>1. row.version + 1 \in Nat
  BY DEF TypeOK, Rows
<1>2. QED
  BY <1>1 DEF TypeOK, Unclaimed, Rows

LEMMA CallsTyped ==
    ASSUME TypeOK, NEW c \in Callers, Caller(c)
    PROVE  call' \in [Callers -> Calls]
<1>0. call \in [Callers -> Calls] /\ row \in Rows
  BY DEF TypeOK
<1>1. CASE Look(c)
  BY <1>0, <1>1 DEF Look, Calls, Rows
<1>2. CASE ClaimRefresh(c)
  BY <1>0, <1>2 DEF ClaimRefresh, Calls
<1>3. CASE Rotate(c)
  BY <1>0, <1>3 DEF Rotate, Calls, Goes
<1>4. CASE Deny(c) \/ Fail(c)
  BY <1>0, <1>4 DEF Deny, Fail, Calls, Goes
<1>5. CASE Use(c)
  BY <1>0, <1>5 DEF Use, Calls, Goes, Leaves, Idle
<1>6. CASE LookAgain(c) \/ Mark(c) \/ Crash(c)
  BY <1>0, <1>6 DEF LookAgain, Mark, Crash, Calls, Leaves, Idle
<1>7. CASE Store(c) \/ DisconnectClaimed(c) \/ Release(c)
  BY <1>0, <1>7 DEF Store, DisconnectClaimed, Release, Settles, Calls, Leaves, Idle
<1>8. QED
  BY <1>1, <1>2, <1>3, <1>4, <1>5, <1>6, <1>7 DEF Caller

LEMMA TypeInductive ==
    ASSUME TypeOK, Lineage, [Next]_vars
    PROVE  TypeOK'
<1> USE DEF TypeOK, providerVars, historyVars, vars
<1>0. \A c \in Callers : ~At(c, "idle") => call[c].grant \in Grants
  BY GrantAssumption DEF Lineage, Grants
<1>1. CASE Connect
  <2>1. consents + 1 \in Nat
    OBVIOUS
  <2>2. row' \in Rows
    BY <1>1, <2>1, SavesTyped DEF Connect
  <2>3. revoking' \subseteq Grants
    BY <1>1, RevokesTyped DEF Connect
  <2>4. alive' \in [Grants -> BOOLEAN]
    BY <1>1, Zenon DEF Connect
  <2>5. QED
    BY <1>1, <2>1, <2>2, <2>3, <2>4 DEF Connect
<1>2. CASE Paste
  <2>1. row' \in Rows
    BY <1>2, SavesTyped DEF Paste
  <2>2. revoking' \subseteq Grants
    BY <1>2, RevokesTyped DEF Paste
  <2>3. QED
    BY <1>2, <2>1, <2>2 DEF Paste
<1>3. CASE Delete
  <2>1. revoking' \subseteq Grants
    BY <1>3, RevokesTyped DEF Delete
  <2>2. QED
    BY <1>3, <2>1 DEF Delete, NoRow, Rows
<1>4. ASSUME NEW k \in Grants, Withdraw(k) \/ Revoke(k) PROVE TypeOK'
  BY <1>4 DEF Withdraw, Revoke, Dies
<1>5. CASE Age
  BY <1>5 DEF Age, Passes, Rows
<1>6. CASE Expire
  BY <1>6 DEF Expire, Passes, Rows
<1>7. ASSUME NEW c \in Callers, Caller(c) PROVE TypeOK'
  <2>1. call' \in [Callers -> Calls]
    BY <1>7, CallsTyped
  <2>2. CASE Look(c) \/ LookAgain(c) \/ Deny(c) \/ Fail(c) \/ Use(c)
    BY <2>1, <2>2 DEF Look, LookAgain, Deny, Fail, Use
  <2>3. CASE ClaimRefresh(c)
    <3>1. row' \in Rows
      <4>1. row.version + 1 \in Nat
        BY DEF Rows
      <4>2. QED
        BY <2>3, <4>1 DEF ClaimRefresh, Rows
    <3>2. mistaken' \in BOOLEAN
      BY <2>3 DEF ClaimRefresh
    <3>3. QED
      BY <2>1, <2>3, <3>1, <3>2 DEF ClaimRefresh
  <2>4. CASE Rotate(c)
    <3>1. call[c].grant \in Grants
      BY <1>0, <2>4 DEF Rotate, At
    <3>2. QED
      BY <2>1, <2>4, <3>1 DEF Rotate
  <2>5. CASE Store(c)
    <3>1. [Unclaimed EXCEPT !.grant = call[c].grant, !.token = call[c].token,
                            !.fresh = TRUE] \in Rows
      BY UnclaimedTyped DEF Rows, Calls
    <3>2. QED
      BY <2>5, <3>1, SettlesTyped DEF Store
  <2>6. CASE DisconnectClaimed(c)
    <3>1. [Unclaimed EXCEPT !.off = TRUE] \in Rows
      BY UnclaimedTyped DEF Rows
    <3>2. QED
      BY <2>6, <3>1, SettlesTyped DEF DisconnectClaimed
  <2>7. CASE Release(c)
    BY <2>7, UnclaimedTyped, SettlesTyped DEF Release
  <2>8. CASE Mark(c)
    <3>1. row.version + 1 \in Nat
      BY DEF Rows
    <3>2. row' \in Rows
      BY <2>8, <3>1 DEF Mark, Rows
    <3>3. QED
      BY <2>1, <2>8, <3>2 DEF Mark
  <2>9. CASE Crash(c)
    BY <1>0, <2>1, <2>9 DEF Crash, At
  <2>10. QED
    BY <1>7, <2>2, <2>3, <2>4, <2>5, <2>6, <2>7, <2>8, <2>9 DEF Caller
<1>8. CASE UNCHANGED vars
  BY <1>8
<1>9. QED
  BY <1>1, <1>2, <1>3, <1>4, <1>5, <1>6, <1>7, <1>8 DEF Next, Person, Provider

(* A pasted token is never claimed, a GitHub grant never refreshed. *)
LEMMA KindsInductive ==
    ASSUME TypeOK, Kinds, [Next]_vars
    PROVE  Kinds'
<1> USE DEF TypeOK, Rows, Calls, Kinds, Granted, At, Working, Claimed, Idle,
            NoRow, providerVars, historyVars, vars
<1>1. CASE Connect
  BY <1>1 DEF Connect, Saves, Revokes, NextVersion
<1>2. CASE Paste
  BY <1>2 DEF Paste, Saves, Revokes, NextVersion
<1>3. CASE Delete
  BY <1>3 DEF Delete, Revokes
<1>4. ASSUME NEW k \in Grants, Withdraw(k) PROVE Kinds'
  BY <1>4 DEF Withdraw, Dies
<1>5. ASSUME NEW k \in Grants, Revoke(k) PROVE Kinds'
  BY <1>5 DEF Revoke, Dies
<1>6. CASE Age
  BY <1>6 DEF Age, Passes
<1>7. CASE Expire
  BY <1>7 DEF Expire, Passes
<1>8. ASSUME NEW c \in Callers, Look(c) PROVE Kinds'
  BY <1>8 DEF Look
<1>9. ASSUME NEW c \in Callers, ClaimRefresh(c) PROVE Kinds'
  BY <1>9 DEF ClaimRefresh, MayClaim
<1>10. ASSUME NEW c \in Callers, LookAgain(c) PROVE Kinds'
  BY <1>10 DEF LookAgain, Leaves
<1>11. ASSUME NEW c \in Callers, Rotate(c) PROVE Kinds'
  BY <1>11 DEF Rotate, Goes, Serves
<1>12. ASSUME NEW c \in Callers, Deny(c) PROVE Kinds'
  BY <1>12 DEF Deny, Goes, Serves
<1>13. ASSUME NEW c \in Callers, Fail(c) PROVE Kinds'
  BY <1>13 DEF Fail, Goes
<1>14. ASSUME NEW c \in Callers, Store(c) PROVE Kinds'
  BY <1>14 DEF Store, Settles, Holds, Unclaimed, Leaves
<1>15. ASSUME NEW c \in Callers, DisconnectClaimed(c) PROVE Kinds'
  BY <1>15 DEF DisconnectClaimed, Settles, Holds, Unclaimed, Leaves
<1>16. ASSUME NEW c \in Callers, Release(c) PROVE Kinds'
  BY <1>16 DEF Release, Settles, Holds, Unclaimed, Leaves
<1>17. ASSUME NEW c \in Callers, Use(c) PROVE Kinds'
  BY <1>17 DEF Use, Goes, Leaves
<1>18. ASSUME NEW c \in Callers, Mark(c) PROVE Kinds'
  BY <1>18 DEF Mark, MayMark, Leaves
<1>19. ASSUME NEW c \in Callers, Crash(c) PROVE Kinds'
  BY <1>19 DEF Crash, Leaves
<1>20. CASE UNCHANGED vars
  BY <1>20
<1>21. QED
  BY <1>1, <1>2, <1>3, <1>4, <1>5, <1>6, <1>7, <1>8, <1>9, <1>10, <1>11, <1>12,
     <1>13, <1>14, <1>15, <1>16, <1>17, <1>18, <1>19, <1>20, StepCases

(* A caller keeps the grant and the version it works with. *)
SameLine(d) == call'[d].grant = call[d].grant /\ call'[d].version = call[d].version

(* A version that was not started again names one grant: only a row that   *)
(* was deleted in between is mistaken for another.                         *)
LEMMA LineageInductive ==
    ASSUME TypeOK, Lineage, OnlyRecreatedRowsMistaken, [Next]_vars
    PROVE  Lineage' /\ OnlyRecreatedRowsMistaken'
<1> USE GrantAssumption DEF TypeOK, Rows, Calls, Lineage,
                            OnlyRecreatedRowsMistaken, Granted, At, Idle, NoRow,
                            Grants, providerVars, historyVars, vars
<1>1. CASE Connect
  BY <1>1 DEF Connect, Saves, Revokes, NextVersion
<1>2. CASE Paste
  BY <1>2 DEF Paste, Saves, Revokes, NextVersion
<1>3. CASE Delete
  BY <1>3 DEF Delete, Revokes
<1>4. ASSUME NEW k \in Grants, Withdraw(k) PROVE Lineage' /\ OnlyRecreatedRowsMistaken'
  BY <1>4 DEF Withdraw, Dies
<1>5. ASSUME NEW k \in Grants, Revoke(k) PROVE Lineage' /\ OnlyRecreatedRowsMistaken'
  BY <1>5 DEF Revoke, Dies
<1>6. CASE Age
  BY <1>6 DEF Age, Passes
<1>7. CASE Expire
  BY <1>7 DEF Expire, Passes
<1>8. ASSUME NEW c \in Callers, Look(c) PROVE Lineage' /\ OnlyRecreatedRowsMistaken'
  BY <1>8, SMTT(30) DEF Look
<1>9. ASSUME NEW c \in Callers, ClaimRefresh(c) PROVE Lineage' /\ OnlyRecreatedRowsMistaken'
  BY <1>9 DEF ClaimRefresh, MayClaim
<1>10. ASSUME NEW c \in Callers, LookAgain(c) PROVE Lineage' /\ OnlyRecreatedRowsMistaken'
  BY <1>10 DEF LookAgain, Leaves
<1>11. ASSUME NEW c \in Callers, Rotate(c) PROVE Lineage' /\ OnlyRecreatedRowsMistaken'
  <2>1. call' \in [Callers -> Calls]
    BY <1>11, CallsTyped DEF Caller
  <2>2. call[c].grant \in 1 .. consents
    BY <1>11 DEF Rotate
  <2>3. \A d \in Callers : ~At(d, "idle")' => ~At(d, "idle") /\ SameLine(d)
    <3> HIDE DEF Lineage
    <3>1. CASE call' = [call EXCEPT ![c].pc = "store", ![c].token = @ + 1]
      BY <1>11, <3>1 DEF Rotate, SameLine
    <3>2. CASE call' = [call EXCEPT ![c].pc = "failed"]
      BY <1>11, <3>2 DEF Rotate, SameLine
    <3>3. QED
      BY <1>11, <3>1, <3>2 DEF Rotate, Goes
  <2>4. \A k \in Grants : k > consents => unspent'[k] = 0
    BY <1>11, <2>2 DEF Rotate
  <2>5. QED
    BY <1>11, <2>3, <2>4, SMTT(30) DEF Rotate, SameLine
<1>12. ASSUME NEW c \in Callers, Deny(c) PROVE Lineage' /\ OnlyRecreatedRowsMistaken'
  BY <1>12 DEF Deny, Goes, Serves
<1>13. ASSUME NEW c \in Callers, Fail(c) PROVE Lineage' /\ OnlyRecreatedRowsMistaken'
  BY <1>13 DEF Fail, Goes
<1>14. ASSUME NEW c \in Callers, Store(c) PROVE Lineage' /\ OnlyRecreatedRowsMistaken'
  BY <1>14 DEF Store, Settles, Holds, Unclaimed, Leaves
<1>15. ASSUME NEW c \in Callers, DisconnectClaimed(c) PROVE Lineage' /\ OnlyRecreatedRowsMistaken'
  <2>1. CASE Holds(c)
    BY <1>15, <2>1, SMTT(30) DEF DisconnectClaimed, Settles, Unclaimed, Leaves
  <2>2. CASE ~Holds(c)
    BY <1>15, <2>2 DEF DisconnectClaimed, Settles, Leaves
  <2>3. QED
    BY <2>1, <2>2
<1>16. ASSUME NEW c \in Callers, Release(c) PROVE Lineage' /\ OnlyRecreatedRowsMistaken'
  BY <1>16 DEF Release, Settles, Holds, Unclaimed, Leaves
<1>17. ASSUME NEW c \in Callers, Use(c) PROVE Lineage' /\ OnlyRecreatedRowsMistaken'
  <2>1. CASE Leaves(c)
    BY <1>17, <2>1 DEF Use, Leaves
  <2>2. CASE Goes(c, "unauthorized")
    BY <1>17, <2>2 DEF Use, Goes
  <2>3. QED
    BY <1>17, <2>1, <2>2 DEF Use
<1>18. ASSUME NEW c \in Callers, Mark(c) PROVE Lineage' /\ OnlyRecreatedRowsMistaken'
  BY <1>18 DEF Mark, MayMark, Leaves
<1>19. ASSUME NEW c \in Callers, Crash(c) PROVE Lineage' /\ OnlyRecreatedRowsMistaken'
  BY <1>19 DEF Crash, Leaves
<1>20. CASE UNCHANGED vars
  BY <1>20
<1>21. QED
  BY <1>1, <1>2, <1>3, <1>4, <1>5, <1>6, <1>7, <1>8, <1>9, <1>10, <1>11, <1>12,
     <1>13, <1>14, <1>15, <1>16, <1>17, <1>18, <1>19, <1>20, StepCases

------------------------------------------------------------------------------
(* A confusion stays: only clear states lead to a clear state. *)
LEMMA ConfusedStays ==
    ASSUME TypeOK, [Next]_vars, ~Confused'
    PROVE  ~Confused
<1>1. (slept => slept') /\ (mistaken => mistaken')
  <2>1. CASE Connect \/ Paste \/ Delete
    BY <2>1 DEF Connect, Paste, Delete, historyVars
  <2>2. CASE \E k \in Grants : Withdraw(k) \/ Revoke(k)
    BY <2>2 DEF Withdraw, Revoke, historyVars
  <2>3. CASE Age \/ Expire
    <3>1. ASSUME NEW late, Passes(late) PROVE (slept => slept') /\ (mistaken => mistaken')
      BY <3>1, Zenon DEF Passes
    <3>2. CASE Age
      BY <3>1, <3>2, Zenon DEF Age
    <3>3. CASE Expire
      BY <3>1, <3>3, Zenon DEF Expire
    <3>4. QED
      BY <2>3, <3>2, <3>3
  <2>4. ASSUME NEW c \in Callers, Caller(c) PROVE (slept => slept') /\ (mistaken => mistaken')
    <3>1. CASE ClaimRefresh(c)
      BY <3>1, Zenon DEF ClaimRefresh
    <3>2. CASE Mark(c)
      BY <3>2, Zenon DEF Mark
    <3>3. CASE ~ClaimRefresh(c) /\ ~Mark(c)
      BY <2>4, <3>3 DEF Caller, Look, LookAgain, Rotate, Deny, Fail, Store,
                        DisconnectClaimed, Release, Settles, Use, Crash, historyVars
    <3>4. QED
      BY <3>1, <3>2, <3>3
  <2>5. CASE UNCHANGED vars
    BY <2>5 DEF vars, historyVars
  <2>6. QED
    BY <2>1, <2>2, <2>3, <2>4, <2>5 DEF Next, Person, Provider
<1>2. QED
  BY <1>1 DEF Confused

(* There is one claim at most on a row whose token has expired. *)
LEMMA ClaimsInductive ==
    ASSUME IInv, [Next]_vars, ~Confused'
    PROVE  Claims'
<1> ~Confused
  BY ConfusedStays DEF IInv
<1> USE DEF IInv, TypeOK, Rows, Calls, Kinds, Lineage, Claims, Granted, At, Claimed, Working,
            Idle, NoRow, providerVars, historyVars, vars
<1>1. CASE Connect
  <2>1. /\ row'.grant = consents + 1 /\ row'.fresh /\ row'.claim = "none"
        /\ consents' = consents + 1 /\ UNCHANGED call
    BY <1>1 DEF Connect, Saves
  <2>2. \A c \in Callers : Working(c) => call[c].grant # row'.grant
    BY <2>1
  <2>3. QED
    BY <2>1, <2>2
<1>2. CASE Paste
  BY <1>2 DEF Paste, Saves, Revokes, NextVersion
<1>3. CASE Delete
  BY <1>3 DEF Delete, Revokes
<1>4. ASSUME NEW k \in Grants, Withdraw(k) PROVE Claims'
  BY <1>4 DEF Withdraw, Dies
<1>5. ASSUME NEW k \in Grants, Revoke(k) PROVE Claims'
  BY <1>5 DEF Revoke, Dies
<1>6. CASE Age
  BY <1>6 DEF Age, Passes, Confused, Holds
<1>7. CASE Expire
  BY <1>7 DEF Expire, Passes, Confused
<1>8. ASSUME NEW c \in Callers, Look(c) PROVE Claims'
  BY <1>8 DEF Look
<1>9. ASSUME NEW c \in Callers, ClaimRefresh(c) PROVE Claims'
  BY <1>9 DEF ClaimRefresh, MayClaim, Confused
<1>10. ASSUME NEW c \in Callers, LookAgain(c) PROVE Claims'
  BY <1>10 DEF LookAgain, Leaves
<1>11. ASSUME NEW c \in Callers, Rotate(c) PROVE Claims'
  BY <1>11, SMTT(30) DEF Rotate, Goes, Serves
<1>12. ASSUME NEW c \in Callers, Deny(c) PROVE Claims'
  BY <1>12 DEF Deny, Goes, Serves
<1>13. ASSUME NEW c \in Callers, Fail(c) PROVE Claims'
  BY <1>13 DEF Fail, Goes
<1>14. ASSUME NEW c \in Callers, Store(c) PROVE Claims'
  BY <1>14 DEF Store, Settles, Holds, Unclaimed, Leaves
<1>15. ASSUME NEW c \in Callers, DisconnectClaimed(c) PROVE Claims'
  BY <1>15 DEF DisconnectClaimed, Settles, Holds, Unclaimed, Leaves
<1>16. ASSUME NEW c \in Callers, Release(c) PROVE Claims'
  BY <1>16 DEF Release, Settles, Holds, Unclaimed, Leaves
<1>17. ASSUME NEW c \in Callers, Use(c) PROVE Claims'
  BY <1>17 DEF Use, Goes, Leaves
<1>18. ASSUME NEW c \in Callers, Mark(c) PROVE Claims'
  BY <1>18 DEF Mark, MayMark, Leaves, Confused
<1>19. ASSUME NEW c \in Callers, Crash(c) PROVE Claims'
  BY <1>19 DEF Crash, Leaves
<1>20. CASE UNCHANGED vars
  BY <1>20
<1>21. QED
  BY <1>1, <1>2, <1>3, <1>4, <1>5, <1>6, <1>7, <1>8, <1>9, <1>10, <1>11, <1>12,
     <1>13, <1>14, <1>15, <1>16, <1>17, <1>18, <1>19, <1>20, StepCases

(* Tokens that nobody spent are the ones in use, but for lost answers. *)
LEMMA TokensInductive ==
    ASSUME IInv, [Next]_vars, ~Confused'
    PROVE  Tokens'
<1> ~Confused
  BY ConfusedStays DEF IInv
<1> USE DEF IInv, TypeOK, Rows, Calls, Kinds, Lineage, Claims, Tokens, Sound, Granted, At, Claimed,
            Working, Idle, NoRow, providerVars, historyVars, vars
<1>0. /\ \A c \in Callers : ~At(c, "idle") => call[c].grant \in Grants
      /\ Granted => row.grant \in Grants
  BY GrantAssumption DEF Grants
<1>1. CASE Connect
  <2>1. /\ row'.grant = consents + 1 /\ row'.token = 0 /\ consents + 1 \in Grants
        /\ UNCHANGED <<call, unspent, lost>>
    BY <1>1, GrantAssumption DEF Connect, Saves, Grants
  <2>2. unspent[consents + 1] = 0
    BY <2>1
  <2>3. \A g \in Grants : g # consents + 1 => alive'[g] = alive[g]
    BY <1>1 DEF Connect
  <2>4. QED
    BY <1>0, <2>1, <2>2, <2>3
<1>2. CASE Paste
  BY <1>2 DEF Paste, Saves, Revokes, NextVersion
<1>3. CASE Delete
  BY <1>3 DEF Delete, Revokes
<1>4. ASSUME NEW k \in Grants, Withdraw(k) PROVE Tokens'
  BY <1>0, <1>4 DEF Withdraw, Dies
<1>5. ASSUME NEW k \in Grants, Revoke(k) PROVE Tokens'
  BY <1>0, <1>5 DEF Revoke, Dies
<1>6. CASE Age
  BY <1>6 DEF Age, Passes
<1>7. CASE Expire
  BY <1>7 DEF Expire, Passes
<1>8. ASSUME NEW c \in Callers, Look(c) PROVE Tokens'
  BY <1>8 DEF Look
<1>9. ASSUME NEW c \in Callers, ClaimRefresh(c) PROVE Tokens'
  BY <1>9 DEF ClaimRefresh, MayClaim, Confused
<1>10. ASSUME NEW c \in Callers, LookAgain(c) PROVE Tokens'
  BY <1>10 DEF LookAgain, Leaves
<1>11. ASSUME NEW c \in Callers, Rotate(c) PROVE Tokens'
  <2>1. /\ call[c].grant \in Grants /\ call[c].token = unspent[call[c].grant]
        /\ unspent' = [unspent EXCEPT ![call[c].grant] = @ + 1]
        /\ UNCHANGED <<row, alive>>
    BY <1>0, <1>11 DEF Rotate, Serves
  <2>2. \A d \in Callers \ {c} : Claimed(d) => call[d].grant # call[c].grant
    BY <1>11 DEF Rotate
  <2>3. CASE call' = [call EXCEPT ![c].pc = "store", ![c].token = @ + 1] /\ UNCHANGED lost
    BY <1>0, <1>11, <2>1, <2>2, <2>3
  <2>4. CASE call' = [call EXCEPT ![c].pc = "failed"] /\ lost' = lost \union {call[c].grant}
    BY <1>0, <1>11, <2>1, <2>2, <2>4
  <2>5. QED
    BY <1>11, <2>3, <2>4 DEF Rotate, Goes
<1>12. ASSUME NEW c \in Callers, Deny(c) PROVE Tokens'
  BY <1>12 DEF Deny, Goes, Serves
<1>13. ASSUME NEW c \in Callers, Fail(c) PROVE Tokens'
  BY <1>13 DEF Fail, Goes
<1>14. ASSUME NEW c \in Callers, Store(c) PROVE Tokens'
  BY <1>14 DEF Store, Settles, Holds, Unclaimed, Leaves
<1>15. ASSUME NEW c \in Callers, DisconnectClaimed(c) PROVE Tokens'
  BY <1>15 DEF DisconnectClaimed, Settles, Holds, Unclaimed, Leaves
<1>16. ASSUME NEW c \in Callers, Release(c) PROVE Tokens'
  BY <1>16 DEF Release, Settles, Holds, Unclaimed, Leaves
<1>17. ASSUME NEW c \in Callers, Use(c) PROVE Tokens'
  <2>1. CASE Leaves(c)
    BY <1>17, <2>1 DEF Use, Leaves
  <2>2. CASE Goes(c, "unauthorized")
    BY <1>17, <2>2 DEF Use, Goes
  <2>3. QED
    BY <1>17, <2>1, <2>2 DEF Use
<1>18. ASSUME NEW c \in Callers, Mark(c) PROVE Tokens'
  BY <1>18 DEF Mark, MayMark, Leaves
<1>19. ASSUME NEW c \in Callers, Crash(c) PROVE Tokens'
  BY <1>19 DEF Crash, Leaves
<1>20. CASE UNCHANGED vars
  BY <1>20
<1>21. QED
  BY <1>1, <1>2, <1>3, <1>4, <1>5, <1>6, <1>7, <1>8, <1>9, <1>10, <1>11, <1>12,
     <1>13, <1>14, <1>15, <1>16, <1>17, <1>18, <1>19, <1>20, StepCases

(* A call that was refused, and a row that is disconnected, have a grant   *)
(* that is dead; a row may also have lost its token.                       *)
Refused == \A c \in Callers : At(c, "unauthorized") => ~alive[call[c].grant]

LEMMA RefusedInductive ==
    ASSUME IInv, [Next]_vars
    PROVE  Refused'
<1> Refused
  BY DEF IInv, Refused
<1> USE DEF IInv, TypeOK, Calls, Lineage, At, Idle, providerVars, historyVars, vars
<1>0. \A c \in Callers : ~At(c, "idle") => call[c].grant \in Grants
  BY GrantAssumption DEF Grants
<1> USE DEF Refused
<1>1. CASE Connect
  BY <1>0, <1>1 DEF Connect, Saves
<1>2. CASE Paste
  BY <1>0, <1>2 DEF Paste, Saves
<1>3. CASE Delete
  BY <1>0, <1>3 DEF Delete
<1>4. ASSUME NEW k \in Grants, Withdraw(k) PROVE Refused'
  BY <1>0, <1>4 DEF Withdraw, Dies
<1>5. ASSUME NEW k \in Grants, Revoke(k) PROVE Refused'
  BY <1>0, <1>5 DEF Revoke, Dies
<1>6. CASE Age
  BY <1>0, <1>6 DEF Age, Passes
<1>7. CASE Expire
  BY <1>0, <1>7 DEF Expire, Passes
<1>8. ASSUME NEW c \in Callers, Look(c) PROVE Refused'
  BY <1>0, <1>8 DEF Look
<1>9. ASSUME NEW c \in Callers, ClaimRefresh(c) PROVE Refused'
  BY <1>0, <1>9 DEF ClaimRefresh, MayClaim
<1>10. ASSUME NEW c \in Callers, LookAgain(c) PROVE Refused'
  BY <1>0, <1>10 DEF LookAgain, Leaves
<1>11. ASSUME NEW c \in Callers, Rotate(c) PROVE Refused'
  BY <1>0, <1>11 DEF Rotate, Goes, Serves
<1>12. ASSUME NEW c \in Callers, Deny(c) PROVE Refused'
  BY <1>0, <1>12 DEF Deny, Goes, Serves
<1>13. ASSUME NEW c \in Callers, Fail(c) PROVE Refused'
  BY <1>0, <1>13 DEF Fail, Goes
<1>14. ASSUME NEW c \in Callers, Store(c) PROVE Refused'
  BY <1>0, <1>14 DEF Store, Settles, Holds, Unclaimed, Leaves
<1>15. ASSUME NEW c \in Callers, DisconnectClaimed(c) PROVE Refused'
  BY <1>0, <1>15 DEF DisconnectClaimed, Settles, Holds, Unclaimed, Leaves
<1>16. ASSUME NEW c \in Callers, Release(c) PROVE Refused'
  BY <1>0, <1>16 DEF Release, Settles, Holds, Unclaimed, Leaves
<1>17. ASSUME NEW c \in Callers, Use(c) PROVE Refused'
  BY <1>0, <1>17 DEF Use, Goes, Leaves
<1>18. ASSUME NEW c \in Callers, Mark(c) PROVE Refused'
  BY <1>0, <1>18 DEF Mark, MayMark, Leaves
<1>19. ASSUME NEW c \in Callers, Crash(c) PROVE Refused'
  BY <1>0, <1>19 DEF Crash, Leaves
<1>20. CASE UNCHANGED vars
  BY <1>20
<1>21. QED
  BY <1>1, <1>2, <1>3, <1>4, <1>5, <1>6, <1>7, <1>8, <1>9, <1>10, <1>11, <1>12,
     <1>13, <1>14, <1>15, <1>16, <1>17, <1>18, <1>19, <1>20, StepCases

LEMMA DisconnectedInductive ==
    ASSUME IInv, [Next]_vars
    PROVE  DisconnectedWhenDead'
<1> SUFFICES ASSUME ~Confused' PROVE DisconnectedWhenDead'
  BY DEF DisconnectedWhenDead
<1> ~Confused
  BY ConfusedStays DEF IInv
<1> USE DEF IInv, TypeOK, Rows, Calls, Kinds, Lineage, Claims, Tokens, Granted, At, Claimed,
            Idle, NoRow, providerVars, historyVars, vars
<1>0. /\ \A c \in Callers : ~At(c, "idle") => call[c].grant \in Grants
      /\ Granted => row.grant \in Grants
  BY GrantAssumption DEF Grants
<1> USE DEF DisconnectedWhenDead
<1>1. CASE Connect
  BY <1>0, <1>1 DEF Connect, Saves
<1>2. CASE Paste
  BY <1>0, <1>2 DEF Paste, Saves
<1>3. CASE Delete
  BY <1>0, <1>3 DEF Delete
<1>4. ASSUME NEW k \in Grants, Withdraw(k) PROVE DisconnectedWhenDead'
  BY <1>0, <1>4 DEF Withdraw, Dies
<1>5. ASSUME NEW k \in Grants, Revoke(k) PROVE DisconnectedWhenDead'
  BY <1>0, <1>5 DEF Revoke, Dies
<1>6. CASE Age
  BY <1>0, <1>6 DEF Age, Passes
<1>7. CASE Expire
  BY <1>0, <1>7 DEF Expire, Passes
<1>8. ASSUME NEW c \in Callers, Look(c) PROVE DisconnectedWhenDead'
  BY <1>0, <1>8 DEF Look
<1>9. ASSUME NEW c \in Callers, ClaimRefresh(c) PROVE DisconnectedWhenDead'
  BY <1>0, <1>9 DEF ClaimRefresh, MayClaim
<1>10. ASSUME NEW c \in Callers, LookAgain(c) PROVE DisconnectedWhenDead'
  BY <1>0, <1>10 DEF LookAgain, Leaves
<1>11. ASSUME NEW c \in Callers, Rotate(c) PROVE DisconnectedWhenDead'
  BY <1>0, <1>11 DEF Rotate, Goes, Serves
<1>12. ASSUME NEW c \in Callers, Deny(c) PROVE DisconnectedWhenDead'
  BY <1>0, <1>12 DEF Deny, Goes, Serves
<1>13. ASSUME NEW c \in Callers, Fail(c) PROVE DisconnectedWhenDead'
  BY <1>0, <1>13 DEF Fail, Goes
<1>14. ASSUME NEW c \in Callers, Store(c) PROVE DisconnectedWhenDead'
  BY <1>0, <1>14 DEF Store, Settles, Holds, Unclaimed, Leaves
<1>15. ASSUME NEW c \in Callers, DisconnectClaimed(c) PROVE DisconnectedWhenDead'
  BY <1>0, <1>15 DEF DisconnectClaimed, Settles, Holds, Unclaimed, Leaves
<1>16. ASSUME NEW c \in Callers, Release(c) PROVE DisconnectedWhenDead'
  BY <1>0, <1>16 DEF Release, Settles, Holds, Unclaimed, Leaves
<1>17. ASSUME NEW c \in Callers, Use(c) PROVE DisconnectedWhenDead'
  BY <1>0, <1>17 DEF Use, Goes, Leaves
<1>18. ASSUME NEW c \in Callers, Mark(c) PROVE DisconnectedWhenDead'
  BY <1>0, <1>18 DEF Mark, MayMark, Leaves, Confused
<1>19. ASSUME NEW c \in Callers, Crash(c) PROVE DisconnectedWhenDead'
  BY <1>0, <1>19 DEF Crash, Leaves
<1>20. CASE UNCHANGED vars
  BY <1>20
<1>21. QED
  BY <1>1, <1>2, <1>3, <1>4, <1>5, <1>6, <1>7, <1>8, <1>9, <1>10, <1>11, <1>12,
     <1>13, <1>14, <1>15, <1>16, <1>17, <1>18, <1>19, <1>20, StepCases

------------------------------------------------------------------------------
(* The inductive invariant holds in every state. *)
THEOREM Invariance == Spec => []IInv
<1>1. Init => IInv
  <2> SUFFICES ASSUME Init PROVE IInv
    OBVIOUS
  <2> USE DEF Init, NoRow, Idle
  <2>1. TypeOK
    BY DEF TypeOK, Rows, Calls
  <2>2. Kinds
    BY DEF Kinds, Granted, Working, Claimed, At
  <2>3. Lineage /\ OnlyRecreatedRowsMistaken
    BY GrantAssumption DEF Lineage, OnlyRecreatedRowsMistaken, Granted, At, Grants
  <2>4. Claims /\ Tokens
    BY DEF Claims, Tokens, Granted, Claimed, At
  <2>5. Refused /\ DisconnectedWhenDead
    BY DEF Refused, DisconnectedWhenDead, At
  <2>6. QED
    BY <2>1, <2>2, <2>3, <2>4, <2>5 DEF IInv, Refused
<1>2. IInv /\ [Next]_vars => IInv'
  <2> SUFFICES ASSUME IInv, [Next]_vars PROVE IInv'
    OBVIOUS
  <2>1. TypeOK' /\ Kinds' /\ Lineage' /\ OnlyRecreatedRowsMistaken'
    BY TypeInductive, KindsInductive, LineageInductive DEF IInv
  <2>2. ~Confused' => Claims' /\ Tokens'
    BY ClaimsInductive, TokensInductive
  <2>3. Refused' /\ DisconnectedWhenDead'
    BY RefusedInductive, DisconnectedInductive
  <2>4. QED
    BY <2>1, <2>2, <2>3 DEF IInv, Refused
<1>3. QED
  BY <1>1, <1>2, PTL DEF Spec

(* claimGrantRefresh lets one caller at a time ask for a refresh, with a   *)
(* token nobody has spent, but for lost answers and confused callers.      *)
THEOREM RefreshesUnspentTokenHolds == Spec => []RefreshesUnspentToken
<1>1. IInv => RefreshesUnspentToken
  BY DEF IInv, RefreshesUnspentToken, Claims, Claimed, Tokens, Sound, At
<1>2. QED
  BY <1>1, Invariance, PTL

(* disconnectClaimedGrant and MarkForgeGrantDisconnected take no working   *)
(* connection from its owner, with the same exceptions.                    *)
THEOREM DisconnectedWhenDeadHolds == Spec => []DisconnectedWhenDead
  BY Invariance, PTL DEF IInv

(* A refresh of an earlier grant never writes over what the person         *)
(* connected last: the row holds that grant, with a token that serves.     *)
THEOREM RowHoldsLastConsentHolds == Spec => []RowHoldsLastConsent
<1>1. IInv => RowHoldsLastConsent
  BY DEF IInv, RowHoldsLastConsent, Claims, Tokens, Sound, Granted, At
<1>2. QED
  BY <1>1, Invariance, PTL

(* The compare-and-set on the version of the row mistakes another row for  *)
(* the one that was read only if the row was deleted in between.           *)
THEOREM OnlyRecreatedRowsMistakenHolds == Spec => []OnlyRecreatedRowsMistaken
  BY Invariance, PTL DEF IInv
==============================================================================
