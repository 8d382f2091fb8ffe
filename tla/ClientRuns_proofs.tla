------------------------- MODULE ClientRuns_proofs --------------------------
(***************************************************************************)
(* What the registry, the tools, the board and the reclaims may do to the  *)
(* runs of connected clients, for any instances, sessions and runs.        *)
(***************************************************************************)
EXTENDS ClientRuns, TLAPS

LEMMA StepCases ==
    ASSUME [Next]_vars
    PROVE  \/ \E s \in Sessions :
                \/ Initialize(s)
                \/ \E tool \in {"start", "finish"}, q \in Runs : Call(s, tool, q)
                \/ CallOther(s) \/ NotFound(s)
                \/ \E how \in {"left", "closed"} : Leave(s, how)
                \/ GrowSilent(s) \/ Insert(s) \/ Adopt(s)
                \/ \E ending \in Ended, kept \in BOOLEAN : Finish(s, ending, kept)
                \/ Release(s) \/ Watch(s) \/ SweepCheck(s) \/ SweepClose(s)
                \/ PingMissed(s) \/ HangUp(s)
                \/ \E q \in Runs : CloseRun(s, q) \/ CloseFails(s, q)
           \/ \E q \in Runs, i \in Instances, note \in BOOLEAN : BoardClose(q, i, note)
           \/ \E i \in Instances :
                FallSilent(i) \/ Heartbeat(i) \/ Drain(i) \/ Die(i) \/ Reclaim(i)
           \/ UNCHANGED vars
  BY DEF Next, Client, Tool, Registry, Board, Instance

------------------------------------------------------------------------------
(* The state keeps its type. *)
LEMMA TypeInductive ==
    ASSUME TypeOK, [Next]_vars
    PROVE  TypeOK'
<1> USE ClientRunsAssumption 
    DEF TypeOK, Ended, Calls, Idle, runVars, entryVars, instVars, vars
<1>1. ASSUME NEW s \in Sessions, Initialize(s) PROVE TypeOK'
  BY <1>1 DEF Initialize
<1>2. ASSUME NEW s \in Sessions, NEW tool \in {"start", "finish"}, NEW q \in Runs,
           Call(s, tool, q)
    PROVE  TypeOK'
  BY <1>2 DEF Call, Touch
<1>3. ASSUME NEW s \in Sessions, CallOther(s) PROVE TypeOK'
  BY <1>3 DEF CallOther, Touch
<1>4. ASSUME NEW s \in Sessions, NotFound(s) PROVE TypeOK'
  BY <1>4 DEF NotFound
<1>5. ASSUME NEW s \in Sessions, NEW how \in {"left", "closed"},
           Leave(s, how)
    PROVE  TypeOK'
  BY <1>5 DEF Leave
<1>6. ASSUME NEW s \in Sessions, GrowSilent(s) PROVE TypeOK'
  BY <1>6 DEF GrowSilent
<1>7. ASSUME NEW s \in Sessions, Insert(s) PROVE TypeOK'
  BY <1>7 DEF Insert, Called
<1>8. ASSUME NEW s \in Sessions, Adopt(s) PROVE TypeOK'
  BY <1>8 DEF Adopt, Returns
<1>9. ASSUME NEW s \in Sessions, NEW ending \in Ended, NEW kept \in BOOLEAN,
           Finish(s, ending, kept)
    PROVE  TypeOK'
  BY <1>9, SMTT(30) DEF Finish, EndRuns, Called, Closable, Open
<1>10. ASSUME NEW s \in Sessions, Release(s) PROVE TypeOK'
  BY <1>10 DEF Release, Returns
<1>11. ASSUME NEW s \in Sessions, Watch(s) PROVE TypeOK'
  BY <1>11 DEF Watch, Forget
<1>12. ASSUME NEW s \in Sessions, SweepCheck(s) PROVE TypeOK'
  BY <1>12 DEF SweepCheck
<1>13. ASSUME NEW s \in Sessions, SweepClose(s) PROVE TypeOK'
  BY <1>13 DEF SweepClose, Forget
<1>14. ASSUME NEW s \in Sessions, PingMissed(s) PROVE TypeOK'
  BY <1>14 DEF PingMissed, Forget
<1>15. ASSUME NEW s \in Sessions, HangUp(s) PROVE TypeOK'
  BY <1>15 DEF HangUp
<1>16. ASSUME NEW s \in Sessions, NEW q \in Runs, CloseRun(s, q) PROVE TypeOK'
  BY <1>16 DEF CloseRun, EndRuns
<1>17. ASSUME NEW s \in Sessions, NEW q \in Runs, CloseFails(s, q) PROVE TypeOK'
  BY <1>17 DEF CloseFails
<1>18. ASSUME NEW q \in Runs, NEW i \in Instances, NEW note \in BOOLEAN,
            BoardClose(q, i, note)
     PROVE  TypeOK'
  BY <1>18 DEF BoardClose, EndRuns
<1>19. ASSUME NEW i \in Instances, FallSilent(i) PROVE TypeOK'
  BY <1>19 DEF FallSilent
<1>20. ASSUME NEW i \in Instances, Heartbeat(i) PROVE TypeOK'
  BY <1>20 DEF Heartbeat
<1>21. ASSUME NEW i \in Instances, Drain(i) PROVE TypeOK'
  BY <1>21 DEF Drain
<1>22. ASSUME NEW i \in Instances, Die(i) PROVE TypeOK'
  BY <1>22 DEF Die
<1>23. ASSUME NEW i \in Instances, Reclaim(i) PROVE TypeOK'
  BY <1>23 DEF Reclaim, EndRuns, Orphaned
<1>24. CASE UNCHANGED vars
  BY <1>24
<1>25. QED
  <2> HIDE DEF TypeOK, runVars, entryVars, instVars, vars
  <2>1. QED
    BY <1>1, <1>2, <1>3, <1>4, <1>5, <1>6, <1>7, <1>8, <1>9, <1>10, <1>11,
       <1>12, <1>13, <1>14, <1>15, <1>16, <1>17, <1>18, <1>19, <1>20, <1>21,
       <1>22, <1>23, <1>24, StepCases

------------------------------------------------------------------------------
(* Rows end by somebody, and what the server ended keeps its note. *)
LEMMA RowsInductive ==
    ASSUME IInv, [Next]_vars
    PROVE  EndedBySomebody' /\ ServerEndIsReportable'
<1> USE DEF IInv, TypeOK, EndedBySomebody, ServerEndIsReportable,
            Ended, runVars, entryVars, instVars, vars
<1>1. ASSUME NEW s \in Sessions,
           Initialize(s)
    PROVE  EndedBySomebody' /\ ServerEndIsReportable'
  BY <1>1 DEF Initialize
<1>2. ASSUME NEW s \in Sessions, NEW tool \in {"start", "finish"}, NEW q \in Runs,
           Call(s, tool, q)
    PROVE  EndedBySomebody' /\ ServerEndIsReportable'
  BY <1>2 DEF Call, Touch
<1>3. ASSUME NEW s \in Sessions,
           CallOther(s)
    PROVE  EndedBySomebody' /\ ServerEndIsReportable'
  BY <1>3 DEF CallOther, Touch
<1>4. ASSUME NEW s \in Sessions,
           NotFound(s)
    PROVE  EndedBySomebody' /\ ServerEndIsReportable'
  BY <1>4 DEF NotFound
<1>5. ASSUME NEW s \in Sessions, NEW how \in {"left", "closed"},
           Leave(s, how)
    PROVE  EndedBySomebody' /\ ServerEndIsReportable'
  BY <1>5 DEF Leave
<1>6. ASSUME NEW s \in Sessions,
           GrowSilent(s)
    PROVE  EndedBySomebody' /\ ServerEndIsReportable'
  BY <1>6 DEF GrowSilent
<1>7. ASSUME NEW s \in Sessions,
           Insert(s)
    PROVE  EndedBySomebody' /\ ServerEndIsReportable'
  BY <1>7 DEF Insert, Called, CallsAgree
<1>8. ASSUME NEW s \in Sessions,
           Adopt(s)
    PROVE  EndedBySomebody' /\ ServerEndIsReportable'
  BY <1>8 DEF Adopt, Returns
<1>9. ASSUME NEW s \in Sessions, NEW ending \in Ended, NEW kept \in BOOLEAN,
           Finish(s, ending, kept)
    PROVE  EndedBySomebody' /\ ServerEndIsReportable'
  BY <1>9 DEF Finish, EndRuns, Closable, Open
<1>10. ASSUME NEW s \in Sessions,
            Release(s)
     PROVE  EndedBySomebody' /\ ServerEndIsReportable'
  BY <1>10 DEF Release, Returns
<1>11. ASSUME NEW s \in Sessions,
            Watch(s)
     PROVE  EndedBySomebody' /\ ServerEndIsReportable'
  BY <1>11 DEF Watch, Forget
<1>12. ASSUME NEW s \in Sessions,
            SweepCheck(s)
     PROVE  EndedBySomebody' /\ ServerEndIsReportable'
  BY <1>12 DEF SweepCheck
<1>13. ASSUME NEW s \in Sessions,
            SweepClose(s)
     PROVE  EndedBySomebody' /\ ServerEndIsReportable'
  BY <1>13 DEF SweepClose, Forget
<1>14. ASSUME NEW s \in Sessions,
            PingMissed(s)
     PROVE  EndedBySomebody' /\ ServerEndIsReportable'
  BY <1>14 DEF PingMissed, Forget
<1>15. ASSUME NEW s \in Sessions,
            HangUp(s)
     PROVE  EndedBySomebody' /\ ServerEndIsReportable'
  BY <1>15 DEF HangUp
<1>16. ASSUME NEW s \in Sessions, NEW q \in Runs,
            CloseRun(s, q)
     PROVE  EndedBySomebody' /\ ServerEndIsReportable'
  BY <1>16 DEF CloseRun, EndRuns, Open
<1>17. ASSUME NEW s \in Sessions, NEW q \in Runs,
            CloseFails(s, q)
     PROVE  EndedBySomebody' /\ ServerEndIsReportable'
  BY <1>17 DEF CloseFails
<1>18. ASSUME NEW q \in Runs, NEW i \in Instances, NEW note \in BOOLEAN,
            BoardClose(q, i, note)
     PROVE  EndedBySomebody' /\ ServerEndIsReportable'
  BY <1>18 DEF BoardClose, EndRuns, Open, Closable
<1>19. ASSUME NEW i \in Instances,
            FallSilent(i)
     PROVE  EndedBySomebody' /\ ServerEndIsReportable'
  BY <1>19 DEF FallSilent
<1>20. ASSUME NEW i \in Instances,
            Heartbeat(i)
     PROVE  EndedBySomebody' /\ ServerEndIsReportable'
  BY <1>20 DEF Heartbeat
<1>21. ASSUME NEW i \in Instances,
            Drain(i)
     PROVE  EndedBySomebody' /\ ServerEndIsReportable'
  BY <1>21 DEF Drain
<1>22. ASSUME NEW i \in Instances,
            Die(i)
     PROVE  EndedBySomebody' /\ ServerEndIsReportable'
  BY <1>22 DEF Die
<1>23. ASSUME NEW i \in Instances,
            Reclaim(i)
     PROVE  EndedBySomebody' /\ ServerEndIsReportable'
  BY <1>23 DEF Reclaim, EndRuns, Orphaned, Open
<1>24. CASE UNCHANGED vars
  BY <1>24
<1>25. QED
  <2> HIDE DEF IInv, TypeOK, EndedBySomebody, ServerEndIsReportable, runVars, entryVars, instVars, vars
  <2>1. QED
    BY <1>1, <1>2, <1>3, <1>4, <1>5, <1>6, <1>7, <1>8, <1>9, <1>10, <1>11,
       <1>12, <1>13, <1>14, <1>15, <1>16, <1>17, <1>18, <1>19, <1>20, <1>21,
       <1>22, <1>23, <1>24, StepCases

------------------------------------------------------------------------------
(* What the calls in flight know of their runs stays true. *)
LEMMA CallsInductive ==
    ASSUME IInv, [Next]_vars
    PROVE  CallsAgree'
<1> USE ClientRunsAssumption DEF IInv, TypeOK, CallsAgree, Called,
            Calls, Idle, Ended, runVars, entryVars, instVars, vars
<1>1. ASSUME NEW s \in Sessions, Initialize(s) PROVE CallsAgree'
  BY <1>1 DEF Initialize
<1>2. ASSUME NEW s \in Sessions, NEW tool \in {"start", "finish"}, NEW q \in Runs,
           Call(s, tool, q)
    PROVE  CallsAgree'
  BY <1>2 DEF Call, Touch
<1>3. ASSUME NEW s \in Sessions, CallOther(s) PROVE CallsAgree'
  BY <1>3 DEF CallOther, Touch
<1>4. ASSUME NEW s \in Sessions, NotFound(s) PROVE CallsAgree'
  BY <1>4 DEF NotFound
<1>5. ASSUME NEW s \in Sessions, NEW how \in {"left", "closed"},
           Leave(s, how)
    PROVE  CallsAgree'
  BY <1>5 DEF Leave
<1>6. ASSUME NEW s \in Sessions, GrowSilent(s) PROVE CallsAgree'
  BY <1>6 DEF GrowSilent
<1>7. ASSUME NEW s \in Sessions, Insert(s) PROVE CallsAgree'
  BY <1>7 DEF Insert, Called
<1>8. ASSUME NEW s \in Sessions, Adopt(s) PROVE CallsAgree'
  BY <1>8 DEF Adopt, Returns
<1>9. ASSUME NEW s \in Sessions, NEW ending \in Ended, NEW kept \in BOOLEAN,
           Finish(s, ending, kept)
    PROVE  CallsAgree'
  BY <1>9 DEF Finish, EndRuns, Closable, Open
<1>10. ASSUME NEW s \in Sessions, Release(s) PROVE CallsAgree'
  BY <1>10 DEF Release, Returns
<1>11. ASSUME NEW s \in Sessions, Watch(s) PROVE CallsAgree'
  BY <1>11 DEF Watch, Forget
<1>12. ASSUME NEW s \in Sessions, SweepCheck(s) PROVE CallsAgree'
  BY <1>12 DEF SweepCheck
<1>13. ASSUME NEW s \in Sessions, SweepClose(s) PROVE CallsAgree'
  BY <1>13 DEF SweepClose, Forget
<1>14. ASSUME NEW s \in Sessions, PingMissed(s) PROVE CallsAgree'
  BY <1>14 DEF PingMissed, Forget
<1>15. ASSUME NEW s \in Sessions, HangUp(s) PROVE CallsAgree'
  BY <1>15 DEF HangUp
<1>16. ASSUME NEW s \in Sessions, NEW q \in Runs,
            CloseRun(s, q)
     PROVE  CallsAgree'
  BY <1>16 DEF CloseRun, EndRuns, Open
<1>17. ASSUME NEW s \in Sessions, NEW q \in Runs,
            CloseFails(s, q)
     PROVE  CallsAgree'
  BY <1>17 DEF CloseFails
<1>18. ASSUME NEW q \in Runs, NEW i \in Instances, NEW note \in BOOLEAN,
            BoardClose(q, i, note)
     PROVE  CallsAgree'
  BY <1>18 DEF BoardClose, EndRuns, Open, Closable
<1>19. ASSUME NEW i \in Instances, FallSilent(i) PROVE CallsAgree'
  BY <1>19 DEF FallSilent
<1>20. ASSUME NEW i \in Instances, Heartbeat(i) PROVE CallsAgree'
  BY <1>20 DEF Heartbeat
<1>21. ASSUME NEW i \in Instances, Drain(i) PROVE CallsAgree'
  BY <1>21 DEF Drain
<1>22. ASSUME NEW i \in Instances, Die(i) PROVE CallsAgree'
  BY <1>22 DEF Die
<1>23. ASSUME NEW i \in Instances, Reclaim(i) PROVE CallsAgree'
  BY <1>23 DEF Reclaim, EndRuns, Orphaned, Open
<1>24. CASE UNCHANGED vars
  BY <1>24
<1>25. QED
  <2> HIDE DEF IInv, TypeOK, CallsAgree, runVars, entryVars, instVars, vars
  <2>1. QED
    BY <1>1, <1>2, <1>3, <1>4, <1>5, <1>6, <1>7, <1>8, <1>9, <1>10, <1>11,
       <1>12, <1>13, <1>14, <1>15, <1>16, <1>17, <1>18, <1>19, <1>20, <1>21,
       <1>22, <1>23, <1>24, StepCases

------------------------------------------------------------------------------
(* A session adopts runs of its instance only. *)
LEMMA OwnedInductive ==
    ASSUME IInv, [Next]_vars
    PROVE  OwnedAtHome'
<1> USE DEF IInv, TypeOK, OwnedAtHome, Ended, runVars, entryVars, instVars, vars
<1>1. ASSUME NEW s \in Sessions, Initialize(s) PROVE OwnedAtHome'
  BY <1>1 DEF Initialize
<1>2. ASSUME NEW s \in Sessions, NEW tool \in {"start", "finish"}, NEW q \in Runs,
           Call(s, tool, q)
    PROVE  OwnedAtHome'
  BY <1>2 DEF Call, Touch
<1>3. ASSUME NEW s \in Sessions, CallOther(s) PROVE OwnedAtHome'
  BY <1>3 DEF CallOther, Touch
<1>4. ASSUME NEW s \in Sessions, NotFound(s) PROVE OwnedAtHome'
  BY <1>4 DEF NotFound
<1>5. ASSUME NEW s \in Sessions, NEW how \in {"left", "closed"},
           Leave(s, how)
    PROVE  OwnedAtHome'
  BY <1>5 DEF Leave
<1>6. ASSUME NEW s \in Sessions, GrowSilent(s) PROVE OwnedAtHome'
  BY <1>6 DEF GrowSilent
<1>7. ASSUME NEW s \in Sessions, Insert(s) PROVE OwnedAtHome'
  BY <1>7 DEF Insert, Called, CallsAgree, Calls, Idle
<1>8. ASSUME NEW s \in Sessions, Adopt(s) PROVE OwnedAtHome'
  BY <1>8 DEF Adopt, Returns, CallsAgree
<1>9. ASSUME NEW s \in Sessions, NEW ending \in Ended, NEW kept \in BOOLEAN,
           Finish(s, ending, kept)
    PROVE  OwnedAtHome'
  BY <1>9 DEF Finish, EndRuns, Called
<1>10. ASSUME NEW s \in Sessions, Release(s) PROVE OwnedAtHome'
  BY <1>10 DEF Release, Returns
<1>11. ASSUME NEW s \in Sessions, Watch(s) PROVE OwnedAtHome'
  BY <1>11 DEF Watch, Forget
<1>12. ASSUME NEW s \in Sessions, SweepCheck(s) PROVE OwnedAtHome'
  BY <1>12 DEF SweepCheck
<1>13. ASSUME NEW s \in Sessions, SweepClose(s) PROVE OwnedAtHome'
  BY <1>13 DEF SweepClose, Forget
<1>14. ASSUME NEW s \in Sessions, PingMissed(s) PROVE OwnedAtHome'
  BY <1>14 DEF PingMissed, Forget
<1>15. ASSUME NEW s \in Sessions, HangUp(s) PROVE OwnedAtHome'
  BY <1>15 DEF HangUp
<1>16. ASSUME NEW s \in Sessions, NEW q \in Runs,
            CloseRun(s, q)
     PROVE  OwnedAtHome'
  BY <1>16 DEF CloseRun, EndRuns, Open
<1>17. ASSUME NEW s \in Sessions, NEW q \in Runs,
            CloseFails(s, q)
     PROVE  OwnedAtHome'
  BY <1>17 DEF CloseFails
<1>18. ASSUME NEW q \in Runs, NEW i \in Instances, NEW note \in BOOLEAN,
            BoardClose(q, i, note)
     PROVE  OwnedAtHome'
  BY <1>18 DEF BoardClose, EndRuns
<1>19. ASSUME NEW i \in Instances, FallSilent(i) PROVE OwnedAtHome'
  BY <1>19 DEF FallSilent
<1>20. ASSUME NEW i \in Instances, Heartbeat(i) PROVE OwnedAtHome'
  BY <1>20 DEF Heartbeat
<1>21. ASSUME NEW i \in Instances, Drain(i) PROVE OwnedAtHome'
  BY <1>21 DEF Drain
<1>22. ASSUME NEW i \in Instances, Die(i) PROVE OwnedAtHome'
  BY <1>22 DEF Die
<1>23. ASSUME NEW i \in Instances, Reclaim(i) PROVE OwnedAtHome'
  BY <1>23 DEF Reclaim, EndRuns, Orphaned, Open
<1>24. CASE UNCHANGED vars
  BY <1>24
<1>25. QED
  <2> HIDE DEF IInv, TypeOK, OwnedAtHome, runVars, entryVars, instVars, vars
  <2>1. QED
    BY <1>1, <1>2, <1>3, <1>4, <1>5, <1>6, <1>7, <1>8, <1>9, <1>10, <1>11,
       <1>12, <1>13, <1>14, <1>15, <1>16, <1>17, <1>18, <1>19, <1>20, <1>21,
       <1>22, <1>23, <1>24, StepCases

------------------------------------------------------------------------------
(* The keepers of the open runs. *)
LEMMA KeepersInductive ==
    ASSUME IInv, [Next]_vars
    PROVE  OpenRunHasAKeeper'
<1>1. ASSUME NEW s \in Sessions, Initialize(s) PROVE OpenRunHasAKeeper'
  BY <1>1 DEF Initialize, IInv, TypeOK, OpenRunHasAKeeper, Keeper, Open,
     Ended, Calls, Idle, runVars, entryVars, instVars, vars
<1>2. ASSUME NEW s \in Sessions, NEW tool \in {"start", "finish"}, NEW q \in Runs,
           Call(s, tool, q)
    PROVE  OpenRunHasAKeeper'
  BY <1>2 DEF Call, Touch, IInv, TypeOK, OpenRunHasAKeeper, Keeper, Open,
     Ended, Calls, Idle, runVars, entryVars, instVars, vars
<1>3. ASSUME NEW s \in Sessions, CallOther(s) PROVE OpenRunHasAKeeper'
  BY <1>3 DEF CallOther, Touch, IInv, TypeOK, OpenRunHasAKeeper, Keeper,
     Open, Ended, Calls, Idle, runVars, entryVars, instVars, vars
<1>4. ASSUME NEW s \in Sessions, NotFound(s) PROVE OpenRunHasAKeeper'
  BY <1>4 DEF NotFound, IInv, TypeOK, OpenRunHasAKeeper, Keeper, Open,
     Ended, Calls, Idle, runVars, entryVars, instVars, vars
<1>5. ASSUME NEW s \in Sessions, NEW how \in {"left", "closed"},
           Leave(s, how)
    PROVE  OpenRunHasAKeeper'
  BY <1>5 DEF Leave, IInv, TypeOK, OpenRunHasAKeeper, Keeper, Open, Ended,
     Calls, Idle, runVars, entryVars, instVars, vars
<1>6. ASSUME NEW s \in Sessions, GrowSilent(s) PROVE OpenRunHasAKeeper'
  BY <1>6 DEF GrowSilent, IInv, TypeOK, OpenRunHasAKeeper, Keeper, Open,
     Ended, Calls, Idle, runVars, entryVars, instVars, vars
<1>7. ASSUME NEW s \in Sessions, Insert(s) PROVE OpenRunHasAKeeper'
  BY <1>7 DEF Insert, Called, IInv, TypeOK, OpenRunHasAKeeper, Keeper,
     Open, Ended, Calls, Idle, runVars, entryVars, instVars, vars
<1>8. ASSUME NEW s \in Sessions, Adopt(s) PROVE OpenRunHasAKeeper'
  <2> SUFFICES ASSUME NEW r \in Runs, Open(r)' PROVE Keeper(r)'
    BY DEF OpenRunHasAKeeper
  <2>1. Open(r) /\ Keeper(r)
    BY <1>8 DEF Adopt, IInv, OpenRunHasAKeeper, Open, runVars
  <2>2. CASE call[s].run = r /\ phase[s] = "live"
    <3>1. r \in owned'[s] /\ phase' = phase
      BY <1>8, <2>2 DEF Adopt, IInv, TypeOK
    <3>2. QED
      BY <2>2, <3>1 DEF Keeper
  <2>3. CASE call[s].run = r /\ phase[s] # "live"
    BY <1>8, <2>3 DEF Adopt, Keeper
  <2>4. CASE call[s].run # r
    <3>1. ASSUME NEW t \in Sessions, call[t].step = "inserted", call[t].run = r
          PROVE  call'[t] = call[t]
      BY <1>8, <2>4, <3>1 DEF Adopt, Returns, IInv, TypeOK
    <3>2. \A t \in Sessions : owned[t] \subseteq owned'[t] /\ phase'[t] = phase[t]
      BY <1>8 DEF Adopt, IInv, TypeOK
    <3>3. strays \subseteq strays' /\ up' = up /\ inst' = inst
      BY <1>8 DEF Adopt, runVars, instVars
    <3>4. QED
      BY <2>1, <3>1, <3>2, <3>3 DEF Keeper
  <2>5. QED
    BY <2>2, <2>3, <2>4
<1>9. ASSUME NEW s \in Sessions, NEW ending \in Ended, NEW kept \in BOOLEAN,
           Finish(s, ending, kept)
    PROVE  OpenRunHasAKeeper'
  BY <1>9 DEF Finish, EndRuns, Called, IInv, TypeOK, OpenRunHasAKeeper,
     Keeper, Open, Ended, Calls, Idle, runVars, entryVars, instVars, vars
<1>10. ASSUME NEW s \in Sessions, Release(s) PROVE OpenRunHasAKeeper'
  BY <1>10 DEF Release, Returns, CallsAgree, IInv, TypeOK,
     OpenRunHasAKeeper, Keeper, Open, Ended, Calls, Idle, runVars,
     entryVars, instVars, vars
<1>11. ASSUME NEW s \in Sessions, Watch(s) PROVE OpenRunHasAKeeper'
  BY <1>11 DEF Watch, Forget, IInv, TypeOK, OpenRunHasAKeeper, Keeper,
     Open, Ended, Calls, Idle, runVars, entryVars, instVars, vars
<1>12. ASSUME NEW s \in Sessions, SweepCheck(s) PROVE OpenRunHasAKeeper'
  BY <1>12 DEF SweepCheck, IInv, TypeOK, OpenRunHasAKeeper, Keeper, Open,
     Ended, Calls, Idle, runVars, entryVars, instVars, vars
<1>13. ASSUME NEW s \in Sessions, SweepClose(s) PROVE OpenRunHasAKeeper'
  BY <1>13 DEF SweepClose, Forget, IInv, TypeOK, OpenRunHasAKeeper,
     Keeper, Open, Ended, Calls, Idle, runVars, entryVars, instVars, vars
<1>14. ASSUME NEW s \in Sessions, PingMissed(s) PROVE OpenRunHasAKeeper'
  BY <1>14 DEF PingMissed, Forget, IInv, TypeOK, OpenRunHasAKeeper,
     Keeper, Open, Ended, Calls, Idle, runVars, entryVars, instVars, vars
<1>15. ASSUME NEW s \in Sessions, HangUp(s) PROVE OpenRunHasAKeeper'
  BY <1>15 DEF HangUp, IInv, TypeOK, OpenRunHasAKeeper, Keeper, Open,
     Ended, Calls, Idle, runVars, entryVars, instVars, vars
<1>16. ASSUME NEW s \in Sessions, NEW q \in Runs,
            CloseRun(s, q)
     PROVE  OpenRunHasAKeeper'
  BY <1>16 DEF CloseRun, EndRuns, IInv, TypeOK, OpenRunHasAKeeper, Keeper,
     Open, Ended, Calls, Idle, runVars, entryVars, instVars, vars
<1>17. ASSUME NEW s \in Sessions, NEW q \in Runs,
            CloseFails(s, q)
     PROVE  OpenRunHasAKeeper'
  BY <1>17 DEF CloseFails, IInv, TypeOK, OpenRunHasAKeeper, Keeper, Open,
     Ended, Calls, Idle, runVars, entryVars, instVars, vars
<1>18. ASSUME NEW q \in Runs, NEW i \in Instances, NEW note \in BOOLEAN,
            BoardClose(q, i, note)
     PROVE  OpenRunHasAKeeper'
  BY <1>18 DEF BoardClose, EndRuns, IInv, TypeOK, OpenRunHasAKeeper,
     Keeper, Open, Ended, Calls, Idle, runVars, entryVars, instVars, vars
<1>19. ASSUME NEW i \in Instances, FallSilent(i) PROVE OpenRunHasAKeeper'
  BY <1>19 DEF FallSilent, IInv, TypeOK, OpenRunHasAKeeper, Keeper, Open,
     Ended, Calls, Idle, runVars, entryVars, instVars, vars
<1>20. ASSUME NEW i \in Instances, Heartbeat(i) PROVE OpenRunHasAKeeper'
  BY <1>20 DEF Heartbeat, IInv, TypeOK, OpenRunHasAKeeper, Keeper, Open,
     Ended, Calls, Idle, runVars, entryVars, instVars, vars
<1>21. ASSUME NEW i \in Instances, Drain(i) PROVE OpenRunHasAKeeper'
  BY <1>21 DEF Drain, IInv, TypeOK, OpenRunHasAKeeper, Keeper, Open,
     Ended, Calls, Idle, runVars, entryVars, instVars, vars
<1>22. ASSUME NEW i \in Instances, Die(i) PROVE OpenRunHasAKeeper'
  <2> SUFFICES ASSUME NEW r \in Runs, Open(r)' PROVE Keeper(r)'
    BY DEF OpenRunHasAKeeper
  <2>1. Open(r) /\ Keeper(r)
    BY <1>22 DEF Die, IInv, OpenRunHasAKeeper, Open, runVars
  <2>2. inst' = inst /\ strays' = strays
    BY <1>22 DEF Die, runVars
  <2>3. up'[i] = "down" /\ \A j \in Instances : up[j] = "down" => up'[j] = "down"
    BY <1>22 DEF Die, IInv, TypeOK
  <2>4. CASE inst[r] = i
    BY <2>2, <2>3, <2>4 DEF Keeper
  <2>5. CASE inst[r] # i
    <3>1. \A s \in Sessions : r \in owned[s] => Home[s] # i
      BY <2>5 DEF IInv, OwnedAtHome
    <3>2. \A s \in Sessions : call[s].step = "inserted" /\ call[s].run = r => Home[s] # i
      BY <2>5 DEF IInv, CallsAgree
    <3>3. \A s \in Sessions : Home[s] # i => phase'[s] = phase[s] /\ owned'[s] = owned[s]
                                           /\ call'[s] = call[s]
      BY <1>22 DEF Die, IInv, TypeOK
    <3>4. up[inst[r]] = "down" => up'[inst[r]] = "down"
      BY <2>5, <1>22 DEF Die, IInv, TypeOK
    <3>5. QED
      BY <2>1, <2>2, <3>1, <3>2, <3>3, <3>4 DEF Keeper
  <2>6. QED
    BY <2>4, <2>5
<1>23. ASSUME NEW i \in Instances, Reclaim(i) PROVE OpenRunHasAKeeper'
  BY <1>23 DEF Reclaim, EndRuns, Orphaned, IInv, TypeOK,
     OpenRunHasAKeeper, Keeper, Open, Ended, Calls, Idle, runVars,
     entryVars, instVars, vars
<1>24. CASE UNCHANGED vars
  BY <1>24 DEF vars, IInv, TypeOK, OpenRunHasAKeeper, Keeper, Open, Ended,
     Calls, Idle, runVars, entryVars, instVars, vars
<1>25. QED
  BY <1>1, <1>2, <1>3, <1>4, <1>5, <1>6, <1>7, <1>8, <1>9, <1>10, <1>11,
     <1>12, <1>13, <1>14, <1>15, <1>16, <1>17, <1>18, <1>19, <1>20, <1>21,
     <1>22, <1>23, <1>24, StepCases

------------------------------------------------------------------------------
(* At the start no run exists and no session is known. *)
LEMMA InitHolds == Init => IInv
<1> SUFFICES ASSUME Init PROVE IInv
  OBVIOUS
<1> USE DEF Init
<1>1. TypeOK
  BY DEF TypeOK, Ended, Calls, Idle
<1>2. CallsAgree
  BY DEF CallsAgree, Called, Idle
<1>3. OwnedAtHome
  BY DEF OwnedAtHome
<1>4. EndedBySomebody /\ ServerEndIsReportable
  BY DEF EndedBySomebody, ServerEndIsReportable, Ended
<1>5. OpenRunHasAKeeper
  BY DEF OpenRunHasAKeeper, Open
<1>6. QED
  BY <1>1, <1>2, <1>3, <1>4, <1>5 DEF IInv

LEMMA StepHolds == IInv /\ [Next]_vars => IInv'
<1> SUFFICES ASSUME IInv, [Next]_vars PROVE IInv'
  OBVIOUS
<1>1. TypeOK
  BY DEF IInv
<1>2. QED
  BY <1>1, TypeInductive, RowsInductive, CallsInductive, OwnedInductive, KeepersInductive
     DEF IInv

(* The inductive invariant of sessions and runs: whatever closes, dies or  *)
(* comes back, calls in flight, owned runs and ended rows agree.            *)
THEOREM Invariance == Spec => []IInv
<1>1. Init => IInv
  BY InitHolds
<1>2. IInv /\ [Next]_vars => IInv'
  BY StepHolds
<1>3. QED
  BY <1>1, <1>2, PTL DEF Spec

(* No open run is forgotten: Adopt, Release, Close and ReleaseRun of the    *)
(* registry, the pings and the reclaims leave each with a keeper.           *)
THEOREM OpenRunHasAKeeperHolds == Spec => []OpenRunHasAKeeper
<1>1. IInv => OpenRunHasAKeeper
  BY DEF IInv
<1>2. QED
  BY <1>1, Invariance, PTL

(* What a closing session or a reclaim wrote can be corrected by the owner. *)
THEOREM ServerEndIsReportableHolds == Spec => []ServerEndIsReportable
<1>1. IInv => ServerEndIsReportable
  BY DEF IInv
<1>2. QED
  BY <1>1, Invariance, PTL

------------------------------------------------------------------------------
(* Every statement that ends a run looks at the status it rewrites. *)
LEMMA StepReports ==
    ASSUME IInv, [Next]_vars, NEW r \in Runs
    PROVE  /\ status[r] = "completed" => status'[r] = "completed"
           /\ by[r] \in {"owner", "user"} => by'[r] \in {"owner", "user"}
<1> DEFINE Stands ==
        /\ status[r] = "completed" => status'[r] = "completed"
        /\ by[r] \in {"owner", "user"} => by'[r] \in {"owner", "user"}
<1> USE DEF IInv, TypeOK, EndedBySomebody, Ended, Open,
            runVars, entryVars, instVars, vars
<1>1. ASSUME NEW s \in Sessions, Initialize(s) PROVE Stands
  BY <1>1 DEF Initialize
<1>2. ASSUME NEW s \in Sessions, NEW tool \in {"start", "finish"}, NEW q \in Runs,
           Call(s, tool, q)
    PROVE  Stands
  BY <1>2 DEF Call, Touch
<1>3. ASSUME NEW s \in Sessions, CallOther(s) PROVE Stands
  BY <1>3 DEF CallOther, Touch
<1>4. ASSUME NEW s \in Sessions, NotFound(s) PROVE Stands
  BY <1>4 DEF NotFound
<1>5. ASSUME NEW s \in Sessions, NEW how \in {"left", "closed"},
           Leave(s, how)
    PROVE  Stands
  BY <1>5 DEF Leave
<1>6. ASSUME NEW s \in Sessions, GrowSilent(s) PROVE Stands
  BY <1>6 DEF GrowSilent
<1>7. ASSUME NEW s \in Sessions, Insert(s) PROVE Stands
  BY <1>7 DEF Insert, Called, CallsAgree
<1>8. ASSUME NEW s \in Sessions, Adopt(s) PROVE Stands
  BY <1>8 DEF Adopt, Returns
<1>9. ASSUME NEW s \in Sessions, NEW ending \in Ended, NEW kept \in BOOLEAN,
           Finish(s, ending, kept)
    PROVE  Stands
  BY <1>9 DEF Finish, EndRuns, Closable
<1>10. ASSUME NEW s \in Sessions, Release(s) PROVE Stands
  BY <1>10 DEF Release, Returns
<1>11. ASSUME NEW s \in Sessions, Watch(s) PROVE Stands
  BY <1>11 DEF Watch, Forget
<1>12. ASSUME NEW s \in Sessions, SweepCheck(s) PROVE Stands
  BY <1>12 DEF SweepCheck
<1>13. ASSUME NEW s \in Sessions, SweepClose(s) PROVE Stands
  BY <1>13 DEF SweepClose, Forget
<1>14. ASSUME NEW s \in Sessions, PingMissed(s) PROVE Stands
  BY <1>14 DEF PingMissed, Forget
<1>15. ASSUME NEW s \in Sessions, HangUp(s) PROVE Stands
  BY <1>15 DEF HangUp
<1>16. ASSUME NEW s \in Sessions, NEW q \in Runs, CloseRun(s, q) PROVE Stands
  BY <1>16 DEF CloseRun, EndRuns
<1>17. ASSUME NEW s \in Sessions, NEW q \in Runs, CloseFails(s, q) PROVE Stands
  BY <1>17 DEF CloseFails
<1>18. ASSUME NEW q \in Runs, NEW i \in Instances, NEW note \in BOOLEAN,
            BoardClose(q, i, note)
     PROVE  Stands
  BY <1>18 DEF BoardClose, EndRuns, Closable
<1>19. ASSUME NEW i \in Instances, FallSilent(i) PROVE Stands
  BY <1>19 DEF FallSilent
<1>20. ASSUME NEW i \in Instances, Heartbeat(i) PROVE Stands
  BY <1>20 DEF Heartbeat
<1>21. ASSUME NEW i \in Instances, Drain(i) PROVE Stands
  BY <1>21 DEF Drain
<1>22. ASSUME NEW i \in Instances, Die(i) PROVE Stands
  BY <1>22 DEF Die
<1>23. ASSUME NEW i \in Instances, Reclaim(i) PROVE Stands
  BY <1>23 DEF Reclaim, EndRuns, Orphaned
<1>24. CASE UNCHANGED vars
  BY <1>24
<1>25. QED
  BY <1>1, <1>2, <1>3, <1>4, <1>5, <1>6, <1>7, <1>8, <1>9, <1>10, <1>11,
     <1>12, <1>13, <1>14, <1>15, <1>16, <1>17, <1>18, <1>19, <1>20, <1>21,
     <1>22, <1>23, <1>24, StepCases

(* A report and a decision of the board survive whatever was in flight when *)
(* they were written.                                                       *)
THEOREM ReportStandsHolds == Spec => ReportStands
<1>1. IInv /\ [Next]_vars =>
        [\A r \in Runs :
            /\ status[r] = "completed" => status'[r] = "completed"
            /\ by[r] \in {"owner", "user"} => by'[r] \in {"owner", "user"}]_vars
  BY StepReports
<1>2. QED
  BY <1>1, Invariance, PTL DEF Spec, ReportStands

------------------------------------------------------------------------------
(* The contract of the records, step by step. *)
LEMMA EndRefines ==
    ASSUME TypeOK, NEW rs \in SUBSET Runs, NEW ending \in Ended, NEW note \in BOOLEAN,
           NEW who \in {"owner", "user", "server"}, who = "server" => ending = "canceled",
           EndRuns(rs, ending, note, who), \A r \in rs : Open(r)
    PROVE  [Record!Next]_Record!vars
<1> DEFINE end == IF who = "server" THEN "presumed" ELSE ending
<1>1. end \in Record!Ended
  BY DEF Ended, Record!Ended
<1>2. \A r \in Runs : State(r)' = IF r \in rs THEN end ELSE State(r)
  <2> SUFFICES ASSUME NEW r \in Runs PROVE State(r)' = IF r \in rs THEN end ELSE State(r)
    OBVIOUS
  <2>1. CASE r \in rs
    <3>1. status'[r] = ending /\ by'[r] = who
      BY <2>1 DEF EndRuns
    <3>2. QED
      BY <2>1, <3>1 DEF State, Open, Ended
  <2>2. CASE r \notin rs
    <3>1. status'[r] = status[r] /\ by'[r] = by[r]
      BY <2>2 DEF EndRuns
    <3>2. QED
      BY <2>2, <3>1 DEF State, Open
  <2>3. QED
    BY <2>1, <2>2
<1>3. stateOf' = [r \in Runs |-> IF r \in rs THEN end ELSE stateOf[r]]
  BY <1>2 DEF stateOf
<1>4. \A r \in rs : stateOf[r] = "running"
  <2>1. \A r \in Runs : Open(r) => State(r) = "running"
    BY DEF State, Open
  <2>2. QED
    BY <2>1 DEF stateOf
<1>5. Record!End(rs, end, note)
  BY <1>3, <1>4 DEF Record!End, Record!Becomes, EndRuns
<1>6. QED
  BY <1>1, <1>5 DEF Record!Next

LEMMA CorrectionRefines ==
    ASSUME TypeOK, NEW r \in Runs, NEW ending \in Ended, NEW note \in BOOLEAN,
           NEW who \in {"owner", "user"}, EndRuns({r}, ending, note, who), Closable(r)
    PROVE  [Record!Next]_Record!vars
<1>1. CASE Open(r)
  BY <1>1, EndRefines
<1>2. CASE ~Open(r)
  <2>1. status[r] = "canceled" /\ parted[r]
    BY <1>2 DEF Closable
  <2>2. State(r) \in {"presumed", "canceled"}
    BY <1>2, <2>1 DEF State
  <2>3. status'[r] = ending /\ by'[r] = who
    BY DEF EndRuns
  <2>4. State(r)' = ending
    BY <2>3 DEF State, Open, Ended
  <2>5. \A q \in Runs \ {r} : State(q)' = State(q)
    BY DEF State, Open, EndRuns
  <2>6. stateOf' = [q \in Runs |-> IF q \in {r} THEN ending ELSE stateOf[q]]
    BY <2>4, <2>5 DEF stateOf
  <2>7. Record!Correct(r, ending, note)
    BY <2>1, <2>2, <2>6 DEF Record!Correct, Record!Becomes, EndRuns, stateOf, Ended
  <2>8. QED
    BY <2>7 DEF Record!Next, Record!Ended, Ended
<1>3. QED
  BY <1>1, <1>2

LEMMA InsertionRefines ==
    ASSUME TypeOK, CallsAgree, NEW s \in Sessions, Insert(s)
    PROVE  [Record!Next]_Record!vars
<1>0. call[s].run \in Runs /\ status[call[s].run] = "absent"
  BY ClientRunsAssumption DEF Insert, Called, TypeOK, Calls, Idle, CallsAgree
<1>1. PICK r \in Runs : r = call[s].run /\ status[r] = "absent"
  BY <1>0
<1>2. status' = [status EXCEPT ![r] = "running"] /\ UNCHANGED <<parted, by>>
  BY <1>1 DEF Insert
<1>3. State(r) = "absent" /\ State(r)' = "running"
  <2>1. status'[r] = "running"
    BY <1>1, <1>2 DEF TypeOK
  <2>2. QED
    BY <1>1, <2>1 DEF State, Open
<1>4. \A q \in Runs \ {r} : State(q)' = State(q)
  BY <1>2 DEF TypeOK, State, Open
<1>5. stateOf[r] = "absent" /\ stateOf' = [stateOf EXCEPT ![r] = "running"]
  BY <1>1, <1>3, <1>4 DEF stateOf
<1>6. Record!Insert(r)
  BY <1>1, <1>2, <1>5 DEF Record!Insert
<1>7. QED
  BY <1>1, <1>6 DEF Record!Next

LEMMA StepRefines ==
    ASSUME IInv, [Next]_vars
    PROVE  [Record!Next]_Record!vars
<1> USE DEF runVars, entryVars, instVars
<1> DEFINE Goal == [Record!Next]_Record!vars
<1>0. TypeOK /\ CallsAgree
  BY DEF IInv
<1>1. ASSUME UNCHANGED <<status, parted, by>> PROVE Goal
  BY <1>1 DEF Record!vars, stateOf, State, Open
<1>2. ASSUME NEW s \in Sessions, Insert(s) PROVE Goal
  BY <1>0, <1>2, InsertionRefines
<1>3. ASSUME NEW s \in Sessions, NEW ending \in Ended, NEW kept \in BOOLEAN,
             Finish(s, ending, kept)
      PROVE  Goal
  <2> DEFINE r == call[s].run
  <2>1. CASE Closable(r)
    <3>1. r \in Runs
      BY <1>0, <1>3 DEF Finish, Called, TypeOK, Calls, Idle
    <3>2. EndRuns({r}, ending, kept /\ parted[r], "owner")
      BY <1>3, <2>1 DEF Finish
    <3>3. (kept /\ parted[r]) \in BOOLEAN
      OBVIOUS
    <3>4. QED
      BY <1>0, <2>1, <3>1, <3>2, <3>3, CorrectionRefines
  <2>2. CASE ~Closable(r)
    BY <1>1, <1>3, <2>2 DEF Finish
  <2>3. QED
    BY <2>1, <2>2
<1>4. ASSUME NEW s \in Sessions, NEW r \in Runs, CloseRun(s, r) PROVE Goal
  <2> DEFINE rs == IF Open(r) THEN {r} ELSE {}
  <2>1. EndRuns(rs, "canceled", TRUE, "server") /\ \A q \in rs : Open(q)
    BY <1>4 DEF CloseRun
  <2>2. rs \in SUBSET Runs /\ "canceled" \in Ended
    BY DEF Ended
  <2> HIDE DEF rs
  <2>3. QED
    BY <1>0, <2>1, <2>2, EndRefines
<1>5. ASSUME NEW r \in Runs, NEW i \in Instances, NEW note \in BOOLEAN, BoardClose(r, i, note)
      PROVE  Goal
  BY <1>0, <1>5, CorrectionRefines DEF BoardClose, Ended
<1>6. ASSUME NEW j \in Instances, Reclaim(j) PROVE Goal
  <2>1. EndRuns(Orphaned, "canceled", TRUE, "server") /\ \A r \in Orphaned : Open(r)
    BY <1>6 DEF Reclaim, Orphaned
  <2>2. Orphaned \in SUBSET Runs /\ "canceled" \in Ended
    BY DEF Orphaned, Ended
  <2>3. QED
    BY <1>0, <2>1, <2>2, EndRefines
<1>7. ASSUME NEW s \in Sessions,
             \/ Initialize(s) \/ CallOther(s) \/ NotFound(s) \/ GrowSilent(s)
             \/ \E tool \in {"start", "finish"}, r \in Runs : Call(s, tool, r)
             \/ \E how \in {"left", "closed"} : Leave(s, how)
             \/ Adopt(s) \/ Release(s) \/ Watch(s) \/ SweepCheck(s) \/ SweepClose(s)
             \/ PingMissed(s) \/ HangUp(s) \/ \E r \in Runs : CloseFails(s, r)
      PROVE  Goal
  BY <1>1, <1>7 DEF Initialize, CallOther, NotFound, GrowSilent, Call, Leave, Adopt, Release,
     Watch, SweepCheck, SweepClose, PingMissed, HangUp, CloseFails
<1>8. ASSUME NEW i \in Instances, FallSilent(i) \/ Heartbeat(i) \/ Drain(i) \/ Die(i) PROVE Goal
  BY <1>1, <1>8 DEF FallSilent, Heartbeat, Drain, Die
<1>9. CASE UNCHANGED vars
  BY <1>1, <1>9 DEF vars
<1>10. QED
  <2>1. CASE \E s \in Sessions :
               \/ Insert(s)
               \/ \E ending \in Ended, kept \in BOOLEAN : Finish(s, ending, kept)
               \/ \E r \in Runs : CloseRun(s, r)
    BY <2>1, <1>2, <1>3, <1>4
  <2>2. QED
    BY <2>1, StepCases, <1>5, <1>6, <1>7, <1>8, <1>9

(* Sessions, tools, the board and the reclaims keep the contract of the    *)
(* records: the server writes what it infers over an open run only, and    *)
(* what it inferred is all that a report may correct.                      *)
THEOREM ContractImplemented == Spec => ContractHolds
<1>1. Init => Record!Init
  <2> SUFFICES ASSUME Init PROVE Record!Init
    OBVIOUS
  <2>1. \A r \in Runs : State(r) = "absent"
    BY DEF Init, State, Open
  <2>2. stateOf = [r \in Runs |-> "absent"]
    BY <2>1 DEF stateOf
  <2>3. QED
    BY <2>2 DEF Init, Record!Init
<1>2. IInv /\ [Next]_vars => [Record!Next]_Record!vars
  BY StepRefines
<1>3. QED
  BY <1>1, <1>2, Invariance, PTL DEF Spec, ContractHolds, Record!Spec

(* So a run that ended is never open again, whoever sweeps, drains or      *)
(* reclaims, and the server presumes nothing of a run whose end is known.  *)
THEOREM RecordConsequences == Spec => Record!EndedForGood /\ Record!KnownEndStands
  BY ContractImplemented, Record!EndedForGoodHolds, Record!KnownEndStandsHolds DEF ContractHolds
==============================================================================
