------------------------- MODULE AgentLaunch_proofs --------------------------
(***************************************************************************)
(* The safety of launches, for any number of launches and instances, any   *)
(* mix of queued and direct launches and any failing statement.            *)
(***************************************************************************)
EXTENDS AgentLaunch, TLAPS

(* The launcher, the agent, the user and the instances act one at a time. *)
LEMMA StepCases ==
    ASSUME [Next]_vars
    PROVE  \/ \E l \in Launches, i \in Instances : Check(l, i)
           \/ \E l \in Launches : Launcher(l) \/ Agent(l) \/ User(l)
           \/ \E i \in Instances : Instance(i)
           \/ Sweep
           \/ UNCHANGED vars
  BY DEF Next

------------------------------------------------------------------------------
(* The state keeps its type. *)
LEMMA TypeInductive ==
    ASSUME TypeOK, [Next]_vars
    PROVE  TypeOK'
<1> USE DEF TypeOK, Active, Ended, Registered, launchVars, workerVars, userVars, instVars
<1>1. ASSUME NEW l \in Launches, NEW i \in Instances, Check(l, i) PROVE TypeOK'
  BY <1>1 DEF Check, Busy
<1>2. ASSUME NEW l \in Launches, RefuseBusy(l) PROVE TypeOK'
  BY <1>2 DEF RefuseBusy
<1>3. ASSUME NEW l \in Launches, Enqueue(l) PROVE TypeOK'
  BY <1>3 DEF Enqueue
<1>4. ASSUME NEW l \in Launches, Claim(l) PROVE TypeOK'
  BY <1>4 DEF Claim, Skip
<1>5. ASSUME NEW l \in Launches, Rename(l) PROVE TypeOK'
  BY <1>5 DEF Rename
<1>6. ASSUME NEW l \in Launches, StartQueued(l) PROVE TypeOK'
  BY <1>6 DEF StartQueued, MayRecordRun, OrdinaryBusy
<1>7. ASSUME NEW l \in Launches, FailStart(l) PROVE TypeOK'
  BY <1>7 DEF FailStart
<1>8. ASSUME NEW l \in Launches, StartDirect(l) PROVE TypeOK'
  BY <1>8 DEF StartDirect, OrdinaryBusy
<1>9. ASSUME NEW l \in Launches, FailStartDirect(l) PROVE TypeOK'
  BY <1>9 DEF FailStartDirect
<1>10. ASSUME NEW l \in Launches, RecordLaunch(l) PROVE TypeOK'
  <2>1. /\ run' \in [Launches -> {"none", "running"} \union Ended]
        /\ closed' \in [Launches -> {"none", "undispatched", "reclaimed", "launcher", "reported",
                                     "stopped", "orphan", "unproven", "forced"}]
        /\ unwritten' \in [Launches -> SUBSET {"claim", "dispatch", "complete", "finish", "close"}]
    BY <1>10 DEF RecordLaunch, CloseOwnRun, CloseRun, Skip
  <2>2. /\ row' \in [Launches -> {"none"} \union Active \union Ended]
        /\ skill' \in [Launches -> {"stage", "agent_launch"}]
        /\ pc' \in [Launches -> {"idle", "checked", "queued", "claimed", "renamed",
                                 "unlogged", "recorded", "sending", "sent", "answered",
                                 "failing", "closing", "done", "lost"}]
    BY <1>10 DEF RecordLaunch
  <2>3. QED
    BY <1>10, <2>1, <2>2 DEF RecordLaunch
<1>11. ASSUME NEW l \in Launches, ClaimDispatch(l) PROVE TypeOK'
  BY <1>11 DEF ClaimDispatch, MayDispatch
<1>12. ASSUME NEW l \in Launches, FailDispatch(l) PROVE TypeOK'
  BY <1>12 DEF FailDispatch, Skip
<1>13. ASSUME NEW l \in Launches, Send(l) PROVE TypeOK'
  BY <1>13 DEF Send
<1>14. ASSUME NEW l \in Launches, SendFails(l) PROVE TypeOK'
  BY <1>14 DEF SendFails
<1>15. ASSUME NEW l \in Launches, Answered(l) PROVE TypeOK'
  BY <1>15 DEF Answered
<1>16. ASSUME NEW l \in Launches, Unconfirmed(l) PROVE TypeOK'
  BY <1>16 DEF Unconfirmed
<1>17. ASSUME NEW l \in Launches, CompleteDispatch(l) PROVE TypeOK'
  BY <1>17 DEF CompleteDispatch, AfterDispatch, Skip
<1>18. ASSUME NEW l \in Launches, FailRun(l) PROVE TypeOK'
  BY <1>18 DEF FailRun, CloseOwnRun, CloseRun, Skip
<1>19. ASSUME NEW l \in Launches, CloseLaunch(l) PROVE TypeOK'
  BY <1>19 DEF CloseLaunch, Skip
<1>20. ASSUME NEW l \in Launches, Receive(l) PROVE TypeOK'
  BY <1>20 DEF Receive
<1>21. ASSUME NEW l \in Launches, Drop(l) PROVE TypeOK'
  BY <1>21 DEF Drop
<1>22. ASSUME NEW l \in Launches, Admit(l) PROVE TypeOK'
  BY <1>22 DEF Admit
<1>23. ASSUME NEW l \in Launches, RefuseDispatch(l) PROVE TypeOK'
  BY <1>23 DEF RefuseDispatch
<1>24. ASSUME NEW l \in Launches, Exit(l) PROVE TypeOK'
  BY <1>24 DEF Exit
<1>25. ASSUME NEW l \in Launches, Report(l) PROVE TypeOK'
  BY <1>25 DEF Report, CloseRun
<1>26. ASSUME NEW l \in Launches, ReportSession(l) PROVE TypeOK'
  BY <1>26 DEF ReportSession, CloseRun
<1>27. ASSUME NEW l \in Launches, AgentStops(l) PROVE TypeOK'
  BY <1>27 DEF AgentStops
<1>28. ASSUME NEW l \in Launches, CancelQueued(l) PROVE TypeOK'
  BY <1>28 DEF CancelQueued
<1>29. ASSUME NEW l \in Launches, CancelUndispatched(l) PROVE TypeOK'
  BY <1>29 DEF CancelUndispatched, CloseRun
<1>30. ASSUME NEW l \in Launches, RequestStop(l) PROVE TypeOK'
  BY <1>30 DEF RequestStop
<1>31. ASSUME NEW l \in Launches, StopProcess(l) PROVE TypeOK'
  BY <1>31 DEF StopProcess, Asked
<1>32. ASSUME NEW l \in Launches, ConfirmStop(l) PROVE TypeOK'
  BY <1>32 DEF ConfirmStop, Asked
<1>33. ASSUME NEW l \in Launches, DenyRun(l) PROVE TypeOK'
  BY <1>33 DEF DenyRun, Asked
<1>34. ASSUME NEW l \in Launches, StopFails(l) PROVE TypeOK'
  BY <1>34 DEF StopFails
<1>35. ASSUME NEW l \in Launches, GiveUpStop(l) PROVE TypeOK'
  BY <1>35 DEF GiveUpStop
<1>36. ASSUME NEW l \in Launches, FinishStop(l) PROVE TypeOK'
  BY <1>36 DEF FinishStop, CloseRun
<1>37. ASSUME NEW i \in Instances, StartInstance(i) PROVE TypeOK'
  BY <1>37 DEF StartInstance
<1>38. ASSUME NEW i \in Instances, StopInstance(i) PROVE TypeOK'
  <2>1. seen' \in [Instances -> BOOLEAN]
    <3>1. seen \in [Instances -> BOOLEAN]
      OBVIOUS
    <3>2. seen' = seen \/ seen' = [seen EXCEPT ![i] = FALSE]
      BY <1>38 DEF StopInstance
    <3>3. QED
      BY <3>1, <3>2, ZenonT(60)
  <2>2. up' \in [Instances -> {"unborn", "up", "down"}]
    BY <1>38 DEF StopInstance
  <2>3. pc' = [l \in Launches |->
                 IF owner[l] = i /\ pc[l] \notin {"idle", "done"} THEN "lost" ELSE pc[l]]
    BY <1>38 DEF StopInstance
  <2>4. UNCHANGED <<launchVars, owner, err, unwritten, agent, userVars, sweep>>
    BY <1>38 DEF StopInstance
  <2>5. QED
    BY <2>1, <2>2, <2>3, <2>4
<1>39. ASSUME NEW i \in Instances, GoStale(i) PROVE TypeOK'
  BY <1>39 DEF GoStale
<1>40. ASSUME NEW i \in Instances, Heartbeat(i) PROVE TypeOK'
  BY <1>40 DEF Heartbeat
<1>41. CASE ReclaimJobs
  BY <1>41 DEF ReclaimJobs
<1>42. CASE CancelAdmitted
  BY <1>42 DEF CancelAdmitted, Withdrawn
<1>43. CASE SettleDispatches
  BY <1>43 DEF SettleDispatches
<1>44. CASE UNCHANGED vars
  BY <1>44 DEF vars
<1>45. QED
  BY StepCases, <1>1, <1>2, <1>3, <1>4, <1>5, <1>6, <1>7, <1>8, <1>9, <1>10,
     <1>11, <1>12, <1>13, <1>14, <1>15, <1>16, <1>17, <1>18, <1>19, <1>20,
     <1>21, <1>22, <1>23, <1>24, <1>25, <1>26, <1>27, <1>28, <1>29, <1>30,
     <1>31, <1>32, <1>33, <1>34, <1>35, <1>36, <1>37, <1>38, <1>39, <1>40,
     <1>41, <1>42, <1>43, <1>44
  DEF Launcher, Agent, User, Instance, Sweep

(* The invariant of one launch survives every step, its own or another's. *)
LEMMA LaunchInductive ==
    ASSUME IInv, [Next]_vars, NEW k \in Launches
    PROVE  LaunchInv(k)'
<1> USE DEF IInv, TypeOK, LaunchInv, RunRecorded, SentAfterClaim, ErrorIsKnown, StopIsKnown,
            DirectRow, Active, Ended, Registered, launchVars, workerVars, userVars, instVars
<1>1. ASSUME NEW l \in Launches, NEW i \in Instances, Check(l, i)
      PROVE  LaunchInv(k)'
  BY <1>1 DEF Check, Busy
<1>2. ASSUME NEW l \in Launches, RefuseBusy(l) PROVE LaunchInv(k)'
  BY <1>2 DEF RefuseBusy
<1>3. ASSUME NEW l \in Launches, Enqueue(l) PROVE LaunchInv(k)'
  BY <1>3 DEF Enqueue
<1>4. ASSUME NEW l \in Launches, Claim(l) PROVE LaunchInv(k)'
  BY <1>4 DEF Claim
<1>5. ASSUME NEW l \in Launches, Rename(l) PROVE LaunchInv(k)'
  BY <1>5 DEF Rename
<1>6. ASSUME NEW l \in Launches, StartQueued(l) PROVE LaunchInv(k)'
  BY <1>6 DEF StartQueued, MayRecordRun, OrdinaryBusy
<1>7. ASSUME NEW l \in Launches, FailStart(l) PROVE LaunchInv(k)'
  BY <1>7 DEF FailStart
<1>8. ASSUME NEW l \in Launches, StartDirect(l) PROVE LaunchInv(k)'
  BY <1>8 DEF StartDirect, OrdinaryBusy
<1>9. ASSUME NEW l \in Launches, FailStartDirect(l) PROVE LaunchInv(k)'
  BY <1>9 DEF FailStartDirect
<1>10. ASSUME NEW l \in Launches, RecordLaunch(l) PROVE LaunchInv(k)'
  BY <1>10 DEF RecordLaunch, CloseOwnRun, CloseRun
<1>11. ASSUME NEW l \in Launches, ClaimDispatch(l) PROVE LaunchInv(k)'
  BY <1>11 DEF ClaimDispatch, MayDispatch
<1>12. ASSUME NEW l \in Launches, FailDispatch(l) PROVE LaunchInv(k)'
  BY <1>12 DEF FailDispatch
<1>13. ASSUME NEW l \in Launches, Send(l) PROVE LaunchInv(k)'
  BY <1>13 DEF Send
<1>14. ASSUME NEW l \in Launches, SendFails(l) PROVE LaunchInv(k)'
  BY <1>14 DEF SendFails
<1>15. ASSUME NEW l \in Launches, Answered(l) PROVE LaunchInv(k)'
  BY <1>15 DEF Answered
<1>16. ASSUME NEW l \in Launches, Unconfirmed(l) PROVE LaunchInv(k)'
  BY <1>16 DEF Unconfirmed
<1>17. ASSUME NEW l \in Launches, CompleteDispatch(l) PROVE LaunchInv(k)'
  BY <1>17 DEF CompleteDispatch, AfterDispatch
<1>18. ASSUME NEW l \in Launches, FailRun(l) PROVE LaunchInv(k)'
  BY <1>18 DEF FailRun, CloseOwnRun, CloseRun
<1>19. ASSUME NEW l \in Launches, CloseLaunch(l) PROVE LaunchInv(k)'
  BY <1>19 DEF CloseLaunch
<1>20. ASSUME NEW l \in Launches, Receive(l) PROVE LaunchInv(k)'
  BY <1>20 DEF Receive
<1>21. ASSUME NEW l \in Launches, Drop(l) PROVE LaunchInv(k)'
  BY <1>21 DEF Drop
<1>22. ASSUME NEW l \in Launches, Admit(l) PROVE LaunchInv(k)'
  BY <1>22 DEF Admit
<1>23. ASSUME NEW l \in Launches, RefuseDispatch(l) PROVE LaunchInv(k)'
  BY <1>23 DEF RefuseDispatch
<1>24. ASSUME NEW l \in Launches, Exit(l) PROVE LaunchInv(k)'
  BY <1>24 DEF Exit
<1>25. ASSUME NEW l \in Launches, Report(l) PROVE LaunchInv(k)'
  BY <1>25 DEF Report, CloseRun
<1>26. ASSUME NEW l \in Launches, ReportSession(l) PROVE LaunchInv(k)'
  BY <1>26 DEF ReportSession, CloseRun
<1>27. ASSUME NEW l \in Launches, AgentStops(l) PROVE LaunchInv(k)'
  BY <1>27 DEF AgentStops
<1>28. ASSUME NEW l \in Launches, CancelQueued(l) PROVE LaunchInv(k)'
  BY <1>28 DEF CancelQueued
<1>29. ASSUME NEW l \in Launches, CancelUndispatched(l) PROVE LaunchInv(k)'
  BY <1>29 DEF CancelUndispatched, CloseRun
<1>30. ASSUME NEW l \in Launches, RequestStop(l) PROVE LaunchInv(k)'
  BY <1>30 DEF RequestStop
<1>31. ASSUME NEW l \in Launches, StopProcess(l) PROVE LaunchInv(k)'
  BY <1>31 DEF StopProcess, Asked
<1>32. ASSUME NEW l \in Launches, ConfirmStop(l) PROVE LaunchInv(k)'
  BY <1>32 DEF ConfirmStop, Asked
<1>33. ASSUME NEW l \in Launches, DenyRun(l) PROVE LaunchInv(k)'
  BY <1>33 DEF DenyRun, Asked
<1>34. ASSUME NEW l \in Launches, StopFails(l) PROVE LaunchInv(k)'
  BY <1>34 DEF StopFails
<1>35. ASSUME NEW l \in Launches, GiveUpStop(l) PROVE LaunchInv(k)'
  BY <1>35 DEF GiveUpStop
<1>36. ASSUME NEW l \in Launches, FinishStop(l) PROVE LaunchInv(k)'
  BY <1>36 DEF FinishStop, CloseRun
<1>37. ASSUME NEW i \in Instances, StartInstance(i) PROVE LaunchInv(k)'
  BY <1>37 DEF StartInstance
<1>38. ASSUME NEW i \in Instances, StopInstance(i) PROVE LaunchInv(k)'
  <2>1. /\ pc' = [l \in Launches |->
                    IF owner[l] = i /\ pc[l] \notin {"idle", "done"} THEN "lost" ELSE pc[l]]
        /\ UNCHANGED <<launchVars, owner, err, unwritten, agent, userVars, sweep>>
    BY <1>38 DEF StopInstance
  <2>2. QED
    BY <2>1
<1>39. ASSUME NEW i \in Instances, GoStale(i) PROVE LaunchInv(k)'
  BY <1>39 DEF GoStale
<1>40. ASSUME NEW i \in Instances, Heartbeat(i) PROVE LaunchInv(k)'
  BY <1>40 DEF Heartbeat
<1>41. CASE ReclaimJobs
  BY <1>41 DEF ReclaimJobs
<1>42. CASE CancelAdmitted
  BY <1>42 DEF CancelAdmitted, Withdrawn
<1>43. CASE SettleDispatches
  BY <1>43 DEF SettleDispatches
<1>44. CASE UNCHANGED vars
  BY <1>44 DEF vars
<1>45. QED
  BY StepCases, <1>1, <1>2, <1>3, <1>4, <1>5, <1>6, <1>7, <1>8, <1>9, <1>10,
     <1>11, <1>12, <1>13, <1>14, <1>15, <1>16, <1>17, <1>18, <1>19, <1>20,
     <1>21, <1>22, <1>23, <1>24, <1>25, <1>26, <1>27, <1>28, <1>29, <1>30,
     <1>31, <1>32, <1>33, <1>34, <1>35, <1>36, <1>37, <1>38, <1>39, <1>40,
     <1>41, <1>42, <1>43, <1>44
  DEF Launcher, Agent, User, Instance, Sweep

(* The one-run rule survives every step: a run becomes active next to      *)
(* another one only if one of the two is concurrent.                       *)
LEMMA OneRunInductive ==
    ASSUME IInv, [Next]_vars
    PROVE  OneOrdinaryRun'
<1> USE DEF IInv, OneOrdinaryRun, TypeOK, Active, Ended, launchVars, workerVars, userVars, instVars
<1>1. ASSUME NEW l \in Launches, NEW i \in Instances, Check(l, i)
      PROVE  OneOrdinaryRun'
  BY <1>1 DEF Check, Busy, LaunchInv, RunRecorded
<1>2. ASSUME NEW l \in Launches, RefuseBusy(l) PROVE OneOrdinaryRun'
  BY <1>2 DEF RefuseBusy
<1>3. ASSUME NEW l \in Launches, Enqueue(l) PROVE OneOrdinaryRun'
  BY <1>3 DEF Enqueue
<1>4. ASSUME NEW l \in Launches, Claim(l) PROVE OneOrdinaryRun'
  BY <1>4 DEF Claim
<1>5. ASSUME NEW l \in Launches, Rename(l) PROVE OneOrdinaryRun'
  BY <1>5 DEF Rename
<1>6. ASSUME NEW l \in Launches, StartQueued(l) PROVE OneOrdinaryRun'
  BY <1>6 DEF StartQueued, MayRecordRun, OrdinaryBusy
<1>7. ASSUME NEW l \in Launches, FailStart(l) PROVE OneOrdinaryRun'
  BY <1>7 DEF FailStart
<1>8. ASSUME NEW l \in Launches, StartDirect(l) PROVE OneOrdinaryRun'
  BY <1>8 DEF StartDirect, OrdinaryBusy
<1>9. ASSUME NEW l \in Launches, FailStartDirect(l) PROVE OneOrdinaryRun'
  BY <1>9 DEF FailStartDirect
<1>10. ASSUME NEW l \in Launches, RecordLaunch(l) PROVE OneOrdinaryRun'
  BY <1>10 DEF RecordLaunch, CloseOwnRun, CloseRun
<1>11. ASSUME NEW l \in Launches, ClaimDispatch(l) PROVE OneOrdinaryRun'
  BY <1>11 DEF ClaimDispatch, MayDispatch
<1>12. ASSUME NEW l \in Launches, FailDispatch(l) PROVE OneOrdinaryRun'
  BY <1>12 DEF FailDispatch
<1>13. ASSUME NEW l \in Launches, Send(l) PROVE OneOrdinaryRun'
  BY <1>13 DEF Send
<1>14. ASSUME NEW l \in Launches, SendFails(l) PROVE OneOrdinaryRun'
  BY <1>14 DEF SendFails
<1>15. ASSUME NEW l \in Launches, Answered(l) PROVE OneOrdinaryRun'
  BY <1>15 DEF Answered
<1>16. ASSUME NEW l \in Launches, Unconfirmed(l) PROVE OneOrdinaryRun'
  BY <1>16 DEF Unconfirmed
<1>17. ASSUME NEW l \in Launches, CompleteDispatch(l) PROVE OneOrdinaryRun'
  BY <1>17 DEF CompleteDispatch, AfterDispatch
<1>18. ASSUME NEW l \in Launches, FailRun(l) PROVE OneOrdinaryRun'
  BY <1>18 DEF FailRun, CloseOwnRun, CloseRun
<1>19. ASSUME NEW l \in Launches, CloseLaunch(l) PROVE OneOrdinaryRun'
  BY <1>19 DEF CloseLaunch
<1>20. ASSUME NEW l \in Launches, Receive(l) PROVE OneOrdinaryRun'
  BY <1>20 DEF Receive
<1>21. ASSUME NEW l \in Launches, Drop(l) PROVE OneOrdinaryRun'
  BY <1>21 DEF Drop
<1>22. ASSUME NEW l \in Launches, Admit(l) PROVE OneOrdinaryRun'
  BY <1>22 DEF Admit
<1>23. ASSUME NEW l \in Launches, RefuseDispatch(l) PROVE OneOrdinaryRun'
  BY <1>23 DEF RefuseDispatch
<1>24. ASSUME NEW l \in Launches, Exit(l) PROVE OneOrdinaryRun'
  BY <1>24 DEF Exit
<1>25. ASSUME NEW l \in Launches, Report(l) PROVE OneOrdinaryRun'
  BY <1>25 DEF Report, CloseRun
<1>26. ASSUME NEW l \in Launches, ReportSession(l) PROVE OneOrdinaryRun'
  BY <1>26 DEF ReportSession, CloseRun
<1>27. ASSUME NEW l \in Launches, AgentStops(l) PROVE OneOrdinaryRun'
  BY <1>27 DEF AgentStops
<1>28. ASSUME NEW l \in Launches, CancelQueued(l) PROVE OneOrdinaryRun'
  BY <1>28 DEF CancelQueued
<1>29. ASSUME NEW l \in Launches, CancelUndispatched(l) PROVE OneOrdinaryRun'
  BY <1>29 DEF CancelUndispatched, CloseRun
<1>30. ASSUME NEW l \in Launches, RequestStop(l) PROVE OneOrdinaryRun'
  BY <1>30 DEF RequestStop
<1>31. ASSUME NEW l \in Launches, StopProcess(l) PROVE OneOrdinaryRun'
  BY <1>31 DEF StopProcess, Asked
<1>32. ASSUME NEW l \in Launches, ConfirmStop(l) PROVE OneOrdinaryRun'
  BY <1>32 DEF ConfirmStop, Asked
<1>33. ASSUME NEW l \in Launches, DenyRun(l) PROVE OneOrdinaryRun'
  BY <1>33 DEF DenyRun, Asked
<1>34. ASSUME NEW l \in Launches, StopFails(l) PROVE OneOrdinaryRun'
  BY <1>34 DEF StopFails
<1>35. ASSUME NEW l \in Launches, GiveUpStop(l) PROVE OneOrdinaryRun'
  BY <1>35 DEF GiveUpStop
<1>36. ASSUME NEW l \in Launches, FinishStop(l) PROVE OneOrdinaryRun'
  BY <1>36 DEF FinishStop, CloseRun
<1>37. ASSUME NEW i \in Instances, StartInstance(i) PROVE OneOrdinaryRun'
  BY <1>37 DEF StartInstance
<1>38. ASSUME NEW i \in Instances, StopInstance(i) PROVE OneOrdinaryRun'
  BY <1>38 DEF StopInstance
<1>39. ASSUME NEW i \in Instances, GoStale(i) PROVE OneOrdinaryRun'
  BY <1>39 DEF GoStale
<1>40. ASSUME NEW i \in Instances, Heartbeat(i) PROVE OneOrdinaryRun'
  BY <1>40 DEF Heartbeat
<1>41. CASE ReclaimJobs
  BY <1>41 DEF ReclaimJobs
<1>42. CASE CancelAdmitted
  BY <1>42 DEF CancelAdmitted, Withdrawn
<1>43. CASE SettleDispatches
  BY <1>43 DEF SettleDispatches
<1>44. CASE UNCHANGED vars
  BY <1>44 DEF vars
<1>45. QED
  BY StepCases, <1>1, <1>2, <1>3, <1>4, <1>5, <1>6, <1>7, <1>8, <1>9, <1>10,
     <1>11, <1>12, <1>13, <1>14, <1>15, <1>16, <1>17, <1>18, <1>19, <1>20,
     <1>21, <1>22, <1>23, <1>24, <1>25, <1>26, <1>27, <1>28, <1>29, <1>30,
     <1>31, <1>32, <1>33, <1>34, <1>35, <1>36, <1>37, <1>38, <1>39, <1>40,
     <1>41, <1>42, <1>43, <1>44
  DEF Launcher, Agent, User, Instance, Sweep

(* One step, for the action properties: an ended run keeps its outcome, a  *)
(* canceled launch stays canceled, an ended launch without a run gets none. *)
LEMMA StepIsFinal ==
    ASSUME IInv, [Next]_vars, NEW k \in Launches
    PROVE  /\ run[k] \in Ended => run'[k] = run[k]
           /\ row[k] = "canceled" => row'[k] = "canceled"
           /\ row[k] \in Ended /\ run[k] = "none" => run'[k] = "none"
<1> DEFINE Goal == /\ run[k] \in Ended => run'[k] = run[k]
                   /\ row[k] = "canceled" => row'[k] = "canceled"
                   /\ row[k] \in Ended /\ run[k] = "none" => run'[k] = "none"
<1> SUFFICES Goal
  OBVIOUS
<1> USE DEF IInv, TypeOK, LaunchInv, RunRecorded, DirectRow, Active, Ended,
            launchVars, workerVars, userVars, instVars
<1>1. ASSUME NEW l \in Launches, NEW i \in Instances, Check(l, i) PROVE Goal
  BY <1>1 DEF Check, Busy
<1>2. ASSUME NEW l \in Launches, RefuseBusy(l) PROVE Goal
  BY <1>2 DEF RefuseBusy
<1>3. ASSUME NEW l \in Launches, Enqueue(l) PROVE Goal
  BY <1>3 DEF Enqueue
<1>4. ASSUME NEW l \in Launches, Claim(l) PROVE Goal
  BY <1>4 DEF Claim
<1>5. ASSUME NEW l \in Launches, Rename(l) PROVE Goal
  BY <1>5 DEF Rename
<1>6. ASSUME NEW l \in Launches, StartQueued(l) PROVE Goal
  BY <1>6 DEF StartQueued, MayRecordRun, OrdinaryBusy
<1>7. ASSUME NEW l \in Launches, FailStart(l) PROVE Goal
  BY <1>7 DEF FailStart
<1>8. ASSUME NEW l \in Launches, StartDirect(l) PROVE Goal
  BY <1>8 DEF StartDirect, OrdinaryBusy
<1>9. ASSUME NEW l \in Launches, FailStartDirect(l) PROVE Goal
  BY <1>9 DEF FailStartDirect
<1>10. ASSUME NEW l \in Launches, RecordLaunch(l) PROVE Goal
  BY <1>10 DEF RecordLaunch, CloseOwnRun, CloseRun
<1>11. ASSUME NEW l \in Launches, ClaimDispatch(l) PROVE Goal
  BY <1>11 DEF ClaimDispatch, MayDispatch
<1>12. ASSUME NEW l \in Launches, FailDispatch(l) PROVE Goal
  BY <1>12 DEF FailDispatch
<1>13. ASSUME NEW l \in Launches, Send(l) PROVE Goal
  BY <1>13 DEF Send
<1>14. ASSUME NEW l \in Launches, SendFails(l) PROVE Goal
  BY <1>14 DEF SendFails
<1>15. ASSUME NEW l \in Launches, Answered(l) PROVE Goal
  BY <1>15 DEF Answered
<1>16. ASSUME NEW l \in Launches, Unconfirmed(l) PROVE Goal
  BY <1>16 DEF Unconfirmed
<1>17. ASSUME NEW l \in Launches, CompleteDispatch(l) PROVE Goal
  BY <1>17 DEF CompleteDispatch, AfterDispatch
<1>18. ASSUME NEW l \in Launches, FailRun(l) PROVE Goal
  BY <1>18 DEF FailRun, CloseOwnRun, CloseRun
<1>19. ASSUME NEW l \in Launches, CloseLaunch(l) PROVE Goal
  BY <1>19 DEF CloseLaunch
<1>20. ASSUME NEW l \in Launches, Receive(l) PROVE Goal
  BY <1>20 DEF Receive
<1>21. ASSUME NEW l \in Launches, Drop(l) PROVE Goal
  BY <1>21 DEF Drop
<1>22. ASSUME NEW l \in Launches, Admit(l) PROVE Goal
  BY <1>22 DEF Admit
<1>23. ASSUME NEW l \in Launches, RefuseDispatch(l) PROVE Goal
  BY <1>23 DEF RefuseDispatch
<1>24. ASSUME NEW l \in Launches, Exit(l) PROVE Goal
  BY <1>24 DEF Exit
<1>25. ASSUME NEW l \in Launches, Report(l) PROVE Goal
  BY <1>25 DEF Report, CloseRun
<1>26. ASSUME NEW l \in Launches, ReportSession(l) PROVE Goal
  BY <1>26 DEF ReportSession, CloseRun
<1>27. ASSUME NEW l \in Launches, AgentStops(l) PROVE Goal
  BY <1>27 DEF AgentStops
<1>28. ASSUME NEW l \in Launches, CancelQueued(l) PROVE Goal
  BY <1>28 DEF CancelQueued
<1>29. ASSUME NEW l \in Launches, CancelUndispatched(l) PROVE Goal
  BY <1>29 DEF CancelUndispatched, CloseRun
<1>30. ASSUME NEW l \in Launches, RequestStop(l) PROVE Goal
  BY <1>30 DEF RequestStop
<1>31. ASSUME NEW l \in Launches, StopProcess(l) PROVE Goal
  BY <1>31 DEF StopProcess, Asked
<1>32. ASSUME NEW l \in Launches, ConfirmStop(l) PROVE Goal
  BY <1>32 DEF ConfirmStop, Asked
<1>33. ASSUME NEW l \in Launches, DenyRun(l) PROVE Goal
  BY <1>33 DEF DenyRun, Asked
<1>34. ASSUME NEW l \in Launches, StopFails(l) PROVE Goal
  BY <1>34 DEF StopFails
<1>35. ASSUME NEW l \in Launches, GiveUpStop(l) PROVE Goal
  BY <1>35 DEF GiveUpStop
<1>36. ASSUME NEW l \in Launches, FinishStop(l) PROVE Goal
  BY <1>36 DEF FinishStop, CloseRun
<1>37. ASSUME NEW i \in Instances, StartInstance(i) PROVE Goal
  BY <1>37 DEF StartInstance
<1>38. ASSUME NEW i \in Instances, StopInstance(i) PROVE Goal
  BY <1>38 DEF StopInstance
<1>39. ASSUME NEW i \in Instances, GoStale(i) PROVE Goal
  BY <1>39 DEF GoStale
<1>40. ASSUME NEW i \in Instances, Heartbeat(i) PROVE Goal
  BY <1>40 DEF Heartbeat
<1>41. CASE ReclaimJobs
  BY <1>41 DEF ReclaimJobs
<1>42. CASE CancelAdmitted
  BY <1>42 DEF CancelAdmitted, Withdrawn
<1>43. CASE SettleDispatches
  BY <1>43 DEF SettleDispatches
<1>44. CASE UNCHANGED vars
  BY <1>44 DEF vars
<1>45. QED
  BY StepCases, <1>1, <1>2, <1>3, <1>4, <1>5, <1>6, <1>7, <1>8, <1>9, <1>10,
     <1>11, <1>12, <1>13, <1>14, <1>15, <1>16, <1>17, <1>18, <1>19, <1>20,
     <1>21, <1>22, <1>23, <1>24, <1>25, <1>26, <1>27, <1>28, <1>29, <1>30,
     <1>31, <1>32, <1>33, <1>34, <1>35, <1>36, <1>37, <1>38, <1>39, <1>40,
     <1>41, <1>42, <1>43, <1>44
  DEF Launcher, Agent, User, Instance, Sweep

------------------------------------------------------------------------------
(* Type correctness: the launch row, the run, the launcher and the agent   *)
(* only ever hold the values the code gives them.                          *)
THEOREM TypeCorrect == Spec => []TypeOK
<1>1. Init => TypeOK
  BY LaunchesAssumption DEF Init, TypeOK, Active, Ended, Registered
<1>2. TypeOK /\ [Next]_vars => TypeOK'
  BY TypeInductive
<1>3. QED
  BY <1>1, <1>2, PTL DEF Spec

(* The inductive invariant: what the launcher and a cancel request believe *)
(* of the workstation is true of it, a run and its dispatch state move     *)
(* together, and of two active runs on the task one is concurrent.         *)
THEOREM Invariance == Spec => []IInv
<1>1. Init => IInv
  <2> SUFFICES ASSUME Init PROVE IInv
    OBVIOUS
  <2>1. TypeOK
    BY LaunchesAssumption DEF Init, TypeOK, Active, Ended, Registered
  <2>2. ASSUME NEW l \in Launches PROVE LaunchInv(l)
    BY DEF Init, LaunchInv, RunRecorded, SentAfterClaim, ErrorIsKnown, StopIsKnown, DirectRow
  <2>3. OneOrdinaryRun
    BY DEF Init, OneOrdinaryRun
  <2>4. QED
    BY <2>1, <2>2, <2>3 DEF IInv
<1>2. ASSUME IInv, [Next]_vars PROVE IInv'
  <2>1. TypeOK'
    BY <1>2, TypeInductive DEF IInv
  <2>2. ASSUME NEW l \in Launches PROVE LaunchInv(l)'
    BY <1>2, LaunchInductive
  <2>3. OneOrdinaryRun'
    BY <1>2, OneRunInductive
  <2>4. QED
    BY <2>1, <2>2, <2>3 DEF IInv
<1>3. QED
  BY <1>1, <1>2, PTL DEF Spec

(* A run the agent holds is closed only by its session, by a user who      *)
(* forces it, or on a denial that came before the agent registered it.     *)
THEOREM HeldRunStaysOpenHolds == Spec => []HeldRunStaysOpen
<1>1. IInv => HeldRunStaysOpen
  BY DEF IInv, TypeOK, LaunchInv, RunRecorded, SentAfterClaim, ErrorIsKnown, StopIsKnown,
         HeldRunStaysOpen, Active, Ended, Registered
<1>2. QED
  BY <1>1, Invariance, PTL

(* A run canceled before its dispatch never reaches a workstation. *)
THEOREM WithdrawnNeverSentHolds == Spec => []WithdrawnNeverSent
<1>1. IInv => WithdrawnNeverSent
  BY DEF IInv, LaunchInv, RunRecorded, SentAfterClaim, WithdrawnNeverSent
<1>2. QED
  BY <1>1, Invariance, PTL

(* Two agents work on the task only when the user launched one of them     *)
(* anyway, or when one outlived the closure of its run.                    *)
THEOREM OneAgentPerTaskHolds == Spec => []OneAgentPerTask
<1>1. IInv => OneAgentPerTask
  <2>1. IInv => HeldRunStaysOpen
    BY DEF IInv, TypeOK, LaunchInv, RunRecorded, SentAfterClaim, ErrorIsKnown, StopIsKnown,
           HeldRunStaysOpen, Active, Ended, Registered
  <2>2. QED
    BY <2>1 DEF IInv, LaunchInv, OneOrdinaryRun, HeldRunStaysOpen, OneAgentPerTask
<1>2. QED
  BY <1>1, Invariance, PTL

(* The outcome of a run is written once, and a canceled launch stays so. *)
THEOREM OutcomeIsFinalHolds == Spec => OutcomeIsFinal
<1>1. IInv /\ [Next]_vars =>
        [\A l \in Launches : /\ run[l] \in Ended => run'[l] = run[l]
                             /\ row[l] = "canceled" => row'[l] = "canceled"]_vars
  BY StepIsFinal
<1>2. QED
  BY <1>1, Invariance, PTL DEF Spec, OutcomeIsFinal

(* A launch that was canceled or reclaimed creates no run afterwards. *)
THEOREM EndedLaunchRecordsNoRunHolds == Spec => EndedLaunchRecordsNoRun
<1>1. IInv /\ [Next]_vars =>
        [\A l \in Launches : row[l] \in Ended /\ run[l] = "none" => run'[l] = "none"]_vars
  BY StepIsFinal
<1>2. QED
  BY <1>1, Invariance, PTL DEF Spec, EndedLaunchRecordsNoRun

------------------------------------------------------------------------------
(* Who has the work in hand: the part of the state the keepers depend on,  *)
(* which most steps leave alone.                                           *)
keeperVars == <<row, run, dispatch, pc, owner, unwritten, up>>

LEMMA KeepersStay ==
    ASSUME NEW k \in Launches, LauncherLives(k) /\ RunKept(k) /\ RowKept(k),
           UNCHANGED keeperVars
    PROVE  (LauncherLives(k) /\ RunKept(k) /\ RowKept(k))'
  BY DEF keeperVars, LauncherLives, RunKept, RowKept, Abandoned

(* The launcher hands its work to its next step, or finishes it; an        *)
(* instance that stops abandons all of it at once.                         *)
LEMMA KeepersInductive ==
    ASSUME IInv, WorkHasAKeeper, [Next]_vars, NEW k \in Launches
    PROVE  (LauncherLives(k) /\ RunKept(k) /\ RowKept(k))'
<1> DEFINE Goal == (LauncherLives(k) /\ RunKept(k) /\ RowKept(k))'
<1> SUFFICES Goal
  OBVIOUS
<1>0. LauncherLives(k) /\ RunKept(k) /\ RowKept(k)
  BY DEF WorkHasAKeeper
<1> USE DEF IInv, TypeOK, LaunchInv, RunRecorded, ErrorIsKnown, DirectRow, LauncherLives,
            RunKept, RowKept, Abandoned, Active, Ended, launchVars, workerVars, userVars, instVars
<1>1. ASSUME NEW l \in Launches, NEW i \in Instances, Check(l, i) PROVE Goal
  BY <1>0, <1>1 DEF Check
<1>2. ASSUME NEW l \in Launches, RefuseBusy(l) PROVE Goal
  BY <1>0, <1>2 DEF RefuseBusy
<1>3. ASSUME NEW l \in Launches, Enqueue(l) PROVE Goal
  BY <1>0, <1>3 DEF Enqueue
<1>4. ASSUME NEW l \in Launches, Claim(l) PROVE Goal
  BY <1>0, <1>4 DEF Claim, Skip
<1>5. ASSUME NEW l \in Launches, Rename(l) PROVE Goal
  BY <1>0, <1>5 DEF Rename
<1>6. ASSUME NEW l \in Launches, StartQueued(l) PROVE Goal
  BY <1>0, <1>6 DEF StartQueued, MayRecordRun
<1>7. ASSUME NEW l \in Launches, FailStart(l) PROVE Goal
  BY <1>0, <1>7 DEF FailStart
<1>8. ASSUME NEW l \in Launches, StartDirect(l) PROVE Goal
  BY <1>0, <1>8 DEF StartDirect
<1>9. ASSUME NEW l \in Launches, FailStartDirect(l) PROVE Goal
  BY <1>0, <1>9 DEF FailStartDirect
<1>10. ASSUME NEW l \in Launches, RecordLaunch(l) PROVE Goal
  BY <1>0, <1>10 DEF RecordLaunch, CloseOwnRun, CloseRun, Skip
<1>11. ASSUME NEW l \in Launches, ClaimDispatch(l) PROVE Goal
  BY <1>0, <1>11 DEF ClaimDispatch, MayDispatch
<1>12. ASSUME NEW l \in Launches, FailDispatch(l) PROVE Goal
  BY <1>0, <1>12 DEF FailDispatch, MayDispatch, Skip
<1>13. ASSUME NEW l \in Launches, Send(l) PROVE Goal
  BY <1>0, <1>13 DEF Send
<1>14. ASSUME NEW l \in Launches, SendFails(l) PROVE Goal
  BY <1>0, <1>14 DEF SendFails
<1>15. ASSUME NEW l \in Launches, Answered(l) PROVE Goal
  BY <1>0, <1>15 DEF Answered
<1>16. ASSUME NEW l \in Launches, Unconfirmed(l) PROVE Goal
  BY <1>0, <1>16 DEF Unconfirmed
<1>17. ASSUME NEW l \in Launches, CompleteDispatch(l) PROVE Goal
  BY <1>0, <1>17 DEF CompleteDispatch, AfterDispatch, Skip
<1>18. ASSUME NEW l \in Launches, FailRun(l) PROVE Goal
  BY <1>0, <1>18 DEF FailRun, CloseOwnRun, CloseRun, Skip
<1>19. ASSUME NEW l \in Launches, CloseLaunch(l) PROVE Goal
  BY <1>0, <1>19 DEF CloseLaunch, Skip
<1>20. ASSUME NEW l \in Launches, Agent(l) PROVE Goal
  <2>1. CASE Receive(l) \/ Drop(l) \/ Admit(l) \/ RefuseDispatch(l) \/ Exit(l) \/ AgentStops(l)
    BY <1>0, <2>1, KeepersStay DEF Receive, Drop, Admit, RefuseDispatch, Exit, AgentStops, keeperVars
  <2>2. CASE Report(l) \/ ReportSession(l)
    BY <1>0, <2>2 DEF Report, ReportSession, CloseRun
  <2>3. QED
    BY <1>20, <2>1, <2>2 DEF Agent
<1>21. ASSUME NEW l \in Launches, User(l) PROVE Goal
  <2>1. CASE \/ RequestStop(l) \/ StopProcess(l) \/ ConfirmStop(l) \/ DenyRun(l)
             \/ StopFails(l) \/ GiveUpStop(l)
    BY <1>0, <2>1, KeepersStay
    DEF RequestStop, StopProcess, ConfirmStop, DenyRun, StopFails, GiveUpStop, keeperVars
  <2>2. CASE CancelQueued(l)
    BY <1>0, <2>2 DEF CancelQueued
  <2>3. CASE CancelUndispatched(l) \/ FinishStop(l)
    BY <1>0, <2>3 DEF CancelUndispatched, FinishStop, CloseRun
  <2>4. QED
    BY <1>21, <2>1, <2>2, <2>3 DEF User
<1>22. ASSUME NEW i \in Instances, StartInstance(i) PROVE Goal
  BY <1>0, <1>22 DEF StartInstance
<1>23. ASSUME NEW i \in Instances, StopInstance(i) PROVE Goal
  <2>1. /\ pc' = [l \in Launches |->
                    IF owner[l] = i /\ pc[l] \notin {"idle", "done"} THEN "lost" ELSE pc[l]]
        /\ up[i] = "up" /\ up' = [up EXCEPT ![i] = "down"]
        /\ UNCHANGED <<row, run, dispatch, owner, unwritten>>
    BY <1>23 DEF StopInstance
  <2>2. CASE owner[k] = i
    BY <1>0, <2>1, <2>2
  <2>3. CASE owner[k] # i
    BY <1>0, <2>1, <2>3
  <2>4. QED
    BY <2>2, <2>3
<1>24. ASSUME NEW i \in Instances, GoStale(i) \/ Heartbeat(i) PROVE Goal
  BY <1>0, <1>24, KeepersStay DEF GoStale, Heartbeat, keeperVars
<1>25. CASE ReclaimJobs
  BY <1>0, <1>25 DEF ReclaimJobs
<1>26. CASE CancelAdmitted
  BY <1>0, <1>26 DEF CancelAdmitted
<1>27. CASE SettleDispatches
  BY <1>0, <1>27 DEF SettleDispatches
<1>28. CASE UNCHANGED vars
  BY <1>0, <1>28, KeepersStay DEF vars, keeperVars
<1>29. QED
  BY StepCases, <1>1, <1>2, <1>3, <1>4, <1>5, <1>6, <1>7, <1>8, <1>9, <1>10,
     <1>11, <1>12, <1>13, <1>14, <1>15, <1>16, <1>17, <1>18, <1>19, <1>20,
     <1>21, <1>22, <1>23, <1>24, <1>25, <1>26, <1>27, <1>28
  DEF Launcher, Instance, Sweep

(* Nothing unfinished is without somebody to finish it: a run short of its *)
(* dispatch and a launch row that is not over are in the hands of a        *)
(* launcher whose instance serves, or wait for the reclaim of one that     *)
(* stopped for good.                                                       *)
THEOREM WorkHasAKeeperHolds == Spec => []WorkHasAKeeper
<1>1. Init => WorkHasAKeeper
  BY LaunchesAssumption DEF Init, WorkHasAKeeper, LauncherLives, RunKept, RowKept
<1>2. IInv /\ WorkHasAKeeper /\ [Next]_vars => WorkHasAKeeper'
  BY KeepersInductive DEF WorkHasAKeeper
<1>3. QED
  BY <1>1, <1>2, Invariance, PTL DEF Spec

------------------------------------------------------------------------------
(* The refinement: what one step of the system is to the contract. *)
LEMMA Stutter ==
    ASSUME \A k \in Launches : /\ Life(k)' = Life(k)
                               /\ (dispatch'[k] \in {"dispatching", "dispatched"})
                                    = (dispatch[k] \in {"dispatching", "dispatched"})
                               /\ (agent'[k] # "none") = (agent[k] # "none")
    PROVE  UNCHANGED <<lifeOf, handedOf, leftOf>>
  BY DEF lifeOf, handedOf, leftOf

LEMMA LifeMoves ==
    ASSUME NEW l \in Launches, NEW v, Life(l)' = v,
           \A k \in Launches \ {l} : Life(k)' = Life(k)
    PROVE  lifeOf' = [lifeOf EXCEPT ![l] = v]
  BY DEF lifeOf

(* Closing a run ends it, or changes nothing. *)
LEMMA Closing ==
    ASSUME IInv, NEW l \in Launches, NEW s \in Ended, NEW h, CloseRun(l, s, h),
           \A k \in Launches : /\ dispatch'[k] = dispatch[k]
                               /\ (agent'[k] # "none") = (agent[k] # "none")
    PROVE  Contract!End(l) \/ UNCHANGED <<lifeOf, handedOf, leftOf>>
<1> USE DEF IInv, TypeOK, Active, Ended
<1>1. UNCHANGED <<handedOf, leftOf>>
  BY DEF handedOf, leftOf
<1>2. CASE run[l] = "running"
  <2>1. lifeOf[l] = "open"
    BY <1>2 DEF lifeOf, Life
  <2>2. lifeOf' = [lifeOf EXCEPT ![l] = "ended"]
    <3>1. run' = [run EXCEPT ![l] = s]
      BY <1>2 DEF CloseRun
    <3>2. Life(l)' = "ended"
      BY <3>1 DEF Life
    <3>3. \A k \in Launches \ {l} : Life(k)' = Life(k)
      BY <3>1 DEF Life
    <3>4. QED
      BY <3>2, <3>3, LifeMoves
  <2>3. QED
    BY <1>1, <2>1, <2>2 DEF Contract!End
<1>3. CASE run[l] # "running"
  BY <1>1, <1>3 DEF lifeOf, Life, CloseRun
<1>4. QED
  BY <1>2, <1>3

LEMMA StepRefines ==
    ASSUME IInv, [Next]_vars
    PROVE  [Contract!Next]_<<lifeOf, handedOf, leftOf>>
<1> DEFINE Goal == [Contract!Next]_<<lifeOf, handedOf, leftOf>>
<1> SUFFICES Goal
  OBVIOUS
<1> USE DEF launchVars, workerVars, userVars, instVars
<1>1. ASSUME NEW l \in Launches, NEW i \in Instances, Check(l, i) PROVE Goal
  BY <1>1, Stutter DEF Check, IInv, TypeOK, Life
<1>2. ASSUME NEW l \in Launches, RefuseBusy(l) PROVE Goal
  BY <1>2, Stutter DEF RefuseBusy, IInv, TypeOK, Life
<1>3. ASSUME NEW l \in Launches, Enqueue(l) PROVE Goal
  BY <1>3, Stutter DEF Enqueue, IInv, TypeOK, Life
<1>4. ASSUME NEW l \in Launches, Claim(l) PROVE Goal
  BY <1>4, Stutter DEF Claim, IInv, TypeOK, Life
<1>5. ASSUME NEW l \in Launches, Rename(l) PROVE Goal
  BY <1>5, Stutter DEF Rename, IInv, TypeOK, Life
<1>6. ASSUME NEW l \in Launches, StartQueued(l) PROVE Goal
  <2>1. run[l] = "none" /\ dispatch[l] = "none"
    BY <1>6 DEF StartQueued, IInv, LaunchInv, RunRecorded
  <2>2. run' = [run EXCEPT ![l] = "running"] /\ dispatch' = [dispatch EXCEPT ![l] = "admitted"]
    BY <1>6 DEF StartQueued
  <2>3. lifeOf' = [lifeOf EXCEPT ![l] = "open"]
    <3>1. Life(l)' = "open"
      BY <2>2 DEF Life, IInv, TypeOK
    <3>2. \A k \in Launches \ {l} : Life(k)' = Life(k)
      BY <2>2 DEF Life, IInv, TypeOK
    <3>3. QED
      BY <3>1, <3>2, LifeMoves
  <2>4. UNCHANGED <<handedOf, leftOf>>
    BY <1>6, <2>1, <2>2 DEF StartQueued, handedOf, leftOf, IInv, TypeOK
  <2>5. Contract!Record(l)
    BY <2>1, <2>3, <2>4 DEF Contract!Record, lifeOf, Life
  <2>6. QED
    BY <2>5 DEF Contract!Next
<1>7. ASSUME NEW l \in Launches, FailStart(l) PROVE Goal
  BY <1>7, Stutter DEF FailStart, IInv, TypeOK, Life
<1>8. ASSUME NEW l \in Launches, StartDirect(l) PROVE Goal
  <2>1. run[l] = "none" /\ dispatch[l] = "none"
    BY <1>8 DEF StartDirect, IInv, LaunchInv, RunRecorded
  <2>2. run' = [run EXCEPT ![l] = "running"] /\ dispatch' = [dispatch EXCEPT ![l] = "admitted"]
    BY <1>8 DEF StartDirect
  <2>3. lifeOf' = [lifeOf EXCEPT ![l] = "open"]
    <3>1. Life(l)' = "open"
      BY <2>2 DEF Life, IInv, TypeOK
    <3>2. \A k \in Launches \ {l} : Life(k)' = Life(k)
      BY <2>2 DEF Life, IInv, TypeOK
    <3>3. QED
      BY <3>1, <3>2, LifeMoves
  <2>4. UNCHANGED <<handedOf, leftOf>>
    BY <1>8, <2>1, <2>2 DEF StartDirect, handedOf, leftOf, IInv, TypeOK
  <2>5. Contract!Record(l)
    BY <2>1, <2>3, <2>4 DEF Contract!Record, lifeOf, Life
  <2>6. QED
    BY <2>5 DEF Contract!Next
<1>9. ASSUME NEW l \in Launches, FailStartDirect(l) PROVE Goal
  BY <1>9, Stutter DEF FailStartDirect, IInv, TypeOK, Life
<1>10. ASSUME NEW l \in Launches, RecordLaunch(l) PROVE Goal
  <2>1. CASE CloseRun(l, "failed", "launcher")
    BY <1>10, <2>1, Closing DEF RecordLaunch, Ended, Contract!Next
  <2>2. CASE UNCHANGED <<run, closed>>
    BY <1>10, <2>2, Stutter DEF RecordLaunch, Life
  <2>3. QED
    BY <1>10, <2>1, <2>2 DEF RecordLaunch, CloseOwnRun
<1>11. ASSUME NEW l \in Launches, ClaimDispatch(l) PROVE Goal
  <2>1. Contract!Hand(l)
    BY <1>11 DEF ClaimDispatch, MayDispatch, Contract!Hand, lifeOf, handedOf, leftOf, Life, IInv, TypeOK
  <2>2. QED
    BY <2>1 DEF Contract!Next
<1>12. ASSUME NEW l \in Launches, FailDispatch(l) PROVE Goal
  BY <1>12, Stutter DEF FailDispatch, IInv, TypeOK, Life
<1>13. ASSUME NEW l \in Launches, Send(l) PROVE Goal
  <2>1. Contract!Leave(l)
    BY <1>13, ZenonT(60) DEF Send, Contract!Leave, lifeOf, handedOf, leftOf, Life, IInv, TypeOK, LaunchInv,
              SentAfterClaim
  <2>2. QED
    BY <2>1 DEF Contract!Next
<1>14. ASSUME NEW l \in Launches, SendFails(l) PROVE Goal
  BY <1>14, Stutter DEF SendFails, IInv, TypeOK, Life
<1>15. ASSUME NEW l \in Launches, Answered(l) PROVE Goal
  BY <1>15, Stutter DEF Answered, IInv, TypeOK, Life
<1>16. ASSUME NEW l \in Launches, Unconfirmed(l) PROVE Goal
  BY <1>16, Stutter DEF Unconfirmed, IInv, TypeOK, Life
<1>17. ASSUME NEW l \in Launches, CompleteDispatch(l) PROVE Goal
  BY <1>17, Stutter DEF CompleteDispatch, IInv, TypeOK, Life
<1>18. ASSUME NEW l \in Launches, FailRun(l) PROVE Goal
  <2>1. CASE CloseRun(l, "failed", "launcher")
    BY <1>18, <2>1, Closing DEF FailRun, Ended, Contract!Next
  <2>2. CASE UNCHANGED <<run, closed>>
    BY <1>18, <2>2, Stutter DEF FailRun, Life
  <2>3. QED
    BY <1>18, <2>1, <2>2 DEF FailRun, CloseOwnRun
<1>19. ASSUME NEW l \in Launches, CloseLaunch(l) PROVE Goal
  BY <1>19, Stutter DEF CloseLaunch, IInv, TypeOK, Life
<1>20. ASSUME NEW l \in Launches, Receive(l) PROVE Goal
  BY <1>20, Stutter DEF Receive, IInv, TypeOK, Life
<1>21. ASSUME NEW l \in Launches, Drop(l) PROVE Goal
  BY <1>21, Stutter DEF Drop, IInv, TypeOK, Life
<1>22. ASSUME NEW l \in Launches, Admit(l) PROVE Goal
  BY <1>22, Stutter DEF Admit, IInv, TypeOK, Life
<1>23. ASSUME NEW l \in Launches, RefuseDispatch(l) PROVE Goal
  BY <1>23, Stutter DEF RefuseDispatch, IInv, TypeOK, Life
<1>24. ASSUME NEW l \in Launches, Exit(l) PROVE Goal
  BY <1>24, Stutter DEF Exit, IInv, TypeOK, Life
<1>25. ASSUME NEW l \in Launches, Report(l) PROVE Goal
  <2>1. CASE \E s \in Ended : CloseRun(l, s, "reported")
    BY <1>25, <2>1, Closing DEF Report, Contract!Next, IInv, TypeOK
  <2>2. CASE UNCHANGED <<run, closed>>
    BY <1>25, <2>2, Stutter DEF Report, Life, IInv, TypeOK
  <2>3. QED
    BY <1>25, <2>1, <2>2 DEF Report
<1>26. ASSUME NEW l \in Launches, ReportSession(l) PROVE Goal
  BY <1>26, Closing DEF ReportSession, Contract!Next
<1>27. ASSUME NEW l \in Launches, AgentStops(l) PROVE Goal
  BY <1>27, Stutter DEF AgentStops, Registered, IInv, TypeOK, Life
<1>28. ASSUME NEW l \in Launches, CancelQueued(l) PROVE Goal
  BY <1>28, Stutter DEF CancelQueued, IInv, TypeOK, Life
<1>29. ASSUME NEW l \in Launches, CancelUndispatched(l) PROVE Goal
  BY <1>29, Closing DEF CancelUndispatched, Ended, Contract!Next
<1>30. ASSUME NEW l \in Launches, RequestStop(l) PROVE Goal
  BY <1>30, Stutter DEF RequestStop, IInv, TypeOK, Life
<1>31. ASSUME NEW l \in Launches, StopProcess(l) PROVE Goal
  BY <1>31, Stutter DEF StopProcess, IInv, TypeOK, Life, Asked
<1>32. ASSUME NEW l \in Launches, ConfirmStop(l) PROVE Goal
  BY <1>32, Stutter DEF ConfirmStop, IInv, TypeOK, Life
<1>33. ASSUME NEW l \in Launches, DenyRun(l) PROVE Goal
  BY <1>33, Stutter DEF DenyRun, IInv, TypeOK, Life
<1>34. ASSUME NEW l \in Launches, StopFails(l) PROVE Goal
  BY <1>34, Stutter DEF StopFails, IInv, TypeOK, Life
<1>35. ASSUME NEW l \in Launches, GiveUpStop(l) PROVE Goal
  BY <1>35, Stutter DEF GiveUpStop, IInv, TypeOK, Life
<1>36. ASSUME NEW l \in Launches, FinishStop(l) PROVE Goal
  BY <1>36, Closing DEF FinishStop, Ended, Contract!Next
<1>37. ASSUME NEW i \in Instances, StartInstance(i) PROVE Goal
  BY <1>37, Stutter DEF StartInstance, IInv, TypeOK, Life
<1>38. ASSUME NEW i \in Instances, StopInstance(i) PROVE Goal
  BY <1>38, Stutter DEF StopInstance, IInv, TypeOK, Life
<1>39. ASSUME NEW i \in Instances, GoStale(i) PROVE Goal
  BY <1>39, Stutter DEF GoStale, IInv, TypeOK, Life
<1>40. ASSUME NEW i \in Instances, Heartbeat(i) PROVE Goal
  BY <1>40, Stutter DEF Heartbeat, IInv, TypeOK, Life
<1>41. CASE ReclaimJobs
  BY <1>41, Stutter DEF ReclaimJobs, IInv, TypeOK, Life
<1>42. CASE CancelAdmitted
  <2> DEFINE S == {l \in Launches : Withdrawn(l)}
  <2>1. UNCHANGED <<handedOf, leftOf>>
    BY <1>42 DEF CancelAdmitted, handedOf, leftOf
  <2>2. lifeOf' = [l \in Launches |-> IF l \in S THEN "ended" ELSE lifeOf[l]]
    BY <1>42 DEF CancelAdmitted, lifeOf, Life
  <2>3. \A l \in S : lifeOf[l] = "open" /\ ~handedOf[l]
    BY DEF Withdrawn, lifeOf, handedOf, Life
  <2>4. Contract!Withdraw(S)
    BY <2>1, <2>2, <2>3 DEF Contract!Withdraw
  <2>5. QED
    BY <2>4 DEF Contract!Next
<1>43. CASE SettleDispatches
  BY <1>43, Stutter DEF SettleDispatches, IInv, TypeOK, Life
<1>44. CASE UNCHANGED vars
  BY <1>44, Stutter DEF vars, IInv, TypeOK, Life
<1>45. QED
  BY StepCases, <1>1, <1>2, <1>3, <1>4, <1>5, <1>6, <1>7, <1>8, <1>9, <1>10,
     <1>11, <1>12, <1>13, <1>14, <1>15, <1>16, <1>17, <1>18, <1>19, <1>20,
     <1>21, <1>22, <1>23, <1>24, <1>25, <1>26, <1>27, <1>28, <1>29, <1>30,
     <1>31, <1>32, <1>33, <1>34, <1>35, <1>36, <1>37, <1>38, <1>39, <1>40,
     <1>41, <1>42, <1>43, <1>44
  DEF Launcher, Agent, User, Instance, Sweep

------------------------------------------------------------------------------
(* The second refinement: what one step is to the record of its run.       *)
LEMMA RecordStutters ==
    ASSUME UNCHANGED <<run, closed>>
    PROVE  [Record!Next]_Record!vars
  BY DEF Record!vars, stateOf, noOf, State

LEMMA RecordMoves ==
    ASSUME NEW l \in Launches, \A k \in Launches \ {l} : State(k)' = State(k)
    PROVE  stateOf' = [k \in Launches |-> IF k \in {l} THEN State(l)' ELSE stateOf[k]]
  BY DEF stateOf

(* An admission inserts the record.                                        *)
LEMMA RecordAdmits ==
    ASSUME TypeOK, NEW l \in Launches, run[l] = "none",
           run' = [run EXCEPT ![l] = "running"], UNCHANGED closed
    PROVE  [Record!Next]_Record!vars
<1>1. State(l) = "absent" /\ State(l)' = "running"
  <2>1. run'[l] = "running"
    BY DEF TypeOK
  <2>2. QED
    BY <2>1 DEF State
<1>2. \A k \in Launches \ {l} : State(k)' = State(k)
  BY DEF TypeOK, State
<1>3. stateOf[l] = "absent" /\ stateOf' = [stateOf EXCEPT ![l] = "running"]
  BY <1>1, <1>2 DEF stateOf
<1>4. Record!Insert(l)
  BY <1>3 DEF Record!Insert, noOf
<1>5. QED
  BY <1>4 DEF Record!Next

(* A closure by somebody who knows ends an open one, and no other.         *)
LEMMA RecordCloses ==
    ASSUME TypeOK, NEW l \in Launches, NEW s \in Ended, NEW how, how # "reclaimed",
           CloseRun(l, s, how)
    PROVE  [Record!Next]_Record!vars
<1> DEFINE end == IF s = "canceled" THEN "canceled" ELSE "completed"
<1>1. CASE run[l] = "running"
  <2>1. run'[l] = s /\ closed'[l] = how
    BY <1>1 DEF TypeOK, CloseRun
  <2>2. \A k \in Launches \ {l} : State(k)' = State(k)
    BY <1>1 DEF TypeOK, CloseRun, State
  <2>3. State(l)' = end
    BY <2>1 DEF State, Ended
  <2>4. stateOf' = [k \in Launches |-> IF k \in {l} THEN end ELSE stateOf[k]]
    BY <2>2, <2>3, RecordMoves
  <2>5. stateOf[l] = "running"
    <3>1. State(l) = "running"
      BY <1>1 DEF State
    <3>2. QED
      BY <3>1 DEF stateOf
  <2>6. noOf' = [k \in Launches |-> IF k \in {l} THEN FALSE ELSE noOf[k]]
    BY DEF noOf
  <2>7. Record!End({l}, end, FALSE)
    BY <2>4, <2>5, <2>6 DEF Record!End, Record!Becomes, noOf
  <2>8. end \in Record!Ended
    BY DEF Record!Ended
  <2>9. QED
    BY <2>7, <2>8 DEF Record!Next
<1>2. CASE run[l] # "running"
  BY <1>2, RecordStutters DEF CloseRun
<1>3. QED
  BY <1>1, <1>2

(* A reclaim presumes that what was never sent was abandoned.              *)
LEMMA RecordPresumes ==
    ASSUME CancelAdmitted
    PROVE  [Record!Next]_Record!vars
<1> DEFINE W == {l \in Launches : Withdrawn(l)}
<1>1. \A l \in Launches : /\ run'[l] = IF Withdrawn(l) THEN "canceled" ELSE run[l]
                          /\ closed'[l] = IF Withdrawn(l) THEN "reclaimed" ELSE closed[l]
  BY DEF CancelAdmitted
<1>2. \A l \in Launches : State(l)' = IF l \in W THEN "presumed" ELSE State(l)
  <2> SUFFICES ASSUME NEW l \in Launches
               PROVE  State(l)' = IF l \in W THEN "presumed" ELSE State(l)
    OBVIOUS
  <2>1. CASE Withdrawn(l)
    BY <1>1, <2>1 DEF State
  <2>2. CASE ~Withdrawn(l)
    <3>1. run'[l] = run[l] /\ closed'[l] = closed[l]
      BY <1>1, <2>2
    <3>2. QED
      BY <2>2, <3>1 DEF State
  <2>3. QED
    BY <2>1, <2>2
<1>3. stateOf' = [l \in Launches |-> IF l \in W THEN "presumed" ELSE stateOf[l]]
  BY <1>2 DEF stateOf
<1>4. \A l \in W : stateOf[l] = "running"
  <2>1. \A l \in W : State(l) = "running"
    BY DEF State, Withdrawn
  <2>2. QED
    BY <2>1 DEF stateOf
<1>5. noOf' = [l \in Launches |-> IF l \in W THEN FALSE ELSE noOf[l]]
  BY DEF noOf
<1>6. Record!End(W, "presumed", FALSE)
  BY <1>3, <1>4, <1>5 DEF Record!End, Record!Becomes, noOf
<1>7. W \in SUBSET Launches /\ "presumed" \in Record!Ended
  BY DEF Record!Ended
<1>8. QED
  BY <1>6, <1>7 DEF Record!Next

LEMMA RecordStepRefines ==
    ASSUME IInv, [Next]_vars
    PROVE  [Record!Next]_Record!vars
<1> DEFINE Goal == [Record!Next]_Record!vars
<1> SUFFICES Goal
  OBVIOUS
<1> USE DEF launchVars, workerVars, userVars, instVars
<1>0. TypeOK /\ \A l \in Launches : RunRecorded(l)
  BY DEF IInv, LaunchInv
<1>1. ASSUME NEW l \in Launches, NEW i \in Instances, Check(l, i) PROVE Goal
  BY <1>1, RecordStutters DEF Check
<1>2. ASSUME NEW l \in Launches, Launcher(l) PROVE Goal
  <2>1. CASE StartQueued(l) \/ StartDirect(l)
    BY <1>0, <2>1, RecordAdmits DEF StartQueued, StartDirect, RunRecorded
  <2>2. CASE RecordLaunch(l) \/ FailRun(l)
    <3>1. CloseRun(l, "failed", "launcher") \/ UNCHANGED <<run, closed>>
      BY <2>2 DEF RecordLaunch, FailRun, CloseOwnRun
    <3>2. QED
      BY <1>0, <3>1, RecordStutters, RecordCloses DEF Ended
  <2>3. CASE \/ RefuseBusy(l) \/ Enqueue(l) \/ Claim(l) \/ Rename(l) \/ FailStart(l)
             \/ FailStartDirect(l) \/ ClaimDispatch(l) \/ FailDispatch(l) \/ Send(l)
             \/ SendFails(l) \/ Answered(l) \/ Unconfirmed(l) \/ CompleteDispatch(l)
             \/ CloseLaunch(l)
    BY <2>3, RecordStutters
    DEF RefuseBusy, Enqueue, Claim, Rename, FailStart, FailStartDirect, ClaimDispatch,
        FailDispatch, Send, SendFails, Answered, Unconfirmed, CompleteDispatch, CloseLaunch
  <2>4. QED
    BY <1>2, <2>1, <2>2, <2>3 DEF Launcher
<1>3. ASSUME NEW l \in Launches, Agent(l) PROVE Goal
  <2>1. CASE Report(l) \/ ReportSession(l)
    <3>1. (\E s \in Ended : CloseRun(l, s, "reported")) \/ UNCHANGED <<run, closed>>
      BY <2>1 DEF Report, ReportSession
    <3>2. QED
      BY <1>0, <3>1, RecordStutters, RecordCloses
  <2>2. CASE Receive(l) \/ Drop(l) \/ Admit(l) \/ RefuseDispatch(l) \/ Exit(l) \/ AgentStops(l)
    BY <2>2, RecordStutters DEF Receive, Drop, Admit, RefuseDispatch, Exit, AgentStops
  <2>3. QED
    BY <1>3, <2>1, <2>2 DEF Agent
<1>4. ASSUME NEW l \in Launches, User(l) PROVE Goal
  <2>1. CASE CancelUndispatched(l)
    BY <1>0, <2>1, RecordCloses DEF CancelUndispatched, Ended
  <2>2. CASE FinishStop(l)
    <3>1. PICK how : how # "reclaimed" /\ CloseRun(l, "canceled", how)
      BY <2>2 DEF FinishStop
    <3>2. QED
      BY <1>0, <3>1, RecordCloses DEF Ended
  <2>3. CASE \/ CancelQueued(l) \/ RequestStop(l) \/ StopProcess(l) \/ ConfirmStop(l)
             \/ DenyRun(l) \/ StopFails(l) \/ GiveUpStop(l)
    BY <2>3, RecordStutters
    DEF CancelQueued, RequestStop, StopProcess, ConfirmStop, DenyRun, StopFails, GiveUpStop
  <2>4. QED
    BY <1>4, <2>1, <2>2, <2>3 DEF User
<1>5. ASSUME NEW i \in Instances, Instance(i) PROVE Goal
  BY <1>5, RecordStutters DEF Instance, StartInstance, StopInstance, GoStale, Heartbeat
<1>6. CASE Sweep
  <2>1. CASE ReclaimJobs \/ SettleDispatches
    BY <2>1, RecordStutters DEF ReclaimJobs, SettleDispatches
  <2>2. QED
    BY <1>6, <2>1, RecordPresumes DEF Sweep
<1>7. CASE UNCHANGED vars
  BY <1>7, RecordStutters DEF vars
<1>8. QED
  BY <1>1, <1>2, <1>3, <1>4, <1>5, <1>6, <1>7, StepCases

(* The launch of a run keeps the contract of the server: a run is handed   *)
(* to a workstation at most once and only while it is open, its dispatch   *)
(* leaves only then, and one that ended before never leaves.  It keeps     *)
(* that of the records too: who closes a run knows its end, a reclaim only *)
(* presumes it, and neither rewrites an end.                               *)
THEOREM ContractImplemented == Spec => ContractHolds
<1>1. Init => Contract!Init
  <2> SUFFICES ASSUME Init PROVE Contract!Init
    OBVIOUS
  <2>1. \A l \in Launches : Life(l) = "absent"
    BY DEF Init, Life
  <2>2. \A l \in Launches : /\ (dispatch[l] \in {"dispatching", "dispatched"}) = FALSE
                            /\ (agent[l] # "none") = FALSE
    BY DEF Init
  <2>3. lifeOf = [l \in Launches |-> "absent"]
    BY <2>1 DEF lifeOf
  <2>4. handedOf = [l \in Launches |-> FALSE] /\ leftOf = [l \in Launches |-> FALSE]
    BY <2>2, Zenon DEF handedOf, leftOf
  <2>5. QED
    BY <2>3, <2>4 DEF Contract!Init
<1>2. IInv /\ [Next]_vars => [Contract!Next]_<<lifeOf, handedOf, leftOf>>
  BY StepRefines
<1>3. Init => Record!Init
  <2> SUFFICES ASSUME Init PROVE Record!Init
    OBVIOUS
  <2>1. \A l \in Launches : State(l) = "absent"
    BY DEF Init, State
  <2>2. stateOf = [l \in Launches |-> "absent"]
    BY <2>1 DEF stateOf
  <2>3. QED
    BY <2>2 DEF Record!Init, noOf
<1>4. IInv /\ [Next]_vars => [Record!Next]_Record!vars
  BY RecordStepRefines
<1>5. QED
  BY <1>1, <1>2, <1>3, <1>4, Invariance, PTL DEF Spec, ContractHolds, Contract!Spec, Record!Spec

(* So a run that a launch ended, or that a reclaim withdrew, is never open *)
(* again, and a reclaim presumes nothing of a run whose end is known.      *)
THEOREM RecordConsequences == Spec => Record!EndedForGood /\ Record!KnownEndStands
<1>1. Spec => Record!Spec
  BY ContractImplemented DEF ContractHolds
<1>2. QED
  BY <1>1, Record!EndedForGoodHolds, Record!KnownEndStandsHolds
==============================================================================
