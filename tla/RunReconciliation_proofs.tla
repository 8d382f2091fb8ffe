----------------------- MODULE RunReconciliation_proofs ----------------------
(***************************************************************************)
(* What reconnections may do to the recorded runs, for any number of runs, *)
(* of pulls in progress, of connections and of restarts of the agent.      *)
(***************************************************************************)
EXTENDS RunReconciliation, TLAPS

LEMMA StepCases ==
    ASSUME [Next]_vars
    PROVE  \/ \E r \in Runs : Execution(r) \/ User(r)
           \/ \E k \in Pulls : Puller(k)
           \/ Connect \/ Disconnect \/ AgentRestarts
           \/ UNCHANGED vars
  BY DEF Next

------------------------------------------------------------------------------
(* The state keeps its type. *)
LEMMA TypeInductive ==
    ASSUME TypeOK, [Next]_vars
    PROVE  TypeOK'
<1> USE DEF TypeOK, Active, Ended, Working, Starting,
            serverVars, agentVars, linkVars, pullVars, history, vars
<1>1. ASSUME NEW r \in Runs, Execution(r) PROVE TypeOK'
  <2>1. CASE Launch(r)
    BY <2>1 DEF Launch
  <2>2. CASE Dispatched(r)
    BY <2>2 DEF Dispatched
  <2>3. CASE Admit(r)
    BY <2>3 DEF Admit, Moves
  <2>4. CASE Prepare(r)
    BY <2>4 DEF Prepare, Moves
  <2>5. CASE Start(r)
    BY <2>5 DEF Start, Moves
  <2>6. CASE LoseDispatch(r)
    BY <2>6 DEF LoseDispatch, Moves
  <2>7. CASE Exit(r)
    BY <2>7 DEF Exit
  <2>8. CASE Report(r)
    BY <2>8 DEF Report
  <2>9. CASE FinishInSession(r)
    BY <2>9 DEF FinishInSession
  <2>10. CASE LoseReport(r)
    BY <2>10 DEF LoseReport
  <2>11. QED
    BY <1>1, <2>1, <2>2, <2>3, <2>4, <2>5, <2>6, <2>7, <2>8, <2>9, <2>10 DEF Execution
<1>2. ASSUME NEW r \in Runs, User(r) PROVE TypeOK'
  <2>1. CASE ForceClose(r)
    BY <2>1 DEF ForceClose
  <2>2. CASE Delete(r)
    BY <2>2 DEF Delete
  <2>3. QED
    BY <1>2, <2>1, <2>2 DEF User
<1>3. ASSUME NEW k \in Pulls, Puller(k) PROVE TypeOK'
  <2>1. CASE StartPull(k)
    BY <2>1 DEF StartPull, Candidates
  <2>2. CASE PullFails(k)
    BY <2>2 DEF PullFails, Abandon
  <2>3. CASE Answer(k)
    <3>1. Snapshot \in [Runs -> {"no"} \union Active]
      BY DEF Snapshot
    <3>2. reported' \in [Pulls -> [Runs -> {"no"} \union Active]]
      BY <2>3, <3>1 DEF Answer
    <3>3. candidates' \in [Pulls -> SUBSET Runs]
      BY <2>3 DEF Answer
    <3>4. QED
      BY <2>3, <3>2, <3>3 DEF Answer
  <2>4. CASE EndPull(k)
    BY <2>4 DEF EndPull
  <2>5. ASSUME NEW r \in Runs, CloseOrphan(k, r) PROVE TypeOK'
    BY <2>5 DEF CloseOrphan
  <2>6. ASSUME NEW r \in Runs, Sync(k, r) PROVE TypeOK'
    <3>1. Recorded(r, reported[k][r]) \in {"none"} \union Active \union Ended
      BY <2>6, ZenonT(60) DEF Recorded, Sync
    <3>2. row' \in [Runs -> {"none"} \union Active \union Ended]
      BY <2>6, <3>1 DEF Sync
    <3>3. [reported[k] EXCEPT ![r] = "no"] \in [Runs -> {"no"} \union Active]
      OBVIOUS
    <3>4. reported' \in [Pulls -> [Runs -> {"no"} \union Active]]
      BY <2>6, <3>3 DEF Sync
    <3>5. QED
      BY <2>6, <3>2, <3>4 DEF Sync
  <2>7. QED
    BY <1>3, <2>1, <2>2, <2>3, <2>4, <2>5, <2>6 DEF Puller
<1>4. CASE Connect
  BY <1>4 DEF Connect
<1>5. CASE Disconnect
  BY <1>5 DEF Disconnect, Unlink, Abandon
<1>6. CASE AgentRestarts
  BY <1>6 DEF AgentRestarts, Unlink, Abandon
<1>7. CASE UNCHANGED vars
  BY <1>7
<1>8. QED
  BY <1>1, <1>2, <1>3, <1>4, <1>5, <1>6, <1>7, StepCases

------------------------------------------------------------------------------
(* A run the workstation never had has no row to speak of, and a row older *)
(* than the connection is that of a run launched before it.                *)
LEMMA RunInductive ==
    ASSUME TypeOK, \A r \in Runs : RunInv(r), \A k \in Pulls : PullInv(k), [Next]_vars
    PROVE  \A r \in Runs : RunInv(r)'
<1> USE DEF TypeOK, RunInv, Active, Ended, Working,
            serverVars, agentVars, linkVars, pullVars, history, vars
<1>1. ASSUME NEW r \in Runs, Execution(r) PROVE \A s \in Runs : RunInv(s)'
  <2>1. CASE Launch(r)
    BY <2>1 DEF Launch
  <2>2. CASE Dispatched(r)
    BY <2>2 DEF Dispatched
  <2>3. CASE Admit(r)
    BY <2>3 DEF Admit, Moves
  <2>4. CASE Prepare(r)
    BY <2>4 DEF Prepare, Moves
  <2>5. CASE Start(r)
    BY <2>5 DEF Start, Moves
  <2>6. CASE LoseDispatch(r)
    BY <2>6 DEF LoseDispatch, Moves
  <2>7. CASE Exit(r)
    BY <2>7 DEF Exit
  <2>8. CASE Report(r)
    BY <2>8 DEF Report
  <2>9. CASE FinishInSession(r)
    BY <2>9 DEF FinishInSession
  <2>10. CASE LoseReport(r)
    BY <2>10 DEF LoseReport
  <2>11. QED
    BY <1>1, <2>1, <2>2, <2>3, <2>4, <2>5, <2>6, <2>7, <2>8, <2>9, <2>10 DEF Execution
<1>2. ASSUME NEW r \in Runs, User(r) PROVE \A s \in Runs : RunInv(s)'
  <2>1. CASE ForceClose(r)
    BY <2>1 DEF ForceClose
  <2>2. CASE Delete(r)
    BY <2>2, ZenonT(60) DEF Delete
  <2>3. QED
    BY <1>2, <2>1, <2>2 DEF User
<1>3. ASSUME NEW k \in Pulls, Puller(k) PROVE \A s \in Runs : RunInv(s)'
  <2>1. CASE StartPull(k)
    BY <2>1 DEF StartPull
  <2>2. CASE PullFails(k)
    BY <2>2 DEF PullFails
  <2>3. CASE Answer(k)
    BY <2>3 DEF Answer
  <2>4. CASE EndPull(k)
    BY <2>4 DEF EndPull
  <2>5. ASSUME NEW r \in Runs, CloseOrphan(k, r) PROVE \A s \in Runs : RunInv(s)'
    BY <2>5 DEF CloseOrphan
  <2>6. ASSUME NEW r \in Runs, Sync(k, r) PROVE \A s \in Runs : RunInv(s)'
    BY <2>6 DEF Sync, PullInv
  <2>7. QED
    BY <1>3, <2>1, <2>2, <2>3, <2>4, <2>5, <2>6 DEF Puller
<1>4. CASE Connect
  BY <1>4 DEF Connect
<1>5. CASE Disconnect
  BY <1>5 DEF Disconnect, Unlink
<1>6. CASE AgentRestarts
  BY <1>6 DEF AgentRestarts, Unlink
<1>7. CASE UNCHANGED vars
  BY <1>7
<1>8. QED
  BY <1>1, <1>2, <1>3, <1>4, <1>5, <1>6, <1>7, StepCases

(* An execution the workstation had stays known, and over once it is over; *)
(* only its launch makes a run one of this connection.                     *)
LEMMA HeldForward ==
    ASSUME TypeOK, [Next]_vars, NEW r \in Runs
    PROVE  /\ held[r] # "unborn" => held'[r] # "unborn" /\ (r \notin fresh => r \notin fresh')
           /\ held[r] = "over" => held'[r] = "over"
           /\ missed \subseteq missed'
<1> USE DEF TypeOK, Working, serverVars, agentVars, linkVars, pullVars, history, vars
<1> DEFINE Forward ==
      /\ held[r] # "unborn" => held'[r] # "unborn" /\ (r \notin fresh => r \notin fresh')
      /\ held[r] = "over" => held'[r] = "over"
      /\ missed \subseteq missed'
<1>1. ASSUME NEW s \in Runs, Execution(s) PROVE Forward
  <2>1. CASE Launch(s)
    BY <2>1 DEF Launch
  <2>2. CASE Dispatched(s)
    BY <2>2 DEF Dispatched
  <2>3. CASE Admit(s)
    BY <2>3 DEF Admit, Moves
  <2>4. CASE Prepare(s)
    BY <2>4 DEF Prepare, Moves
  <2>5. CASE Start(s)
    BY <2>5 DEF Start, Moves
  <2>6. CASE LoseDispatch(s)
    BY <2>6 DEF LoseDispatch, Moves
  <2>7. CASE Exit(s)
    BY <2>7 DEF Exit
  <2>8. CASE Report(s)
    BY <2>8 DEF Report
  <2>9. CASE FinishInSession(s)
    BY <2>9 DEF FinishInSession
  <2>10. CASE LoseReport(s)
    BY <2>10 DEF LoseReport
  <2>11. QED
    BY <1>1, <2>1, <2>2, <2>3, <2>4, <2>5, <2>6, <2>7, <2>8, <2>9, <2>10 DEF Execution
<1>2. ASSUME UNCHANGED held, fresh' \subseteq fresh, missed \subseteq missed' PROVE Forward
  BY <1>2
<1>3. ASSUME NEW s \in Runs, User(s) PROVE Forward
  BY <1>2, <1>3 DEF User, ForceClose, Delete
<1>4. ASSUME NEW k \in Pulls, Puller(k) PROVE Forward
  BY <1>2, <1>4 DEF Puller, StartPull, PullFails, Answer, EndPull, CloseOrphan, Sync
<1>5. CASE Connect \/ Disconnect \/ UNCHANGED vars
  BY <1>2, <1>5 DEF Connect, Disconnect
<1>6. CASE AgentRestarts
  BY <1>6 DEF AgentRestarts
<1>7. QED
  BY <1>1, <1>3, <1>4, <1>5, <1>6, StepCases

(* A pull that gains no candidate and no report in a step, and does not    *)
(* move, keeps its invariant.                                              *)
LEMMA PullFrame ==
    ASSUME TypeOK, [Next]_vars, NEW k \in Pulls, PullInv(k),
           pull'[k] = pull[k], candidates'[k] \subseteq candidates[k],
           \A r \in Runs : reported'[k][r] \in {reported[k][r], "no"}
    PROVE  PullInv(k)'
<1>1. candidates[k] \subseteq Runs
  BY DEF TypeOK
<1>2. \A r \in Runs :
        /\ held[r] # "unborn" => held'[r] # "unborn" /\ (r \notin fresh => r \notin fresh')
        /\ held[r] = "over" => held'[r] = "over"
        /\ missed \subseteq missed'
  BY HeldForward
<1>3. QED
  BY <1>1, <1>2 DEF PullInv

(* The candidates of a pull were launched before its connection, and what  *)
(* its answer left of them is over, or was starting.                       *)
LEMMA PullInductive ==
    ASSUME TypeOK, \A r \in Runs : RunInv(r), \A k \in Pulls : PullInv(k), [Next]_vars
    PROVE  \A k \in Pulls : PullInv(k)'
<1> USE DEF TypeOK, serverVars, agentVars, linkVars, pullVars, history, vars
<1>1. ASSUME UNCHANGED pullVars PROVE \A k \in Pulls : PullInv(k)'
  BY <1>1, PullFrame
<1>2. ASSUME NEW r \in Runs, Execution(r) \/ User(r) PROVE UNCHANGED pullVars
  BY <1>2 DEF Execution, Launch, Dispatched, Moves, Admit, Prepare, Start, LoseDispatch,
              Exit, Report, FinishInSession, LoseReport, User, ForceClose, Delete
<1>3. Connect => UNCHANGED pullVars
  BY DEF Connect
<1>4. ASSUME NEW k \in Pulls, Puller(k) PROVE \A l \in Pulls : PullInv(l)'
  <2>1. ASSUME pull' = [pull EXCEPT ![k] = pull'[k]],
               candidates' = [candidates EXCEPT ![k] = candidates'[k]],
               reported' = [reported EXCEPT ![k] = reported'[k]],
               PullInv(k)'
        PROVE  \A l \in Pulls : PullInv(l)'
    <3>1. \A l \in Pulls \ {k} : /\ pull'[l] = pull[l] /\ candidates'[l] = candidates[l]
                                 /\ reported'[l] = reported[l]
      BY <2>1
    <3>2. \A l \in Pulls \ {k} : PullInv(l)'
      BY <3>1, PullFrame
    <3>3. QED
      BY <2>1, <3>2
  <2>2. CASE StartPull(k)
    <3>1. /\ pull'[k] = "asked" /\ candidates'[k] = Candidates
          /\ UNCHANGED <<row, before, held, fresh, reported>>
      BY <2>2 DEF StartPull
    <3>2. \A r \in candidates'[k] : held'[r] # "unborn" /\ r \notin fresh'
      BY <3>1 DEF Candidates, RunInv, Active
    <3>3. PullInv(k)'
      BY <3>1, <3>2 DEF PullInv
    <3>4. QED
      BY <2>1, <2>2, <3>3 DEF StartPull
  <2>3. CASE PullFails(k)
    <3>1. /\ pull'[k] = "idle" /\ candidates'[k] = {} /\ UNCHANGED <<held, reported>>
      BY <2>3 DEF PullFails, Abandon
    <3>2. PullInv(k)'
      BY <3>1 DEF PullInv
    <3>3. \A l \in Pulls \ {k} : pull'[l] = pull[l] /\ candidates'[l] = candidates[l]
      BY <2>3 DEF PullFails, Abandon
    <3>4. \A l \in Pulls \ {k} : PullInv(l)'
      BY <3>1, <3>3, PullFrame
    <3>5. QED
      BY <3>2, <3>4
  <2>4. CASE Answer(k)
    <3>1. /\ pull[k] = "asked" /\ pull'[k] = "answered" /\ UNCHANGED <<held, fresh>>
          /\ reported'[k] = Snapshot
          /\ candidates'[k] = {r \in candidates[k] : Snapshot[r] = "no"}
          /\ missed' = missed \union {r \in Runs \ fresh : held[r] \in Starting}
      BY <2>4 DEF Answer
    <3>2. \A r \in Runs : Snapshot[r] = IF held[r] \in Active THEN held[r] ELSE "no"
      BY DEF Snapshot
    <3>3. \A r \in candidates'[k] : held'[r] = "over" \/ r \in missed'
      BY <3>1, <3>2, ZenonT(60) DEF PullInv, Active, Starting, Working
    <3>4. \A r \in Runs : reported'[k][r] # "no" => held'[r] # "unborn"
      BY <3>1, <3>2 DEF Active
    <3>5. PullInv(k)'
      BY <3>1, <3>3, <3>4 DEF PullInv
    <3>6. QED
      BY <2>1, <2>4, <3>5 DEF Answer
  <2>5. CASE EndPull(k)
    <3>1. pull'[k] = "idle" /\ candidates[k] = {} /\ UNCHANGED <<held, candidates, reported>>
      BY <2>5 DEF EndPull
    <3>2. PullInv(k)'
      BY <3>1 DEF PullInv
    <3>3. QED
      BY <2>1, <2>5, <3>2 DEF EndPull
  <2>6. ASSUME NEW r \in Runs, CloseOrphan(k, r) PROVE \A l \in Pulls : PullInv(l)'
    <3>1. /\ candidates' = [candidates EXCEPT ![k] = @ \ {r}] /\ UNCHANGED <<pull, reported>>
      BY <2>6 DEF CloseOrphan
    <3>2. QED
      BY <3>1, PullFrame
  <2>7. ASSUME NEW r \in Runs, Sync(k, r) PROVE \A l \in Pulls : PullInv(l)'
    <3>1. /\ reported' = [reported EXCEPT ![k][r] = "no"] /\ UNCHANGED <<pull, candidates>>
      BY <2>7 DEF Sync
    <3>2. \A l \in Pulls, s \in Runs : reported'[l][s] \in {reported[l][s], "no"}
      BY <3>1
    <3>3. QED
      BY <3>1, <3>2, PullFrame
  <2>8. QED
    BY <1>4, <2>2, <2>3, <2>4, <2>5, <2>6, <2>7 DEF Puller
<1>5. ASSUME Unlink PROVE \A k \in Pulls : PullInv(k)'
  <2> SUFFICES ASSUME NEW k \in Pulls PROVE PullInv(k)'
    OBVIOUS
  <2>1. CASE pull[k] = "asked"
    <3>1. pull'[k] = "idle" /\ candidates'[k] = {} /\ UNCHANGED reported
      BY <1>5, <2>1 DEF Unlink, Abandon
    <3>2. \A r \in Runs : held[r] # "unborn" => held'[r] # "unborn"
      BY HeldForward
    <3>3. QED
      BY <3>1, <3>2 DEF PullInv
  <2>2. CASE pull[k] # "asked"
    <3>1. pull'[k] = pull[k] /\ candidates'[k] = candidates[k] /\ UNCHANGED reported
      BY <1>5, <2>2 DEF Unlink, Abandon
    <3>2. QED
      BY <3>1, PullFrame
  <2>3. QED
    BY <2>1, <2>2
<1>6. Disconnect \/ AgentRestarts => Unlink
  BY DEF Disconnect, AgentRestarts
<1>7. UNCHANGED vars => UNCHANGED pullVars
  OBVIOUS
<1>8. QED
  BY <1>1, <1>2, <1>3, <1>4, <1>5, <1>6, <1>7, StepCases

------------------------------------------------------------------------------
(* How a step changes the row of a run: the one place where every writer   *)
(* of a run is looked at.                                                  *)
LEMMA RowChanges ==
    ASSUME TypeOK, \A r \in Runs : RunInv(r), \A k \in Pulls : PullInv(k), [Next]_vars,
           NEW r \in Runs
    PROVE  /\ row[r] \in Ended => row'[r] \in {row[r], "none"}
           /\ deleted[r] /\ row[r] = "none" => row'[r] = "none"
           /\ row'[r] = "orphaned" => row[r] = "orphaned" \/ held[r] = "over" \/ r \in missed
           /\ deleted'[r] => deleted[r] \/ row'[r] = "none"
<1> USE DEF TypeOK, Active, Ended, Working,
            serverVars, agentVars, linkVars, pullVars, history, vars
<1> DEFINE Changes ==
      /\ row[r] \in Ended => row'[r] \in {row[r], "none"}
      /\ deleted[r] /\ row[r] = "none" => row'[r] = "none"
      /\ row'[r] = "orphaned" => row[r] = "orphaned" \/ held[r] = "over" \/ r \in missed
      /\ deleted'[r] => deleted[r] \/ row'[r] = "none"
<1>1. ASSUME NEW s \in Runs, Execution(s) PROVE Changes
  <2>1. CASE Launch(s)
    BY <2>1 DEF Launch, RunInv
  <2>2. CASE Dispatched(s)
    BY <2>2 DEF Dispatched, RunInv
  <2>3. CASE Admit(s)
    BY <2>3 DEF Admit, Moves, RunInv
  <2>4. CASE Prepare(s)
    BY <2>4 DEF Prepare, Moves, RunInv
  <2>5. CASE Start(s)
    BY <2>5 DEF Start, Moves, RunInv
  <2>6. CASE LoseDispatch(s)
    BY <2>6 DEF LoseDispatch, Moves, RunInv
  <2>7. CASE Exit(s)
    BY <2>7 DEF Exit, RunInv
  <2>8. CASE Report(s)
    BY <2>8 DEF Report, RunInv
  <2>9. CASE FinishInSession(s)
    BY <2>9 DEF FinishInSession, RunInv
  <2>10. CASE LoseReport(s)
    BY <2>10 DEF LoseReport, RunInv
  <2>11. QED
    BY <1>1, <2>1, <2>2, <2>3, <2>4, <2>5, <2>6, <2>7, <2>8, <2>9, <2>10 DEF Execution
<1>2. ASSUME NEW s \in Runs, User(s) PROVE Changes
  <2>1. CASE ForceClose(s)
    BY <2>1 DEF ForceClose
  <2>2. CASE Delete(s)
    BY <2>2 DEF Delete
  <2>3. QED
    BY <1>2, <2>1, <2>2 DEF User
<1>3. ASSUME NEW k \in Pulls, Puller(k) PROVE Changes
  <2>1. CASE StartPull(k) \/ PullFails(k) \/ Answer(k) \/ EndPull(k)
    BY <2>1 DEF StartPull, PullFails, Answer, EndPull
  <2>2. ASSUME NEW s \in Runs, CloseOrphan(k, s) PROVE Changes
    BY <2>2 DEF CloseOrphan, PullInv
  <2>3. ASSUME NEW s \in Runs, Sync(k, s) PROVE Changes
    BY <2>3, ZenonT(60) DEF Sync, Recorded
  <2>4. QED
    BY <1>3, <2>1, <2>2, <2>3 DEF Puller
<1>4. ASSUME UNCHANGED <<row, deleted>> PROVE Changes
  BY <1>4
<1>5. Connect \/ Disconnect \/ AgentRestarts \/ UNCHANGED vars => UNCHANGED <<row, deleted>>
  BY DEF Connect, Disconnect, AgentRestarts, Unlink
<1>6. QED
  BY <1>1, <1>2, <1>3, <1>4, <1>5, StepCases

------------------------------------------------------------------------------
(* The inductive invariant. *)
THEOREM Invariance == Spec => []IInv
<1>1. Init => IInv
  <2> SUFFICES ASSUME Init PROVE IInv
    OBVIOUS
  <2> USE DEF Init
  <2>1. TypeOK
    BY DEF TypeOK, Active, Ended, Working
  <2>2. \A r \in Runs : RunInv(r)
    BY DEF RunInv
  <2>3. \A k \in Pulls : PullInv(k)
    BY DEF PullInv
  <2>4. DeletedStaysDeleted
    BY DEF DeletedStaysDeleted
  <2>5. QED
    BY <2>1, <2>2, <2>3, <2>4 DEF IInv
<1>2. IInv /\ [Next]_vars => IInv'
  <2> SUFFICES ASSUME IInv, [Next]_vars PROVE IInv'
    OBVIOUS
  <2> USE DEF IInv
  <2>1. TypeOK'
    BY TypeInductive
  <2>2. (\A r \in Runs : RunInv(r))' /\ (\A k \in Pulls : PullInv(k))'
    BY RunInductive, PullInductive
  <2>3. DeletedStaysDeleted'
    BY RowChanges DEF DeletedStaysDeleted
  <2>4. QED
    BY <2>1, <2>2, <2>3
<1>3. QED
  BY <1>1, <1>2, PTL DEF Spec

(* A run deleted after its end is never recreated (#675). *)
THEOREM DeletedStaysDeletedHolds == Spec => []DeletedStaysDeleted
<1>1. IInv => DeletedStaysDeleted
  BY DEF IInv
<1>2. QED
  BY <1>1, Invariance, PTL

(* No report reopens a run or rewrites its outcome (#407). *)
THEOREM EndedStaysEndedHolds == Spec => EndedStaysEnded
<1>1. IInv /\ [Next]_vars =>
        [\A r \in Runs : row[r] \in Ended => row'[r] \in {row[r], "none"}]_vars
  BY RowChanges DEF IInv
<1>2. QED
  BY <1>1, Invariance, PTL DEF Spec, EndedStaysEnded

(* A reconciliation is mistaken only about runs that were starting. *)
THEOREM OnlyStartingRunsMistakenHolds == Spec => OnlyStartingRunsMistaken
<1>1. IInv /\ [Next]_vars =>
        [\A r \in Runs :
           row[r] # "orphaned" /\ row'[r] = "orphaned" => held[r] = "over" \/ r \in missed]_vars
  BY RowChanges DEF IInv
<1>2. QED
  BY <1>1, Invariance, PTL DEF Spec, OnlyStartingRunsMistaken

------------------------------------------------------------------------------
(* The contract of the records, step by step.  Every step but a deletion   *)
(* writes one row at most, and writes it forward.                          *)
LEMMA StatesMove ==
    ASSUME NEW r \in Runs, \A q \in Runs \ {r} : row'[q] = row[q]
    PROVE  stateOf' = [q \in Runs |-> IF q \in {r} THEN State(r)' ELSE stateOf[q]]
<1>1. \A q \in Runs \ {r} : State(q)' = State(q)
  BY DEF State
<1>2. QED
  BY <1>1 DEF stateOf

LEMMA RowStep ==
    ASSUME TypeOK, NEW r \in Runs, NEW v, row' = [row EXCEPT ![r] = v], UNCHANGED deleted,
           \/ v = row[r]
           \/ row[r] \in Active /\ v \in Active \union Ended
           \/ row[r] = "none" /\ ~deleted[r] /\ v \in Active
    PROVE  [Record!Next]_Record!vars
<1>1. row'[r] = v /\ \A q \in Runs \ {r} : row'[q] = row[q]
  BY DEF TypeOK
<1>2. stateOf' = [q \in Runs |-> IF q \in {r} THEN State(r)' ELSE stateOf[q]]
  BY <1>1, StatesMove
<1>3. UNCHANGED notedOf /\ \A q \in Runs : notedOf[q] = FALSE
  BY DEF notedOf
<1>4. stateOf \in [Runs -> {"absent", "running"} \union Record!Ended] /\ stateOf[r] = State(r)
  BY DEF TypeOK, stateOf, State, Active, Ended, Record!Ended
<1>5. CASE State(r)' = State(r)
  <2>1. UNCHANGED stateOf
    BY <1>2, <1>4, <1>5
  <2>2. QED
    BY <2>1, <1>3 DEF Record!vars
<1>6. CASE row[r] \in Active /\ v \in Ended
  <2>1. State(r)' \in Record!Ended /\ stateOf[r] = "running"
    BY <1>1, <1>4, <1>6 DEF State, Active, Ended, Record!Ended
  <2>2. notedOf' = [q \in Runs |-> IF q \in {r} THEN FALSE ELSE notedOf[q]]
    BY <1>3 DEF notedOf
  <2>3. Record!End({r}, State(r)', FALSE)
    BY <2>1, <2>2, <1>2 DEF Record!End, Record!Becomes
  <2>4. QED
    BY <2>1, <2>3 DEF Record!Next
<1>7. CASE row[r] = "none" /\ ~deleted[r] /\ v \in Active
  <2>1. State(r)' = "running" /\ stateOf[r] = "absent"
    BY <1>1, <1>4, <1>7 DEF State, Active
  <2>2. Record!Insert(r)
    BY <2>1, <1>2, <1>3, <1>4, <1>7 DEF Record!Insert
  <2>3. QED
    BY <2>2 DEF Record!Next
<1>8. QED
  BY <1>1, <1>5, <1>6, <1>7 DEF State, Active, Ended

LEMMA DeleteStep ==
    ASSUME TypeOK, NEW r \in Runs, Delete(r)
    PROVE  Record!Remove(r)
<1>1. row'[r] = "none" /\ \A q \in Runs \ {r} : row'[q] = row[q]
  BY DEF TypeOK, Delete
<1>2. stateOf' = [q \in Runs |-> IF q \in {r} THEN "absent" ELSE stateOf[q]]
  <2>1. State(r)' = "absent"
    BY <1>1 DEF State, Active
  <2>2. QED
    BY <1>1, <2>1, StatesMove
<1>3. stateOf[r] # "absent" /\ (stateOf[r] \in Record!Ended <=> row[r] \in Ended)
  BY DEF Delete, TypeOK, stateOf, State, Active, Ended, Record!Ended
<1>4. notedOf' = [notedOf EXCEPT ![r] = FALSE]
  BY DEF notedOf
<1>5. deleted' = [deleted EXCEPT ![r] = @ \/ stateOf[r] \in Record!Ended]
  BY <1>3 DEF Delete, TypeOK
<1>6. stateOf' = [stateOf EXCEPT ![r] = "absent"]
  BY <1>2 DEF stateOf
<1>7. QED
  BY <1>3, <1>4, <1>5, <1>6 DEF Record!Remove

LEMMA StepRefines ==
    ASSUME IInv, [Next]_vars
    PROVE  [Record!Next]_Record!vars
<1> USE DEF serverVars, agentVars, linkVars, pullVars, history
<1> DEFINE Goal == [Record!Next]_Record!vars
<1>0. TypeOK /\ (\A r \in Runs : RunInv(r))
  BY DEF IInv
<1>1. ASSUME UNCHANGED <<row, deleted>> PROVE Goal
  BY <1>1 DEF Record!vars, stateOf, notedOf, State
<1>2. ASSUME NEW r \in Runs, Execution(r) PROVE Goal
  <2>1. CASE Launch(r)
    BY <2>1, <1>0, RowStep DEF Launch, RunInv, Active
  <2>2. CASE Report(r)
    BY <2>2, <1>0, RowStep DEF Report, Ended
  <2>3. CASE FinishInSession(r)
    BY <2>3, <1>0, RowStep DEF FinishInSession, Ended
  <2>4. CASE Dispatched(r) \/ Admit(r) \/ Prepare(r) \/ Start(r) \/ LoseDispatch(r)
             \/ Exit(r) \/ LoseReport(r)
    BY <2>4, <1>1 DEF Dispatched, Admit, Prepare, Start, LoseDispatch, Moves, Exit, LoseReport
  <2>5. QED
    BY <1>2, <2>1, <2>2, <2>3, <2>4 DEF Execution
<1>3. ASSUME NEW r \in Runs, User(r) PROVE Goal
  <2>1. CASE ForceClose(r)
    BY <2>1, <1>0, RowStep DEF ForceClose, Ended
  <2>2. CASE Delete(r)
    BY <2>2, <1>0, DeleteStep DEF Record!Next
  <2>3. QED
    BY <1>3, <2>1, <2>2 DEF User
<1>4. ASSUME NEW k \in Pulls, Puller(k) PROVE Goal
  <2>1. ASSUME NEW r \in Runs, CloseOrphan(k, r) PROVE Goal
    BY <2>1, <1>0, RowStep DEF CloseOrphan, Ended
  <2>2. ASSUME NEW r \in Runs, Sync(k, r) PROVE Goal
    <3>1. reported[k][r] \in Active
      BY <2>2, <1>0 DEF Sync, TypeOK
    <3>2. row' = [row EXCEPT ![r] = Recorded(r, reported[k][r])] /\ UNCHANGED deleted
      BY <2>2 DEF Sync
    <3>3. row[r] \in {"none"} \union Active \union Ended
      BY <1>0 DEF TypeOK
    <3>4. QED
      BY <3>1, <3>2, <3>3, <1>0, RowStep DEF Recorded
  <2>3. CASE StartPull(k) \/ PullFails(k) \/ Answer(k) \/ EndPull(k)
    BY <2>3, <1>1 DEF StartPull, PullFails, Answer, EndPull
  <2>4. QED
    BY <1>4, <2>1, <2>2, <2>3 DEF Puller
<1>5. CASE Connect \/ Disconnect \/ AgentRestarts \/ UNCHANGED vars
  BY <1>5, <1>1 DEF Connect, Disconnect, AgentRestarts, Unlink, vars
<1>6. QED
  BY <1>2, <1>3, <1>4, <1>5, StepCases

(* Reports, closures, deletions and reconciliations keep the contract of   *)
(* the records: a run ends once, and one deleted after its end is not      *)
(* inserted again by whichever pull still knows it.                        *)
THEOREM ContractImplemented == Spec => ContractHolds
<1>1. Init => Record!Init
  <2> SUFFICES ASSUME Init PROVE Record!Init
    OBVIOUS
  <2>1. \A r \in Runs : State(r) = "absent"
    BY DEF Init, State, Active
  <2>2. stateOf = [r \in Runs |-> "absent"]
    BY <2>1 DEF stateOf
  <2>3. QED
    BY <2>2 DEF Init, Record!Init, notedOf
<1>2. IInv /\ [Next]_vars => [Record!Next]_Record!vars
  BY StepRefines
<1>3. QED
  BY <1>1, <1>2, Invariance, PTL DEF Spec, ContractHolds, Record!Spec

(* A run that ended is never active again: a consequence of the contract.  *)
THEOREM EndedForGoodHolds == Spec => EndedForGood
<1>1. Spec => Record!EndedForGood
  BY ContractImplemented, Record!EndedForGoodHolds DEF ContractHolds
<1>2. SUFFICES ASSUME NEW r \in Runs
               PROVE  Spec => [](row[r] \in Ended => [](row[r] \notin Active))
  BY DEF EndedForGood
<1>3. Spec => [](stateOf[r] \in Record!Ended => [](stateOf[r] # "running"))
  BY <1>1 DEF Record!EndedForGood
<1>4. TypeOK => (row[r] \in Ended <=> stateOf[r] \in Record!Ended)
  BY DEF TypeOK, stateOf, State, Active, Ended, Record!Ended
<1>5. TypeOK => (row[r] \notin Active <=> stateOf[r] # "running")
  BY DEF TypeOK, stateOf, State, Active, Ended
<1>6. IInv => TypeOK
  BY DEF IInv
<1>7. QED
  BY <1>3, <1>4, <1>5, <1>6, Invariance, PTL
==============================================================================
