-------------------------- MODULE RunReconciliation --------------------------
(***************************************************************************)
(* What the server learns from a workstation it holds a connection to: on  *)
(* every connection, and whenever somebody asks, it pulls the executions   *)
(* the agent holds, closes those the agent lost and records the others.    *)
(* Meanwhile processes exit and report once, users close and delete runs,  *)
(* the agent restarts and the connection drops.  AgentLaunch tells how a   *)
(* run came to be dispatched; here that is one step.                       *)
(***************************************************************************)

CONSTANTS
    Runs,   \* run ids of one workstation
    Pulls   \* pulls in progress at once, on any instance

VARIABLES
    row,         \* the run as the server records it, "none" when it has no row;
                 \* "orphaned" is canceled with the note of the reconciliation
    dispatch,    \* its dispatch state, "" on a row inserted from a report
    before,      \* its row is older than the connection
    deleted,     \* recorded as finished and deleted
    held,        \* the execution at the workstation
    report,      \* the finish_run of the workstation, "killed" with its agent
    linked,      \* the workstation is connected
    due,         \* the pull of a new connection has not started
    pull,        \* a pull: "idle", "asked", "answered"
    candidates,  \* the runs it may find lost
    reported,    \* the runs it was told of, with their status
    fresh,       \* history: the runs launched on this connection
    missed       \* history: the others that were starting at an answer

serverVars == <<row, dispatch, before, deleted>>
agentVars == <<held, report>>
linkVars == <<linked, due>>
pullVars == <<pull, candidates, reported>>
history == <<fresh, missed>>
vars == <<serverVars, agentVars, linkVars, pullVars, history>>

Active == {"queued", "running"}
Ended == {"completed", "canceled", "orphaned"}
Starting == {"resolving", "preparing"}
Working == {"queued", "preparing", "running"}

TypeOK ==
    /\ row \in [Runs -> {"none"} \union Active \union Ended]
    /\ dispatch \in [Runs -> {"", "dispatching", "dispatched"}]
    /\ before \in [Runs -> BOOLEAN]
    /\ deleted \in [Runs -> BOOLEAN]
    /\ held \in [Runs -> {"unborn", "resolving", "over"} \union Working]
    /\ report \in [Runs -> {"none", "sending", "landed", "lost", "killed"}]
    /\ linked \in BOOLEAN
    /\ due \in BOOLEAN
    /\ pull \in [Pulls -> {"idle", "asked", "answered"}]
    /\ candidates \in [Pulls -> SUBSET Runs]
    /\ reported \in [Pulls -> [Runs -> {"no"} \union Active]]
    /\ fresh \in SUBSET Runs
    /\ missed \in SUBSET Runs

Init ==
    /\ row = [r \in Runs |-> "none"]
    /\ dispatch = [r \in Runs |-> ""]
    /\ before = [r \in Runs |-> FALSE]
    /\ deleted = [r \in Runs |-> FALSE]
    /\ held = [r \in Runs |-> "unborn"]
    /\ report = [r \in Runs |-> "none"]
    /\ linked = FALSE
    /\ due = FALSE
    /\ pull = [k \in Pulls |-> "idle"]
    /\ candidates = [k \in Pulls |-> {}]
    /\ reported = [k \in Pulls |-> [r \in Runs |-> "no"]]
    /\ fresh = {}
    /\ missed = {}

------------------------------------------------------------------------------
(* The execution: sent, admitted, prepared, started, over. *)

Launch(r) ==
    /\ held[r] = "unborn" /\ linked
    /\ row' = [row EXCEPT ![r] = "running"]
    /\ dispatch' = [dispatch EXCEPT ![r] = "dispatching"]
    /\ held' = [held EXCEPT ![r] = "resolving"]
    /\ fresh' = fresh \union {r}
    /\ UNCHANGED <<before, deleted, report, linkVars, pullVars, missed>>

(* The launcher settles the dispatch: confirmed, or unconfirmed in time. *)
Dispatched(r) ==
    /\ dispatch[r] = "dispatching"
    /\ dispatch' = [dispatch EXCEPT ![r] = "dispatched"]
    /\ UNCHANGED <<row, before, deleted, agentVars, linkVars, pullVars, history>>

Moves(r, from, to) ==
    /\ held[r] = from
    /\ held' = [held EXCEPT ![r] = to]
    /\ UNCHANGED <<serverVars, report, linkVars, pullVars, history>>

Admit(r) == Moves(r, "resolving", "queued")
Prepare(r) == Moves(r, "queued", "preparing")
Start(r) == Moves(r, "preparing", "running")

(* The message is lost with its connection. *)
LoseDispatch(r) == Moves(r, "resolving", "over")

(* The registry marks the run exited first, and reports it afterwards. *)
Exit(r) ==
    /\ held[r] \in Working
    /\ held' = [held EXCEPT ![r] = "over"]
    /\ report' = [report EXCEPT ![r] = "sending"]
    /\ UNCHANGED <<serverVars, linkVars, pullVars, history>>

Report(r) ==
    /\ report[r] = "sending"
    /\ row' = [row EXCEPT ![r] = IF @ \in Active THEN "completed" ELSE @]
    /\ report' = [report EXCEPT ![r] = "landed"]
    /\ UNCHANGED <<dispatch, before, deleted, held, linkVars, pullVars, history>>

(* The skill reports its own end, and its console stays open. *)
FinishInSession(r) ==
    /\ held[r] = "running" /\ row[r] \in Active
    /\ row' = [row EXCEPT ![r] = "completed"]
    /\ UNCHANGED <<dispatch, before, deleted, agentVars, linkVars, pullVars, history>>

(* One attempt, of five seconds. *)
LoseReport(r) ==
    /\ report[r] = "sending"
    /\ report' = [report EXCEPT ![r] = "lost"]
    /\ UNCHANGED <<serverVars, held, linkVars, pullVars, history>>

------------------------------------------------------------------------------
(* The user. *)

ForceClose(r) ==
    /\ row[r] \in Active
    /\ row' = [row EXCEPT ![r] = "canceled"]
    /\ UNCHANGED <<dispatch, before, deleted, agentVars, linkVars, pullVars, history>>

(* Only a finished run is recorded as deleted: the agent really is running *)
(* the others.                                                             *)
Delete(r) ==
    /\ row[r] # "none"
    /\ row' = [row EXCEPT ![r] = "none"]
    /\ dispatch' = [dispatch EXCEPT ![r] = ""]
    /\ before' = [before EXCEPT ![r] = FALSE]
    /\ deleted' = [deleted EXCEPT ![r] = @ \/ row[r] \in Ended]
    /\ UNCHANGED <<agentVars, linkVars, pullVars, history>>

------------------------------------------------------------------------------
(* The connection.  A pull that waits for an answer fails with it. *)

Connect ==
    /\ ~linked
    /\ linked' = TRUE
    /\ due' = TRUE
    /\ before' = [r \in Runs |-> row[r] # "none"]
    /\ fresh' = {}
    /\ UNCHANGED <<row, dispatch, deleted, agentVars, pullVars, missed>>

Abandon(ks) ==
    /\ pull' = [k \in Pulls |-> IF k \in ks /\ pull[k] = "asked" THEN "idle" ELSE pull[k]]
    /\ candidates' = [k \in Pulls |-> IF k \in ks /\ pull[k] = "asked" THEN {} ELSE candidates[k]]
    /\ UNCHANGED reported

Unlink ==
    /\ linked' = FALSE
    /\ due' = FALSE
    /\ Abandon(Pulls)

Disconnect == linked /\ Unlink /\ UNCHANGED <<serverVars, agentVars, history>>

(* The agent stops or dies, and its processes and its reports with it. *)
AgentRestarts ==
    /\ held' = [r \in Runs |-> IF held[r] = "unborn" THEN "unborn" ELSE "over"]
    /\ report' = [r \in Runs |->
                    IF held[r] \in Working \/ report[r] = "sending" THEN "killed" ELSE report[r]]
    /\ Unlink
    /\ UNCHANGED <<serverVars, history>>

------------------------------------------------------------------------------
(* A pull, on connection or on demand. *)

(* Slip: the runs of this very connection are candidates too. *)
CandidatesOfAnyAge == {r \in Runs : row[r] \in Active /\ dispatch[r] = "dispatched"}

Candidates == {r \in Runs : row[r] \in Active /\ dispatch[r] = "dispatched" /\ before[r]}

StartPull(k) ==
    /\ linked /\ pull[k] = "idle"
    /\ candidates' = [candidates EXCEPT ![k] = Candidates]
    /\ pull' = [pull EXCEPT ![k] = "asked"]
    /\ due' = FALSE
    /\ UNCHANGED <<serverVars, agentVars, linked, reported, history>>

PullFails(k) ==
    /\ pull[k] = "asked"
    /\ Abandon({k})
    /\ UNCHANGED <<serverVars, agentVars, linkVars, history>>

(* Slip: an exited run is still reported. *)
SnapshotWithExited ==
    [r \in Runs |-> IF held[r] = "over" THEN "running" ELSE
                    IF held[r] \in Active THEN held[r] ELSE "no"]

(* The agent reports what it shows as queued or running: neither a dispatch *)
(* it is resolving nor a run it is preparing.                              *)
Snapshot == [r \in Runs |-> IF held[r] \in Active THEN held[r] ELSE "no"]

Answer(k) ==
    /\ pull[k] = "asked"
    /\ reported' = [reported EXCEPT ![k] = Snapshot]
    /\ candidates' = [candidates EXCEPT ![k] = {r \in @ : Snapshot[r] = "no"}]
    /\ pull' = [pull EXCEPT ![k] = "answered"]
    /\ missed' = missed \union {r \in Runs \ fresh : held[r] \in Starting}
    /\ UNCHANGED <<serverVars, agentVars, linkVars, fresh>>

CloseOrphan(k, r) ==
    /\ pull[k] = "answered" /\ r \in candidates[k]
    /\ row' = [row EXCEPT ![r] = IF @ \in Active THEN "orphaned" ELSE @]
    /\ candidates' = [candidates EXCEPT ![k] = @ \ {r}]
    /\ UNCHANGED <<dispatch, before, deleted, agentVars, linkVars, pull, reported, history>>

(* Slips: a report reopens an ended run, or recreates a deleted one. *)
RecordedIfEnded(r, status) == IF row[r] = "none" /\ deleted[r] THEN "none" ELSE status
RecordedIfDeleted(r, status) == IF row[r] \in Ended THEN row[r] ELSE status

Recorded(r, status) ==
    IF row[r] \in Ended \/ (row[r] = "none" /\ deleted[r]) THEN row[r] ELSE status

(* Its statements are taken together, as they are under the lock of an     *)
(* instance.                                                               *)
Sync(k, r) ==
    /\ pull[k] = "answered" /\ candidates[k] = {} /\ reported[k][r] # "no"
    /\ row' = [row EXCEPT ![r] = Recorded(r, reported[k][r])]
    /\ reported' = [reported EXCEPT ![k][r] = "no"]
    /\ UNCHANGED <<dispatch, before, deleted, agentVars, linkVars, pull, candidates, history>>

EndPull(k) ==
    /\ pull[k] = "answered" /\ candidates[k] = {} /\ \A r \in Runs : reported[k][r] = "no"
    /\ pull' = [pull EXCEPT ![k] = "idle"]
    /\ UNCHANGED <<serverVars, agentVars, linkVars, candidates, reported, history>>

------------------------------------------------------------------------------
Execution(r) ==
    \/ Launch(r) \/ Dispatched(r) \/ Admit(r) \/ Prepare(r) \/ Start(r)
    \/ LoseDispatch(r) \/ Exit(r) \/ Report(r) \/ FinishInSession(r) \/ LoseReport(r)

User(r) == ForceClose(r) \/ Delete(r)

Puller(k) ==
    \/ StartPull(k) \/ PullFails(k) \/ Answer(k) \/ EndPull(k)
    \/ \E r \in Runs : CloseOrphan(k, r) \/ Sync(k, r)

Next ==
    \/ \E r \in Runs : Execution(r) \/ User(r)
    \/ \E k \in Pulls : Puller(k)
    \/ Connect \/ Disconnect \/ AgentRestarts

Spec == Init /\ [][Next]_vars

(* The agent dials again for ever, a pull starts with each connection and  *)
(* works through what it was told; some connection lasts long enough for   *)
(* the pull to start and to be answered.                                   *)
Fairness ==
    /\ WF_vars(Connect)
    /\ SF_vars(due /\ \E k \in Pulls : StartPull(k))
    /\ \A k \in Pulls :
         /\ SF_vars(Answer(k))
         /\ WF_vars(EndPull(k) \/ \E r \in Runs : CloseOrphan(k, r) \/ Sync(k, r))

FairSpec == Spec /\ Fairness

------------------------------------------------------------------------------
(* A late report never reopens a run (#407), and no report recreates one   *)
(* that was deleted after its end (#675), whatever pulls are in progress.  *)
EndedStaysEnded ==
    [][\A r \in Runs : row[r] \in Ended => row'[r] \in {row[r], "none"}]_vars
DeletedStaysDeleted == \A r \in Runs : deleted[r] => row[r] = "none"

(* A reconciliation works from a list, an answer and the present, taken at *)
(* three moments: it closes a run whose execution is not over only if that *)
(* run, older than the connection, was starting when the agent answered.   *)
OnlyStartingRunsMistaken ==
    [][\A r \in Runs :
         row[r] # "orphaned" /\ row'[r] = "orphaned" => held[r] = "over" \/ r \in missed]_vars

(* What the two rest on: an execution the workstation never had has no     *)
(* row and no report, and the candidates of a pull were launched before    *)
(* the connection it asks, hence received by the agent or lost.            *)
RunInv(r) ==
    /\ held[r] = "unborn" => row[r] = "none" /\ ~before[r] /\ ~deleted[r]
    /\ before[r] => r \notin fresh

PullInv(k) ==
    /\ pull[k] = "idle" => candidates[k] = {}
    /\ \A r \in candidates[k] :
         /\ pull[k] = "asked" => held[r] # "unborn" /\ r \notin fresh
         /\ pull[k] = "answered" => held[r] = "over" \/ r \in missed
    /\ \A r \in Runs : reported[k][r] # "no" => held[r] # "unborn"

IInv ==
    /\ TypeOK
    /\ \A r \in Runs : RunInv(r)
    /\ \A k \in Pulls : PullInv(k)
    /\ DeletedStaysDeleted

(* A run whose process nobody reported ends at a reconnection, as long as  *)
(* the connection is renewed.                                              *)
Lost(r) ==
    /\ row[r] \in Active /\ dispatch[r] = "dispatched"
    /\ held[r] = "over" /\ report[r] # "sending"

LostRunsClosed == []<>~linked => \A r \in Runs : Lost(r) ~> ~Lost(r)

(* A run that ended is never active again, whatever reports, deletions and *)
(* pulls come after it.                                                    *)
EndedForGood == \A r \in Runs : [](row[r] \in Ended => [](row[r] \notin Active))

(* What every part of the server promises about the record of a run.  What *)
(* a reconciliation decides bears no disconnect note.                      *)
State(r) ==
    CASE row[r] = "none" -> "absent"
      [] row[r] \in Active -> "running"
      [] row[r] = "orphaned" -> "presumed"
      [] OTHER -> row[r]

stateOf == [r \in Runs |-> State(r)]
notedOf == [r \in Runs |-> FALSE]

Record == INSTANCE RunRecord WITH state <- stateOf, noted <- notedOf, buried <- deleted

ContractHolds == Record!Spec

(* "Automatically close only proven orphaned runs": the workstation holds  *)
(* no execution of a run a reconciliation closed.                          *)
OnlyOrphansClosed == \A r \in Runs : row[r] = "orphaned" => held[r] \notin Working

(* "Their supervisor reconnects and reports the real process exit": a run  *)
(* closed as lost has no outcome its agent knew.                           *)
RealExitReported ==
    \A r \in Runs : row[r] = "orphaned" => report[r] \notin {"sending", "landed", "lost"}
==============================================================================
