----------------------------- MODULE AgentLaunch -----------------------------
(***************************************************************************)
(* How a launch of a skill on one task becomes a run on a workstation.     *)
(*                                                                         *)
(* A launch is recorded in the shared table task_activities twice: as a    *)
(* launch row (a queued skill that becomes an "agent_launch" record), and  *)
(* as the remote run it transfers the work to.  The launcher, a worker of  *)
(* the queue or the handler of a direct launch, lives in the memory of one *)
(* server instance, sends one dispatch message to the agent and waits for  *)
(* its confirmation.  Meanwhile a user may cancel through any instance,    *)
(* and an instance that stops refreshing its row in server_instances has   *)
(* its unfinished work reclaimed by the others, alive or not.              *)
(*                                                                         *)
(* A launch and the run it creates share one name: launch l creates run l. *)
(***************************************************************************)
EXTENDS Naturals, FiniteSets

CONSTANTS
    Launches,   \* launches somebody may ask for on the task
    Direct,     \* those a handler dispatches itself; the others are queued
    Forced,     \* the direct launches asked with "launch anyway"
    Stoppable,  \* bound: the launches whose run a user may ask to stop
    Instances,  \* server instances sharing the database
    First,      \* the instance serving from the start
    Faults      \* the database statements that may fail, by the step they end

ASSUME LaunchesAssumption ==
    /\ Direct \subseteq Launches
    /\ Forced \subseteq Direct
    /\ Stoppable \subseteq Launches
    /\ First \in Instances
    /\ Faults \subseteq {"claim", "rename", "start", "record", "dispatch", "complete",
                       "finish", "close"}

VARIABLES
    row,       \* status of the launch row, "none" before it is inserted
    skill,     \* its kind: the "stage" skill, or "agent_launch" once renamed
    run,       \* status of the remote run, "none" before it is inserted
    conc,      \* concurrent column of the run: outside the one-run index
    dispatch,  \* dispatch_state of the run
    owner,     \* instance_id: the instance whose memory holds the launcher
    pc,        \* where the launcher is, "lost" when its instance stopped
    err,       \* what the launcher learned of the dispatch
    unwritten, \* history: statements that failed and the launcher never repeats
    agent,     \* where the dispatch is on its way to and on the workstation
    stop,      \* where the cancel request of a user is
    closed,    \* history: which closure ended the run
    up,        \* processes of the instances
    seen,      \* whether their row in server_instances is within the bound
    sweep      \* next statement of a reclaim, run by any serving instance

launchVars == <<row, skill, run, conc, dispatch>>
workerVars == <<owner, pc, err, unwritten>>
userVars   == <<stop, closed>>
instVars   == <<up, seen, sweep>>
vars == <<launchVars, workerVars, agent, userVars, instVars>>

Active == {"queued", "running"}
Ended  == {"completed", "failed", "canceled"}

(* The registry of the agent knows the run in these states. *)
Registered == {"held", "stopping", "reporting", "over"}

TypeOK ==
    /\ row      \in [Launches -> {"none"} \union Active \union Ended]
    /\ skill    \in [Launches -> {"stage", "agent_launch"}]
    /\ run      \in [Launches -> {"none", "running"} \union Ended]
    /\ conc     \in [Launches -> BOOLEAN]
    /\ dispatch \in [Launches -> {"none", "admitted", "dispatching", "dispatched"}]
    /\ owner    \in [Launches -> Instances]
    /\ pc       \in [Launches -> {"idle", "checked", "queued", "claimed", "renamed",
                                  "unlogged", "recorded", "sending", "sent", "answered",
                                  "failing", "closing", "done", "lost"}]
    /\ err      \in [Launches -> {"none", "ok", "error", "unconfirmed"}]
    /\ unwritten \in [Launches -> SUBSET {"claim", "dispatch", "complete", "finish", "close"}]
    /\ agent    \in [Launches -> {"none", "inflight", "dropped", "resolving", "refused",
                                  "gone"} \union Registered]
    /\ stop     \in [Launches -> {"idle", "asking", "stopped", "orphan", "unproven",
                                  "unreached"}]
    /\ closed   \in [Launches -> {"none", "undispatched", "reclaimed", "launcher", "reported",
                                  "stopped", "orphan", "unproven", "forced"}]
    /\ up       \in [Instances -> {"unborn", "up", "down"}]
    /\ seen     \in [Instances -> BOOLEAN]
    /\ sweep    \in {"jobs", "admitted", "dispatching"}

Init ==
    /\ row = [l \in Launches |-> "none"]
    /\ skill = [l \in Launches |-> "stage"]
    /\ run = [l \in Launches |-> "none"]
    /\ conc = [l \in Launches |-> FALSE]
    /\ dispatch = [l \in Launches |-> "none"]
    /\ owner = [l \in Launches |-> First]
    /\ pc = [l \in Launches |-> "idle"]
    /\ err = [l \in Launches |-> "none"]
    /\ unwritten = [l \in Launches |-> {}]
    /\ agent = [l \in Launches |-> "none"]
    /\ stop = [l \in Launches |-> "idle"]
    /\ closed = [l \in Launches |-> "none"]
    /\ up = [i \in Instances |-> IF i = First THEN "up" ELSE "unborn"]
    /\ seen = [i \in Instances |-> i = First]
    /\ sweep = "jobs"

------------------------------------------------------------------------------
(* The one-run rule: what makes the task busy, and what its index refuses. *)

QueuedRow(l) == row[l] \in Active /\ skill[l] = "stage"

(* ActiveBusyCause counts every active run, a concurrent one included. *)
Busy == \E l \in Launches : run[l] = "running" \/ QueuedRow(l)

(* The unique index counts the ordinary ones only. *)
OrdinaryBusy == \E l \in Launches : (run[l] = "running" /\ ~conc[l]) \/ QueuedRow(l)

(* Slip: a closure that does not look at the status it rewrites. *)
CloseRunAnyway(l, status, how) ==
    /\ run' = [run EXCEPT ![l] = status]
    /\ closed' = [closed EXCEPT ![l] = how]

(* FinishRemoteRun without an identity: it closes an active run and leaves *)
(* an ended one as it is.                                                  *)
CloseRun(l, status, how) ==
    IF run[l] = "running"
    THEN /\ run' = [run EXCEPT ![l] = status]
         /\ closed' = [closed EXCEPT ![l] = how]
    ELSE UNCHANGED <<run, closed>>

(* A statement fails, and the launcher goes on without what it would have  *)
(* written: its error is dropped, or only logged.                          *)
Skip(l, statement) ==
    /\ statement \in Faults
    /\ unwritten' = [unwritten EXCEPT ![l] = @ \union {statement}]

(* The launcher closes its run, and does not look whether that worked. *)
CloseOwnRun(l) ==
    \/ CloseRun(l, "failed", "launcher") /\ UNCHANGED unwritten
    \/ run[l] = "running" /\ Skip(l, "finish") /\ UNCHANGED <<run, closed>>

------------------------------------------------------------------------------
(* The launcher. *)

(* The busy check, read before anything is recorded: a refused launch      *)
(* leaves no trace.  "Launch anyway" makes a concurrent run only when it   *)
(* steps over an active one.                                               *)
Check(l, i) ==
    /\ pc[l] = "idle" /\ up[i] = "up"
    /\ Busy => l \in Forced
    /\ conc' = [conc EXCEPT ![l] = Busy]
    /\ owner' = [owner EXCEPT ![l] = i]
    /\ pc' = [pc EXCEPT ![l] = "checked"]
    /\ UNCHANGED <<row, skill, run, dispatch, err, unwritten, agent, userVars, instVars>>

(* The index refuses what became busy since the check. *)
RefuseBusy(l) ==
    /\ pc[l] = "checked" /\ ~conc[l] /\ OrdinaryBusy
    /\ pc' = [pc EXCEPT ![l] = "done"]
    /\ UNCHANGED <<launchVars, owner, err, unwritten, agent, userVars, instVars>>

Enqueue(l) ==
    /\ l \notin Direct /\ pc[l] = "checked" /\ ~OrdinaryBusy
    /\ row' = [row EXCEPT ![l] = "queued"]
    /\ pc' = [pc EXCEPT ![l] = "queued"]
    /\ UNCHANGED <<skill, run, conc, dispatch, owner, err, unwritten, agent, userVars, instVars>>

(* One skill job at a time per project in each instance: the limiter.  A   *)
(* row a user canceled or another instance reclaimed while the job waited  *)
(* is not claimed, and its job is dropped.                                 *)
Claim(l) ==
    /\ pc[l] = "queued"
    /\ \A m \in Launches \ Direct :
         owner[m] = owner[l] => pc[m] \in {"idle", "checked", "queued", "done", "lost"}
    /\ \/ /\ row[l] = "queued"
          /\ row' = [row EXCEPT ![l] = "running"]
          /\ pc' = [pc EXCEPT ![l] = "claimed"]
          /\ UNCHANGED unwritten
       \/ /\ IF row[l] = "queued" THEN Skip(l, "claim") ELSE UNCHANGED unwritten
          /\ pc' = [pc EXCEPT ![l] = "done"]
          /\ UNCHANGED row
    /\ UNCHANGED <<skill, run, conc, dispatch, owner, err, agent, userVars, instVars>>

(* The rename takes the row out of the one-run index, whatever its status. *)
Rename(l) ==
    /\ pc[l] = "claimed"
    /\ \/ /\ skill' = [skill EXCEPT ![l] = "agent_launch"]
          /\ pc' = [pc EXCEPT ![l] = "renamed"]
          /\ UNCHANGED err
       \/ /\ "rename" \in Faults
          /\ pc' = [pc EXCEPT ![l] = "closing"]
          /\ err' = [err EXCEPT ![l] = "error"]
          /\ UNCHANGED skill
    /\ UNCHANGED <<row, run, conc, dispatch, owner, unwritten, agent, userVars, instVars>>

(* Slip: the transaction does not read the status of the row. *)
MayRecordRunUnread(l) == ~OrdinaryBusy

(* addLaunchedRemoteRun: the run is inserted only while its row is running. *)
MayRecordRun(l) == row[l] = "running" /\ ~OrdinaryBusy

StartQueued(l) ==
    /\ pc[l] = "renamed" /\ MayRecordRun(l)
    /\ run' = [run EXCEPT ![l] = "running"]
    /\ dispatch' = [dispatch EXCEPT ![l] = "admitted"]
    /\ pc' = [pc EXCEPT ![l] = "recorded"]
    /\ UNCHANGED <<row, skill, conc, owner, err, unwritten, agent, userVars, instVars>>

(* No workstation can be selected, the row ended meanwhile, or the task was *)
(* taken by another run: the launch ends without one.                       *)
FailStart(l) ==
    /\ pc[l] = "renamed"
    /\ ~MayRecordRun(l) \/ "start" \in Faults
    /\ err' = [err EXCEPT ![l] = "error"]
    /\ pc' = [pc EXCEPT ![l] = "closing"]
    /\ UNCHANGED <<launchVars, owner, unwritten, agent, userVars, instVars>>

(* A direct launch records the run first: its insert is the busy check that *)
(* holds across instances.                                                  *)
StartDirect(l) ==
    /\ l \in Direct /\ pc[l] = "checked" /\ (conc[l] \/ ~OrdinaryBusy)
    /\ run' = [run EXCEPT ![l] = "running"]
    /\ dispatch' = [dispatch EXCEPT ![l] = "admitted"]
    /\ pc' = [pc EXCEPT ![l] = "unlogged"]
    /\ UNCHANGED <<row, skill, conc, owner, err, unwritten, agent, userVars, instVars>>

(* A run refused for any other reason still leaves a launch row behind. *)
FailStartDirect(l) ==
    /\ l \in Direct /\ pc[l] = "checked" /\ "start" \in Faults
    /\ err' = [err EXCEPT ![l] = "error"]
    /\ pc' = [pc EXCEPT ![l] = "unlogged"]
    /\ UNCHANGED <<launchVars, owner, unwritten, agent, userVars, instVars>>

(* The launch row of a direct launch, or the end of its run. *)
RecordLaunch(l) ==
    /\ pc[l] = "unlogged"
    /\ \/ /\ row' = [row EXCEPT ![l] = "running"]
          /\ skill' = [skill EXCEPT ![l] = "agent_launch"]
          /\ pc' = [pc EXCEPT ![l] = IF err[l] = "error" THEN "closing" ELSE "recorded"]
          /\ UNCHANGED <<run, closed, unwritten>>
       \/ /\ "record" \in Faults
          /\ CloseOwnRun(l)
          /\ pc' = [pc EXCEPT ![l] = "done"]
          /\ UNCHANGED <<row, skill>>
    /\ UNCHANGED <<conc, dispatch, owner, err, agent, stop, instVars>>

(* Slip: the claim looks at the dispatch state alone. *)
MayDispatchEnded(l) == dispatch[l] = "admitted"

(* ClaimRunDispatch arbitrates the sending against cancel and reclaim. *)
MayDispatch(l) == run[l] = "running" /\ dispatch[l] = "admitted"

ClaimDispatch(l) ==
    /\ pc[l] = "recorded" /\ MayDispatch(l)
    /\ dispatch' = [dispatch EXCEPT ![l] = "dispatching"]
    /\ pc' = [pc EXCEPT ![l] = "sending"]
    /\ UNCHANGED <<row, skill, run, conc, owner, err, unwritten, agent, userVars, instVars>>

(* A queued launch then leaves its run as it is; a direct one closes it. *)
FailDispatch(l) ==
    /\ pc[l] = "recorded"
    /\ IF MayDispatch(l) THEN Skip(l, "dispatch") ELSE UNCHANGED unwritten
    /\ err' = [err EXCEPT ![l] = "error"]
    /\ pc' = [pc EXCEPT ![l] = IF l \in Direct THEN "failing" ELSE "closing"]
    /\ UNCHANGED <<launchVars, owner, agent, userVars, instVars>>

Send(l) ==
    /\ pc[l] = "sending"
    /\ agent' = [agent EXCEPT ![l] = "inflight"]
    /\ pc' = [pc EXCEPT ![l] = "sent"]
    /\ UNCHANGED <<launchVars, owner, err, unwritten, userVars, instVars>>

(* No route, a displaced connection, a failed write; or an instance that   *)
(* holds the agent and cannot be reached, which counts as unconfirmed.     *)
SendFails(l) ==
    /\ pc[l] = "sending"
    /\ \E e \in {"error", "unconfirmed"} : err' = [err EXCEPT ![l] = e]
    /\ pc' = [pc EXCEPT ![l] = "answered"]
    /\ UNCHANGED <<launchVars, owner, unwritten, agent, userVars, instVars>>

(* The status message of the agent, unless its connection took it along. *)
Answered(l) ==
    /\ pc[l] = "sent" /\ agent[l] \in Registered \union {"refused"}
    /\ err' = [err EXCEPT ![l] = IF agent[l] = "refused" THEN "error" ELSE "ok"]
    /\ pc' = [pc EXCEPT ![l] = "answered"]
    /\ UNCHANGED <<launchVars, owner, unwritten, agent, userVars, instVars>>

(* Slip: the launcher that gives up waiting leaves the dispatch as it is. *)
UnconfirmedGivesUp(l) ==
    /\ pc[l] = "sent"
    /\ err' = [err EXCEPT ![l] = "unconfirmed"]
    /\ pc' = [pc EXCEPT ![l] = "closing"]
    /\ UNCHANGED <<launchVars, owner, unwritten, agent, userVars, instVars>>

(* The deadline, the end of the connection, or a caller that left. *)
Unconfirmed(l) ==
    /\ pc[l] = "sent"
    /\ err' = [err EXCEPT ![l] = "unconfirmed"]
    /\ pc' = [pc EXCEPT ![l] = "answered"]
    /\ UNCHANGED <<launchVars, owner, unwritten, agent, userVars, instVars>>

(* Slip: any error closes the run. *)
AfterAnyError(l) == IF err[l] # "ok" THEN "failing" ELSE "closing"

(* An unconfirmed launch is not a failed one: its run stays open. *)
AfterDispatch(l) == IF err[l] = "error" THEN "failing" ELSE "closing"

(* CompleteRunDispatch; its error is dropped, and leaves the run dispatching. *)
CompleteDispatch(l) ==
    /\ pc[l] = "answered"
    /\ \/ /\ dispatch' = [dispatch EXCEPT ![l] = IF @ = "dispatching" THEN "dispatched" ELSE @]
          /\ UNCHANGED unwritten
       \/ dispatch[l] = "dispatching" /\ Skip(l, "complete") /\ UNCHANGED dispatch
    /\ pc' = [pc EXCEPT ![l] = AfterDispatch(l)]
    /\ UNCHANGED <<row, skill, run, conc, owner, err, agent, userVars, instVars>>

FailRun(l) ==
    /\ pc[l] = "failing"
    /\ CloseOwnRun(l)
    /\ pc' = [pc EXCEPT ![l] = "closing"]
    /\ UNCHANGED <<row, skill, conc, dispatch, owner, err, agent, stop, instVars>>

(* closeLaunch leaves a canceled row alone; FinishAgentLaunch writes any.  *)
(* Both may rewrite a row another instance reclaimed.  Giving up after the *)
(* attempts leaves the row to a reclaim.                                   *)
CloseLaunch(l) ==
    /\ pc[l] = "closing"
    /\ \/ /\ row' = [row EXCEPT ![l] =
                    IF l \notin Direct /\ @ = "canceled" THEN @
                    ELSE IF err[l] = "ok" THEN "completed" ELSE "failed"]
          /\ UNCHANGED unwritten
       \/ Skip(l, "close") /\ UNCHANGED row
    /\ pc' = [pc EXCEPT ![l] = "done"]
    /\ UNCHANGED <<skill, run, conc, dispatch, owner, err, agent, userVars, instVars>>

Launcher(l) ==
    \/ RefuseBusy(l) \/ Enqueue(l) \/ Claim(l) \/ Rename(l) \/ StartQueued(l)
    \/ FailStart(l) \/ StartDirect(l) \/ FailStartDirect(l) \/ RecordLaunch(l)
    \/ ClaimDispatch(l) \/ FailDispatch(l) \/ Send(l) \/ SendFails(l) \/ Answered(l)
    \/ Unconfirmed(l) \/ CompleteDispatch(l) \/ FailRun(l) \/ CloseLaunch(l)

------------------------------------------------------------------------------
(* The workstation.  Its handler of a dispatch survives the connection.    *)

Receive(l) ==
    /\ agent[l] = "inflight"
    /\ agent' = [agent EXCEPT ![l] = "resolving"]
    /\ UNCHANGED <<launchVars, workerVars, userVars, instVars>>

(* The connection ends before the agent read the message. *)
Drop(l) ==
    /\ agent[l] = "inflight"
    /\ agent' = [agent EXCEPT ![l] = "dropped"]
    /\ UNCHANGED <<launchVars, workerVars, userVars, instVars>>

(* The configuration is read and the run registered before the answer. *)
Admit(l) ==
    /\ agent[l] = "resolving"
    /\ agent' = [agent EXCEPT ![l] = "held"]
    /\ UNCHANGED <<launchVars, workerVars, userVars, instVars>>

RefuseDispatch(l) ==
    /\ agent[l] = "resolving"
    /\ agent' = [agent EXCEPT ![l] = "refused"]
    /\ UNCHANGED <<launchVars, workerVars, userVars, instVars>>

(* The process exits, by itself or because a stop was asked. *)
Exit(l) ==
    /\ agent[l] \in {"held", "stopping"}
    /\ agent' = [agent EXCEPT ![l] = "reporting"]
    /\ UNCHANGED <<launchVars, workerVars, userVars, instVars>>

(* finish_run: one call within five seconds, never repeated. *)
Report(l) ==
    /\ agent[l] = "reporting"
    /\ agent' = [agent EXCEPT ![l] = "over"]
    /\ \/ \E s \in Ended : CloseRun(l, s, "reported")
       \/ UNCHANGED <<run, closed>>
    /\ UNCHANGED <<row, skill, conc, dispatch, workerVars, stop, instVars>>

(* The session of the skill reports its own end through MCP. *)
ReportSession(l) ==
    /\ agent[l] = "held" /\ run[l] = "running"
    /\ \E s \in Ended : CloseRun(l, s, "reported")
    /\ UNCHANGED <<row, skill, conc, dispatch, workerVars, agent, stop, instVars>>

(* The daemon stops: it forgets the run, or never registers it. *)
AgentStops(l) ==
    /\ agent[l] \in {"resolving"} \union Registered
    /\ agent' = [agent EXCEPT ![l] = "gone"]
    /\ UNCHANGED <<launchVars, workerVars, userVars, instVars>>

Agent(l) ==
    \/ Receive(l) \/ Drop(l) \/ Admit(l) \/ RefuseDispatch(l) \/ Exit(l)
    \/ Report(l) \/ ReportSession(l) \/ AgentStops(l)

------------------------------------------------------------------------------
(* A user cancels, through an instance of their own. *)

CancelQueued(l) ==
    /\ row[l] = "queued"
    /\ row' = [row EXCEPT ![l] = "canceled"]
    /\ UNCHANGED <<skill, run, conc, dispatch, workerVars, agent, userVars, instVars>>

(* CancelUndispatchedRun, the first thing a cancellation of a run tries. *)
CancelUndispatched(l) ==
    /\ stop[l] = "idle" /\ run[l] = "running" /\ dispatch[l] = "admitted"
    /\ CloseRun(l, "canceled", "undispatched")
    /\ UNCHANGED <<row, skill, conc, dispatch, workerVars, agent, stop, instVars>>

RequestStop(l) ==
    /\ l \in Stoppable
    /\ stop[l] = "idle" /\ run[l] = "running" /\ dispatch[l] # "admitted"
    /\ stop' = [stop EXCEPT ![l] = "asking"]
    /\ UNCHANGED <<launchVars, workerVars, agent, closed, instVars>>

(* The workstation is asked once the dispatch is no longer in progress. *)
Asked(l) == stop[l] = "asking" /\ dispatch[l] # "dispatching"

(* The agent marks a run it has; it answers once the process has exited. *)
StopProcess(l) ==
    /\ Asked(l) /\ agent[l] = "held"
    /\ agent' = [agent EXCEPT ![l] = "stopping"]
    /\ UNCHANGED <<launchVars, workerVars, userVars, instVars>>

ConfirmStop(l) ==
    /\ Asked(l) /\ agent[l] \in {"reporting", "over"}
    /\ stop' = [stop EXCEPT ![l] = "stopped"]
    /\ UNCHANGED <<launchVars, workerVars, agent, closed, instVars>>

(* RunNotOwned: the registry has no such run, which an exited one may have *)
(* left too.  The server takes it for an orphan either way; the label      *)
(* keeps whether the launcher had seen the agent accept the run by then.   *)
DenyRun(l) ==
    /\ Asked(l) /\ agent[l] \notin {"inflight", "held", "stopping", "reporting"}
    /\ stop' = [stop EXCEPT ![l] = IF err[l] = "ok" THEN "orphan" ELSE "unproven"]
    /\ UNCHANGED <<launchVars, workerVars, agent, closed, instVars>>

(* The dispatch is still in progress at the deadline, no agent answers, or *)
(* the process has not exited in time.                                     *)
StopFails(l) ==
    /\ stop[l] = "asking"
    /\ stop' = [stop EXCEPT ![l] = "unreached"]
    /\ UNCHANGED <<launchVars, workerVars, agent, closed, instVars>>

(* Without force, a workstation that was not reached closes nothing; and   *)
(* the closure itself may fail, which the user is told.                    *)
GiveUpStop(l) ==
    /\ \/ stop[l] = "unreached"
       \/ stop[l] \in {"stopped", "orphan", "unproven"} /\ "finish" \in Faults
    /\ stop' = [stop EXCEPT ![l] = "idle"]
    /\ UNCHANGED <<launchVars, workerVars, agent, closed, instVars>>

FinishStop(l) ==
    /\ stop[l] \in {"stopped", "orphan", "unproven", "unreached"}
    /\ CloseRun(l, "canceled", IF stop[l] = "unreached" THEN "forced" ELSE stop[l])
    /\ stop' = [stop EXCEPT ![l] = "idle"]
    /\ UNCHANGED <<row, skill, conc, dispatch, workerVars, agent, instVars>>

User(l) ==
    \/ CancelQueued(l) \/ CancelUndispatched(l) \/ RequestStop(l)
    \/ StopProcess(l) \/ ConfirmStop(l) \/ DenyRun(l) \/ StopFails(l)
    \/ GiveUpStop(l) \/ FinishStop(l)

------------------------------------------------------------------------------
(* The server instances. *)

StartInstance(i) ==
    /\ up[i] = "unborn"
    /\ up' = [up EXCEPT ![i] = "up"]
    /\ seen' = [seen EXCEPT ![i] = TRUE]
    /\ UNCHANGED <<launchVars, workerVars, agent, userVars, sweep>>

(* A process stops: it dies leaving its row behind, or drains and removes  *)
(* it, which does not wait for the launchers either.  Bound: one instance  *)
(* keeps serving, or nobody is left to reclaim anything.                   *)
StopInstance(i) ==
    /\ up[i] = "up" /\ \E j \in Instances \ {i} : up[j] = "up"
    /\ up' = [up EXCEPT ![i] = "down"]
    /\ seen' \in {seen, [seen EXCEPT ![i] = FALSE]}
    /\ pc' = [l \in Launches |->
                IF owner[l] = i /\ pc[l] \notin {"idle", "done"} THEN "lost" ELSE pc[l]]
    /\ UNCHANGED <<launchVars, owner, err, unwritten, agent, userVars, sweep>>

(* The row of an instance, dead or merely slow, passes the bound. *)
GoStale(i) ==
    /\ seen[i]
    /\ seen' = [seen EXCEPT ![i] = FALSE]
    /\ UNCHANGED <<launchVars, workerVars, agent, userVars, up, sweep>>

(* last_seen is refreshed, or the row another instance deleted is inserted *)
(* again.                                                                  *)
Heartbeat(i) ==
    /\ up[i] = "up" /\ ~seen[i]
    /\ seen' = [seen EXCEPT ![i] = TRUE]
    /\ UNCHANGED <<launchVars, workerVars, agent, userVars, up, sweep>>

(* A row past the bound and a deleted row are the same to every statement. *)
Orphaned(l) == ~seen[owner[l]]

SomeInstanceUp == \E i \in Instances : up[i] = "up"

(* Slip: the rows of jobs that wait in the queue are forgotten. *)
ReclaimRunningJobs ==
    /\ SomeInstanceUp /\ sweep = "jobs"
    /\ row' = [l \in Launches |->
                 IF row[l] = "running" /\ Orphaned(l) THEN "failed" ELSE row[l]]
    /\ sweep' = "admitted"
    /\ UNCHANGED <<skill, run, conc, dispatch, workerVars, agent, userVars, up, seen>>

(* reclaimDeadInstances, one action per statement: an instance may send a  *)
(* heartbeat, and its launchers go on, between two of them.                *)
ReclaimJobs ==
    /\ SomeInstanceUp /\ sweep = "jobs"
    /\ row' = [l \in Launches |->
                 IF row[l] \in Active /\ Orphaned(l) THEN "failed" ELSE row[l]]
    /\ sweep' = "admitted"
    /\ UNCHANGED <<skill, run, conc, dispatch, workerVars, agent, userVars, up, seen>>

(* Slip: a run caught dispatching is canceled as if it were not sent. *)
WithdrawnDispatching(l) == run[l] = "running" /\ dispatch[l] # "dispatched" /\ Orphaned(l)

Withdrawn(l) == run[l] = "running" /\ dispatch[l] = "admitted" /\ Orphaned(l)

CancelAdmitted ==
    /\ SomeInstanceUp /\ sweep = "admitted"
    /\ run' = [l \in Launches |-> IF Withdrawn(l) THEN "canceled" ELSE run[l]]
    /\ closed' = [l \in Launches |-> IF Withdrawn(l) THEN "reclaimed" ELSE closed[l]]
    /\ sweep' = "dispatching"
    /\ UNCHANGED <<row, skill, conc, dispatch, workerVars, agent, stop, up, seen>>

(* Slip: the runs caught dispatching are left alone. *)
SettleNothing ==
    /\ SomeInstanceUp /\ sweep = "dispatching"
    /\ sweep' = "jobs"
    /\ UNCHANGED <<launchVars, workerVars, agent, userVars, up, seen>>

SettleDispatches ==
    /\ SomeInstanceUp /\ sweep = "dispatching"
    /\ dispatch' = [l \in Launches |->
                      IF run[l] = "running" /\ dispatch[l] = "dispatching" /\ Orphaned(l)
                      THEN "dispatched" ELSE dispatch[l]]
    /\ sweep' = "jobs"
    /\ UNCHANGED <<row, skill, run, conc, workerVars, agent, userVars, up, seen>>

Sweep == ReclaimJobs \/ CancelAdmitted \/ SettleDispatches

Instance(i) == StartInstance(i) \/ StopInstance(i) \/ GoStale(i) \/ Heartbeat(i)

------------------------------------------------------------------------------
Next ==
    \/ \E l \in Launches : (\E i \in Instances : Check(l, i)) \/ Launcher(l) \/ Agent(l) \/ User(l)
    \/ \E i \in Instances : Instance(i)
    \/ Sweep

Spec == Init /\ [][Next]_vars

(* What the code schedules.  A launcher goes on as long as its process is  *)
(* there: its waits all end in a deadline.  The clock makes the row of a   *)
(* process that stopped grow old, and the instances that serve reclaim     *)
(* every fifteen seconds.  Nothing is assumed of users or workstations.    *)
Fairness ==
    /\ \A l \in Launches : WF_vars(Launcher(l))
    /\ \A i \in Instances : WF_vars(up[i] = "down" /\ GoStale(i))
    /\ WF_vars(Sweep)

FairSpec == Spec /\ Fairness

------------------------------------------------------------------------------
(* The inductive invariant, one launch at a time. *)

(* The run, its dispatch state and its end are recorded together. *)
RunRecorded(l) ==
    /\ run[l] = "none" <=> dispatch[l] = "none"
    /\ run[l] \in {"none", "running"} <=> closed[l] = "none"
    /\ closed[l] \in {"undispatched", "reclaimed"} => dispatch[l] = "admitted"
    /\ pc[l] \in {"idle", "checked", "queued", "claimed", "renamed"} => run[l] = "none"
    /\ pc[l] \in {"idle", "checked"} => row[l] = "none"
    /\ pc[l] = "recorded" => dispatch[l] = "admitted"
    /\ pc[l] = "unlogged" => dispatch[l] = IF err[l] = "error" THEN "none" ELSE "admitted"

(* Nothing leaves the server before its dispatch was claimed. *)
SentAfterClaim(l) ==
    /\ agent[l] # "none" => dispatch[l] \in {"dispatching", "dispatched"}
    /\ pc[l] = "sending" => agent[l] = "none" /\ dispatch[l] \in {"dispatching", "dispatched"}

(* What the launcher believes of the workstation is true of it. *)
ErrorIsKnown(l) ==
    /\ err[l] = "error" => /\ agent[l] \in {"none", "refused"}
                           /\ pc[l] \in {"unlogged", "answered", "failing", "closing",
                                        "done", "lost"}
    /\ err[l] = "ok" => agent[l] \in Registered \union {"gone"}
    /\ pc[l] = "failing" => err[l] = "error"
    /\ closed[l] = "launcher" =>
         err[l] = "error" \/ (pc[l] = "done" /\ agent[l] = "none")

(* What a cancel request believes of the workstation is true of it. *)
StopIsKnown(l) ==
    /\ "stopped" \in {stop[l], closed[l]} => agent[l] \in {"reporting", "over", "gone"}
    /\ "orphan" \in {stop[l], closed[l]} => agent[l] \in {"over", "gone"}

(* Only a queued launch has a row that waits or can be canceled. *)
DirectRow(l) ==
    IF l \in Direct
    THEN row[l] \notin {"queued", "canceled"} /\ pc[l] \notin {"queued", "claimed", "renamed"}
    ELSE pc[l] # "unlogged"

LaunchInv(l) ==
    /\ RunRecorded(l) /\ SentAfterClaim(l) /\ ErrorIsKnown(l) /\ StopIsKnown(l)
    /\ DirectRow(l)
    /\ conc[l] => l \in Forced

(* The one-run rule: of two active runs, one is concurrent. *)
OneOrdinaryRun ==
    \A l, m \in Launches :
        l # m /\ run[l] = "running" /\ run[m] = "running" => conc[l] \/ conc[m]

IInv == TypeOK /\ (\A l \in Launches : LaunchInv(l)) /\ OneOrdinaryRun

------------------------------------------------------------------------------
(* A process the agent holds is known to the server as an active run.  It  *)
(* can be closed under the agent's feet by its own session, by a user who  *)
(* forces the closure of a run nobody could stop, or by a denial that came *)
(* before the launch was confirmed.  No deadline, crash or reclaim does it. *)
HeldRunStaysOpen ==
    \A l \in Launches :
        agent[l] = "held" =>
            run[l] = "running" \/ closed[l] \in {"reported", "forced", "unproven"}

(* A run canceled because it was never sent was never sent, nor will be:   *)
(* "canceled before dispatch" tells the user that nothing ran.             *)
WithdrawnNeverSent ==
    \A l \in Launches : closed[l] \in {"undispatched", "reclaimed"} => agent[l] = "none"

(* Two agents work on the task at the same time only if one of the two was *)
(* launched anyway, or its run was closed while its process went on.       *)
OneAgentPerTask ==
    \A l, m \in Launches :
        l # m /\ agent[l] = "held" /\ agent[m] = "held" =>
            \E k \in {l, m} : conc[k] \/ closed[k] \in {"reported", "forced", "unproven"}

(* An orphan is closed on the word of the agent that should hold it: once  *)
(* it said it has no such run, no process of that run works any more.  The *)
(* denial of an agent still resolving a dispatch breaks it.                *)
OrphanHasNoProcess ==
    \A l \in Launches : closed[l] \in {"orphan", "unproven"} => agent[l] # "held"

(* The outcome of a run is written once, and a launch canceled in the queue *)
(* stays canceled whatever its launcher or a reclaim writes later.          *)
OutcomeIsFinal ==
    [][\A l \in Launches :
          /\ run[l] \in Ended => run'[l] = run[l]
          /\ row[l] = "canceled" => row'[l] = "canceled"]_vars

(* A launch that ended, canceled by a user or reclaimed from an instance   *)
(* taken for dead, never creates a run afterwards.                         *)
EndedLaunchRecordsNoRun ==
    [][\A l \in Launches : row[l] \in Ended /\ run[l] = "none" => run'[l] = "none"]_vars

(* What the launcher could not write, while its instance goes on serving:  *)
(* nothing repeats the statement, and no instance reclaims the work.       *)
Left(l, statements) == unwritten[l] \intersect statements # {} /\ up[owner[l]] = "up"

(* Every launch row ends, whatever process stops in between.  Only one     *)
(* whose claim or whose close failed waits, for a user or until the        *)
(* instance stops; it ends then.                                           *)
LaunchSettles ==
    \A l \in Launches :
        row[l] \in Active ~> row[l] \in Ended \/ Left(l, {"claim", "close"})

(* No run stays between admission and dispatch, where nobody could report  *)
(* on it and it would hold the task, and a slot of the project, forever;   *)
(* unless its launcher could not write how the dispatch went, and then     *)
(* only until the instance of the launcher stops.                          *)
NothingStranded ==
    \A l \in Launches :
        (run[l] = "running" /\ dispatch[l] \in {"admitted", "dispatching"})
            ~> \/ run[l] # "running" \/ dispatch[l] = "dispatched"
               \/ Left(l, {"dispatch", "complete", "finish"})

(* What both rest on: whatever is not finished has somebody to finish it.   *)
(* A launcher lives as long as its instance, and one that stopped leaves    *)
(* its work to the reclaim of an instance that is gone for good.            *)
Abandoned(l) == pc[l] = "lost" /\ up[owner[l]] = "down"

LauncherLives(l) ==
    /\ pc[l] \notin {"idle", "done", "lost"} => up[owner[l]] = "up"
    /\ pc[l] = "lost" => up[owner[l]] = "down"

(* A run not dispatched yet is in the hands of its launcher, which gives it *)
(* up only when a statement failed: a queued one its claim of the dispatch, *)
(* a direct one the closure of the run, either the end of the dispatch.     *)
RunKept(l) ==
    run[l] = "running" =>
        /\ dispatch[l] = "admitted" =>
             \/ pc[l] \in {"unlogged", "recorded"} \/ Abandoned(l)
             \/ l \in Direct /\ pc[l] = "failing"
             \/ (IF l \in Direct THEN "finish" ELSE "dispatch") \in unwritten[l]
        /\ dispatch[l] = "dispatching" =>
             \/ pc[l] \in {"sending", "sent", "answered"} \/ Abandoned(l)
             \/ "complete" \in unwritten[l]

(* So is a launch row; only one whose claim or whose close failed is left.  *)
RowKept(l) ==
    /\ row[l] = "queued" =>
         pc[l] = "queued" \/ Abandoned(l) \/ "claim" \in unwritten[l]
    /\ row[l] = "running" =>
         \/ pc[l] \in {"claimed", "renamed", "recorded", "sending", "sent", "answered",
                       "failing", "closing"}
         \/ Abandoned(l) \/ "close" \in unwritten[l]

WorkHasAKeeper == \A l \in Launches : LauncherLives(l) /\ RunKept(l) /\ RowKept(l)

(* The promise of the server about a run, kept by all of the above. *)
Life(l) == CASE run[l] = "none" -> "absent" [] run[l] = "running" -> "open" [] OTHER -> "ended"

lifeOf == [l \in Launches |-> Life(l)]
handedOf == [l \in Launches |-> dispatch[l] \in {"dispatching", "dispatched"}]
leftOf == [l \in Launches |-> agent[l] # "none"]

Contract == INSTANCE LaunchContract WITH
    Runs <- Launches, life <- lifeOf, handed <- handedOf, left <- leftOf

(* And the promise of every part of the server about a record: what a       *)
(* reclaim withdraws is presumed, and nothing here may be corrected later.  *)
State(l) ==
    CASE run[l] = "none" -> "absent"
      [] run[l] = "running" -> "running"
      [] run[l] = "canceled" /\ closed[l] = "reclaimed" -> "presumed"
      [] run[l] = "canceled" /\ closed[l] # "reclaimed" -> "canceled"
      [] OTHER -> "completed"

stateOf == [l \in Launches |-> State(l)]
noOf == [l \in Launches |-> FALSE]

Record == INSTANCE RunRecord WITH
    Runs <- Launches, state <- stateOf, noted <- noOf, buried <- noOf

ContractHolds == Contract!Spec /\ Record!Spec
==============================================================================
