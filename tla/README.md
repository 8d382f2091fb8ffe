# Sectile in TLA+

Sectile is a ticket board whose tickets are worked on by coding agents. A Go
server, possibly several instances of it on one PostgreSQL database, keeps the
tickets and the record of every execution. A Go agent on each workstation
receives launches over a WebSocket, queues them, prepares a worktree and
supervises the processes. MCP sessions, the web page and the desktop report,
cancel and watch. This directory specifies the part of it where an execution
passes from one process to another, model-checks it with TLC and proves its
main properties with TLAPS.

    tlc -config launch_crash.cfg MCAgentLaunch     model-check a run
    tlapm AgentLaunch_proofs.tla                   check proofs

`PROJECT.json` lists the runs, and for each definition the lines of source it
stands for. Paths below are relative to `src/internal/` unless they start with
`src/`.

## 1. Inventory

### Components modelled

| Component | State it keeps | Operations | Module |
|---|---|---|---|
| Agent launches (`db/run_dispatch.go`, `db/agentlaunch.go`, `db/activerun.go`, `db/instances.go`, `db/db.go` queue worker, `handlers/handlers.go` run-skill route, `handlers/remote_run.go`) | rows of `task_activities` (launch row, remote run, `dispatch_state`, `concurrent`), the launcher in the memory of an instance, rows of `server_instances` | busy check, enqueue, claim, rename, start, dispatch, confirm, fail, close; cancel in its four forms; heartbeat and reclaim | `AgentLaunch`, `LaunchContract` |
| Workstation queue (`agent/agent_run.go`, `agent/agent_config.go`, `agent/agent_console.go`, `agent/agent_desktop.go`) | the registry `runQueue` of one process: status, root, sequence and cancel mark of each run | admit, wait for a slot, prepare, start, fail, exit, cancel, clear, restart | `AgentQueue` |
| Run reconciliation (`handlers/run_reconciliation.go`, `handlers/handlers.go`, `db/remoterun.go`, `db/db.go`, `agent/agent.go`) | run rows, records of deleted runs, the connection, pulls in progress | pull on connection or on demand, snapshot, close orphans, record reports, finish, delete, disconnect, restart of the agent | `RunReconciliation` |
| MCP sessions and client runs (`taskmcp/sessions.go`, `taskmcp/server.go`, `handlers/mcp_cluster.go`, `db/remoterun.go`, `db/instances.go`) | the sessions of an instance and the runs each owns (memory), run rows with `instance_id`, `server_instances` | initialize, call, start, adopt, finish, release; end of transport, silence, missed pings; close from the board; heartbeat, drain, death, reclaim | `ClientRuns` |
| Orchestrator and chain (`db/orchestrator.go`, `db/chain.go`, `db/board.go`, `db/remoterun.go`) | the cap of a project, stages, active runs with their prompt, `launch_stage` and `chain_stop_stage` | evaluate the backlog, admit under the cap, start, close, hand back, enqueue the next step | `Chain` |
| OAuth grants (`db/jiragrants.go`, `db/forgegrants.go`, `trackerapi/client.go`) | the credential row of a person: tokens, version, claim, `disconnected_at` | connect, paste, delete, revoke; look, claim, refresh, store, release, disconnect; mark refused | `GrantRefresh` |
| Agent routing and presence (`handlers/agent_dispatcher.go`, `handlers/agent_cluster.go`, `handlers/agent_inventory.go`, `handlers/agent_selection.go`, `db/workstations.go`) | the slot of each instance (memory), the row of `agent_workstation_presence` with its inventory, closes in flight | dial, register, record, displace, unregister, forget, ping, report, route, sweep, crash | `AgentPresence` |

How they interact. A launch is a row, then a job in the memory of an instance,
then a run row, then one WebSocket message. The agent answers the message once
the run is in its registry (`AgentLaunch.Admit` is `AgentQueue.Enqueue`). The
end of the process is one MCP call, `finish_run`. A cancellation goes the other
way: the server asks the agent and closes the run on its answer. When the
connection is made again the server pulls the registry and corrects its rows.
The socket on which all this travels is the one `AgentPresence` routes to; what
`AgentLaunch` calls a lost or late answer is what that routing does at its
worst. A client run takes none of that way: it is a row inserted by an MCP
call and ended with its session. Whoever closes a run, the instance that wrote
the closing statement hands it back to its chain, which may enqueue the launch
of the next step. All of it shares one table, and every decision is a
conditional UPDATE on it: there is no lock that two instances hold together,
except the one on the row of a project under which the cap is counted.

### Components not modelled

Each is listed with its sources in `PROJECT.json`.

| Component | What is hard in it | Why it is left out |
|---|---|---|
| Run waits (`db/remoterun.go`) | an answer races the next question | a mark named by its instant: two questions of one instant are told apart by the clock only |
| Task batches (`db/batch.go`) | one run keeps several tickets busy | needs the one-run rule of `AgentLaunch` over sets of tasks; nothing else in the system looks at the members |
| Macro runs (`db/macroruns.go`, `agent/agent_macro_dispatch.go`) | the path of task runs, keyed by a macro | its new content is one more index; the rest is the code `AgentLaunch` and `AgentQueue` stand for |
| Trackers and automatic synchronisation (`db/trackerops.go`, `db/autosync.go`, `trackerapi/`) | claims that date a pass before it ran | the claim is one conditional UPDATE on a date; the passes are calls to external services |
| Run store (`agent/run_store.go`) | crash between two flushes | its effect on the others, a restored run has exited, is in `RunReconciliation` |
| Worktrees and git | two tickets resolved to one directory | decided by the state of git, which is outside `src/` |
| Conversations, terminals (`agent/agent_conversation.go`, `terminal/`) | input and output of third-party programs | display |
| Credentials, pairing, authentication | cryptographic | out of the reach of these tools |
| Caches, event bus, macros and todos, PR discovery, migrations, server wiring, web and desktop | single-record edits, display, or calls to external programs | see the notes of `PROJECT.json` |

## 2. Modules

| Module | What it specifies | Composes |
|---|---|---|
| `LaunchContract` | the promise about a run that is to be sent (abstract) | |
| `RunRecord` | the promise about the record of a run, whoever writes it (abstract), and what follows from it | |
| `AgentLaunch` | launchers, agent, user and instances around one task | instantiates `LaunchContract` and `RunRecord` |
| `AgentLaunch_proofs` | theorems | `AgentLaunch` |
| `AgentQueue` | the registry of one workstation | |
| `AgentQueue_proofs` | theorems | `AgentQueue` |
| `RunReconciliation` | pulls of one workstation | instantiates `RunRecord` |
| `RunReconciliation_proofs` | theorems | `RunReconciliation` |
| `ClientRuns` | sessions of several instances and the runs they own | instantiates `RunRecord` |
| `Chain` | chains of runs and the orchestrator of one project | |
| `GrantRefresh` | the OAuth grant of one person, and the calls that use it | |
| `AgentPresence` | the connections of one workstation across instances | |
| `..._proofs` | the theorems of each of these four | the module of that name |
| `MC...` | constants of the runs | |

### AgentLaunch

One task, several launches of skills on it (`Launches`, of which `Direct` are
dispatched by their HTTP handler and the others queued), several server
instances. Launch `l` creates run `l`.

| Variable | Code |
|---|---|
| `row`, `skill` | `status` and `skill_id` of the launch row; the rename to `agent_launch` takes it out of the one-run index |
| `run`, `conc`, `dispatch` | `status`, `concurrent`, `dispatch_state` of the run row |
| `owner`, `pc`, `err` | `instance_id`, and the goroutine of that instance: its next statement and what `dispatchAndWait` returned |
| `agent` | the dispatch message and the handler of the agent: in flight, resolving its configuration, registered, exited, reporting |
| `stop` | `cancelExecution`, between what it asked and what it writes |
| `up`, `seen`, `sweep` | processes; whether their `server_instances` row is within the bound; the next statement of `reclaimDeadInstances` |
| `unwritten` | history: the statements of each launcher that failed and that it never repeats |
| `closed` | history: which closure ended the run |

Each statement of the launcher is an action, because another instance may write
between any two. A row past the bound and a deleted one are one state of `seen`,
since no statement tells them apart. One cyclic sweep stands for the sweepers of
all instances: each of its statements reads liveness again, as the code's do.
The status reply of the agent is its registry state read by `Answered`, and a
lost reply is `Unconfirmed`. `DenyRun` keeps whether the launcher had seen the
run accepted (`orphan`) or not (`unproven`): the code closes both alike, and
only the first is safe. A dispatch still in flight is read before a later cancel,
since one connection carries both.

`Faults` lists the statements that may fail. A launcher that drops an error goes
on as if the statement had succeeded: `CompleteRunDispatch` (`db/db.go:4749`,
`handlers/handlers.go:2726`), the closures of its own run by `FinishRemoteRun`
(`db/db.go:4751`, `handlers/handlers.go:2668`, `2705`, `2741`) and the closure
of the launch row are such statements, and a queued launch gives up on a claim
that fails. `Skip` is that branch, and records in `unwritten` what was not
written.

Left out: the recovery of a single SQLite process (the reclaim of everything at
once), macro runs, runs of agents too old to record their device, the guarded
panic of a job. `RecordBatch` failing on a direct launch has the effect of
`FailDispatch`.

`LaunchContract` says what a caller may rely on: a run is recorded open, handed
over at most once and only while open, leaves only after that, and one that
ended before never leaves. `AgentLaunch` implements it under the mapping of
`Life`, the dispatch state and the position of the message.

### RunRecord

Three modules tell a part of the life of a row of `task_activities` that stands
for a remote run: `AgentLaunch` the launchers and the reclaim,
`RunReconciliation` the workstation, `ClientRuns` the sessions. Their writers
are different functions with conditions of their own, and what they must keep
together is this contract. A record is inserted open. It ends once: as
`"completed"` (a failure too), `"canceled"`, or `"presumed"` when the server
inferred the end from a silence. An end that bears the note of a disconnected
session (`noted`) may be corrected, by somebody who knows, so never to
`"presumed"` again. A record deleted after its end (`buried`) is not inserted
again. One statement may end several runs. Each of the three states its mapping
in its `State`, and its `ContractHolds` says that it implements the contract:

| Module | `state` | `noted` | `buried` |
|---|---|---|---|
| `AgentLaunch` | `State`: the status of the run, and who closed it | nowhere | nowhere: nothing deletes there |
| `RunReconciliation` | `State`: the row; an orphan is `"presumed"` | nowhere: no session takes part | `deleted` |
| `ClientRuns` | `State`: the row, and who ended it | `parted`, the note in its summary | nowhere: nothing deletes there |

The three mappings agree on what a row is, so what follows from the contract
(`EndedForGood`, `KnownEndStands`) holds of each writer for the same reason.

### AgentQueue

`Jobs` is what may be asked of the workstation: kind (task, free console,
external terminal), project, work, the checkout it is admitted against, the one
its preparation resolves, isolation in a worktree, and the limit read at its
admission. `root` is `controlledRun.root`, which preparation may move; `seq` is
the order of the line; `granted` is history. A prepared run that is still shown
"preparing" is `"ready"` here. A waiting run polls by itself, so a grant is one
action of one run, under the lock of the registry. A canceled run may still
start: the code leaves it to the supervisor to see the mark.

Left out: conversations, the token protocol of `wrapRun`, the run store, the
death of the daemon by signal (`RunReconciliation.AgentRestarts`). Run ids are
unique and not registered twice.

### RunReconciliation

One workstation, its runs, and pulls that may overlap, since every connection
and every user request starts one in a goroutine of its own. A pull reads its
candidates (`reconnectCandidates`), waits for an answer (`PullTasks`), closes
the candidates absent from it (`reconcileAssignedRuns`), then records the
reported ones (`applyAgentRunningTasksOn`), one statement per run. Any other
action may come between any two of these.

`held` is the registry of the agent, coarser than in `AgentQueue`: what matters
is which states `handlePullTasks` reports. `before` compares `created_at` with
the time of the connection. `deleted` is `deleted_remote_runs`, never purged:
its retention of thirty days is assumed longer than any console. `"orphaned"`
is `canceled` with the reconciliation's note. `fresh` and `missed` are history.

Taken together where the code has two statements under one lock: the list of
candidates and the reading of their dispatch state, the lookup and the write of
`SyncRemoteRunStatusFor`, the record and the deletion of `DeleteActivity`. This
is exact for one instance; between instances the last two can be split (listed
as a hazard without a property). The launch is one step, and refused dispatches
are left to `AgentLaunch`. A user's stop is an `Exit`.

### ClientRuns

The runs a connected client declares with `start_run`. The session that owns a
run is known only in the memory of one instance; the row names that instance.

| Variable | Code |
|---|---|
| `status`, `parted`, `inst` | the row of a run: `status`, whether its summary holds the disconnect note, `instance_id` |
| `phase`, `owned`, `heard` | the entry of `SessionRegistry`: live or being closed, the runs it adopted, how long it has been silent |
| `conn`, `call` | the transport of the client, and the tool call of the session that is being served |
| `up`, `seen` | processes, and their rows of `server_instances` as the others read them |
| `by`, `strays` | history: who ended a run; runs nobody was left to end |

`start_run` is three steps (the request, `startRemoteRun`, `Adopt`), and so is
`finish_run`, because the registry and the table are not written together. A
session is given up in three as well: its entry leaves under the lock
(`Forget`), then each of its runs is closed by a statement of its own
(`CloseRun`), then the transport is hung up. A sweeper looks twice at a silent
session (`SweepCheck`, `SweepClose`), and a message may come between the two.
`Call` is enabled when some instance can serve it, its own or one that forwards;
`NotFound` is the instance that takes the home of the session for dead.

Left out: waits, macro runs, tickets joined to a run by `start_run`, runs of a
launcher named by their id (these are in `AgentLaunch`), the list of sessions.

### Chain

The backlog of one project: evaluations (`Passes`) on any instances, users, and
one active run per task at most.

| Variable | Code |
|---|---|
| `cap`, `stage` | `orchestrator_max_concurrent`, the stage of each task |
| `run` | the active row of the task: queued or running, whether its prompt is the orchestrator's (`gated`), `chain_stop_stage`, `launch_stage`, and who began the chain (history) |
| `back` | the goroutine of `handBackRun` between its judgement and its INSERT |
| `pass` | what `EvaluateAndOrchestrateBacklog` counted and has yet to look at |

`Admit` counts again in the transaction that inserts, as
`admitOrchestratedActivity` does; `Evaluate` keeps the number it read first.
`Start` has two outcomes because the second statement of `startRemoteRun`, which
records the stage and the stop, may fail without notice. Skills are not named:
the next step is determined by the stage, and what matters is the stage a step
starts from. A task is eligible or not by conditions that are left out, so
`Skip` is always possible, and `Admit` needs none of them: the model launches
whatever the code might.

Left out: batches, interactive runs, runs started beside another one, the checks
of a stage transition apart from the one that would undo a review. The closing
statement and the judgement of `handBackRun` are one step, and a task has one
hand-back in progress.

### GrantRefresh

One person, one tracker, the row of their credential.

| Variable | Code |
|---|---|
| `row` | `kind`, `version`, `refresh_claimed_at` (`claim`, by its age), `disconnected_at` (`off`), which grant and which generation of its refresh token it holds, whether the access token is about to expire |
| `call` | a call to the tracker: what it read or claimed, and its next step |
| `alive`, `unspent` | the provider: grants not revoked, and the generation of refresh token that serves |
| `revoking` | revocations read before a save and sent after it |
| `consents` | how often the person consented; it numbers the grants |
| `lost`, `slept`, `recreated`, `mistaken` | history |

The three trackers differ as in the code: GitHub tokens do not expire and its
revocation withdraws every token of the person, a replaced GitLab grant is
revoked, Jira has no revocation. The row of a person begins at version 0 each
time it is inserted, while every rewrite moves the version on. The comment of
`MarkForgeGrantDisconnected` (`db/forgegrants.go:285`) says that a late refusal
never disconnects a new grant. That holds of a row that is rewritten; a row
deleted and inserted again can be back at the version that was read, and
`OnlyRecreatedRowsMistaken` says that nothing else is ever mistaken.

Left out: the consent flow, sites and accounts, the sealing of secrets, the
grace period some providers give a spent token, a refresh that rotates nothing.

### AgentPresence

One workstation that dials up to `Dials` times, through a load balancer.
Connections are numbered as they are dialed.

| Variable | Code |
|---|---|
| `held` | the socket the agent has open |
| `home`, `stage`, `open`, `end` | of a connection: the instance, the position of `HandleAgentConnect`, whether the server hung it up, whether `Unregister` and `WorkstationDisconnected` took place |
| `slot` | `agents[key]` of each instance |
| `row`, `listed` | `agent_workstation_presence`: the session it names, its inventory |
| `closing` | `close` requests to the instance that had the row before |
| `displaced` | of a registration: whom it took the slot from and has not hung up yet |
| `up`, `missed` | processes; whether the instance named by the row is past the bound |
| `early` | history: sessions removed from the directory before they were in it |

`registerLocal` is two steps: `Register` takes the slot under the lock of the
slots, and `HangUp` closes the connection that had it, after the unlock and
maybe after a write to that connection that takes seconds
(`agent_dispatcher.go:290-293`). In between the displaced connection is open,
and the directory may name it. `Record` comes after both.
`Route` is `userRoutes`, evaluated on each instance. `SendFails` is the unregistration by `dispatchLocal`, which leaves the
socket open; a write may fail that way between `Register` and `Record`.

Left out: the choice between several workstations and projects, the launch sent
on a route (`AgentLaunch`), a server of one instance, the older directory of
`AgentConnected`. The two checks of `acceptInventory` are one step. A close sent
to a connection that is no longer in its slot has no effect in the code and is
not represented.

## 3. Runs

Passing runs, all complete searches:

| Run | Instance | Distinct states | Properties |
|---|---|---|---|
| `launch_crash` | one queued launch, two instances, every statement may fail | 340 000 | `WorkHasAKeeper`, `HeldRunStaysOpen`, `WithdrawnNeverSent`, `OutcomeIsFinal`, `ContractHolds`, `LaunchSettles`, `NothingStranded` |
| `launch_race` | a queued and a forced direct launch, one instance, failing records, starts, claims and ends | 1 623 000 | `IInv`, `OneAgentPerTask`, `EndedLaunchRecordsNoRun` |
| `queue_safety` | three runs, five kinds of job over two projects and two repositories | 277 000 | `SharedCheckoutSerial`, `CapacityHeld`, `FirstComeFirstServed`, `SomebodyAdvances`, `IInv`, `QueueAdvances` |
| `reconcile_pulls` | one run, two overlapping pulls | 21 000 | `IInv`, `ContractHolds`, `EndedForGood`, `OnlyStartingRunsMistaken`, `LostRunsClosed` |
| `clients_sessions` | one run, the session that starts it on an instance that may fall silent, drain and die, another of its owner on one that does not | 213 000 | `IInv`, `OpenRunHasAKeeper`, `ContractHolds`, `ReportStands`, `LeftRunEnds` |
| `chain_steps` | two tasks, two evaluations, caps 1 and 2, three stages | 898 000 | `IInv`, `NoRunEscapesTheCap`, `ReviewStaysHuman`, `OnlyChainsExceedTheCap`, `NoStepWithoutProgress` |
| `grants_refresh` | two callers, each of three trackers, two consents, versions up to 3 | 1 249 000 | `IInv`, `RefreshesUnspentToken`, `DisconnectedWhenDead`, `RowHoldsLastConsent`, `OnlyRecreatedRowsMistaken` |
| `presence_routes` | two instances, three dials, every fault | 584 000 | `RoutesAgree`, `RemovalIsKept`, `LiveConnectionKept`, `WorkstationReturns` |

Deadlock is not checked: a launch that ended, a workstation that is stopping,
sessions, consents and dials that are used up leave nothing to do, and these
systems may stop there.

Why the bounds are enough. In `AgentLaunch` launches interact only through the
one-run rule, which speaks of pairs, and instances only through their own rows:
two of each make every interaction, split over two runs because the product is
large. `Stoppable` bounds who may ask for a stop, and `StopInstance` keeps one
instance serving, since nobody reclaims when nobody runs. In `AgentQueue` a run
is granted against one that works and one that waits, so three make every
situation of the rules; limits 1 and 2 give both a full project and one whose
limit was edited. Ids are only names there, so `NamedInOrder` lets them be
registered in one fixed order, which loses nothing but renamings. In `RunReconciliation` every statement names one run, so runs
do not interact, and a stale answer needs a second pull to overtake it. So it is
in `ClientRuns`, where the second session is what makes a report come from
outside the one that is being closed, and the second instance is what reclaims.
In `Chain` a cap of 1 with two tasks is enough for two evaluations to compete
for one slot and for a hand-back to take one that was given away; the three
stages are one before a chain's stop, one it moves to, and the stop. In
`GrantRefresh` a claim excludes one other caller, two consents make a row that
was replaced, and a third version separates a claim that was taken over from
the one that took it. In `AgentPresence` the third dial is the one that can
return to the first instance while the row and the slot of the first two
disagree. The proofs cover every value of these constants for the safety
properties.

### What the properties mean

- `HeldRunStaysOpen`: no deadline, crash or reclaim closes the record of a
  process the workstation holds. A user who forces, the session's own report
  and a denial before confirmation (see the findings) do.
- `WithdrawnNeverSent`: a run canceled "before dispatch" was never sent.
- `OneAgentPerTask`: two agents on one task need a forced launch, or a run
  closed under its process.
- `OutcomeIsFinal`, `EndedLaunchRecordsNoRun`: no outcome is rewritten, and a
  launch canceled or reclaimed creates nothing afterwards.
- `LaunchSettles`, `NothingStranded`: no launch row is active for ever, and no
  run stays between admission and dispatch, where nobody could report on it.
  `WorkHasAKeeper` is their safety half: whatever is not finished is in the
  hands of a launcher that lives, or left by an instance that is gone and will
  be reclaimed. Five statements leave something when they fail, and the
  properties name which: a launch row stays active when its claim or its close
  was not written, a run stays between admission and dispatch when its claim,
  the completion of its dispatch or its closure was not (`unwritten`). Nothing
  repeats them, and no reclaim comes while the launcher's instance serves: the
  work waits for a user. Once the instance has stopped, both ends happen.
- `SharedCheckoutSerial`, `CapacityHeld`, `FirstComeFirstServed`,
  `RestartKillsNothing` (in `IInv`), `QueueAdvances`: the promises of the queue,
  with the bypasses the code really has (external terminals, pinned tickets)
  named. `SomebodyAdvances`: the runs that wait are never all waiting for one
  another, through whatever projects and checkouts. `ProjectWithinItsLimit`
  follows from `CapacityHeld`: a project has no more working runs than its limit.
- `ContractHolds`: what the module writes into a record is allowed by
  `RunRecord`, and by `LaunchContract` in `AgentLaunch`.
- `EndedForGood`: once a run has ended it is never open again, were its record
  deleted in between. It contains that no late report reopens (#407) or
  recreates (#675) a run, which `EndedStaysEnded` and `DeletedStaysDeleted` say
  step by step.
- `OnlyStartingRunsMistaken`: a reconciliation closes a live execution only if
  it was starting when the agent answered: the mistake is real, and confined.
- `LostRunsClosed`: a run whose process nobody reported ends at a reconnection.
- `OpenRunHasAKeeper`: every open client run has a session, a call or a reclaim
  that will end it. The exceptions are named by `strays`: a run whose session
  ended between the insertion and its adoption, and one whose closing failed.
  Both stay open until a user closes them.
- `ReportStands`: what the owner or the board decided is not rewritten by the
  end of a session, however late. `ServerEndIsReportable` (in `IInv`) is the
  other side: an end the server decided alone leaves the owner able to say what
  happened.
- `LeftRunEnds`: the run of a client that left without a word ends.
- `NoRunEscapesTheCap`: a chain the orchestrator began carries its prompt and
  its stop stage from step to step, so that each of its runs is counted.
- `OnlyChainsExceedTheCap`: two evaluations that read the same free slot never
  both take it, on whatever instances. A hand-back does go over the cap, as ADR
  0060 accepts; it says by one, and nothing in the code stops two hand-backs
  from doing so by two.
- `ReviewStaysHuman`, `NoStepWithoutProgress`: no step of an orchestrated chain
  is asked for on a task that awaits a review, and none is repeated on a task
  that the previous one did not move.
- `RefreshesUnspentToken`: a single-use token is spent by one caller.
  `DisconnectedWhenDead`: nobody is asked to reconnect a grant that works.
  `RowHoldsLastConsent`: a refresh that ends late never overwrites a new
  consent. All three except what the protocol does not cover: a caller that
  stood still past the minute of its claim (`slept`), a row that was mistaken
  for another (`mistaken`), and a token whose answer was lost (`lost`).
- `RoutesAgree`: once the directory names a live connection, every instance
  routes to it. The one exception is its own instance, between the lock that
  gave its slot to an earlier dial, registered late, and the end of its socket
  (`Superseded`). `RemovalIsKept` and `LiveConnectionKept`: a late removal takes
  nothing from a later connection and is not undone by a late heartbeat. Two
  exceptions are real and named. The registration of an earlier connection,
  delayed past the next dial, displaces the later one. A write that fails during
  a registration removes the session before it is recorded (`early`), and
  leaves a row that nobody will remove.
- `WorkstationReturns`: a workstation that goes on dialing is served again,
  with its inventory, unless it is in the state just described (`Stray`).
  `LossIsNoticed` is its safety half: a connection that is not served is about
  to be registered, reported, seen closed, or hung up on: by the registration
  that displaced it, or at its next heartbeat.

### Runs that find a disagreement

| Run | Property violated | What happens |
|---|---|---|
| `launch_orphan` | `OrphanHasNoProcess` | The agent acknowledges a dispatch only after resolving its configuration. A launch unconfirmed in time, then canceled, is denied by an agent that has not registered it yet; the server closes it as an orphan and the agent starts it. |
| `queue_reroot` | `TasksNeverShareCheckout` | A ticket pinned to another repository is compared against the checkout of its project, granted, and moved by `prepareLaunch` to a checkout where another run works. |
| `reconcile_starting` | `OnlyOrphansClosed` | The snapshot lists "queued" and "running" only. A run being prepared, or a dispatch being resolved, is missing from it, is closed as lost, and starts. |
| `reconcile_exit` | `RealExitReported` | A run leaves the snapshot when its process exits, while its one report is on its way or failed. The reconciliation records a lost run, and the true outcome is refused. |

The quotations they contradict are in `PROJECT.json`.

## 4. Fairness

- `AgentLaunch.Fairness`: a launcher goes on while its process lives (every
  wait in it has a deadline); the row of a stopped process grows old (time
  passes); the sweeper of a serving instance ticks every fifteen seconds.
  Nothing is assumed of users, agents or the network. Any
  statement may fail in `launch_crash`; what the code then leaves to a restart
  or to a user is excepted by `unwritten`, and only while the instance serves.
- `AgentQueue.Fairness`: a waiting run polls every 100 ms, and takes a slot or
  leaves if it can. `QueueAdvances` assumes that executions end, which no code
  guarantees.
- `RunReconciliation.Fairness`: the agent dials again for ever; a pull is
  started with each connection and works through what it was told (weak
  fairness); among the connections, some lasts long enough for its pull to start
  and be answered (strong fairness). `LostRunsClosed` assumes that the
  connection is renewed now and then: while it stays up nothing reconciles.
- `ClientRuns.Fairness`: a tool call that is being served and a session that is
  being given up go on; the sweeper, the heartbeat and the reclaim of a serving
  instance tick; a client that left stays silent; the row of a dead process
  grows old. Nothing is assumed of a client that is there, nor of pings.
- `AgentPresence.Fairness`: the agent dials for ever and sees a closed socket;
  handlers go on, a registration to the socket it displaced included; the read
  deadline of a dead socket passes; a live connection sends heartbeats and its
  inventory. `WorkstationReturns` is stated of an agent
  whose dials are bounded, so it excepts the state where none is left.
- `Chain` and `GrantRefresh` state safety only. A chain may stop at any step (an
  instance that stops there loses the hand-back, a hazard without a property),
  and a refresh may be claimed and lost for ever.

## 5. Proofs

For all values of the constants:

| Theorem | Module |
|---|---|
| `EndedForGoodHolds`, `KnownEndStandsHolds`, of any record that keeps the contract | `RunRecord` |
| `TypeCorrect`, `Invariance`, `HeldRunStaysOpenHolds`, `WithdrawnNeverSentHolds`, `OneAgentPerTaskHolds`, `OutcomeIsFinalHolds`, `EndedLaunchRecordsNoRunHolds`, `WorkHasAKeeperHolds`, `ContractImplemented`, `RecordConsequences` | `AgentLaunch_proofs` |
| `Invariance`, `SharedCheckoutSerialHolds`, `CapacityHeldHolds`, `ProjectWithinItsLimitHolds`, `FirstComeFirstServedHolds`, `SomebodyAdvancesHolds`, `RestartKillsNothingHolds` | `AgentQueue_proofs` |
| `Invariance`, `ContractImplemented`, `EndedForGoodHolds`, `DeletedStaysDeletedHolds`, `EndedStaysEndedHolds`, `OnlyStartingRunsMistakenHolds` | `RunReconciliation_proofs` |
| `Invariance`, `OpenRunHasAKeeperHolds`, `ContractImplemented`, `RecordConsequences`, `ServerEndIsReportableHolds`, `ReportStandsHolds` | `ClientRuns_proofs` |
| `Invariance`, `NoRunEscapesTheCapHolds`, `ReviewStaysHumanHolds`, `OnlyChainsExceedTheCapHolds`, `NoStepWithoutProgressHolds` | `Chain_proofs` |
| `Invariance`, `RefreshesUnspentTokenHolds`, `DisconnectedWhenDeadHolds`, `RowHoldsLastConsentHolds`, `OnlyRecreatedRowsMistakenHolds` | `GrantRefresh_proofs` |
| `Invariance`, `RoutesAgreeHolds`, `RemovalIsKeptHolds`, `LiveConnectionKeptHolds`, `LossIsNoticedHolds` | `AgentPresence_proofs` |

Assumptions: `LaunchesAssumption` (the named subsets of launches are subsets,
the first instance is one), `RunsAssumption` (the runs of a workstation are
finitely many, for the counting of slots), `JobsAssumption` (the fields of a
job have their types, limits are positive, a task resolves to one checkout),
`ChainAssumption` (finitely many tasks, positive caps, known stages and stops),
`ClientRunsAssumption`, `GrantAssumption` and `PresenceAssumption` (types of the
constants). `RunReconciliation` assumes nothing.

The inductive invariants, each checked by TLC before it was proved:

- `AgentLaunch!IInv`. `HeldRunStaysOpen` is not inductive: a run is closed on
  what somebody believes of the workstation, so the invariant says that these
  beliefs are true (`ErrorIsKnown`, `StopIsKnown`), that nothing leaves before
  the dispatch was claimed (`SentAfterClaim`), and that status, dispatch state
  and closure are written together (`RunRecorded`). `OneOrdinaryRun` is the
  unique index of the table. The refinements follow from the same invariant,
  step by step. `WorkHasAKeeper` is inductive beside it: a launcher only stops
  with its instance (`KeepersStay`), and each of its statements hands its run
  and its row to the next one, or is in `unwritten`.
- `AgentQueue!IInv`. The four properties are nearly inductive together; they
  need the order of the line and of the grants (`LineInv`) and which roots may
  move after admission (`RootInv`). `RecedingIsQuiet` proves once that steps
  that only take runs out of the line and the slots disturb nothing. The bound
  of `CapacityHeld` counts the runs granted before: a new grant adds one to a
  set `HasSlot` measured, and every other step shrinks it. From it the run that
  was granted last among those that work counted all the others, which gives
  `ProjectWithinItsLimit`. `SomebodyAdvances` needs a first of the runs that
  wait, which is that the order of numbers is well founded (`SomebodyIsFirst`).
- `RunRecord`. `Over`, a run that ended or was deleted after it ended, is left
  by no step of the contract (`OverStays`); the two theorems are about the
  contract alone. A module is shown to implement it action by action: steps
  that touch no record stutter, and the others are one `Insert`, `End`,
  `Correct` or `Remove`. The inductive invariant of the module is needed where
  its statement asks less than the contract does: that an insertion finds no
  record, present or deleted, follows from what the launch or the call in
  flight knows of its run. `ContractImplemented` and the theorems of `RunRecord` then give
  `EndedForGood` and `KnownEndStands` of the module (`RecordConsequences`,
  `RunReconciliation_proofs!EndedForGoodHolds`).
- `RunReconciliation!IInv`. A pull outlives the connection that started it, so
  what it knows grows old: the invariant keeps what stays true of its
  candidates, that they were launched before the connection it asked and, after
  the answer, that each is over or was starting (`missed`). `HeldForward` and
  `PullFrame` carry it through every step of the others; `RowChanges` looks at
  every writer of a row once and gives the three properties.
- `ClientRuns!IInv`. A run has a keeper only if what the calls in flight know of
  it is true (`CallsAgree`), if the sessions that own it live on the instance
  its row names (`OwnedAtHome`), and if every ended run was ended by somebody
  whose note is as it should be (`EndedBySomebody`).
- `Chain!IInv`. What a hand-back carries is what its chain was started with
  (`Carries`), and an evaluation with a task left has a slot left. The action
  property on the cap compares the sets `Slots` and `Slots'` action by action.
- `GrantRefresh!IInv`. Two layers. What always holds: versions name a grant as
  long as the row was not recreated (`Lineage`). What holds until somebody is
  confused: one claim on an expired row, whose version and token are those of
  its holder (`Claims`), and tokens that the provider will accept (`Tokens`).
- `AgentPresence!IInv`. The slots, the row and the closes in flight name
  connections that are where they should be (`Tables`), and connections are
  used in order (`Numbering`). Who holds a socket without its slot is named by a
  registration under way, which will hang up on it: that is what the window
  inside `registerLocal` asks of the invariant. A connection whose handler returned is closed,
  which is what leaves no loss unnoticed. TLC checks it on the instance of
  `presence_routes`; that run lists the properties that follow from it.

Model-checked only: the liveness properties (`LaunchSettles`, `NothingStranded`,
`QueueAdvances`, `LostRunsClosed`, `LeftRunEnds`, `WorkstationReturns`), which
are beyond the prover, and the four violations. Of all but `LostRunsClosed` the
half that is safety is proved (`WorkHasAKeeper`, `SomebodyAdvances`,
`OpenRunHasAKeeper`, `LossIsNoticed`): in every reachable state somebody has the
next step. That the step is taken is what fairness adds, and TLC checks.

## 6. Not modelled, and what could follow

The components left out are listed in section 1 with the reason. Most of the
repository edits or displays single records, calls external programs and
services, or draws pages: the part that has interleavings, faults and state
shared by processes is what the seven modules hold, and that is a small share
of its lines. What is left in the modelled parts:

- Run waits: an answer typed in a console against the next question. Both are
  named by an instant, so the model would need the resolution of clocks.
- The comparison of dates written by two instances (age of a run against that
  of a connection), for the same reason.
- The deletion of an activity in two statements under the lock of one instance,
  when the pull that recreates it runs on another.
- Batches: one run that keeps several tickets busy.
- The isolated run whose worktree is not made yet (`lazyCodeWorktree`,
  `agent_config.go:433`): it is prepared, and works, in the checkout itself.
  `AgentQueue` takes an isolated run to work in its worktree, so
  `SharedCheckoutSerial` says nothing of that one.
- Macro runs in `AgentLaunch`, worktrees resolved by branch in `AgentQueue`.
- The deletion of a record in `AgentLaunch` and `ClientRuns`, and a run that is
  launched, reconciled and owned by a session in one behaviour: the three
  modules share a contract, not a state.
