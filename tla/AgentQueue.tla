----------------------------- MODULE AgentQueue ------------------------------
(***************************************************************************)
(* The queue of a workstation: every execution its agent supervises, from  *)
(* admission to exit.  A dispatched run waits for a slot of its project    *)
(* and for the checkout it would share; a free console waits for the       *)
(* checkout alone; an external terminal waits for nothing.  Each waiting   *)
(* run polls the registry by itself, so a grant is one step of one run.    *)
(***************************************************************************)
EXTENDS Naturals, FiniteSets

CONSTANTS
    Runs,  \* run ids, unique: an id is never registered twice
    Jobs   \* what may be asked of the workstation, see IsJob

(* What one execution works on.  The root is the checkout it was admitted  *)
(* against, the target the one its preparation resolves for the task: they *)
(* differ for a ticket pinned to another repository than its project's.    *)
(* The work is the task or macro, or the console itself.                   *)
IsJob(j) ==
    /\ DOMAIN j = {"kind", "project", "work", "root", "target", "isolated", "limit"}
    /\ j.kind \in {"task", "console", "external"}
    /\ j.isolated \in BOOLEAN
    /\ j.isolated => j.kind = "task"
    /\ j.limit \in Nat \ {0}

ASSUME RunsAssumption == IsFiniteSet(Runs)
ASSUME JobsAssumption ==
    /\ Jobs # {}
    /\ \A j \in Jobs : IsJob(j)
    /\ \A j, k \in Jobs :
         j.kind = "task" /\ k.kind = "task" /\ j.work = k.work => j.target = k.target

VARIABLES
    job,           \* what a registered run works on
    root,          \* its checkout as the queue compares it
    status,        \* status shown by the desktop; "ready" is a prepared
                   \* "preparing", "exited" every ended status
    canceled,      \* a stop was asked
    seq,           \* order of admission, 0 outside the queue
    sequence,      \* the last one given
    shuttingDown,  \* the agent was asked to stop or restart
    granted,       \* history: order in which the queue gave its slots
    grants         \* history: the last one given

lineVars == <<seq, sequence>>
slotVars == <<granted, grants>>
vars == <<job, root, status, canceled, lineVars, shuttingDown, slotVars>>

Starting == {"preparing", "ready"}
PastQueue(r) == status[r] \in Starting \union {"running"}
Live(r) == status[r] = "queued" \/ PastQueue(r)

Task(r) == job[r].kind = "task"
Console(r) == job[r].kind = "console"
External(r) == job[r].kind = "external"
Pinned(r) == job[r].target # job[r].root

TypeOK ==
    /\ job \in [Runs -> Jobs]
    /\ root \in [Runs -> {j.root : j \in Jobs} \union {j.target : j \in Jobs}]
    /\ status \in [Runs -> {"absent", "queued", "preparing", "ready", "running",
                            "exited", "cleared"}]
    /\ canceled \in [Runs -> BOOLEAN]
    /\ seq \in [Runs -> Nat]
    /\ sequence \in Nat
    /\ shuttingDown \in BOOLEAN
    /\ granted \in [Runs -> Nat]
    /\ grants \in Nat

Init ==
    /\ job = [r \in Runs |-> CHOOSE j \in Jobs : TRUE]
    /\ root = [r \in Runs |-> job[r].root]
    /\ status = [r \in Runs |-> "absent"]
    /\ canceled = [r \in Runs |-> FALSE]
    /\ seq = [r \in Runs |-> 0]
    /\ sequence = 0
    /\ shuttingDown = FALSE
    /\ granted = [r \in Runs |-> 0]
    /\ grants = 0

------------------------------------------------------------------------------
(* sameWork and sharesCheckout: two runs of one root share it unless both  *)
(* are isolated in worktrees of different work.  A console works in the    *)
(* root itself, and leaves other consoles and isolated runs alone.         *)
Shares(o, r) ==
    /\ root[o] = root[r]
    /\ \/ \E k \in {o, r} : ~Console(k) /\ ~job[k].isolated
       \/ ~Console(o) /\ ~Console(r) /\ job[o].work = job[r].work

(* A console neither counts toward the limit of its project nor waits for it. *)
Competes(o, r) == job[o].project = job[r].project /\ ~Console(o) /\ ~Console(r)

(* Slip: every waiting competitor goes first. *)
GoesBeforeAny(o, r) == status[o] = "queued" /\ ~canceled[o]

(* First come, first served, the runs about to withdraw excepted. *)
GoesBefore(o, r) == status[o] = "queued" /\ ~canceled[o] /\ seq[o] < seq[r]

(* Slip: only a running execution holds its checkout. *)
BlockedByRunning(r) ==
    \E o \in Runs \ {r} :
        \/ GoesBefore(o, r) /\ (Competes(o, r) \/ Shares(o, r))
        \/ status[o] = "running" /\ Shares(o, r)

(* Slip: a waiting run blocks only those of its checkout. *)
BlockedInCheckout(r) ==
    \E o \in Runs \ {r} : Shares(o, r) /\ (GoesBefore(o, r) \/ PastQueue(o))

Blocked(r) ==
    \E o \in Runs \ {r} :
        \/ GoesBefore(o, r) /\ (Competes(o, r) \/ Shares(o, r))
        \/ PastQueue(o) /\ Shares(o, r)

ActiveFor(r) == {o \in Runs \ {r} : PastQueue(o) /\ Competes(o, r)}

(* Slip: one execution too many. *)
HasSlotOver(r) == Console(r) \/ Cardinality(ActiveFor(r)) <= job[r].limit

HasSlot(r) == Console(r) \/ Cardinality(ActiveFor(r)) < job[r].limit

------------------------------------------------------------------------------
(* Slip: admission does not look at the restart asked for. *)
MayRegisterAnytime(r) == status[r] = "absent"

MayRegister(r) == status[r] = "absent" /\ ~shuttingDown

Register(r, j, state) ==
    /\ MayRegister(r)
    /\ job' = [job EXCEPT ![r] = j]
    /\ root' = [root EXCEPT ![r] = j.root]
    /\ status' = [status EXCEPT ![r] = state]
    /\ sequence' = sequence + 1
    /\ seq' = [seq EXCEPT ![r] = sequence + 1]
    /\ UNCHANGED <<canceled, shuttingDown, slotVars>>

(* A dispatch, or a free console, enters the queue. *)
Enqueue(r) == \E j \in Jobs : j.kind # "external" /\ Register(r, j, "queued")

(* An external terminal is registered past it, under the same lock. *)
OpenExternal(r) == \E j \in Jobs : j.kind = "external" /\ Register(r, j, "preparing")

(* awaitRunSlot, one look at the registry. *)
Grant(r) ==
    /\ status[r] = "queued" /\ ~canceled[r] /\ ~shuttingDown
    /\ ~Blocked(r) /\ HasSlot(r)
    /\ status' = [status EXCEPT ![r] = "preparing"]
    /\ grants' = grants + 1
    /\ granted' = [granted EXCEPT ![r] = grants + 1]
    /\ UNCHANGED <<job, root, canceled, lineVars, shuttingDown>>

Withdraw(r) ==
    /\ status[r] = "queued" /\ (canceled[r] \/ shuttingDown)
    /\ status' = [status EXCEPT ![r] = "exited"]
    /\ UNCHANGED <<job, root, canceled, lineVars, shuttingDown, slotVars>>

(* The working directory of a task is resolved only now, and every run of  *)
(* the task that is starting takes its root, whoever works there already.  *)
Prepare(r) ==
    /\ Task(r) /\ status[r] = "preparing"
    /\ root' = [s \in Runs |->
                  IF status[s] \in Starting /\ ~Console(s) /\ job[s].work = job[r].work
                  THEN job[r].target ELSE root[s]]
    /\ status' = [status EXCEPT ![r] = "ready"]
    /\ UNCHANGED <<job, canceled, lineVars, shuttingDown, slotVars>>

Start(r) ==
    /\ status[r] = IF Task(r) THEN "ready" ELSE "preparing"
    /\ status' = [status EXCEPT ![r] = "running"]
    /\ UNCHANGED <<job, root, canceled, lineVars, shuttingDown, slotVars>>

(* A launch that fails ends its run; an external terminal that does not    *)
(* open leaves the registry at once.                                       *)
FailStart(r) ==
    /\ status[r] \in Starting
    /\ status' = [status EXCEPT ![r] = IF External(r) THEN "cleared" ELSE "exited"]
    /\ UNCHANGED <<job, root, canceled, lineVars, shuttingDown, slotVars>>

Exit(r) ==
    /\ status[r] = "running"
    /\ status' = [status EXCEPT ![r] = "exited"]
    /\ UNCHANGED <<job, root, canceled, lineVars, shuttingDown, slotVars>>

(* A stop asked by the server or by the desktop: the supervisor of the run *)
(* acts on the mark.                                                       *)
Cancel(r) ==
    /\ Live(r)
    /\ canceled' = [canceled EXCEPT ![r] = TRUE]
    /\ UNCHANGED <<job, root, status, lineVars, shuttingDown, slotVars>>

(* The desktop clears its history. *)
Clear ==
    /\ \E r \in Runs : status[r] = "exited"
    /\ status' = [r \in Runs |-> IF status[r] = "exited" THEN "cleared" ELSE status[r]]
    /\ UNCHANGED <<job, root, canceled, lineVars, shuttingDown, slotVars>>

(* A stop or restart of the agent is refused while an execution lives. *)
Shutdown ==
    /\ ~shuttingDown /\ \A r \in Runs : ~Live(r)
    /\ shuttingDown' = TRUE
    /\ UNCHANGED <<job, root, status, canceled, lineVars, slotVars>>

Run(r) ==
    \/ Enqueue(r) \/ OpenExternal(r) \/ Grant(r) \/ Withdraw(r) \/ Prepare(r)
    \/ Start(r) \/ FailStart(r) \/ Exit(r) \/ Cancel(r)

Next == (\E r \in Runs : Run(r)) \/ Clear \/ Shutdown

Spec == Init /\ [][Next]_vars

(* Each waiting run looks at the registry every 100 ms until it is granted *)
(* its slot or leaves.                                                     *)
Fairness == \A r \in Runs : WF_vars(Grant(r) \/ Withdraw(r))

FairSpec == Spec /\ Fairness

------------------------------------------------------------------------------
(* A run that waited for its turn and works on a task. *)
Working(r) == PastQueue(r) /\ Task(r)

EarlierWork(r) ==
    {s \in Runs : /\ Working(s) /\ job[s].project = job[r].project
                  /\ granted[s] <= granted[r]}

(* The order of the line and of the grants. *)
LineInv(r) ==
    /\ seq[r] <= sequence /\ granted[r] <= grants
    /\ status[r] = "absent" => seq[r] = 0
    /\ status[r] \in {"absent", "queued"} => granted[r] = 0
    /\ PastQueue(r) => (granted[r] = 0 <=> External(r))
    /\ status[r] = "queued" => ~External(r)
    /\ status[r] = "ready" => Task(r)

(* Only the root of a pinned ticket, or of an external terminal on a task  *)
(* that is being prepared, moves after the admission.                      *)
RootInv(r) == Pinned(r) \/ External(r) \/ root[r] = job[r].root

(* "Shared checkouts execute serially": two executions past the queue      *)
(* share a checkout only if one is an external terminal, which bypasses    *)
(* the queue, or a pinned ticket, which moved there after its grant.       *)
SharedCheckoutSerial ==
    \A o, r \in Runs :
        o # r /\ PastQueue(o) /\ PastQueue(r) /\ Shares(o, r) =>
            \E k \in {o, r} : External(k) \/ Pinned(k)

(* A project never has more working runs than its limit: when a run was    *)
(* given its slot, it and those given before it that still work were no    *)
(* more than its limit, and they have not become more since.               *)
CapacityHeld == \A r \in Runs : Working(r) => Cardinality(EarlierWork(r)) <= job[r].limit

(* Nobody is overtaken: while a run waits, no later one of its project was *)
(* given a slot.                                                           *)
FirstComeFirstServed ==
    \A o, r \in Runs :
        GoesBefore(o, r) /\ Competes(o, r) /\ Live(r) => granted[r] = 0

(* A restart kills no execution, one admitted just after it included. *)
RestartKillsNothing == shuttingDown => \A r \in Runs : ~Live(r)

(* "Tasks using the same checkout cannot execute concurrently", as the     *)
(* architecture document says it of every run the queue admits.            *)
TasksNeverShareCheckout ==
    \A o, r \in Runs :
        o # r /\ Working(o) /\ Working(r) => ~Shares(o, r)

IInv ==
    /\ TypeOK
    /\ \A r \in Runs : LineInv(r) /\ RootInv(r)
    /\ SharedCheckoutSerial /\ CapacityHeld /\ FirstComeFirstServed /\ RestartKillsNothing

(* So no project has more working runs than the limit of one of them. *)
WorkOf(r) == {s \in Runs : Working(s) /\ job[s].project = job[r].project}

ProjectWithinItsLimit ==
    \A r \in Runs : Working(r) =>
        \E s \in WorkOf(r) : Cardinality(WorkOf(r)) <= job[s].limit

(* What the liveness below rests on: the runs that wait never all wait for *)
(* one another, through whatever projects and checkouts, nor for a slot    *)
(* nobody uses.  Once no execution is left, one of them has its turn.      *)
Waiting(r) == status[r] = "queued" /\ ~canceled[r]

SomebodyAdvances ==
    (\E r \in Runs : Waiting(r)) =>
        \E r \in Runs : PastQueue(r) \/ (Waiting(r) /\ ~Blocked(r) /\ HasSlot(r))

(* As long as no execution lasts forever, no run waits forever: nobody     *)
(* waits for somebody who waits for him.                                   *)
QueueAdvances ==
    (\A r \in Runs : []<>~PastQueue(r)) => \A r \in Runs : []<>(status[r] # "queued")
==============================================================================
