-------------------------------- MODULE Chain --------------------------------
(***************************************************************************)
(* Chains of autonomous runs, and the orchestrator that starts them.       *)
(* Evaluations of the backlog of a project, on any instances, read the     *)
(* capacity and the tasks once, then admit launches one by one under a     *)
(* lock on the row of the project.  A launch becomes a run, the agent      *)
(* moves its task, and the instance that closes the run hands it back: it  *)
(* compares stages, and enqueues the next step of the chain, to which no   *)
(* cap applies.  Between any two of these, users launch, move tasks and    *)
(* change the cap, and an instance may stop.                               *)
(*                                                                         *)
(* A run started beside another one on purpose is the subject of           *)
(* AgentLaunch and ClientRuns: here a task has one active run at most, as  *)
(* the index on ordinary runs has it.                                      *)
(***************************************************************************)
EXTENDS Naturals, FiniteSets

CONSTANTS
    Tasks,    \* the backlog of one project
    Passes,   \* evaluations of the backlog that may be in progress
    Caps,     \* the values orchestrator_max_concurrent is given
    Reached,  \* bound: the stages tasks are on and are moved to
    Stops,    \* the stages a chain a user launches stops at, None for a
              \* launch of one step
    Faults,   \* "record" when the second statement of a start may fail,
              \* "stop" when an instance may stop during a hand-back
    None

Stages == {"new", "clarified", "specified", "implemented", "reviewed", "finished"}

ASSUME ChainAssumption ==
    /\ IsFiniteSet(Tasks)
    /\ Caps \subseteq Nat \ {0}
    /\ Reached \subseteq Stages
    /\ Stops \subseteq {"implemented", "reviewed", None}
    /\ Faults \subseteq {"record", "stop"}
    /\ None \notin Stages

VARIABLES
    cap,    \* orchestrator_max_concurrent
    stage,  \* the stage of a task
    run,    \* the active run of a task, from its launch to its end
    back,   \* the step a hand-back is about to enqueue on a task
    pass    \* what an evaluation of the backlog still works with

vars == <<cap, stage, run, back, pass>>

(* Of a run: st is its state; gated says that its prompt is the            *)
(* orchestrator's; stop is chain_stop_stage; began is launch_stage, None   *)
(* until it is recorded; by is who started the chain, a history variable.  *)
Run(st, by, gated, stop, began) ==
    [st |-> st, by |-> by, gated |-> gated, stop |-> stop, began |-> began]

NoRun == Run("none", "user", FALSE, None, None)

(* Of a hand-back: the chain it carries on, and the stage it has read. *)
Step(by, gated, stop, at) == [by |-> by, gated |-> gated, stop |-> stop, at |-> at]

NoStep == Step("user", FALSE, None, None)

(* Of an evaluation: the slots it counted, less its launches, and the      *)
(* tasks it has yet to consider.                                           *)
Over == [slots |-> 0, left |-> {}]

Owners    == {"user", "orchestrator"}
StopStage == {"implemented", "reviewed", None}

TypeOK ==
    /\ cap   \in Caps
    /\ stage \in [Tasks -> Reached]
    /\ run   \in [Tasks -> [st : {"none", "queued", "running"}, by : Owners,
                            gated : BOOLEAN, stop : StopStage,
                            began : Reached \union {None}]]
    /\ back  \in [Tasks -> [by : Owners, gated : BOOLEAN, stop : StopStage,
                            at : Reached \union {None}]]
    /\ pass  \in [Passes -> [slots : Nat, left : SUBSET Tasks]]

Init ==
    /\ cap \in Caps
    /\ stage \in [Tasks -> Reached]
    /\ run = [t \in Tasks |-> NoRun]
    /\ back = [t \in Tasks |-> NoStep]
    /\ pass = [p \in Passes |-> Over]

------------------------------------------------------------------------------
(* Stages and launches. *)

(* Slip: a chain goes on from the stage it should stop at. *)
PastAfter(g, s) ==
    g = "finished" \/ (s = "implemented" /\ g = "reviewed")

(* Whether a chain that stops at s has nothing left to do at stage g. *)
Past(g, s) ==
    \/ g = "finished"
    \/ s = "implemented" /\ g \in {"implemented", "reviewed"}
    \/ s = "reviewed" /\ g = "reviewed"

Free(t) == run[t] = NoRun

(* The tasks that hold a slot of the orchestrator: the launch, then the    *)
(* run, begins with its prompt.                                            *)
Slots == {t \in Tasks : run[t].st # "none" /\ run[t].gated}

(* The row of a new launch.  The unique index refuses a second one. *)
Enqueue(t, by, gated, stop) ==
    /\ Free(t)
    /\ run' = [run EXCEPT ![t] = Run("queued", by, gated, stop, None)]

------------------------------------------------------------------------------
(* The orchestrator. *)

(* EvaluateAndOrchestrateBacklog reads the cap, the count and the tasks. *)
Evaluate(p) ==
    /\ pass[p] = Over /\ Cardinality(Slots) < cap
    /\ LET left == {t \in Tasks : ~Past(stage[t], "implemented")} IN
       /\ left # {}
       /\ pass' = [pass EXCEPT ![p] = [slots |-> cap - Cardinality(Slots), left |-> left]]
    /\ UNCHANGED <<cap, stage, run, back>>

(* The evaluation is done with a task.  Without a slot or a task left it   *)
(* launches nothing more.                                                  *)
Considered(p, t, slots) ==
    pass' = [pass EXCEPT ![p] =
               IF slots = 0 \/ @.left = {t} THEN Over
               ELSE [slots |-> slots, left |-> @.left \ {t}]]

(* A task that is busy or not eligible is skipped. *)
Skip(p, t) ==
    /\ t \in pass[p].left
    /\ Considered(p, t, pass[p].slots)
    /\ UNCHANGED <<cap, stage, run, back>>

(* Slip: the admission trusts the slots counted when the evaluation began. *)
AdmitBySlots(p, t) ==
    /\ t \in pass[p].left
    /\ Enqueue(t, "orchestrator", TRUE, "implemented")
    /\ Considered(p, t, pass[p].slots - 1)
    /\ UNCHANGED <<cap, stage, back>>

(* admitOrchestratedActivity counts again, in the transaction that inserts *)
(* the launch and under the lock of the project.                           *)
Admit(p, t) ==
    /\ t \in pass[p].left
    /\ Cardinality(Slots) < cap
    /\ Enqueue(t, "orchestrator", TRUE, "implemented")
    /\ Considered(p, t, pass[p].slots - 1)
    /\ UNCHANGED <<cap, stage, back>>

Refuse(p, t) ==
    /\ t \in pass[p].left /\ Free(t)
    /\ Cardinality(Slots) >= cap
    /\ Considered(p, t, 0)
    /\ UNCHANGED <<cap, stage, run, back>>

------------------------------------------------------------------------------
(* Users and agents. *)

Configure(n) ==
    /\ cap' = n
    /\ UNCHANGED <<stage, run, back, pass>>

(* A run of one step, or a chain that stops where the project says. *)
LaunchByHand(t, stop) ==
    /\ stage[t] # "finished"
    /\ Enqueue(t, "user", FALSE, stop)
    /\ UNCHANGED <<cap, stage, back, pass>>

(* A transition, by the agent of a run or by anybody: a task that awaits   *)
(* its review does not go back to specified.                               *)
Move(t, g) ==
    /\ ~(stage[t] = "implemented" /\ g = "specified")
    /\ stage' = [stage EXCEPT ![t] = g]
    /\ UNCHANGED <<cap, run, back, pass>>

(* The launch is canceled, fails or is reclaimed: nothing is handed back. *)
Drop(t) ==
    /\ run[t].st = "queued"
    /\ run' = [run EXCEPT ![t] = NoRun]
    /\ UNCHANGED <<cap, stage, back, pass>>

------------------------------------------------------------------------------
(* A run, and its hand-back. *)

(* startRemoteRun inserts the run with its prompt, then records its mode,  *)
(* the stage of its task and the stop stage by a second statement, whose   *)
(* failure is not reported.                                                *)
Start(t) ==
    /\ run[t].st = "queued"
    /\ \/ run' = [run EXCEPT ![t].st = "running", ![t].began = stage[t]]
       \/ "record" \in Faults /\ run' = [run EXCEPT ![t].st = "running"]
    /\ UNCHANGED <<cap, stage, back, pass>>

(* A run whose columns were not recorded is judged by nobody. *)
Chained(t) == run[t].began # None /\ run[t].stop # None

(* Slip: a run that moved nothing is handed back like one that did. *)
GoesOnAnyway(t) == Chained(t) /\ ~Past(stage[t], run[t].stop)

(* A completed run continues its chain when its task moved, and is not     *)
(* where the chain stops.                                                  *)
GoesOn(t) ==
    Chained(t) /\ stage[t] # run[t].began /\ ~Past(stage[t], run[t].stop)

(* Slip: the hand-back does not read which stage the chain stops at. *)
FinishEndless(t, handed) ==
    /\ run[t].st = "running"
    /\ run' = [run EXCEPT ![t] = NoRun]
    /\ IF handed /\ GoesOn(t)
       THEN /\ back[t] = NoStep
            /\ back' = [back EXCEPT ![t] = Step(run[t].by, run[t].gated, None, stage[t])]
       ELSE UNCHANGED back
    /\ UNCHANGED <<cap, stage, pass>>

(* The session, the agent, the board or a reconciliation closes the run;   *)
(* only the statement that closes it is followed by a hand-back.  A run    *)
(* that fails, or whose instance stops there, is followed by nothing.      *)
(* Bound: one hand-back of a task is in progress.                          *)
Finish(t, handed) ==
    /\ run[t].st = "running"
    /\ run' = [run EXCEPT ![t] = NoRun]
    /\ IF handed /\ GoesOn(t)
       THEN /\ back[t] = NoStep
            /\ back' = [back EXCEPT ![t] =
                          Step(run[t].by, run[t].gated, run[t].stop, stage[t])]
       ELSE UNCHANGED back
    /\ UNCHANGED <<cap, stage, pass>>

(* Slip: the prompt of a chain stays with its first step. *)
ContinueBare(t) ==
    /\ back[t] # NoStep
    /\ Enqueue(t, back[t].by, FALSE, back[t].stop)
    /\ back' = [back EXCEPT ![t] = NoStep]
    /\ UNCHANGED <<cap, stage, pass>>

(* enqueueChainStep: with the gate and the stop of the chain, and no cap. *)
Continue(t) ==
    /\ back[t] # NoStep
    /\ Enqueue(t, back[t].by, back[t].gated, back[t].stop)
    /\ back' = [back EXCEPT ![t] = NoStep]
    /\ UNCHANGED <<cap, stage, pass>>

(* Somebody took the task between the two runs, or the instance stops. *)
BreakOff(t) ==
    /\ back[t] # NoStep
    /\ ~Free(t) \/ "stop" \in Faults
    /\ back' = [back EXCEPT ![t] = NoStep]
    /\ UNCHANGED <<cap, stage, run, pass>>

------------------------------------------------------------------------------
Orchestrator(p) ==
    \/ Evaluate(p)
    \/ \E t \in Tasks : Skip(p, t) \/ Admit(p, t) \/ Refuse(p, t)

User ==
    \/ \E n \in Caps : Configure(n)
    \/ \E t \in Tasks : \/ \E g \in Reached : Move(t, g)
                        \/ \E s \in Stops : LaunchByHand(t, s)

Execution(t) ==
    \/ Drop(t) \/ Start(t)
    \/ \E handed \in BOOLEAN : Finish(t, handed)
    \/ Continue(t) \/ BreakOff(t)

Next ==
    \/ \E p \in Passes : Orchestrator(p)
    \/ User
    \/ \E t \in Tasks : Execution(t)

Spec == Init /\ [][Next]_vars

------------------------------------------------------------------------------
(* Properties. *)

(* A chain the orchestrator started carries its gate and its stop stage to *)
(* every step, so each of its runs takes a slot, and no chain a user       *)
(* started takes one.                                                      *)
NoRunEscapesTheCap ==
    \A t \in Tasks : run[t].st # "none" =>
        /\ run[t].gated <=> run[t].by = "orchestrator"
        /\ run[t].by = "orchestrator" => run[t].stop = "implemented"

(* An orchestrated chain asks for no step on a task that awaits a review:  *)
(* review and merge are for a human.                                       *)
ReviewStaysHuman ==
    \A t \in Tasks : back[t].by = "orchestrator" =>
        back[t].at \notin {"implemented", "reviewed", "finished"}

(* A hand-back carries what its chain was started with, towards a stage    *)
(* the chain has not reached.                                              *)
Carries ==
    \A t \in Tasks :
        /\ back[t].by = "orchestrator" <=> back[t].gated
        /\ back[t].gated => back[t].stop = "implemented"
        /\ back[t] # NoStep =>
              back[t].at # None /\ back[t].stop # None /\ ~Past(back[t].at, back[t].stop)
        /\ run[t].st = "none" => run[t] = NoRun

(* Inductive.  An evaluation with a task left has a slot left. *)
IInv ==
    /\ TypeOK
    /\ NoRunEscapesTheCap
    /\ ReviewStaysHuman
    /\ Carries
    /\ \A p \in Passes : pass[p].slots = 0 <=> pass[p].left = {}

(* The slots taken go over the cap only by the continuation of a chain the *)
(* orchestrator had already admitted: never by two evaluations, whatever   *)
(* they read, nor by a launch of a user, nor by an admission after the cap *)
(* was lowered.                                                            *)
OnlyChainsExceedTheCap ==
    [][Cardinality(Slots') > Cardinality(Slots) /\ Cardinality(Slots') > cap
         => \E t \in Tasks : back[t].by = "orchestrator" /\ t \in Slots' \ Slots]_vars

(* A chain never repeats a step: the one it asks for starts from a stage   *)
(* the run before it did not start from.                                   *)
NoStepWithoutProgress ==
    [][\A t \in Tasks : back[t] = NoStep /\ back'[t] # NoStep =>
           run[t].st = "running" /\ run[t].began \notin {None, back'[t].at}]_vars
==============================================================================
