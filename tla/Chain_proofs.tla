---------------------------- MODULE Chain_proofs -----------------------------
(***************************************************************************)
(* What chains carry from step to step, and who goes over the cap of the   *)
(* orchestrator, for any backlog, number of evaluations and caps.          *)
(***************************************************************************)
EXTENDS Chain, FiniteSetTheorems, TLAPS

LEMMA StepCases ==
    ASSUME [Next]_vars
    PROVE  \/ \E p \in Passes : Evaluate(p)
           \/ \E p \in Passes, t \in Tasks : Skip(p, t) \/ Admit(p, t) \/ Refuse(p, t)
           \/ \E n \in Caps : Configure(n)
           \/ \E t \in Tasks, g \in Reached : Move(t, g)
           \/ \E t \in Tasks, s \in Stops : LaunchByHand(t, s)
           \/ \E t \in Tasks, handed \in BOOLEAN :
                Drop(t) \/ Start(t) \/ Finish(t, handed) \/ Continue(t) \/ BreakOff(t)
           \/ UNCHANGED vars
  BY DEF Next, Orchestrator, User, Execution

(* The slots taken can be counted. *)
LEMMA SlotsFinite ==
    IsFiniteSet(Slots) /\ Cardinality(Slots) \in Nat
  BY ChainAssumption, FS_Subset, FS_CardinalityType DEF Slots

------------------------------------------------------------------------------
(* Evaluations: one with a task left has a slot left. *)

Admits == \A p \in Passes : pass[p].slots = 0 <=> pass[p].left = {}

PassType == pass \in [Passes -> [slots : Nat, left : SUBSET Tasks]]

LEMMA ConsideredKeeps ==
    ASSUME PassType, Admits, NEW p \in Passes, NEW t \in Tasks, t \in pass[p].left,
           NEW slots \in Nat, Considered(p, t, slots)
    PROVE  PassType' /\ Admits'
  BY DEF PassType, Admits, Considered, Over

LEMMA EvaluationsInductive ==
    ASSUME IInv, [Next]_vars
    PROVE  PassType' /\ Admits'
<1> PassType /\ Admits /\ cap \in Nat
  BY ChainAssumption DEF IInv, TypeOK, PassType, Admits
<1>1. ASSUME NEW p \in Passes, Evaluate(p) PROVE PassType' /\ Admits'
  BY <1>1, SlotsFinite DEF Evaluate, PassType, Admits
<1>2. ASSUME NEW p \in Passes, NEW t \in Tasks, Skip(p, t) PROVE PassType' /\ Admits'
  <2>1. pass[p].slots \in Nat
    BY DEF PassType
  <2>2. QED
    BY <1>2, <2>1, ConsideredKeeps DEF Skip
<1>3. ASSUME NEW p \in Passes, NEW t \in Tasks, Admit(p, t) PROVE PassType' /\ Admits'
  <2>1. pass[p].slots - 1 \in Nat
    BY <1>3 DEF PassType, Admits, Admit
  <2>2. QED
    BY <1>3, <2>1, ConsideredKeeps DEF Admit
<1>4. ASSUME NEW p \in Passes, NEW t \in Tasks, Refuse(p, t) PROVE PassType' /\ Admits'
  BY <1>4, ConsideredKeeps DEF Refuse
<1>5. CASE UNCHANGED pass
  BY <1>5 DEF PassType, Admits
<1>6. QED
  BY <1>1, <1>2, <1>3, <1>4, <1>5, StepCases
     DEF Configure, Move, LaunchByHand, Drop, Start, Finish, Continue, BreakOff, vars

------------------------------------------------------------------------------
(* Runs and hand-backs: a launch, a run and a hand-back carry what their   *)
(* chain was started with.                                                 *)

RunType == TypeOK /\ Carries /\ NoRunEscapesTheCap /\ ReviewStaysHuman

LEMMA EnqueueKeeps ==
    ASSUME RunType, NEW t \in Tasks, NEW by \in Owners, NEW gated \in BOOLEAN,
           NEW stop \in StopStage, Enqueue(t, by, gated, stop),
           gated <=> by = "orchestrator", gated => stop = "implemented"
    PROVE  /\ run' \in [Tasks -> [st : {"none", "queued", "running"}, by : Owners,
                                  gated : BOOLEAN, stop : StopStage,
                                  began : Reached \union {None}]]
           /\ NoRunEscapesTheCap'
           /\ \A u \in Tasks : run'[u].st = "none" => run'[u] = NoRun
  BY DEF RunType, TypeOK, Carries, NoRunEscapesTheCap, Enqueue, Run, Owners

LEMMA RunsInductive ==
    ASSUME IInv, [Next]_vars
    PROVE  RunType'
<1> RunType
  BY DEF IInv, RunType
<1>0. PassType'
  BY EvaluationsInductive
<1>1. ASSUME UNCHANGED <<run, back>>, cap' \in Caps, stage' \in [Tasks -> Reached]
      PROVE  RunType'
  BY <1>0, <1>1 DEF PassType, RunType, TypeOK, Carries, NoRunEscapesTheCap, ReviewStaysHuman
<1>2. ASSUME NEW p \in Passes, NEW t \in Tasks, Admit(p, t) PROVE RunType'
  <2>1. Enqueue(t, "orchestrator", TRUE, "implemented") /\ UNCHANGED <<cap, stage, back>>
    BY <1>2 DEF Admit
  <2>2. QED
    BY <1>0, <2>1, EnqueueKeeps
       DEF PassType, RunType, TypeOK, Carries, ReviewStaysHuman, Owners, StopStage
<1>3. ASSUME NEW t \in Tasks, NEW s \in Stops, LaunchByHand(t, s) PROVE RunType'
  <2>1. Enqueue(t, "user", FALSE, s) /\ s \in StopStage /\ UNCHANGED <<cap, stage, back>>
    BY <1>3, ChainAssumption DEF LaunchByHand, StopStage
  <2>2. QED
    BY <1>0, <2>1, EnqueueKeeps
       DEF PassType, RunType, TypeOK, Carries, ReviewStaysHuman, Owners
<1>4. ASSUME NEW t \in Tasks, Drop(t) PROVE RunType'
  BY <1>0, <1>4, ChainAssumption
     DEF Drop, PassType, RunType, TypeOK, Carries, NoRunEscapesTheCap, ReviewStaysHuman,
         Run, NoRun, Owners, StopStage
<1>5. ASSUME NEW t \in Tasks, Start(t) PROVE RunType'
  <2>1. run[t].st = "queued" /\ UNCHANGED <<cap, stage, back>>
    BY <1>5 DEF Start
  <2> DEFINE Typed(f) == f \in [Tasks -> [st : {"none", "queued", "running"}, by : Owners,
                                          gated : BOOLEAN, stop : StopStage,
                                          began : Reached \union {None}]]
  <2>2. /\ Typed(run')
        /\ run'[t].st = "running" /\ run'[t].by = run[t].by
        /\ run'[t].gated = run[t].gated /\ run'[t].stop = run[t].stop
        /\ \A u \in Tasks \ {t} : run'[u] = run[u]
    <3>1. Typed(run) /\ stage[t] \in Reached
      BY DEF RunType, TypeOK
    <3>2. CASE run' = [run EXCEPT ![t].st = "running", ![t].began = stage[t]]
      BY <3>1, <3>2
    <3>3. CASE run' = [run EXCEPT ![t].st = "running"]
      BY <3>1, <3>3
    <3>4. QED
      BY <1>5, <3>2, <3>3 DEF Start
  <2>3. TypeOK'
    BY <1>0, <2>1, <2>2 DEF PassType, RunType, TypeOK
  <2>4. NoRunEscapesTheCap' /\ Carries' /\ ReviewStaysHuman'
    BY <2>1, <2>2 DEF RunType, TypeOK, Carries, NoRunEscapesTheCap, ReviewStaysHuman
  <2>5. QED
    BY <2>3, <2>4 DEF RunType
<1>6. ASSUME NEW t \in Tasks, NEW handed \in BOOLEAN, Finish(t, handed) PROVE RunType'
  <2>1. run' = [run EXCEPT ![t] = NoRun] /\ UNCHANGED <<cap, stage>>
    BY <1>6 DEF Finish
  <2>2. CASE UNCHANGED back
    BY <1>0, <2>1, <2>2
       DEF PassType, RunType, TypeOK, Carries, NoRunEscapesTheCap, ReviewStaysHuman,
           Run, NoRun, Owners, StopStage
  <2>3. CASE handed /\ GoesOn(t)
    <3> DEFINE step == Step(run[t].by, run[t].gated, run[t].stop, stage[t])
    <3>1. back' = [back EXCEPT ![t] = step]
      BY <1>6, <2>3 DEF Finish
    <3>2. /\ run[t].gated <=> run[t].by = "orchestrator"
          /\ run[t].gated => run[t].stop = "implemented"
      BY <1>6 DEF Finish, RunType, NoRunEscapesTheCap
    <3>3. stage[t] # None /\ run[t].stop # None /\ ~Past(stage[t], run[t].stop)
      BY <2>3, ChainAssumption DEF GoesOn, Chained, RunType, TypeOK
    <3>4. run[t].gated => stage[t] \notin {"implemented", "reviewed", "finished"}
      BY <3>2, <3>3 DEF Past
    <3>5. run[t].by \in Owners /\ run[t].gated \in BOOLEAN /\ run[t].stop \in StopStage
          /\ stage[t] \in Reached
      BY DEF RunType, TypeOK
    <3>6. Carries' /\ ReviewStaysHuman'
      BY <2>1, <3>1, <3>2, <3>3, <3>4, <3>5
         DEF RunType, TypeOK, Carries, ReviewStaysHuman, Step, Run, NoRun, Owners
    <3>7. TypeOK' /\ NoRunEscapesTheCap'
      BY <1>0, <2>1, <3>1, <3>5
         DEF PassType, RunType, TypeOK, NoRunEscapesTheCap, Step, Run, NoRun, Owners, StopStage
    <3>8. QED
      BY <3>6, <3>7 DEF RunType
  <2>4. QED
    BY <1>6, <2>2, <2>3 DEF Finish
<1>7. ASSUME NEW t \in Tasks, Continue(t) PROVE RunType'
  <2>1. /\ Enqueue(t, back[t].by, back[t].gated, back[t].stop)
        /\ back' = [back EXCEPT ![t] = NoStep]
        /\ UNCHANGED <<cap, stage>>
    BY <1>7 DEF Continue
  <2>2. /\ back[t].by \in Owners /\ back[t].gated \in BOOLEAN /\ back[t].stop \in StopStage
        /\ back[t].gated <=> back[t].by = "orchestrator"
        /\ back[t].gated => back[t].stop = "implemented"
    BY DEF RunType, TypeOK, Carries
  <2>3. PICK by \in Owners, gated \in BOOLEAN, stop \in StopStage :
          /\ Enqueue(t, by, gated, stop)
          /\ gated <=> by = "orchestrator"
          /\ gated => stop = "implemented"
    BY <2>1, <2>2, Zenon
  <2>4. /\ run' \in [Tasks -> [st : {"none", "queued", "running"}, by : Owners,
                               gated : BOOLEAN, stop : StopStage,
                               began : Reached \union {None}]]
        /\ NoRunEscapesTheCap'
        /\ \A u \in Tasks : run'[u].st = "none" => run'[u] = NoRun
    BY <2>3, EnqueueKeeps, Zenon
  <2>5. QED
    BY <1>0, <2>1, <2>4, ZenonT(60)
       DEF PassType, RunType, TypeOK, Carries, ReviewStaysHuman, Step, NoStep, Owners, StopStage
<1>8. ASSUME NEW t \in Tasks, BreakOff(t) PROVE RunType'
  BY <1>0, <1>8, ZenonT(60)
     DEF BreakOff, PassType, RunType, TypeOK, Carries, NoRunEscapesTheCap, ReviewStaysHuman,
         Step, NoStep, Owners, StopStage
<1>9. cap \in Caps /\ stage \in [Tasks -> Reached]
  BY DEF RunType, TypeOK
<1>10. ASSUME NEW n \in Caps, Configure(n) PROVE RunType'
  BY <1>1, <1>9, <1>10 DEF Configure
<1>11. ASSUME NEW t \in Tasks, NEW g \in Reached, Move(t, g) PROVE RunType'
  BY <1>1, <1>9, <1>11 DEF Move
<1>12. ASSUME UNCHANGED <<cap, stage, run, back>> PROVE RunType'
  BY <1>1, <1>9, <1>12
<1>13. QED
  BY <1>2, <1>3, <1>4, <1>5, <1>6, <1>7, <1>8, <1>10, <1>11, <1>12, StepCases
     DEF Evaluate, Skip, Refuse, vars

------------------------------------------------------------------------------
(* The inductive invariant holds in every state. *)
THEOREM Invariance == Spec => []IInv
<1>1. Init => IInv
  <2> SUFFICES ASSUME Init PROVE IInv
    OBVIOUS
  <2>1. TypeOK
    BY DEF Init, TypeOK, NoRun, Run, NoStep, Step, Over, Owners, StopStage
  <2>2. NoRunEscapesTheCap /\ ReviewStaysHuman /\ Carries
    BY DEF Init, NoRunEscapesTheCap, ReviewStaysHuman, Carries, NoRun, Run, NoStep, Step
  <2>3. \A p \in Passes : pass[p].slots = 0 <=> pass[p].left = {}
    BY DEF Init, Over
  <2>4. QED
    BY <2>1, <2>2, <2>3 DEF IInv
<1>2. IInv /\ [Next]_vars => IInv'
  BY EvaluationsInductive, RunsInductive DEF IInv, RunType, Admits
<1>3. QED
  BY <1>1, <1>2, PTL DEF Spec

(* A chain of the orchestrator keeps its gate and its stop stage in every  *)
(* launch and run, through enqueueChainStep: none escapes the cap.         *)
THEOREM NoRunEscapesTheCapHolds == Spec => []NoRunEscapesTheCap
  BY Invariance, PTL DEF IInv

(* A chain of the orchestrator asks for no step once its task awaits a     *)
(* review: handBackRun stops it there.                                     *)
THEOREM ReviewStaysHumanHolds == Spec => []ReviewStaysHuman
  BY Invariance, PTL DEF IInv

------------------------------------------------------------------------------
(* The step handBackRun asks for never starts from the stage its run       *)
(* started from: a chain that makes no progress ends.                      *)
THEOREM NoStepWithoutProgressHolds == Spec => NoStepWithoutProgress
<1> DEFINE
      Moved == \A t \in Tasks : back[t] = NoStep /\ back'[t] # NoStep =>
                 run[t].st = "running" /\ run[t].began \notin {None, back'[t].at}
<1>1. IInv /\ [Next]_vars => Moved
  <2> SUFFICES ASSUME IInv, [Next]_vars, NEW t \in Tasks, back[t] = NoStep, back'[t] # NoStep
               PROVE  run[t].st = "running" /\ run[t].began \notin {None, back'[t].at}
    OBVIOUS
  <2>1. back \in [Tasks -> [by : Owners, gated : BOOLEAN, stop : StopStage,
                            at : Reached \union {None}]]
    BY DEF IInv, TypeOK
  <2>2. PICK u \in Tasks, handed \in BOOLEAN : Finish(u, handed)
    BY <2>1, StepCases
       DEF Evaluate, Skip, Admit, Refuse, Configure, Move, LaunchByHand, Drop, Start,
           Continue, BreakOff, vars
  <2>3. u = t /\ handed /\ GoesOn(t)
    BY <2>1, <2>2 DEF Finish
  <2>4. back'[t] = Step(run[t].by, run[t].gated, run[t].stop, stage[t])
    BY <2>1, <2>2, <2>3 DEF Finish
  <2>5. QED
    BY <2>2, <2>3, <2>4 DEF Finish, GoesOn, Chained, Step
<1>2. QED
  BY <1>1, Invariance, PTL DEF Spec, NoStepWithoutProgress

------------------------------------------------------------------------------
(* A step takes a slot more only by the launch of a task that had none. *)
LEMMA LaunchTakesASlot ==
    ASSUME IInv, NEW t \in Tasks, NEW by \in Owners, NEW gated \in BOOLEAN,
           NEW stop \in StopStage, Enqueue(t, by, gated, stop)
    PROVE  /\ t \notin Slots
           /\ gated  => Slots' = Slots \union {t}
           /\ ~gated => Slots' = Slots
  BY DEF IInv, TypeOK, Enqueue, Free, Slots, Run, NoRun

LEMMA FewerSlots ==
    ASSUME Slots' \subseteq Slots
    PROVE  ~(Cardinality(Slots') > Cardinality(Slots))
<1>1. Cardinality(Slots') \in Nat /\ Cardinality(Slots') <= Cardinality(Slots)
  BY SlotsFinite, FS_Subset, FS_CardinalityType
<1>2. QED
  BY <1>1, SlotsFinite

(* The slots taken go over the cap by enqueueChainStep alone: not by       *)
(* admitOrchestratedActivity, however many evaluations run, and whatever   *)
(* they had counted.                                                       *)
THEOREM OnlyChainsExceedTheCapHolds == Spec => OnlyChainsExceedTheCap
<1> DEFINE
      Allowed == Cardinality(Slots') > Cardinality(Slots) /\ Cardinality(Slots') > cap
                   => \E t \in Tasks : back[t].by = "orchestrator" /\ t \in Slots' \ Slots
<1>1. IInv /\ [Next]_vars => Allowed
  <2> SUFFICES ASSUME IInv, [Next]_vars PROVE Allowed
    OBVIOUS
  <2>1. ASSUME Slots' \subseteq Slots PROVE Allowed
    BY <2>1, FewerSlots
  <2>2. ASSUME NEW p \in Passes, NEW t \in Tasks, Admit(p, t) PROVE Allowed
    <3>1. t \notin Slots /\ Slots' = Slots \union {t}
      BY <2>2, LaunchTakesASlot DEF Admit, Owners, StopStage
    <3>2. Cardinality(Slots') = Cardinality(Slots) + 1
      BY <3>1, SlotsFinite, FS_AddElement
    <3>3. Cardinality(Slots) < cap /\ cap \in Nat
      BY <2>2, ChainAssumption DEF Admit, IInv, TypeOK
    <3>4. QED
      BY <3>2, <3>3, SlotsFinite
  <2>3. ASSUME NEW t \in Tasks, NEW s \in Stops, LaunchByHand(t, s) PROVE Allowed
    <3>1. s \in StopStage
      BY ChainAssumption DEF StopStage
    <3>2. Slots' = Slots
      BY <2>3, <3>1, LaunchTakesASlot DEF LaunchByHand, Owners
    <3>3. QED
      BY <2>1, <3>2
  <2>4. ASSUME NEW t \in Tasks, Continue(t) PROVE Allowed
    <3>1. /\ back[t].by \in Owners /\ back[t].gated \in BOOLEAN
          /\ back[t].stop \in StopStage
          /\ back[t].gated => back[t].by = "orchestrator"
      BY DEF IInv, TypeOK, Carries
    <3>2. PICK by \in Owners, gated \in BOOLEAN, stop \in StopStage :
            Enqueue(t, by, gated, stop) /\ (gated => back[t].by = "orchestrator")
      BY <2>4, <3>1, Zenon DEF Continue
    <3>3. /\ t \notin Slots
          /\ gated  => Slots' = Slots \union {t}
          /\ ~gated => Slots' = Slots
      BY <3>2, LaunchTakesASlot, Zenon
    <3>4. CASE gated
      BY <3>2, <3>3, <3>4, Zenon
    <3>5. CASE ~gated
      BY <2>1, <3>3, <3>5
    <3>6. QED
      BY <3>4, <3>5, Zenon
  <2>5. ASSUME NEW t \in Tasks, NEW handed \in BOOLEAN, Drop(t) \/ Start(t) \/ Finish(t, handed)
        PROVE  Slots' \subseteq Slots
    BY <2>5, SMTT(30) DEF IInv, TypeOK, Drop, Start, Finish, Slots, NoRun, Run
  <2>6. ASSUME UNCHANGED run PROVE Slots' \subseteq Slots
    BY <2>6 DEF Slots
  <2>7. QED
    BY <2>1, <2>2, <2>3, <2>4, <2>5, <2>6, StepCases
       DEF Evaluate, Skip, Refuse, Configure, Move, BreakOff, vars
<1>2. QED
  BY <1>1, Invariance, PTL DEF Spec, OnlyChainsExceedTheCap
==============================================================================
