-------------------------- MODULE AgentQueue_proofs --------------------------
(***************************************************************************)
(* The safety of the queue of a workstation, for any number of executions  *)
(* of any kind, any projects, checkouts and limits.                        *)
(***************************************************************************)
EXTENDS AgentQueue, FiniteSetTheorems, WellFoundedInduction, TLAPS

(* Every step is an admission, a grant, a preparation, or one that lets    *)
(* nobody closer to a slot.                                                *)
Recedes(r) == Withdraw(r) \/ Start(r) \/ FailStart(r) \/ Exit(r) \/ Cancel(r)

LEMMA StepCases ==
    ASSUME [Next]_vars
    PROVE  \/ \E r \in Runs : \/ Enqueue(r) \/ OpenExternal(r) \/ Grant(r)
                              \/ Prepare(r) \/ Recedes(r)
           \/ Clear \/ Shutdown \/ UNCHANGED vars
  BY DEF Next, Run, Recedes

(* What a receding step, a clear, a shutdown or a stutter leaves alone.    *)
Quiet ==
    /\ UNCHANGED <<job, root, lineVars, slotVars>>
    /\ \A r \in Runs : /\ PastQueue(r)' => PastQueue(r)
                       /\ status'[r] = "queued" => status[r] = "queued"
                       /\ canceled[r] => canceled'[r]

LEMMA RecedingIsQuiet ==
    ASSUME TypeOK,
           (\E r \in Runs : Recedes(r)) \/ Clear \/ Shutdown \/ UNCHANGED vars
    PROVE  Quiet
<1> USE DEF TypeOK, Quiet, PastQueue, Starting, lineVars, slotVars, vars
<1>1. ASSUME NEW r \in Runs, Withdraw(r) PROVE Quiet
  BY <1>1 DEF Withdraw
<1>2. ASSUME NEW r \in Runs, Start(r) PROVE Quiet
  BY <1>2 DEF Start, Task
<1>3. ASSUME NEW r \in Runs, FailStart(r) PROVE Quiet
  BY <1>3 DEF FailStart, External
<1>4. ASSUME NEW r \in Runs, Exit(r) PROVE Quiet
  BY <1>4 DEF Exit
<1>5. ASSUME NEW r \in Runs, Cancel(r) PROVE Quiet
  BY <1>5 DEF Cancel
<1>6. CASE Clear
  BY <1>6 DEF Clear
<1>7. CASE Shutdown
  BY <1>7 DEF Shutdown
<1>8. CASE UNCHANGED vars
  BY <1>8
<1>9. QED
  BY <1>1, <1>2, <1>3, <1>4, <1>5, <1>6, <1>7, <1>8 DEF Recedes

------------------------------------------------------------------------------
(* The state keeps its type. *)
LEMMA TypeInductive ==
    ASSUME TypeOK, [Next]_vars
    PROVE  TypeOK'
<1> USE DEF TypeOK, lineVars, slotVars, vars
<1>1. ASSUME NEW r \in Runs, Enqueue(r) PROVE TypeOK'
  BY <1>1 DEF Enqueue, Register
<1>2. ASSUME NEW r \in Runs, OpenExternal(r) PROVE TypeOK'
  BY <1>2 DEF OpenExternal, Register
<1>3. ASSUME NEW r \in Runs, Grant(r) PROVE TypeOK'
  BY <1>3 DEF Grant
<1>4. ASSUME NEW r \in Runs, Withdraw(r) PROVE TypeOK'
  BY <1>4 DEF Withdraw
<1>5. ASSUME NEW r \in Runs, Prepare(r) PROVE TypeOK'
  <2> DEFINE Roots == {j.root : j \in Jobs} \union {j.target : j \in Jobs}
  <2>1. job[r].target \in Roots
    OBVIOUS
  <2>2. root' \in [Runs -> Roots]
    BY <1>5, <2>1 DEF Prepare
  <2>3. QED
    BY <1>5, <2>2 DEF Prepare
<1>6. ASSUME NEW r \in Runs, Start(r) PROVE TypeOK'
  BY <1>6 DEF Start
<1>7. ASSUME NEW r \in Runs, FailStart(r) PROVE TypeOK'
  BY <1>7 DEF FailStart
<1>8. ASSUME NEW r \in Runs, Exit(r) PROVE TypeOK'
  BY <1>8 DEF Exit
<1>9. ASSUME NEW r \in Runs, Cancel(r) PROVE TypeOK'
  BY <1>9 DEF Cancel
<1>10. CASE Clear
  BY <1>10 DEF Clear
<1>11. CASE Shutdown
  BY <1>11 DEF Shutdown
<1>12. CASE UNCHANGED vars
  BY <1>12
<1>13. QED
  BY <1>1, <1>2, <1>3, <1>4, <1>5, <1>6, <1>7, <1>8, <1>9, <1>10, <1>11, <1>12,
     StepCases DEF Recedes

------------------------------------------------------------------------------
(* A place in the line is given at the admission, a slot by the queue.     *)
LEMMA LineInductive ==
    ASSUME TypeOK, \A r \in Runs : LineInv(r), [Next]_vars
    PROVE  \A r \in Runs : LineInv(r)'
<1> USE DEF TypeOK, LineInv, PastQueue, Starting, Task, External, lineVars, slotVars, vars
<1>1. ASSUME NEW r \in Runs, Enqueue(r) PROVE \A s \in Runs : LineInv(s)'
  BY <1>1 DEF Enqueue, Register, MayRegister
<1>2. ASSUME NEW r \in Runs, OpenExternal(r) PROVE \A s \in Runs : LineInv(s)'
  BY <1>2 DEF OpenExternal, Register, MayRegister
<1>3. ASSUME NEW r \in Runs, Grant(r) PROVE \A s \in Runs : LineInv(s)'
  BY <1>3 DEF Grant
<1>4. ASSUME NEW r \in Runs, Prepare(r) PROVE \A s \in Runs : LineInv(s)'
  BY <1>4 DEF Prepare
<1>5. ASSUME NEW r \in Runs, Withdraw(r) PROVE \A s \in Runs : LineInv(s)'
  BY <1>5 DEF Withdraw
<1>6. ASSUME NEW r \in Runs, Start(r) PROVE \A s \in Runs : LineInv(s)'
  BY <1>6 DEF Start
<1>7. ASSUME NEW r \in Runs, FailStart(r) PROVE \A s \in Runs : LineInv(s)'
  BY <1>7 DEF FailStart
<1>8. ASSUME NEW r \in Runs, Exit(r) PROVE \A s \in Runs : LineInv(s)'
  BY <1>8 DEF Exit
<1>9. ASSUME NEW r \in Runs, Cancel(r) PROVE \A s \in Runs : LineInv(s)'
  BY <1>9 DEF Cancel
<1>10. CASE Clear
  BY <1>10 DEF Clear
<1>11. CASE Shutdown
  BY <1>11 DEF Shutdown
<1>12. CASE UNCHANGED vars
  BY <1>12
<1>13. QED
  BY <1>1, <1>2, <1>3, <1>4, <1>5, <1>6, <1>7, <1>8, <1>9, <1>10, <1>11, <1>12,
     StepCases DEF Recedes

(* Preparations agree on the checkout of a task, so one that is not pinned *)
(* keeps the root it was admitted with.                                    *)
LEMMA RootInductive ==
    ASSUME TypeOK, \A r \in Runs : RootInv(r), [Next]_vars
    PROVE  \A r \in Runs : RootInv(r)'
<1> USE DEF TypeOK, RootInv, Pinned, External
<1>1. ASSUME NEW r \in Runs, Enqueue(r) PROVE \A s \in Runs : RootInv(s)'
  BY <1>1 DEF Enqueue, Register
<1>2. ASSUME NEW r \in Runs, OpenExternal(r) PROVE \A s \in Runs : RootInv(s)'
  BY <1>2 DEF OpenExternal, Register
<1>3. ASSUME NEW r \in Runs, Grant(r) PROVE \A s \in Runs : RootInv(s)'
  BY <1>3 DEF Grant
<1>4. ASSUME NEW r \in Runs, Prepare(r), NEW s \in Runs PROVE RootInv(s)'
  <2>1. job' = job /\ job[s] \in Jobs /\ job[r] \in Jobs /\ Task(r)
    BY <1>4 DEF Prepare
  <2>2. CASE root'[s] = root[s]
    BY <2>1, <2>2
  <2>3. CASE root'[s] # root[s]
    <3>1. root'[s] = job[r].target /\ ~Console(s) /\ job[s].work = job[r].work
      BY <1>4, <2>3 DEF Prepare
    <3>2. CASE Task(s)
      BY <2>1, <3>1, <3>2, JobsAssumption DEF Task
    <3>3. CASE External(s)
      BY <2>1, <3>3
    <3>4. QED
      BY <2>1, <3>1, <3>2, <3>3, JobsAssumption DEF IsJob, Task, Console
  <2>4. QED
    BY <2>2, <2>3
<1>5. CASE Quiet
  BY <1>5 DEF Quiet
<1>6. QED
  BY <1>1, <1>2, <1>3, <1>4, <1>5, StepCases, RecedingIsQuiet

------------------------------------------------------------------------------
(* A slot is granted only when no execution holds the checkout, and a root *)
(* that moves later is that of a pinned ticket or an external terminal.    *)
LEMMA SerialInductive ==
    ASSUME TypeOK, \A r \in Runs : RootInv(r), SharedCheckoutSerial, [Next]_vars
    PROVE  SharedCheckoutSerial'
<1> USE DEF TypeOK, SharedCheckoutSerial, PastQueue, Starting, Shares, Pinned, External, Console
<1>1. ASSUME NEW r \in Runs, Enqueue(r) PROVE SharedCheckoutSerial'
  BY <1>1 DEF Enqueue, Register
<1>2. ASSUME NEW r \in Runs, OpenExternal(r) PROVE SharedCheckoutSerial'
  BY <1>2 DEF OpenExternal, Register
<1>3. ASSUME NEW r \in Runs, Grant(r) PROVE SharedCheckoutSerial'
  <2>1. \A o \in Runs \ {r} : ~(PastQueue(o) /\ Shares(o, r))
    BY <1>3 DEF Grant, Blocked
  <2>2. \A o \in Runs \ {r} : ~(PastQueue(o) /\ Shares(r, o))
    BY <2>1
  <2>3. UNCHANGED <<job, root>> /\ \A o \in Runs \ {r} : status'[o] = status[o]
    BY <1>3 DEF Grant
  <2>4. QED
    BY <2>1, <2>2, <2>3
<1>4. ASSUME NEW r \in Runs, Prepare(r) PROVE SharedCheckoutSerial'
  <2> SUFFICES ASSUME NEW o \in Runs, NEW s \in Runs, o # s,
                      PastQueue(o)', PastQueue(s)', Shares(o, s)',
                      \A k \in {o, s} : ~External(k)' /\ ~Pinned(k)'
               PROVE  FALSE
    OBVIOUS
  <2>1. job' = job /\ PastQueue(o) /\ PastQueue(s)
    BY <1>4 DEF Prepare
  <2>2. \A k \in Runs : RootInv(k)'
    BY <1>4, RootInductive DEF Next, Run
  <2>3. \A k \in {o, s} : root'[k] = root[k]
    BY <2>1, <2>2 DEF RootInv
  <2>4. Shares(o, s)
    BY <2>1, <2>3
  <2>5. QED
    BY <2>1, <2>4
<1>5. CASE Quiet
  BY <1>5 DEF Quiet
<1>6. QED
  BY <1>1, <1>2, <1>3, <1>4, <1>5, StepCases, RecedingIsQuiet

------------------------------------------------------------------------------
(* A subset of a set of runs is no larger. *)
LEMMA RunsCardinality ==
    ASSUME NEW T \in SUBSET Runs, NEW W \in SUBSET T
    PROVE  Cardinality(T) \in Nat /\ Cardinality(W) \in Nat /\ Cardinality(W) <= Cardinality(T)
<1>1. IsFiniteSet(T)
  BY RunsAssumption, FS_Subset
<1>2. QED
  BY <1>1, FS_Subset, FS_CardinalityType

(* Nobody begins to work but by a grant, and a grant is the latest one.    *)
LEMMA CapacityInductive ==
    ASSUME TypeOK, \A r \in Runs : LineInv(r), CapacityHeld, [Next]_vars
    PROVE  CapacityHeld'
<1> USE DEF TypeOK
<1>1. \A r \in Runs : job[r] \in Jobs /\ job[r].limit \in Nat
  BY JobsAssumption DEF IsJob
<1>2. ASSUME NEW r \in Runs, Working(r), job'[r] = job[r], EarlierWork(r)' \subseteq EarlierWork(r)
      PROVE  Cardinality(EarlierWork(r)') <= job'[r].limit
  <2>1. Cardinality(EarlierWork(r)) <= job[r].limit
    BY <1>2 DEF CapacityHeld
  <2>2. EarlierWork(r) \in SUBSET Runs /\ EarlierWork(r)' \in SUBSET EarlierWork(r)
    BY <1>2 DEF EarlierWork
  <2>3. /\ Cardinality(EarlierWork(r)) \in Nat /\ Cardinality(EarlierWork(r)') \in Nat
        /\ Cardinality(EarlierWork(r)') <= Cardinality(EarlierWork(r))
    BY <2>2, RunsCardinality
  <2>4. QED
    BY <1>1, <1>2, <2>1, <2>3
<1>3. ASSUME granted' = granted,
             \A s \in Runs : Working(s)' => Working(s) /\ job'[s] = job[s]
      PROVE  CapacityHeld'
  <2> SUFFICES ASSUME NEW r \in Runs, Working(r)'
               PROVE  Cardinality(EarlierWork(r)') <= job'[r].limit
    BY DEF CapacityHeld
  <2>1. EarlierWork(r)' \subseteq EarlierWork(r)
    BY <1>3 DEF EarlierWork
  <2>2. QED
    BY <1>2, <1>3, <2>1
<1>4. ASSUME NEW r \in Runs, Enqueue(r) PROVE CapacityHeld'
  BY <1>3, <1>4 DEF Enqueue, Register, Working, PastQueue, Starting, Task, slotVars
<1>5. ASSUME NEW r \in Runs, OpenExternal(r) PROVE CapacityHeld'
  BY <1>3, <1>5 DEF OpenExternal, Register, Working, PastQueue, Starting, Task, slotVars
<1>6. ASSUME NEW r \in Runs, Prepare(r) PROVE CapacityHeld'
  BY <1>3, <1>6 DEF Prepare, Working, PastQueue, Starting, Task, slotVars
<1>7. CASE Quiet
  BY <1>3, <1>7 DEF Quiet, Working, Task, slotVars
<1>8. ASSUME NEW r \in Runs, Grant(r) PROVE CapacityHeld'
  <2> SUFFICES ASSUME NEW s \in Runs, Working(s)'
               PROVE  Cardinality(EarlierWork(s)') <= job'[s].limit
    BY DEF CapacityHeld
  <2>1. /\ job' = job /\ \A q \in Runs \ {r} : granted'[q] = granted[q] /\ status'[q] = status[q]
        /\ granted'[r] = grants + 1 /\ status[r] = "queued"
    BY <1>8 DEF Grant
  <2>2. CASE s # r
    <3>1. Working(s)
      BY <2>1, <2>2 DEF Working, PastQueue, Starting, Task
    <3>2. r \notin EarlierWork(s)'
      BY <2>1, <2>2 DEF EarlierWork, LineInv
    <3>3. EarlierWork(s)' \subseteq EarlierWork(s)
      BY <2>1, <2>2, <3>2 DEF EarlierWork, Working, PastQueue, Starting, Task
    <3>4. QED
      BY <1>2, <2>1, <3>1, <3>3
  <2>3. CASE s = r
    <3>1. Task(r)
      BY <2>1, <2>3 DEF Working, Task
    <3>2. Cardinality(ActiveFor(r)) < job[r].limit
      BY <1>8, <3>1 DEF Grant, HasSlot, Console, Task
    <3>3. EarlierWork(r)' \subseteq ActiveFor(r) \union {r}
      BY <2>1, <3>1 DEF EarlierWork, ActiveFor, Working, PastQueue, Starting, Competes,
                        Task, Console
    <3>4. IsFiniteSet(ActiveFor(r)) /\ r \notin ActiveFor(r)
      BY RunsAssumption, FS_Subset DEF ActiveFor
    <3>5. Cardinality(ActiveFor(r) \union {r}) = Cardinality(ActiveFor(r)) + 1
      BY <3>4, FS_AddElement
    <3>6. /\ Cardinality(EarlierWork(r)') \in Nat
          /\ Cardinality(EarlierWork(r)') <= Cardinality(ActiveFor(r) \union {r})
      <4>1. ActiveFor(r) \union {r} \in SUBSET Runs
        BY DEF ActiveFor
      <4>2. QED
        BY <3>3, <4>1, RunsCardinality
    <3>7. Cardinality(ActiveFor(r)) \in Nat
      BY <3>4, FS_CardinalityType
    <3>8. QED
      BY <1>1, <2>1, <2>3, <3>2, <3>5, <3>6, <3>7
  <2>4. QED
    BY <2>2, <2>3
<1>9. QED
  BY <1>4, <1>5, <1>6, <1>7, <1>8, StepCases, RecedingIsQuiet

------------------------------------------------------------------------------
(* The newest is last in the line, and a grant finds nobody before it.     *)
LEMMA FirstComeInductive ==
    ASSUME TypeOK, \A r \in Runs : LineInv(r), FirstComeFirstServed, [Next]_vars
    PROVE  FirstComeFirstServed'
<1> USE DEF TypeOK, FirstComeFirstServed, GoesBefore, Competes, Console, Live, PastQueue, Starting
<1>1. ASSUME NEW r \in Runs, NEW j \in Jobs, NEW state \in {"queued", "preparing"},
             Register(r, j, state)
      PROVE  FirstComeFirstServed'
  <2> SUFFICES ASSUME NEW o \in Runs, NEW s \in Runs,
                      GoesBefore(o, s)', Competes(o, s)', Live(s)'
               PROVE  granted'[s] = 0
    OBVIOUS
  <2>1. /\ status[r] = "absent" /\ canceled' = canceled /\ granted' = granted
        /\ seq'[r] = sequence + 1
        /\ \A q \in Runs \ {r} : seq'[q] = seq[q] /\ job'[q] = job[q] /\ status'[q] = status[q]
    BY <1>1 DEF Register, MayRegister, slotVars
  <2>2. CASE s = r
    BY <2>1, <2>2 DEF LineInv
  <2>3. CASE s # r
    <3>1. o # r
      BY <2>1, <2>3 DEF LineInv
    <3>2. QED
      BY <2>1, <2>3, <3>1
  <2>4. QED
    BY <2>2, <2>3
<1>2. ASSUME NEW r \in Runs, Grant(r) PROVE FirstComeFirstServed'
  <2> SUFFICES ASSUME NEW o \in Runs, NEW s \in Runs,
                      GoesBefore(o, s)', Competes(o, s)', Live(s)'
               PROVE  granted'[s] = 0
    OBVIOUS
  <2>1. /\ UNCHANGED <<job, canceled, seq>> /\ status[r] = "queued"
        /\ \A q \in Runs \ {r} : granted'[q] = granted[q] /\ status'[q] = status[q]
        /\ status'[r] = "preparing"
    BY <1>2 DEF Grant, lineVars
  <2>2. o # r /\ GoesBefore(o, s) /\ Competes(o, s)
    BY <2>1
  <2>3. s # r
    BY <1>2, <2>2 DEF Grant, Blocked
  <2>4. QED
    BY <2>1, <2>2, <2>3
<1>3. ASSUME NEW r \in Runs, Prepare(r) PROVE FirstComeFirstServed'
  BY <1>3 DEF Prepare, lineVars, slotVars
<1>4. CASE Quiet
  BY <1>4 DEF Quiet, lineVars, slotVars
<1>5. QED
  BY <1>1, <1>2, <1>3, <1>4, StepCases, RecedingIsQuiet DEF Enqueue, OpenExternal

(* Once the agent is to stop nothing lives, and nothing is admitted.       *)
LEMMA RestartInductive ==
    ASSUME TypeOK, RestartKillsNothing, [Next]_vars
    PROVE  RestartKillsNothing'
<1> USE DEF TypeOK, RestartKillsNothing, Live, PastQueue, Starting
<1>1. ASSUME NEW r \in Runs, Enqueue(r) \/ OpenExternal(r) PROVE RestartKillsNothing'
  BY <1>1 DEF Enqueue, OpenExternal, Register, MayRegister
<1>2. ASSUME NEW r \in Runs, Grant(r) \/ Prepare(r) PROVE RestartKillsNothing'
  BY <1>2 DEF Grant, Prepare
<1>3. CASE Shutdown
  BY <1>3 DEF Shutdown
<1>4. CASE Quiet /\ UNCHANGED shuttingDown
  BY <1>4 DEF Quiet
<1>5. ((\E r \in Runs : Recedes(r)) \/ Clear \/ UNCHANGED vars) => UNCHANGED shuttingDown
  BY DEF Recedes, Withdraw, Start, FailStart, Exit, Cancel, Clear, vars
<1>6. QED
  BY <1>1, <1>2, <1>3, <1>4, <1>5, StepCases, RecedingIsQuiet

------------------------------------------------------------------------------
(* The inductive invariant: the line, the roots and the four properties of *)
(* awaitRunSlot, whatever the workstation is asked for.                    *)
THEOREM Invariance == Spec => []IInv
<1>1. Init => IInv
  <2> SUFFICES ASSUME Init PROVE IInv
    OBVIOUS
  <2>1. TypeOK
    BY JobsAssumption DEF Init, TypeOK
  <2>2. \A r \in Runs : LineInv(r) /\ RootInv(r)
    BY DEF Init, LineInv, RootInv, PastQueue, Starting
  <2>3. \A r \in Runs : ~Live(r)
    BY DEF Init, Live, PastQueue, Starting
  <2>4. SharedCheckoutSerial /\ CapacityHeld /\ FirstComeFirstServed /\ RestartKillsNothing
    BY <2>3 DEF Live, SharedCheckoutSerial, CapacityHeld, Working, FirstComeFirstServed,
                RestartKillsNothing
  <2>5. QED
    BY <2>1, <2>2, <2>4 DEF IInv
<1>2. IInv /\ [Next]_vars => IInv'
  BY TypeInductive, LineInductive, RootInductive, SerialInductive, CapacityInductive,
     FirstComeInductive, RestartInductive DEF IInv
<1>3. QED
  BY <1>1, <1>2, PTL DEF Spec

(* Shared checkouts execute serially, the external terminals and the       *)
(* tickets pinned to another repository excepted.                          *)
THEOREM SharedCheckoutSerialHolds == Spec => []SharedCheckoutSerial
<1>1. IInv => SharedCheckoutSerial
  BY DEF IInv
<1>2. QED
  BY <1>1, Invariance, PTL

(* The limit of a project holds, were it edited between two dispatches.    *)
THEOREM CapacityHeldHolds == Spec => []CapacityHeld
<1>1. IInv => CapacityHeld
  BY DEF IInv
<1>2. QED
  BY <1>1, Invariance, PTL

(* Nobody overtakes a waiting run of his project.                          *)
THEOREM FirstComeFirstServedHolds == Spec => []FirstComeFirstServed
<1>1. IInv => FirstComeFirstServed
  BY DEF IInv
<1>2. QED
  BY <1>1, Invariance, PTL

(* A stop or restart of the agent finds no execution, nor any later.       *)
THEOREM RestartKillsNothingHolds == Spec => []RestartKillsNothing
<1>1. IInv => RestartKillsNothing
  BY DEF IInv
<1>2. QED
  BY <1>1, Invariance, PTL

------------------------------------------------------------------------------
(* Of any runs, one has the least number: the line is well founded, so it  *)
(* has a first whoever left it.                                            *)
LEMMA SomebodyIsFirst ==
    ASSUME NEW W, W # {}, NEW number, \A r \in W : number[r] \in Nat
    PROVE  \E r \in W : \A o \in W : ~(number[o] < number[r])
<1> DEFINE Line == OpToRel(<, Nat)
           Numbers == {number[r] : r \in W}
<1>1. Numbers \subseteq Nat /\ Numbers # {}
  OBVIOUS
<1>2. PICK n \in Numbers : \A m \in Numbers : <<m, n>> \notin Line
  <2>1. IsWellFoundedOn(Line, Nat)
    BY NatLessThanWellFounded, Zenon
  <2> HIDE DEF Line, Numbers
  <2>2. QED
    BY <1>1, <2>1, WFMin
<1>3. \A m \in Numbers : ~(m < n)
  BY <1>1, <1>2 DEF OpToRel
<1>4. PICK r \in W : number[r] = n
  OBVIOUS
<1>5. QED
  BY <1>3, <1>4

(* The queue cannot stop by itself: with no execution left, the first of   *)
(* the runs that wait finds neither a run before it nor a slot taken.      *)
THEOREM SomebodyAdvancesHolds == Spec => []SomebodyAdvances
<1>1. TypeOK => SomebodyAdvances
  <2> SUFFICES ASSUME TypeOK, NEW w \in Runs, Waiting(w), \A r \in Runs : ~PastQueue(r)
               PROVE  \E r \in Runs : Waiting(r) /\ ~Blocked(r) /\ HasSlot(r)
    BY DEF SomebodyAdvances
  <2> DEFINE W == {r \in Runs : Waiting(r)}
  <2>1. PICK r \in W : \A o \in W : ~(seq[o] < seq[r])
    <3>1. W # {} /\ \A r \in W : seq[r] \in Nat
      BY DEF TypeOK
    <3> HIDE DEF W
    <3>2. QED
      BY <3>1, SomebodyIsFirst
  <2>2. ~Blocked(r)
    BY <2>1 DEF Blocked, GoesBefore, Waiting
  <2>3. HasSlot(r)
    <3>1. ActiveFor(r) = {}
      BY DEF ActiveFor
    <3>2. job[r].limit \in Nat \ {0}
      BY JobsAssumption DEF TypeOK, IsJob
    <3>3. QED
      BY <3>1, <3>2, FS_EmptySet DEF HasSlot
  <2>4. QED
    BY <2>1, <2>2, <2>3
<1>2. IInv => TypeOK
  BY DEF IInv
<1>3. QED
  BY <1>1, <1>2, Invariance, PTL

(* A project never has more working runs than the limit one of them was    *)
(* dispatched under: the limit, as long as nobody edits it.  The last of   *)
(* them that was given its slot counted all the others.                    *)
THEOREM ProjectWithinItsLimitHolds == Spec => []ProjectWithinItsLimit
<1>1. IInv => ProjectWithinItsLimit
  <2> SUFFICES ASSUME IInv, NEW r \in Runs, Working(r)
               PROVE  \E s \in WorkOf(r) : Cardinality(WorkOf(r)) <= job[s].limit
    BY DEF ProjectWithinItsLimit
  <2> DEFINE back == [q \in Runs |-> grants - granted[q]]
  <2>1. WorkOf(r) \subseteq Runs /\ r \in WorkOf(r)
    BY DEF WorkOf
  <2>2. \A q \in Runs : granted[q] \in Nat /\ granted[q] <= grants /\ grants \in Nat
    BY DEF IInv, TypeOK, LineInv
  <2>3. PICK s \in WorkOf(r) : \A o \in WorkOf(r) : ~(back[o] < back[s])
    <3>1. \A q \in WorkOf(r) : back[q] \in Nat
      BY <2>1, <2>2
    <3> HIDE DEF back
    <3>2. QED
      BY <2>1, <3>1, SomebodyIsFirst
  <2>4. ASSUME NEW o \in WorkOf(r) PROVE granted[o] <= granted[s]
    <3>1. /\ granted[o] \in Nat /\ granted[s] \in Nat /\ grants \in Nat
          /\ back[o] = grants - granted[o] /\ back[s] = grants - granted[s]
      BY <2>1, <2>2
    <3>2. ~(back[o] < back[s])
      BY <2>3
    <3> HIDE DEF back
    <3>3. QED
      BY <3>1, <3>2
  <2>5. Working(s) /\ job[s].project = job[r].project
    BY DEF WorkOf
  <2>6. WorkOf(r) \subseteq EarlierWork(s)
    BY <2>4, <2>5 DEF WorkOf, EarlierWork
  <2>7. Cardinality(EarlierWork(s)) <= job[s].limit
    BY <2>1, <2>5 DEF IInv, CapacityHeld
  <2>8. Cardinality(WorkOf(r)) <= Cardinality(EarlierWork(s))
    <3>1. EarlierWork(s) \in SUBSET Runs
      BY DEF EarlierWork
    <3>2. QED
      BY <2>6, <3>1, RunsCardinality
  <2>9. job[s].limit \in Nat /\ Cardinality(WorkOf(r)) \in Nat /\ Cardinality(EarlierWork(s)) \in Nat
    <3>1. EarlierWork(s) \in SUBSET Runs /\ WorkOf(r) \in SUBSET Runs
      BY DEF EarlierWork, WorkOf
    <3>2. job[s].limit \in Nat
      BY <2>1, JobsAssumption DEF IInv, TypeOK, IsJob
    <3>3. QED
      BY <3>1, <3>2, RunsCardinality
  <2>10. QED
    BY <2>7, <2>8, <2>9
<1>2. QED
  BY <1>1, Invariance, PTL
==============================================================================
