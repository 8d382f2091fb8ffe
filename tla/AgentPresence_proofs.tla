------------------------- MODULE AgentPresence_proofs -------------------------
(***************************************************************************)
(* A workstation that works keeps its route, for any server instances, any *)
(* number of dials and any balancer.                                       *)
(***************************************************************************)
EXTENDS AgentPresence, TLAPS

LEMMA StepCases ==
    ASSUME [Next]_vars
    PROVE  \/ \E c \in Connections, i \in Instances : Dial(c, i)
           \/ Lose \/ SeeClosed
           \/ \E c \in Connections : Register(c) \/ HangUp(c)
           \/ \E c \in Connections : Record(c) \/ RecordFails(c)
           \/ \E c \in Connections : ReadEnds(c) \/ SendFails(c)
           \/ \E c \in Connections : Forget(c) \/ ForgetFails(c)
           \/ \E c \in Connections : Close(c) \/ Ping(c) \/ Report(c)
           \/ Silence \/ Heartbeat \/ Reap
           \/ \E i \in Instances : Crash(i)
           \/ UNCHANGED vars
  BY DEF Next, Workstation, Connection

(* Connections are numbers, and None is neither one nor an instance. *)
LEMMA Names ==
    /\ None \notin Connections /\ None \notin Instances
    /\ \A c \in Connections : c \in Nat
  BY PresenceAssumption DEF Connections

------------------------------------------------------------------------------
(* Types. *)

LEMMA TypeInductive ==
    ASSUME TypeOK, Numbering, [Next]_vars
    PROVE  TypeOK'
<1> USE Names DEF TypeOK
(* The home of a connection that is used is an instance. *)
<1>home. \A c \in Connections : stage[c] # "unused" => home[c] \in Instances
  BY DEF Numbering
<1>1. ASSUME NEW c \in Connections, NEW i \in Instances, Dial(c, i) PROVE TypeOK'
  BY <1>1 DEF Dial
<1>2. CASE Lose \/ SeeClosed
  BY <1>2 DEF Lose, SeeClosed, conns
<1>3. ASSUME NEW c \in Connections, Register(c) \/ HangUp(c) PROVE TypeOK'
  <2>1. CASE Register(c)
    <3>1. slot[home[c]] \in Connections \union {None}
      BY <2>1, <1>home DEF Register
    <3>2. /\ slot' = [slot EXCEPT ![home[c]] = c]
          /\ displaced' = [displaced EXCEPT ![c] = slot[home[c]]]
          /\ stage' = [stage EXCEPT ![c] = "registering"]
          /\ UNCHANGED <<held, home, open, end, row, listed, closing, up, missed, early>>
      BY <2>1 DEF Register
    <3>3. QED
      BY <3>1, <3>2
  <2>2. CASE HangUp(c)
    BY <2>2 DEF HangUp
  <2>3. QED
    BY <1>3, <2>1, <2>2
<1>4. ASSUME NEW c \in Connections, Record(c) \/ RecordFails(c) PROVE TypeOK'
  BY <1>4, ZenonT(60) DEF Record, RecordFails
<1>5. ASSUME NEW c \in Connections, ReadEnds(c) \/ SendFails(c) PROVE TypeOK'
  BY <1>5 DEF ReadEnds, SendFails, Unregister
<1>6. ASSUME NEW c \in Connections, Forget(c) \/ ForgetFails(c) PROVE TypeOK'
  <2>1. /\ \/ end' = [end EXCEPT ![c] = "done"]
           \/ end' = [end EXCEPT ![c] = "failed"]
        /\ row' \in {row, None} /\ early' \subseteq early \union {c}
        /\ UNCHANGED <<held, home, stage, open, slot, displaced, closing, up>>
    BY <1>6 DEF Forget, ForgetFails
  <2>2. listed' \in BOOLEAN /\ missed' \in BOOLEAN
    <3>1. CASE Forget(c)
      BY <3>1, Zenon DEF Forget
    <3>2. CASE ForgetFails(c)
      BY <3>2 DEF ForgetFails
    <3>3. QED
      BY <1>6, <3>1, <3>2
  <2>3. QED
    BY <2>1, <2>2
<1>7. ASSUME NEW c \in Connections, Close(c) \/ Ping(c) \/ Report(c) PROVE TypeOK'
  BY <1>7 DEF Close, Ping, Report, conns
<1>8. CASE Silence \/ Heartbeat \/ Reap
  BY <1>8 DEF Silence, Heartbeat, Reap, conns
<1>9. ASSUME NEW i \in Instances, Crash(i) PROVE TypeOK'
  BY <1>9 DEF Crash
<1>10. CASE UNCHANGED vars
  BY <1>10 DEF vars, conns
<1>11. QED
  BY <1>1, <1>2, <1>3, <1>4, <1>5, <1>6, <1>7, <1>8, <1>9, <1>10, StepCases

------------------------------------------------------------------------------
(* Connections are used in the order of their dials. *)

LEMMA NumberingInductive ==
    ASSUME TypeOK, Numbering, [Next]_vars
    PROVE  Numbering'
<1> USE Names DEF TypeOK, Numbering
(* Apart from a dial, no connection begins to be used or to be unused. *)
<1>1. ASSUME held' \in {held, None}, home' = home,
             \A c \in Connections : stage'[c] = "unused" <=> stage[c] = "unused"
      PROVE  Numbering'
  BY <1>1
<1>2. ASSUME NEW c \in Connections, NEW i \in Instances, Dial(c, i) PROVE Numbering'
  <2>1. /\ stage' = [stage EXCEPT ![c] = "accepted"]
        /\ home' = [home EXCEPT ![c] = i]
        /\ held' = c /\ stage[c] = "unused"
        /\ \A d \in Connections : d < c => stage[d] # "unused"
    BY <1>2 DEF Dial
  <2>2. \A d \in Connections : d > c => stage'[d] = "unused"
    BY <2>1
  <2>3. ASSUME NEW d \in Connections, NEW e \in Connections, d < e, stage'[d] = "unused"
        PROVE  stage'[e] = "unused"
    BY <2>1, <2>2, <2>3
  <2>4. QED
    BY <2>1, <2>2, <2>3
<1>3. CASE Lose \/ SeeClosed
  BY <1>1, <1>3 DEF Lose, SeeClosed, conns
<1>4. ASSUME NEW c \in Connections, Register(c) \/ HangUp(c) \/ Record(c) \/ RecordFails(c)
      PROVE  Numbering'
  BY <1>1, <1>4 DEF Register, HangUp, Record, RecordFails
<1>5. ASSUME NEW c \in Connections, ReadEnds(c) \/ SendFails(c) PROVE Numbering'
  BY <1>1, <1>5 DEF ReadEnds, SendFails
<1>6. ASSUME NEW c \in Connections, Forget(c) \/ ForgetFails(c) PROVE Numbering'
  BY <1>1, <1>6 DEF Forget, ForgetFails
<1>7. ASSUME NEW c \in Connections, Close(c) \/ Ping(c) \/ Report(c) PROVE Numbering'
  BY <1>1, <1>7 DEF Close, Ping, Report, conns
<1>8. CASE Silence \/ Heartbeat \/ Reap
  BY <1>1, <1>8 DEF Silence, Heartbeat, Reap, conns
<1>9. ASSUME NEW i \in Instances, Crash(i) PROVE Numbering'
  <2>1. \A c \in Connections : stage'[c] = "unused" <=> stage[c] = "unused"
    BY <1>9 DEF Crash
  <2>2. QED
    BY <1>1, <1>9, <2>1 DEF Crash
<1>10. CASE UNCHANGED vars
  BY <1>1, <1>10 DEF vars, conns
<1>11. QED
  BY <1>2, <1>3, <1>4, <1>5, <1>6, <1>7, <1>8, <1>9, <1>10, StepCases

------------------------------------------------------------------------------
(* Slots, row and closes. *)

SlotsHome ==
    \A i \in Instances : slot[i] # None =>
        /\ home[slot[i]] = i /\ end[slot[i]] = "open"
        /\ stage[slot[i]] \in {"registering", "reading"}

FreshOpen ==
    \A c \in Connections : stage[c] \in {"unused", "accepted"} => end[c] = "open"

OpenHaveSlots ==
    \A c \in Connections :
        stage[c] \in {"registering", "reading"} /\ c \in open /\ end[c] = "open"
          => slot[home[c]] = c \/ \E d \in Connections : displaced[d] = c

DisplacedHome ==
    \A c \in Connections : displaced[c] # None =>
        /\ stage[c] = "registering" /\ displaced[c] # c
        /\ home[displaced[c]] = home[c]

RowKnown ==
    /\ row # None => stage[row] \in {"reading", "gone"}
    /\ missed => row # None
    /\ \A c \in closing : stage[c] \in {"reading", "gone"} /\ row # c

LEMMA SlotsInductive ==
    ASSUME TypeOK, Numbering, SlotsHome, FreshOpen, OpenHaveSlots, DisplacedHome, [Next]_vars
    PROVE  (SlotsHome /\ FreshOpen /\ OpenHaveSlots /\ DisplacedHome)'
<1> DEFINE Goal == (SlotsHome /\ FreshOpen /\ OpenHaveSlots /\ DisplacedHome)'
<1> SUFFICES Goal
  OBVIOUS
<1> USE Names DEF TypeOK, SlotsHome, FreshOpen, OpenHaveSlots, DisplacedHome
(* The home of a connection that is used is an instance. *)
<1>home. \A c \in Connections : stage[c] # "unused" => home[c] \in Instances
  BY DEF Numbering
<1>1. ASSUME UNCHANGED <<home, stage, slot, displaced>>, open' \subseteq open,
             \A c \in Connections : end'[c] = "open" <=> end[c] = "open"
      PROVE  Goal
  BY <1>1
<1>2. ASSUME NEW c \in Connections, NEW i \in Instances, Dial(c, i) PROVE Goal
  <2>0. /\ home' = [home EXCEPT ![c] = i] /\ stage' = [stage EXCEPT ![c] = "accepted"]
        /\ stage[c] = "unused" /\ home[c] = None
        /\ open' = open \union {c} /\ UNCHANGED <<end, slot, displaced>>
    BY <1>2 DEF Dial, Numbering
  <2>1. SlotsHome'
    BY <2>0
  <2>2. OpenHaveSlots'
    BY <2>0
  <2>3. FreshOpen'
    BY <2>0
  <2>4. DisplacedHome'
    <3>1. \A d \in Connections : displaced[d] # None => d # c /\ displaced[d] # c
      BY <2>0, <1>home
    <3>2. QED
      BY <2>0, <3>1
  <2>5. QED
    BY <2>1, <2>2, <2>3, <2>4
<1>3. CASE Lose \/ SeeClosed
  BY <1>1, <1>3 DEF Lose, SeeClosed, conns
<1>4. ASSUME NEW c \in Connections, Register(c) PROVE Goal
  <2>1. /\ stage[c] = "accepted" /\ home[c] \in Instances
        /\ stage' = [stage EXCEPT ![c] = "registering"]
        /\ slot' = [slot EXCEPT ![home[c]] = c]
        /\ displaced' = [displaced EXCEPT ![c] = slot[home[c]]]
        /\ open' = open /\ home' = home /\ end' = end
    BY <1>4, <1>home DEF Register
  <2>2. SlotsHome'
    BY <2>1
  <2>3. ASSUME NEW d \in Connections, d # c, d \in open,
               stage[d] \in {"registering", "reading"}, end[d] = "open"
        PROVE  slot'[home[d]] = d \/ \E e \in Connections : displaced'[e] = d
    <3>1. CASE slot[home[d]] = d
      BY <2>1, <2>3, <3>1
    <3>2. CASE slot[home[d]] # d
      <4>1. PICK e \in Connections : displaced[e] = d
        BY <2>3, <3>2
      <4>2. e # c
        BY <2>1, <4>1
      <4>3. QED
        BY <2>1, <4>1, <4>2
    <3>3. QED
      BY <3>1, <3>2
  <2>4. OpenHaveSlots'
    BY <2>1, <2>3
  <2>5. FreshOpen'
    BY <2>1
  <2>6. DisplacedHome'
    <3>1. slot[home[c]] # None => slot[home[c]] # c /\ home[slot[home[c]]] = home[c]
      BY <2>1
    <3>2. QED
      BY <2>1, <3>1
  <2>7. QED
    BY <2>2, <2>4, <2>5, <2>6
<1>5. ASSUME NEW c \in Connections, HangUp(c) PROVE Goal
  <2>1. /\ displaced' = [displaced EXCEPT ![c] = None] /\ open' = open \ {displaced[c]}
        /\ UNCHANGED <<home, stage, end, slot>>
    BY <1>5 DEF HangUp
  <2>2. ASSUME NEW d \in open', NEW e \in Connections, displaced[e] = d
        PROVE  displaced'[e] = d
    BY <2>1, <2>2
  <2>3. OpenHaveSlots'
    BY <2>1, <2>2
  <2>4. QED
    BY <2>1, <2>3
<1>6. ASSUME NEW c \in Connections, Record(c) \/ RecordFails(c) PROVE Goal
  <2>1. /\ stage[c] = "registering" /\ stage' = [stage EXCEPT ![c] = "reading"]
        /\ displaced[c] = None
        /\ UNCHANGED <<home, slot, displaced, end>> /\ open' \subseteq open
    BY <1>6 DEF Record, RecordFails
  <2>2. QED
    BY <2>1
<1>7. ASSUME NEW c \in Connections, ReadEnds(c) \/ SendFails(c) PROVE Goal
  <2>1. /\ UNCHANGED <<home, displaced>> /\ open' \subseteq open /\ home[c] \in Instances
        /\ \/ stage' = stage /\ end[c] = "open" /\ stage[c] \in {"registering", "reading"}
           \/ stage[c] = "reading" /\ stage' = [stage EXCEPT ![c] = "gone"]
        /\ Unregister(c)
    BY <1>7, <1>home DEF ReadEnds, SendFails
  <2>2. DisplacedHome'
    BY <2>1
  <2>3. CASE end[c] = "open"
    <3>1. /\ end' = [end EXCEPT ![c] = "due"]
          /\ slot' = [slot EXCEPT ![home[c]] = IF @ = c THEN None ELSE @]
      BY <2>1, <2>3 DEF Unregister
    <3>2. \A i \in Instances : slot'[i] # None => slot'[i] = slot[i] /\ slot[i] # c
      BY <2>1, <3>1
    <3>3. SlotsHome'
      BY <2>1, <3>1, <3>2
    <3>4. OpenHaveSlots'
      BY <2>1, <3>1
    <3>5. FreshOpen'
      BY <2>1, <3>1
    <3>6. QED
      BY <2>2, <3>3, <3>4, <3>5
  <2>4. CASE end[c] # "open"
    <3>1. /\ UNCHANGED <<end, slot>> /\ stage' = [stage EXCEPT ![c] = "gone"]
      BY <2>1, <2>4 DEF Unregister
    <3>2. \A i \in Instances : slot[i] # c
      BY <2>4
    <3>3. QED
      BY <2>1, <2>2, <3>1, <3>2
  <2>5. QED
    BY <2>3, <2>4
<1>8. ASSUME NEW c \in Connections, Forget(c) \/ ForgetFails(c) PROVE Goal
  BY <1>1, <1>8 DEF Forget, ForgetFails
<1>9. ASSUME NEW c \in Connections, Close(c) \/ Ping(c) \/ Report(c) PROVE Goal
  BY <1>1, <1>9 DEF Close, Ping, Report, conns
<1>10. CASE Silence \/ Heartbeat \/ Reap
  BY <1>1, <1>10 DEF Silence, Heartbeat, Reap, conns
<1>11. ASSUME NEW i \in Instances, Crash(i) PROVE Goal
  <2>1. /\ stage' = [c \in Connections |-> IF home[c] = i THEN "gone" ELSE stage[c]]
        /\ slot' = [slot EXCEPT ![i] = None]
        /\ displaced' = [c \in Connections |-> IF home[c] = i THEN None ELSE displaced[c]]
        /\ home' = home /\ end' = end /\ open' \subseteq open
    BY <1>11 DEF Crash
  <2>2. SlotsHome'
    BY <2>1
  <2>3. ASSUME NEW d \in Connections, d \in open', stage'[d] \in {"registering", "reading"},
               end'[d] = "open"
        PROVE  slot'[home'[d]] = d \/ \E e \in Connections : displaced'[e] = d
    <3>1. /\ home[d] # i /\ home[d] \in Instances /\ d \in open /\ end[d] = "open"
          /\ stage[d] \in {"registering", "reading"}
      BY <2>1, <2>3, <1>home
    <3>2. CASE slot[home[d]] = d
      BY <2>1, <3>1, <3>2
    <3>3. CASE slot[home[d]] # d
      <4>1. PICK e \in Connections : displaced[e] = d
        BY <3>1, <3>3
      <4>2. home[e] # i
        BY <3>1, <4>1
      <4>3. QED
        BY <2>1, <4>1, <4>2
    <3>4. QED
      BY <3>2, <3>3
  <2>4. OpenHaveSlots'
    BY <2>3
  <2>5. FreshOpen'
    BY <2>1
  <2>6. DisplacedHome'
    BY <2>1
  <2>7. QED
    BY <2>2, <2>4, <2>5, <2>6
<1>12. CASE UNCHANGED vars
  BY <1>1, <1>12 DEF vars, conns
<1>13. QED
  BY <1>2, <1>3, <1>4, <1>5, <1>6, <1>7, <1>8, <1>9, <1>10, <1>11, <1>12, StepCases

LEMMA RowInductive ==
    ASSUME TypeOK, RowKnown, [Next]_vars
    PROVE  RowKnown'
<1> USE Names DEF TypeOK, RowKnown
<1>1. ASSUME UNCHANGED <<row, missed>>, closing' \subseteq closing,
             \A c \in Connections : stage[c] \in {"reading", "gone"} => stage'[c] \in {"reading", "gone"}
      PROVE  RowKnown'
  BY <1>1
<1>2. ASSUME NEW c \in Connections, NEW i \in Instances, Dial(c, i) PROVE RowKnown'
  BY <1>1, <1>2 DEF Dial
<1>3. CASE Lose \/ SeeClosed
  BY <1>1, <1>3 DEF Lose, SeeClosed, conns
<1>4. ASSUME NEW c \in Connections, Register(c) \/ HangUp(c) \/ RecordFails(c) PROVE RowKnown'
  BY <1>1, <1>4 DEF Register, HangUp, RecordFails
<1>5. ASSUME NEW c \in Connections, Record(c) PROVE RowKnown'
  <2>1. /\ stage[c] = "registering" /\ stage' = [stage EXCEPT ![c] = "reading"]
        /\ row' = c /\ ~missed'
        /\ closing' \subseteq closing \union ({row} \ {None})
    BY <1>5 DEF Record
  <2>2. QED
    BY <2>1
<1>6. ASSUME NEW c \in Connections, ReadEnds(c) \/ SendFails(c) PROVE RowKnown'
  BY <1>1, <1>6 DEF ReadEnds, SendFails
<1>7. ASSUME NEW c \in Connections, Forget(c) PROVE RowKnown'
  BY <1>7 DEF Forget
<1>8. ASSUME NEW c \in Connections, ForgetFails(c) \/ Close(c) \/ Ping(c) \/ Report(c) PROVE RowKnown'
  BY <1>1, <1>8 DEF ForgetFails, Close, Ping, Report, conns
<1>9. CASE Silence \/ Heartbeat \/ Reap
  BY <1>9 DEF Silence, Heartbeat, Reap, conns
<1>10. ASSUME NEW i \in Instances, Crash(i) PROVE RowKnown'
  BY <1>1, <1>10 DEF Crash
<1>11. CASE UNCHANGED vars
  BY <1>1, <1>11 DEF vars, conns
<1>12. QED
  BY <1>2, <1>3, <1>4, <1>5, <1>6, <1>7, <1>8, <1>9, <1>10, <1>11, StepCases

(* A connection whose handler returned is hung up. *)
GoneClosed == \A c \in open : stage[c] # "gone"

LEMMA GoneInductive ==
    ASSUME TypeOK, GoneClosed, [Next]_vars
    PROVE  GoneClosed'
<1> USE DEF TypeOK, GoneClosed
<1>1. ASSUME open' \subseteq open, \A c \in open' : stage'[c] = "gone" => stage[c] = "gone"
      PROVE  GoneClosed'
  BY <1>1
<1>2. ASSUME NEW c \in Connections, NEW i \in Instances, Dial(c, i) PROVE GoneClosed'
  BY <1>2 DEF Dial
<1>3. CASE Lose \/ SeeClosed
  BY <1>1, <1>3 DEF Lose, SeeClosed, conns
<1>4. ASSUME NEW c \in Connections, Register(c) \/ HangUp(c) \/ Record(c) \/ RecordFails(c)
      PROVE  GoneClosed'
  BY <1>1, <1>4 DEF Register, HangUp, Record, RecordFails
<1>5. ASSUME NEW c \in Connections, ReadEnds(c) \/ SendFails(c) PROVE GoneClosed'
  BY <1>1, <1>5 DEF ReadEnds, SendFails
<1>6. ASSUME NEW c \in Connections, Forget(c) \/ ForgetFails(c) PROVE GoneClosed'
  BY <1>1, <1>6 DEF Forget, ForgetFails
<1>7. ASSUME NEW c \in Connections, Close(c) \/ Ping(c) \/ Report(c) PROVE GoneClosed'
  BY <1>1, <1>7 DEF Close, Ping, Report, conns
<1>8. CASE Silence \/ Heartbeat \/ Reap
  BY <1>1, <1>8 DEF Silence, Heartbeat, Reap, conns
<1>9. ASSUME NEW i \in Instances, Crash(i) PROVE GoneClosed'
  BY <1>1, <1>9 DEF Crash
<1>10. CASE UNCHANGED vars
  BY <1>1, <1>10 DEF vars, conns
<1>11. QED
  BY <1>2, <1>3, <1>4, <1>5, <1>6, <1>7, <1>8, <1>9, <1>10, StepCases

------------------------------------------------------------------------------
(* A removal is kept. *)

RemovedEarly ==
    \A c \in Connections : stage[c] = "registering" /\ end[c] = "done" => c \in early

LEMMA RemovalInductive ==
    ASSUME TypeOK, FreshOpen, RemovedEarly, RemovalIsKept, [Next]_vars
    PROVE  RemovedEarly' /\ RemovalIsKept'
<1> USE Names DEF TypeOK, RemovedEarly, RemovalIsKept
<1>1. ASSUME row' \in {row, None}, early' = early,
             \A c \in Connections : end'[c] = "done" => end[c] = "done",
             \A c \in Connections : stage'[c] = "registering" /\ end'[c] = "done"
                                      => stage[c] = "registering" \/ c \in early
      PROVE  RemovedEarly' /\ RemovalIsKept'
  BY <1>1
<1>2. ASSUME NEW c \in Connections, NEW i \in Instances, Dial(c, i)
      PROVE  RemovedEarly' /\ RemovalIsKept'
  BY <1>1, <1>2 DEF Dial
<1>3. CASE Lose \/ SeeClosed
  BY <1>1, <1>3 DEF Lose, SeeClosed, conns
<1>4. ASSUME NEW c \in Connections, Register(c) PROVE RemovedEarly' /\ RemovalIsKept'
  BY <1>4 DEF Register, FreshOpen
<1>5. ASSUME NEW c \in Connections, Record(c) PROVE RemovedEarly' /\ RemovalIsKept'
  BY <1>5 DEF Record
<1>6. ASSUME NEW c \in Connections, HangUp(c) \/ RecordFails(c)
      PROVE  RemovedEarly' /\ RemovalIsKept'
  BY <1>1, <1>6 DEF HangUp, RecordFails
<1>7. ASSUME NEW c \in Connections, ReadEnds(c) \/ SendFails(c)
      PROVE  RemovedEarly' /\ RemovalIsKept'
  BY <1>1, <1>7 DEF ReadEnds, SendFails, Unregister
<1>8. ASSUME NEW c \in Connections, Forget(c) PROVE RemovedEarly' /\ RemovalIsKept'
  BY <1>8 DEF Forget
<1>9. ASSUME NEW c \in Connections, ForgetFails(c) \/ Close(c) \/ Ping(c) \/ Report(c)
      PROVE  RemovedEarly' /\ RemovalIsKept'
  BY <1>1, <1>9 DEF ForgetFails, Close, Ping, Report, conns
<1>10. CASE Silence \/ Heartbeat \/ Reap
  BY <1>1, <1>10 DEF Silence, Heartbeat, Reap, conns
<1>11. ASSUME NEW i \in Instances, Crash(i) PROVE RemovedEarly' /\ RemovalIsKept'
  BY <1>1, <1>11 DEF Crash
<1>12. CASE UNCHANGED vars
  BY <1>1, <1>12 DEF vars, conns
<1>13. QED
  BY <1>2, <1>3, <1>4, <1>5, <1>6, <1>7, <1>8, <1>9, <1>10, <1>11, <1>12, StepCases

------------------------------------------------------------------------------
(* The invariant. *)

LEMMA IInvParts ==
    IInv <=> /\ TypeOK /\ Numbering /\ SlotsHome /\ FreshOpen /\ OpenHaveSlots
             /\ DisplacedHome /\ RowKnown /\ GoneClosed /\ RemovedEarly /\ RemovalIsKept
  BY DEF IInv, Tables, SlotsHome, FreshOpen, OpenHaveSlots, DisplacedHome, RowKnown,
         GoneClosed, RemovedEarly

(* Slots, directory and closes agree on which connection is which, after   *)
(* any number of dials, faults and instances: the inductive invariant.     *)
THEOREM Invariance == Spec => []IInv
<1>1. Init => IInv
  <2> SUFFICES ASSUME Init PROVE IInv
    OBVIOUS
  <2>1. TypeOK
    BY Names DEF Init, TypeOK
  <2>2. Numbering /\ Tables
    BY Names DEF Init, Numbering, Tables
  <2>3. QED
    BY <2>1, <2>2, Names DEF Init, IInv, RemovalIsKept
<1>2. IInv /\ [Next]_vars => IInv'
  BY IInvParts, TypeInductive, NumberingInductive, SlotsInductive, RowInductive, GoneInductive,
     RemovalInductive
     DEF SlotsHome, FreshOpen, OpenHaveSlots, DisplacedHome, RowKnown, GoneClosed, RemovedEarly,
         IInv, Tables
<1>3. QED
  BY <1>1, <1>2, PTL DEF Spec

(* Of two connections in use, the workstation holds the last. *)
LEMMA HeldIsLast ==
    ASSUME TypeOK, Numbering, held # None, NEW d \in Connections, d # held, stage[d] # "unused"
    PROVE  d < held
  BY Names DEF TypeOK, Numbering

(* Every instance routes to the connection that is open and recorded; its  *)
(* own, until an earlier dial that took its slot hangs it up.              *)
THEOREM RoutesAgreeHolds == Spec => []RoutesAgree
<1>1. IInv => RoutesAgree
  <2> SUFFICES ASSUME IInv, NEW c \in Connections, Working(c), row = c, ~missed,
                      NEW i \in up
               PROVE  Route(i) = c \/ (i = home[c] /\ Superseded(c))
    BY DEF RoutesAgree
  <2>1. CASE i # home[c]
    BY <2>1, Names DEF Route
  <2>2. CASE i = home[c]
    <3>1. slot[home[c]] = c \/ \E d \in Connections : displaced[d] = c
      BY DEF Working, IInv, Tables
    <3>2. ASSUME NEW d \in Connections, displaced[d] = c PROVE d < c
      BY <3>2, Names, HeldIsLast DEF Working, IInv, Tables
    <3>3. QED
      BY <2>2, <3>1, <3>2 DEF Route, Superseded
  <2>3. QED
    BY <2>1, <2>2
<1>2. QED
  BY <1>1, Invariance, PTL

(* A connection the directory removed stays removed. *)
THEOREM RemovalIsKeptHolds == Spec => []RemovalIsKept
<1>1. IInv => RemovalIsKept
  BY DEF IInv
<1>2. QED
  BY <1>1, Invariance, PTL

------------------------------------------------------------------------------
(* A connection that works keeps its row and its socket. *)

KeepsRow(c) == row' # c => missed \/ \E d \in Connections : d < c /\ row' = d
KeepsSocket(c) ==
    c \notin open' => home[c] \notin up' \/ Superseded(c)

LEMMA WorkingKept ==
    ASSUME IInv, [Next]_vars, NEW c \in Connections, Working(c), row = c
    PROVE  KeepsRow(c) /\ KeepsSocket(c)
<1> USE Names DEF KeepsRow, KeepsSocket
<1>0. /\ held = c /\ stage[c] = "reading" /\ c \in open /\ end[c] = "open"
      /\ TypeOK /\ Numbering /\ SlotsHome /\ DisplacedHome /\ RowKnown
  BY IInvParts DEF Working
(* A connection in use beside it was dialed before. *)
<1>earlier. ASSUME NEW d \in Connections, d # c, stage[d] # "unused" PROVE d < c
  BY <1>0, <1>earlier DEF Numbering
<1>1. CASE row' = row /\ open \subseteq open'
  BY <1>0, <1>1
<1>2. ASSUME NEW d \in Connections, Register(d) \/ HangUp(d) PROVE KeepsRow(c) /\ KeepsSocket(c)
  <2>1. KeepsRow(c)
    BY <1>2 DEF Register, HangUp
  <2>2. ASSUME c \notin open' PROVE displaced[d] = c /\ d < c
    <3>1. displaced[d] = c
      BY <1>0, <1>2, <2>2 DEF Register, HangUp
    <3>2. QED
      BY <1>0, <3>1, <1>earlier DEF DisplacedHome
  <2>3. QED
    BY <2>1, <2>2 DEF Superseded
<1>3. ASSUME NEW d \in Connections, Record(d) \/ RecordFails(d) PROVE KeepsRow(c) /\ KeepsSocket(c)
  <2>1. stage[d] = "registering" /\ d # c
    BY <1>0, <1>3 DEF Record, RecordFails
  <2>2. d < c
    BY <2>1, <1>earlier
  <2>3. row' \in {c, d} /\ c \in open'
    BY <1>0, <1>3, <2>1 DEF Record, RecordFails
  <2>4. QED
    BY <2>2, <2>3
<1>4. ASSUME NEW d \in Connections, ReadEnds(d) \/ SendFails(d) PROVE KeepsRow(c) /\ KeepsSocket(c)
  BY <1>0, <1>4 DEF ReadEnds, SendFails
<1>5. ASSUME NEW d \in Connections, Forget(d) \/ ForgetFails(d) PROVE KeepsRow(c) /\ KeepsSocket(c)
  BY <1>0, <1>5 DEF Forget, ForgetFails
<1>6. ASSUME NEW d \in Connections, Close(d) \/ Ping(d) \/ Report(d) PROVE KeepsRow(c) /\ KeepsSocket(c)
  BY <1>0, <1>6 DEF Close, Ping, Report, RowKnown, conns
<1>7. CASE Silence \/ Heartbeat
  BY <1>1, <1>7 DEF Silence, Heartbeat, conns
<1>8. CASE Reap
  BY <1>0, <1>8 DEF Reap, conns
<1>9. ASSUME NEW i \in Instances, Crash(i) PROVE KeepsRow(c) /\ KeepsSocket(c)
  BY <1>0, <1>9 DEF Crash
<1>10. ASSUME NEW d \in Connections, NEW i \in Instances, Dial(d, i)
       PROVE  KeepsRow(c) /\ KeepsSocket(c)
  BY <1>1, <1>10 DEF Dial
<1>11. CASE Lose \/ SeeClosed \/ UNCHANGED vars
  BY <1>1, <1>11 DEF Lose, SeeClosed, vars, conns
<1>12. QED
  BY <1>2, <1>3, <1>4, <1>5, <1>6, <1>7, <1>8, <1>9, <1>10, <1>11, StepCases

(* Nothing late takes a working connection away but the registration of an *)
(* earlier one.                                                            *)
THEOREM LiveConnectionKeptHolds == Spec => LiveConnectionKept
<1>1. IInv /\ [Next]_vars =>
        [\A c \in Connections : Working(c) /\ row = c =>
           /\ row' # c => missed \/ \E d \in Connections : d < c /\ row' = d
           /\ c \notin open' => home[c] \notin up' \/ Superseded(c)]_vars
  BY WorkingKept DEF KeepsRow, KeepsSocket
<1>2. QED
  BY <1>1, Invariance, PTL DEF Spec, LiveConnectionKept

------------------------------------------------------------------------------
(* No loss goes unnoticed: whatever a workstation and the instances went   *)
(* through, a connection that does not serve is about to be registered,    *)
(* reported or given up, a stray one excepted.                             *)
THEOREM LossIsNoticedHolds == Spec => []LossIsNoticed
<1>1. IInv => LossIsNoticed
  <2> SUFFICES ASSUME IInv, held # None, ~Served, ~Stray, held \in open,
                      stage[held] \notin {"accepted", "registering"},
                      ~(stage[held] = "reading" /\ row # held),
                      ~(\E d \in Connections : displaced[d] = held)
               PROVE  Working(held) /\ slot[home[held]] = held /\ row = held
    BY DEF LossIsNoticed
  <2>1. held \in Connections /\ TypeOK /\ Numbering /\ OpenHaveSlots /\ GoneClosed
    BY IInvParts DEF TypeOK
  <2>2. stage[held] = "reading" /\ row = held
    BY <2>1 DEF TypeOK, Numbering, GoneClosed
  <2>3. end[held] = "open"
    BY <2>2 DEF Stray
  <2>4. QED
    BY <2>1, <2>2, <2>3 DEF Working, OpenHaveSlots
<1>2. QED
  BY <1>1, Invariance, PTL
==============================================================================
