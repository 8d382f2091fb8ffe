--------------------------- MODULE AgentPresence ---------------------------
(* The connections of one workstation (one user, one device) to the server *)
(* instances that share a database: the slot an instance keeps for it, the *)
(* row of the directory that says who holds it, and how both follow the    *)
(* workstation as it dials again, wherever the load balancer sends it.     *)
(* internal/handlers/agent_dispatcher.go, agent_cluster.go,                *)
(* agent_inventory.go, agent_selection.go, internal/db/workstations.go.    *)
EXTENDS Naturals, FiniteSets

CONSTANTS
    Instances,      \* server processes
    Dials,          \* bound: how often the workstation dials
    Balancer,       \* the instances each dial may be given
    Faults,         \* what may go wrong: "directory", "write", "silence",
                    \* "crash"
    None

ASSUME PresenceAssumption ==
    /\ Dials \in Nat
    /\ Balancer \in [1..Dials -> SUBSET Instances]
    /\ None \notin Instances /\ None \notin Nat

(* Connections are numbered in the order they were dialed. *)
Connections == 1..Dials

VARIABLES
    held,       \* the connection the workstation has open, or None
    home,       \* the instance that accepted a connection
    stage,      \* where its handler is
    open,       \* the connections the server has not hung up
    end,        \* whether it was unregistered, and its row deleted
    slot,       \* agents[key] of each instance, or None
    displaced,  \* whom a registration took the slot from and is yet to hang up
    row,        \* agent_workstation_presence: a connection, or None
    listed,     \* its inventory was reported
    closing,    \* closes on their way to the instance that held the row before
    up,         \* the processes that run
    missed,     \* whether the instance that has the row is taken for dead
    early       \* history: removed from the directory before they were in it

conns == <<home, stage, open, end>>
vars == <<held, conns, slot, displaced, row, listed, closing, up, missed, early>>

TypeOK ==
    /\ held    \in Connections \union {None}
    /\ home    \in [Connections -> Instances \union {None}]
    /\ stage   \in [Connections -> {"unused", "accepted", "registering", "reading", "gone"}]
    /\ open    \in SUBSET Connections
    /\ end     \in [Connections -> {"open", "due", "done", "failed"}]
    /\ slot    \in [Instances -> Connections \union {None}]
    /\ displaced \in [Connections -> Connections \union {None}]
    /\ row     \in Connections \union {None}
    /\ listed  \in BOOLEAN
    /\ closing \in SUBSET Connections
    /\ up      \in SUBSET Instances
    /\ missed  \in BOOLEAN
    /\ early   \in SUBSET Connections

Init ==
    /\ held = None
    /\ home  = [c \in Connections |-> None]
    /\ stage = [c \in Connections |-> "unused"]
    /\ open = {}
    /\ end   = [c \in Connections |-> "open"]
    /\ slot  = [i \in Instances |-> None]
    /\ displaced = [c \in Connections |-> None]
    /\ row = None /\ listed = FALSE /\ closing = {} /\ early = {}
    /\ up = Instances /\ missed = FALSE

------------------------------------------------------------------------------
(* The workstation. *)

(* It holds one connection at a time, and dials the next one when that one *)
(* ended, to whatever instance it is given.                                *)
Dial(c, i) ==
    /\ held = None /\ i \in up \intersect Balancer[c]
    /\ stage[c] = "unused" /\ \A d \in Connections : d < c => stage[d] # "unused"
    /\ held' = c
    /\ home'  = [home EXCEPT ![c] = i]
    /\ stage' = [stage EXCEPT ![c] = "accepted"]
    /\ open' = open \union {c}
    /\ UNCHANGED <<end, slot, displaced, row, listed, closing, up, missed, early>>

(* The network drops the connection, the laptop sleeps or the agent        *)
(* restarts: the server is not told.                                       *)
Lose ==
    /\ held # None
    /\ held' = None
    /\ UNCHANGED <<conns, slot, displaced, row, listed, closing, up, missed, early>>

(* The agent reads the end of a connection the server hung up. *)
SeeClosed ==
    /\ held # None /\ held \notin open
    /\ held' = None
    /\ UNCHANGED <<conns, slot, displaced, row, listed, closing, up, missed, early>>

------------------------------------------------------------------------------
(* Registration: one at a time in an instance, under registrationMu. *)

Registering(i) == \E d \in Connections : home[d] = i /\ stage[d] = "registering"

(* registerLocal takes the slot under the lock of the tables. *)
Register(c) ==
    /\ stage[c] = "accepted" /\ ~Registering(home[c])
    /\ stage' = [stage EXCEPT ![c] = "registering"]
    /\ slot' = [slot EXCEPT ![home[c]] = c]
    /\ displaced' = [displaced EXCEPT ![c] = slot[home[c]]]
    /\ UNCHANGED <<held, home, open, end, row, listed, closing, up, missed, early>>

(* Only once the lock is released does it close who had the slot, which    *)
(* may wait behind a message being written to that connection.             *)
HangUp(c) ==
    /\ displaced[c] # None
    /\ open' = open \ {displaced[c]}
    /\ displaced' = [displaced EXCEPT ![c] = None]
    /\ UNCHANGED <<held, home, stage, end, slot, row, listed, closing, up, missed, early>>

(* WorkstationConnected takes the row, whose inventory is unknown again;   *)
(* agentConnected asks the other instance that had it to close, which is   *)
(* without effect on a connection that is not in its slot any more.        *)
Record(c) ==
    /\ stage[c] = "registering" /\ displaced[c] = None
    /\ stage' = [stage EXCEPT ![c] = "reading"]
    /\ row' = c /\ listed' = FALSE /\ missed' = FALSE
    /\ closing' = IF row # None /\ home[row] # home[c] /\ slot[home[row]] = row
                  THEN closing \union {row} ELSE closing
    /\ UNCHANGED <<held, home, open, end, slot, displaced, up, early>>

(* The statement fails, and the connection is closed. *)
RecordFails(c) ==
    /\ "directory" \in Faults
    /\ stage[c] = "registering" /\ displaced[c] = None
    /\ stage' = [stage EXCEPT ![c] = "reading"]
    /\ open' = open \ {c}
    /\ UNCHANGED <<held, home, end, slot, displaced, row, listed, closing, up, missed, early>>

------------------------------------------------------------------------------
(* The end of a connection. *)

(* Unregister takes the connection out of the tables of its instance once, *)
(* and the slot only from itself; sessionDisconnected is then due.         *)
Unregister(c) ==
    IF end[c] = "open"
    THEN /\ end' = [end EXCEPT ![c] = "due"]
         /\ slot' = [slot EXCEPT ![home[c]] = IF @ = c THEN None ELSE @]
    ELSE UNCHANGED <<end, slot>>

(* The read loop of HandleAgentConnect ends: the socket was closed, or the *)
(* agent was silent for longer than the read deadline.                     *)
ReadEnds(c) ==
    /\ stage[c] = "reading" /\ (held # c \/ c \notin open)
    /\ stage' = [stage EXCEPT ![c] = "gone"]
    /\ open' = open \ {c}
    /\ Unregister(c)
    /\ UNCHANGED <<held, home, displaced, row, listed, closing, up, missed, early>>

(* dispatchLocal cannot write a message within its deadline: another       *)
(* goroutine unregisters the connection, whose socket is left as it is.    *)
SendFails(c) ==
    /\ stage[c] \in {"registering", "reading"} /\ end[c] = "open"
    /\ "write" \in Faults \/ held # c \/ c \notin open
    /\ Unregister(c)
    /\ UNCHANGED <<held, home, stage, open, displaced, row, listed, closing, up, missed, early>>

(* WorkstationDisconnected deletes the row of this very connection. *)
Forget(c) ==
    /\ end[c] = "due" /\ home[c] \in up
    /\ end' = [end EXCEPT ![c] = "done"]
    /\ row' = IF row = c THEN None ELSE row
    /\ listed' = (listed /\ row # c) /\ missed' = (missed /\ row # c)
    /\ early' = IF stage[c] = "registering" THEN early \union {c} ELSE early
    /\ UNCHANGED <<held, home, stage, open, slot, displaced, closing, up>>

(* A deletion that fails is only logged.  One that finds no row may as     *)
(* well have succeeded.                                                    *)
ForgetFails(c) ==
    /\ "directory" \in Faults
    /\ end[c] = "due" /\ home[c] \in up /\ row = c
    /\ end' = [end EXCEPT ![c] = "failed"]
    /\ UNCHANGED <<held, home, stage, open, slot, displaced, row, listed, closing, up, missed, early>>

(* Slip: the instance closes whatever it has in the slot. *)
CloseAny(c) ==
    /\ c \in closing
    /\ closing' = closing \ {c}
    /\ open' = open \ {slot[home[c]]}
    /\ UNCHANGED <<held, home, stage, end, slot, displaced, row, listed, up, missed, early>>

(* serveInternal closes exactly the connection that lost the row, if the   *)
(* request ever reaches it.                                                *)
Close(c) ==
    /\ c \in closing
    /\ closing' = closing \ {c}
    /\ open' = IF slot[home[c]] = c THEN open \ {c} ELSE open
    /\ UNCHANGED <<held, home, stage, end, slot, displaced, row, listed, up, missed, early>>

------------------------------------------------------------------------------
(* Signs of life. *)

(* Slip: a session that is not in the directory is only refused. *)
PingRefused(c) ==
    /\ stage[c] = "reading" /\ c \in open /\ row # c
    /\ UNCHANGED vars

(* Slip: a heartbeat writes the row it does not find. *)
PingUpserts(c) ==
    /\ stage[c] = "reading" /\ c \in open /\ row # c
    /\ row' = c /\ listed' = FALSE /\ missed' = FALSE
    /\ UNCHANGED <<held, conns, slot, displaced, closing, up, early>>

(* sessionPing hangs up on a connection the directory does not know. *)
Ping(c) ==
    /\ stage[c] = "reading" /\ c \in open /\ row # c
    /\ open' = open \ {c}
    /\ UNCHANGED <<held, home, stage, end, slot, displaced, row, listed, closing, up, missed, early>>

(* acceptInventory, from the connection that has the slot. *)
Report(c) ==
    /\ held = c /\ stage[c] = "reading" /\ c \in open
    /\ slot[home[c]] = c /\ row = c /\ ~listed
    /\ listed' = TRUE
    /\ UNCHANGED <<held, conns, slot, displaced, row, closing, up, missed, early>>

------------------------------------------------------------------------------
(* Instances. *)

(* The last heartbeat of the instance that has the row is older than the   *)
(* bound.  Nobody asks whether another instance is alive.                  *)
Silence ==
    /\ row # None /\ ~missed
    /\ "silence" \in Faults \/ home[row] \notin up
    /\ missed' = TRUE
    /\ UNCHANGED <<held, conns, slot, displaced, row, listed, closing, up, early>>

(* heartbeatInstance registers again. *)
Heartbeat ==
    /\ missed /\ home[row] \in up
    /\ missed' = FALSE
    /\ UNCHANGED <<held, conns, slot, displaced, row, listed, closing, up, early>>

(* reclaimDeadInstances forgets the sessions of the instances it missed. *)
Reap ==
    /\ missed
    /\ row' = None /\ listed' = FALSE /\ missed' = FALSE
    /\ UNCHANGED <<held, conns, slot, displaced, closing, up, early>>

(* The process dies with its connections.  Bound: it had one, and another  *)
(* process goes on serving.                                                *)
Crash(i) ==
    /\ "crash" \in Faults
    /\ i \in up /\ up # {i} /\ \E c \in Connections : home[c] = i
    /\ up' = up \ {i}
    /\ stage' = [c \in Connections |-> IF home[c] = i THEN "gone" ELSE stage[c]]
    /\ open' = {c \in open : home[c] # i}
    /\ slot' = [slot EXCEPT ![i] = None]
    /\ displaced' = [c \in Connections |-> IF home[c] = i THEN None ELSE displaced[c]]
    /\ closing' = {c \in closing : home[c] # i}
    /\ UNCHANGED <<held, home, end, row, listed, missed, early>>

------------------------------------------------------------------------------
Workstation ==
    \/ \E c \in Connections, i \in Instances : Dial(c, i)
    \/ Lose \/ SeeClosed

Connection(c) ==
    \/ Register(c) \/ HangUp(c) \/ Record(c) \/ RecordFails(c)
    \/ ReadEnds(c) \/ SendFails(c) \/ Forget(c) \/ ForgetFails(c)
    \/ Close(c) \/ Ping(c) \/ Report(c)

Next ==
    \/ Workstation
    \/ \E c \in Connections : Connection(c)
    \/ Silence \/ Heartbeat \/ Reap
    \/ \E i \in Instances : Crash(i)

Spec == Init /\ [][Next]_vars

(* The workstation dials for ever and sees a closed socket; the handlers   *)
(* of an instance go on; a read deadline passes; a live connection sends   *)
(* its heartbeats and its inventory.                                       *)
Fairness ==
    /\ WF_vars(SeeClosed)
    /\ WF_vars(\E c \in Connections, i \in Instances : Dial(c, i))
    /\ \A c \in Connections :
          /\ WF_vars(Register(c)) /\ WF_vars(HangUp(c))
          /\ WF_vars(Record(c) \/ RecordFails(c))
          /\ WF_vars(ReadEnds(c)) /\ WF_vars(Forget(c) \/ ForgetFails(c))
          /\ WF_vars(held = c /\ Ping(c)) /\ WF_vars(Report(c))

FairSpec == Spec /\ Fairness

------------------------------------------------------------------------------
(* Properties. *)

(* Slip: an instance prefers the connection it has. *)
RouteLocal(i) ==
    IF slot[i] # None THEN slot[i] ELSE row

(* userRoutes: a live record of another instance supersedes the slot. *)
Route(i) ==
    IF row # None /\ ~missed /\ home[row] # i THEN row ELSE slot[i]

(* A connection the workstation and the server both have open, and nobody  *)
(* unregistered.                                                           *)
Working(c) == held = c /\ stage[c] = "reading" /\ c \in open /\ end[c] = "open"

(* An earlier dial, registered late in the same instance, took its slot:   *)
(* it is about to be hung up, and the row to follow.                       *)
Superseded(c) == \E d \in Connections : d < c /\ displaced[d] = c

(* Every instance sends the work for a workstation to the connection it    *)
(* has open, as soon as the directory names it: a slot left behind on      *)
(* another instance takes nothing.  Its own instance alone may already     *)
(* route elsewhere, between the lock that gave its slot to an earlier dial *)
(* and the end of its socket.                                              *)
RoutesAgree ==
    \A c \in Connections : Working(c) /\ row = c /\ ~missed =>
        \A i \in up : Route(i) = c \/ (i = home[c] /\ Superseded(c))

(* The slots and the row name connections their instances have.  A used    *)
(* connection has a home, and the one held is the last.                    *)
Numbering ==
    /\ \A c, d \in Connections : d < c /\ stage[d] = "unused" => stage[c] = "unused"
    /\ \A c \in Connections : stage[c] # "unused" <=> home[c] # None
    /\ held # None =>
          /\ stage[held] # "unused"
          /\ \A d \in Connections : d > held => stage[d] = "unused"

Tables ==
    /\ \A i \in Instances : slot[i] # None =>
          /\ home[slot[i]] = i /\ end[slot[i]] = "open"
          /\ stage[slot[i]] \in {"registering", "reading"}
    /\ \A c \in Connections : stage[c] \in {"unused", "accepted"} => end[c] = "open"
    /\ \A c \in Connections :
          stage[c] \in {"registering", "reading"} /\ c \in open /\ end[c] = "open"
             => slot[home[c]] = c \/ \E d \in Connections : displaced[d] = c
    /\ \A c \in Connections : displaced[c] # None =>
          /\ stage[c] = "registering" /\ displaced[c] # c
          /\ home[displaced[c]] = home[c]
    /\ row # None => stage[row] \in {"reading", "gone"}
    /\ missed => row # None
    /\ \A c \in closing : stage[c] \in {"reading", "gone"} /\ row # c
    /\ \A c \in open : stage[c] # "gone"

(* A connection that was removed from the directory is not in it, but for  *)
(* one: that a failed write removed while its registration was under way.  *)
RemovalIsKept ==
    \A c \in Connections : row = c /\ end[c] = "done" => c \in early

(* Inductive. *)
IInv ==
    /\ TypeOK
    /\ Numbering
    /\ Tables
    /\ \A c \in Connections :
          stage[c] = "registering" /\ end[c] = "done" => c \in early
    /\ RemovalIsKept

(* Nothing that comes late takes the row or the socket from a connection   *)
(* that works: not the end of an earlier one, not a close sent to another  *)
(* instance, not a sweep of an instance seen alive.  Only the registration *)
(* of an earlier one, delayed past the next dial, does.                    *)
LiveConnectionKept ==
    [][\A c \in Connections : Working(c) /\ row = c =>
           /\ row' # c => missed \/ \E d \in Connections : d < c /\ row' = d
           /\ c \notin open' => home[c] \notin up' \/ Superseded(c)]_vars

(* The directory names the connection the workstation has open, and what   *)
(* it can serve.                                                           *)
Served == held # None /\ Working(held) /\ slot[home[held]] = held /\ row = held /\ listed

(* The bound is reached. *)
Exhausted == held = None /\ \A c \in Connections : stage[c] # "unused"

(* Unregistered while its socket lives, by a write that timed out, and     *)
(* named by the directory all the same: nobody notices.                    *)
Stray == held # None /\ end[held] # "open" /\ row = held

(* What the liveness below rests on: a workstation that holds a connection *)
(* it is not served over is about to see it closed, to be registered, to   *)
(* be hung up on by the registration that took its slot or at its next     *)
(* heartbeat, or to report what it can serve.                              *)
LossIsNoticed ==
    held # None /\ ~Served /\ ~Stray =>
        \/ held \notin open
        \/ stage[held] \in {"accepted", "registering"}
        \/ stage[held] = "reading" /\ row # held
        \/ \E d \in Connections : displaced[d] = held
        \/ Working(held) /\ slot[home[held]] = held /\ row = held

(* A workstation that goes on dialing is served again, whatever it went    *)
(* through: "once hung up, it reconnects and registers a session the       *)
(* directory knows".                                                       *)
WorkstationReturns == <>[](Served \/ Stray \/ Exhausted)
==============================================================================
