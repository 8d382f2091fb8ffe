------------------------------ MODULE ClientRuns ------------------------------
(***************************************************************************)
(* The runs a connected client declares.  An MCP session lives in the      *)
(* memory of the server instance that created it; the runs it starts are   *)
(* rows of the shared table, which name that instance and not the session. *)
(* The registry of the instance is where the two meet: when a session      *)
(* ends, says nothing for too long or stops answering pings, the runs it   *)
(* owns are canceled, in statements that follow the removal of its entry.  *)
(* An instance that is no longer seen loses its runs to the others.        *)
(* Meanwhile the client calls tools, through any instance, and the board   *)
(* closes runs.                                                            *)
(***************************************************************************)
EXTENDS FiniteSets

CONSTANTS
    Instances,  \* server instances, one name per process
    Mortal,     \* bound: those that may fall silent, drain and die
    Sessions,   \* MCP sessions that may be initialized
    Home,       \* the instance a session id names
    Runs,       \* client runs a start_run without a runId may insert
    None,
    Faults      \* "close" when the statement closing a run may fail

ASSUME ClientRunsAssumption ==
    /\ Mortal \subseteq Instances
    /\ Home \in [Sessions -> Instances]
    /\ None \notin Runs \union Sessions \union Instances
    /\ Faults \subseteq {"close"}

VARIABLES
    status,   \* status of the row of a run, "absent" before it is inserted;
              \* "completed" stands for failed as well
    parted,   \* its summary holds the disconnect note
    inst,     \* its instance_id
    phase,    \* the entry of a session: "live" in the registry, "runs" once
              \* removed, while its runs are being closed
    owned,    \* the runs it adopted
    heard,    \* "lately", or "silent" for the abandon bound, or "closing" once
              \* the sweeper has found it still silent and is about to close it
    conn,     \* the transport; "left" is a client gone without a word
    call,     \* the tool call of the session being served
    up,       \* processes of the instances
    seen,     \* their rows in server_instances
    by,       \* history: who ended a run
    strays    \* history: runs whose adoption found no session, or whose
              \* closing failed

runVars   == <<status, parted, inst, by>>
entryVars == <<phase, owned, heard>>
instVars  == <<up, seen>>
vars == <<runVars, entryVars, conn, call, instVars, strays>>

Ended == {"completed", "canceled"}
Idle == [step |-> "idle", tool |-> "none", run |-> None]
Calls == [step : {"called", "inserted", "finished"}, tool : {"start", "finish"},
          run : Runs] \union {Idle}

TypeOK ==
    /\ status  \in [Runs -> {"absent", "running"} \union Ended]
    /\ parted  \in [Runs -> BOOLEAN]
    /\ inst    \in [Runs -> Instances \union {None}]
    /\ by      \in [Runs -> {"nobody", "owner", "user", "server"}]
    /\ phase   \in [Sessions -> {"new", "live", "runs", "gone"}]
    /\ owned   \in [Sessions -> SUBSET Runs]
    /\ heard   \in [Sessions -> {"lately", "silent", "closing"}]
    /\ conn    \in [Sessions -> {"none", "open", "left", "closed"}]
    /\ call    \in [Sessions -> Calls]
    /\ up      \in [Instances -> {"up", "draining", "down"}]
    /\ seen    \in [Instances -> {"fresh", "stale", "gone"}]
    /\ strays  \subseteq Runs

Init ==
    /\ status = [r \in Runs |-> "absent"]
    /\ parted = [r \in Runs |-> FALSE]
    /\ inst = [r \in Runs |-> None]
    /\ by = [r \in Runs |-> "nobody"]
    /\ phase = [s \in Sessions |-> "new"]
    /\ owned = [s \in Sessions |-> {}]
    /\ heard = [s \in Sessions |-> "lately"]
    /\ conn = [s \in Sessions |-> "none"]
    /\ call = [s \in Sessions |-> Idle]
    /\ up = [i \in Instances |-> "up"]
    /\ seen = [i \in Instances |-> "fresh"]
    /\ strays = {}

------------------------------------------------------------------------------
(* The rows. *)

Open(r) == status[r] = "running"

(* An identified caller may also rewrite what a disconnection decided. *)
Closable(r) == Open(r) \/ (status[r] = "canceled" /\ parted[r])

(* One statement ends the runs rs. *)
EndRuns(rs, ending, note, who) ==
    /\ status' = [r \in Runs |-> IF r \in rs THEN ending ELSE status[r]]
    /\ parted' = [r \in Runs |-> IF r \in rs THEN note ELSE parted[r]]
    /\ by' = [r \in Runs |-> IF r \in rs THEN who ELSE by[r]]

------------------------------------------------------------------------------
(* A client and its session. *)

Initialize(s) ==
    /\ phase[s] = "new" /\ up[Home[s]] = "up"
    /\ phase' = [phase EXCEPT ![s] = "live"]
    /\ conn' = [conn EXCEPT ![s] = "open"]
    /\ UNCHANGED <<runVars, owned, heard, call, instVars, strays>>

(* A request reaches instance i, which serves it, or forwards it to the    *)
(* live instance the session id names.                                     *)
Serves(i, s) ==
    /\ up[i] # "down" /\ up[Home[s]] # "down"
    /\ i = Home[s] \/ seen[Home[s]] = "fresh"

(* Any message touches the session, too late for one being closed. *)
Touch(s) ==
    /\ heard' = [heard EXCEPT ![s] = IF @ = "silent" THEN "lately" ELSE @]
    /\ UNCHANGED <<phase, owned>>

Call(s, tool, r) ==
    /\ conn[s] = "open" /\ call[s] = Idle
    /\ \E i \in Instances : Serves(i, s)
    /\ tool = "start" => status[r] = "absent" /\ \A t \in Sessions : call[t].run # r
    /\ tool = "finish" => status[r] # "absent"
    /\ Touch(s)
    /\ call' = [call EXCEPT ![s] = [step |-> "called", tool |-> tool, run |-> r]]
    /\ UNCHANGED <<runVars, conn, instVars, strays>>

(* Any other tool, for what it does to the session. *)
CallOther(s) ==
    /\ conn[s] = "open" /\ call[s] = Idle
    /\ \E i \in Instances : Serves(i, s)
    /\ Touch(s)
    /\ UNCHANGED <<runVars, conn, call, instVars, strays>>

(* An instance that does not see the home of the session as live answers   *)
(* 404 itself: the client drops the session, which its home still holds.   *)
NotFound(s) ==
    /\ conn[s] = "open" /\ seen[Home[s]] # "fresh"
    /\ \E i \in Instances \ {Home[s]} : up[i] # "down"
    /\ conn' = [conn EXCEPT ![s] = "left"]
    /\ UNCHANGED <<runVars, entryVars, call, instVars, strays>>

(* The client dies, or says goodbye, whatever it was calling. *)
Leave(s, how) ==
    /\ conn[s] = "open" /\ up[Home[s]] # "down"
    /\ conn' = [conn EXCEPT ![s] = how]
    /\ UNCHANGED <<runVars, entryVars, call, instVars, strays>>

GrowSilent(s) ==
    /\ phase[s] = "live" /\ heard[s] = "lately"
    /\ heard' = [heard EXCEPT ![s] = "silent"]
    /\ UNCHANGED <<runVars, phase, owned, conn, call, instVars, strays>>

------------------------------------------------------------------------------
(* The tools.  Each ends by a step in the registry, after its statement. *)

Called(s, tool) == call[s].step = "called" /\ call[s].tool = tool
Returns(s) == call' = [call EXCEPT ![s] = Idle]

(* The row names the instance of the session, which serves its calls. *)
Insert(s) ==
    LET r == call[s].run IN
    /\ Called(s, "start")
    /\ status' = [status EXCEPT ![r] = "running"]
    /\ inst' = [inst EXCEPT ![r] = Home[s]]
    /\ call' = [call EXCEPT ![s].step = "inserted"]
    /\ UNCHANGED <<parted, by, entryVars, conn, instVars, strays>>

(* A session that is no longer live adopts nothing, and says nothing. *)
Adopt(s) ==
    /\ call[s].step = "inserted"
    /\ IF phase[s] = "live"
       THEN owned' = [owned EXCEPT ![s] = @ \union {call[s].run}] /\ UNCHANGED strays
       ELSE strays' = strays \union {call[s].run} /\ UNCHANGED owned
    /\ Returns(s)
    /\ UNCHANGED <<runVars, phase, heard, conn, instVars>>

(* finish_run by the owner of the run, from any of their sessions.  Its     *)
(* note replaces the summary, or follows it when the run was quiet before.  *)
Finish(s, ending, kept) ==
    LET r == call[s].run IN
    /\ Called(s, "finish")
    /\ IF Closable(r)
       THEN EndRuns({r}, ending, kept /\ parted[r], "owner")
       ELSE UNCHANGED <<status, parted, by>>
    /\ call' = [call EXCEPT ![s] = IF Closable(r) \/ status[r] = ending
                                   THEN [@ EXCEPT !.step = "finished"] ELSE Idle]
    /\ UNCHANGED <<inst, entryVars, conn, instVars, strays>>

Release(s) ==
    /\ call[s].step = "finished"
    /\ owned' = [owned EXCEPT ![s] = IF phase[s] = "live" THEN @ \ {call[s].run} ELSE @]
    /\ Returns(s)
    /\ UNCHANGED <<runVars, phase, heard, conn, instVars, strays>>

------------------------------------------------------------------------------
(* How the registry gives a session up: its entry goes first, under the    *)
(* lock, then its runs, then its transport.  The waits it declared are     *)
(* cleared in between.                                                     *)

Forget(s) ==
    /\ phase' = [phase EXCEPT ![s] = "runs"]
    /\ heard' = [heard EXCEPT ![s] = "lately"]
    /\ UNCHANGED owned

Watch(s) ==
    /\ phase[s] = "live" /\ conn[s] = "closed"
    /\ Forget(s)
    /\ UNCHANGED <<runVars, conn, call, instVars, strays>>

(* Slip: as for the pings, a session that owns a run is never given up. *)
SweepCheckOwnerless(s) ==
    /\ phase[s] = "live" /\ heard[s] = "silent" /\ owned[s] = {}
    /\ heard' = [heard EXCEPT ![s] = "closing"]
    /\ UNCHANGED <<runVars, phase, owned, conn, call, instVars, strays>>

(* The sweeper looks again at a session it found silent, then closes it: a *)
(* client may speak between the two.                                       *)
SweepCheck(s) ==
    /\ phase[s] = "live" /\ heard[s] = "silent"
    /\ heard' = [heard EXCEPT ![s] = "closing"]
    /\ UNCHANGED <<runVars, phase, owned, conn, call, instVars, strays>>

SweepClose(s) ==
    /\ phase[s] = "live" /\ heard[s] = "closing"
    /\ Forget(s)
    /\ UNCHANGED <<runVars, conn, call, instVars, strays>>

(* Slip: the runs of the session are not looked at, nor closed. *)
PingMissedAnyway(s) ==
    /\ phase[s] = "live"
    /\ phase' = [phase EXCEPT ![s] = "runs"]
    /\ owned' = [owned EXCEPT ![s] = {}]
    /\ UNCHANGED <<runVars, heard, conn, call, instVars, strays>>

(* Enough pings in a row were not answered.  A session that owns a run is   *)
(* never given up by them.                                                  *)
PingMissed(s) ==
    /\ phase[s] = "live" /\ owned[s] = {}
    /\ Forget(s)
    /\ UNCHANGED <<runVars, conn, call, instVars, strays>>

(* Slip: the closing statement does not look at the status it rewrites. *)
CloseRunAnyway(s, r) ==
    /\ phase[s] = "runs" /\ r \in owned[s]
    /\ EndRuns({r}, "canceled", TRUE, "server")
    /\ owned' = [owned EXCEPT ![s] = @ \ {r}]
    /\ UNCHANGED <<inst, phase, heard, conn, call,
                   instVars, strays>>

CloseRun(s, r) ==
    /\ phase[s] = "runs" /\ r \in owned[s]
    /\ EndRuns(IF Open(r) THEN {r} ELSE {}, "canceled", TRUE, "server")
    /\ owned' = [owned EXCEPT ![s] = @ \ {r}]
    /\ UNCHANGED <<inst, phase, heard, conn, call,
                   instVars, strays>>

CloseFails(s, r) ==
    /\ "close" \in Faults
    /\ phase[s] = "runs" /\ r \in owned[s]
    /\ owned' = [owned EXCEPT ![s] = @ \ {r}]
    /\ strays' = strays \union {r}
    /\ UNCHANGED <<runVars, phase, heard, conn, call, instVars>>

HangUp(s) ==
    /\ phase[s] = "runs" /\ owned[s] = {}
    /\ phase' = [phase EXCEPT ![s] = "gone"]
    /\ conn' = [conn EXCEPT ![s] = "closed"]
    /\ UNCHANGED <<runVars, owned, heard, call, instVars, strays>>

------------------------------------------------------------------------------
(* The board. *)

(* closeClientRun, on instance i.  The run was active when it was read; the *)
(* statement also rewrites what a disconnection decided since.  Only the    *)
(* sessions of that instance forget the run.                                *)
BoardClose(r, i, note) ==
    /\ up[i] # "down" /\ Closable(r)
    /\ EndRuns({r}, "canceled", note, "user")
    /\ owned' = [s \in Sessions |-> IF Home[s] = i /\ phase[s] = "live"
                                    THEN owned[s] \ {r} ELSE owned[s]]
    /\ UNCHANGED <<inst, phase, heard, conn, call, instVars, strays>>

------------------------------------------------------------------------------
(* The instances. *)

FallSilent(i) ==
    /\ i \in Mortal /\ seen[i] = "fresh"
    /\ seen' = [seen EXCEPT ![i] = "stale"]
    /\ UNCHANGED <<runVars, entryVars, conn, call, up, strays>>

(* A heartbeat registers again an instance the others took for dead. *)
Heartbeat(i) ==
    /\ up[i] = "up" /\ seen[i] # "fresh"
    /\ seen' = [seen EXCEPT ![i] = "fresh"]
    /\ UNCHANGED <<runVars, entryVars, conn, call, up, strays>>

Drain(i) ==
    /\ i \in Mortal /\ up[i] = "up"
    /\ up' = [up EXCEPT ![i] = "draining"]
    /\ seen' = [seen EXCEPT ![i] = "gone"]
    /\ UNCHANGED <<runVars, entryVars, conn, call, strays>>

(* Everything the process held in memory goes with it. *)
Die(i) ==
    /\ i \in Mortal /\ up[i] # "down"
    /\ up' = [up EXCEPT ![i] = "down"]
    /\ phase' = [s \in Sessions |-> IF Home[s] = i THEN "gone" ELSE phase[s]]
    /\ owned' = [s \in Sessions |-> IF Home[s] = i THEN {} ELSE owned[s]]
    /\ heard' = [s \in Sessions |-> IF Home[s] = i THEN "lately" ELSE heard[s]]
    /\ conn' = [s \in Sessions |-> IF Home[s] = i THEN "closed" ELSE conn[s]]
    /\ call' = [s \in Sessions |-> IF Home[s] = i THEN Idle ELSE call[s]]
    /\ UNCHANGED <<runVars, seen, strays>>

Orphaned == {r \in Runs : Open(r) /\ seen[inst[r]] # "fresh"}

(* Slip: the summary of a restart without the disconnect note. *)
ReclaimSilently(j) ==
    /\ up[j] = "up"
    /\ EndRuns(Orphaned, "canceled", FALSE, "server")
    /\ seen' = [i \in Instances |-> IF seen[i] = "stale" THEN "gone" ELSE seen[i]]
    /\ UNCHANGED <<inst, entryVars, conn, call, up, strays>>

(* The periodic reclaim of any serving instance. *)
Reclaim(j) ==
    /\ up[j] = "up"
    /\ EndRuns(Orphaned, "canceled", TRUE, "server")
    /\ seen' = [i \in Instances |-> IF seen[i] = "stale" THEN "gone" ELSE seen[i]]
    /\ UNCHANGED <<inst, entryVars, conn, call, up, strays>>

------------------------------------------------------------------------------
Client(s) ==
    \/ Initialize(s)
    \/ \E tool \in {"start", "finish"}, r \in Runs : Call(s, tool, r)
    \/ CallOther(s) \/ NotFound(s) \/ \E how \in {"left", "closed"} : Leave(s, how)
    \/ GrowSilent(s)

Tool(s) ==
    \/ Insert(s) \/ Adopt(s) \/ \E ending \in Ended, kept \in BOOLEAN : Finish(s, ending, kept)
    \/ Release(s)

Registry(s) ==
    \/ Watch(s) \/ SweepCheck(s) \/ SweepClose(s)
    \/ PingMissed(s)
    \/ HangUp(s)
    \/ \E r \in Runs : CloseRun(s, r) \/ CloseFails(s, r)

Board ==
    \E r \in Runs, i \in Instances, note \in BOOLEAN : BoardClose(r, i, note)

Instance(i) ==
    FallSilent(i) \/ Heartbeat(i) \/ Drain(i) \/ Die(i) \/ Reclaim(i)

Next ==
    \/ \E s \in Sessions : Client(s) \/ Tool(s) \/ Registry(s)
    \/ Board
    \/ \E i \in Instances : Instance(i)

(* The goroutines of the server go on; a client that left stays silent;    *)
(* the tickers of a serving instance fire.                                 *)
Fairness ==
    /\ \A s \in Sessions :
         /\ WF_vars(conn[s] = "left" /\ GrowSilent(s))
         /\ WF_vars(Tool(s))
         /\ WF_vars(Watch(s) \/ SweepCheck(s) \/ SweepClose(s) \/ HangUp(s)
                      \/ \E r \in Runs : CloseRun(s, r))
    /\ \A i \in Instances :
         /\ WF_vars(Heartbeat(i)) /\ WF_vars(Reclaim(i))
         /\ WF_vars(up[i] = "down" /\ FallSilent(i))

Spec == Init /\ [][Next]_vars /\ Fairness

------------------------------------------------------------------------------
(* An open run is owned by a session that somebody will close, or is being *)
(* started, or belongs to an instance whose process is gone; only a run     *)
(* whose session ended before it came back from its insertion, or whose     *)
(* closing failed, is left to the board.                                    *)
Keeper(r) ==
    \/ \E s \in Sessions : phase[s] \in {"live", "runs"} /\ r \in owned[s]
    \/ \E s \in Sessions : call[s].step = "inserted" /\ call[s].run = r
    \/ up[inst[r]] = "down"
    \/ r \in strays

OpenRunHasAKeeper == \A r \in Runs : Open(r) => Keeper(r)

(* What the owner of a run or somebody on the board decided is never       *)
(* rewritten by the closing of a session or by a reclaim, and a reported   *)
(* completion never changes, whatever was in flight when it was reported.  *)
ReportStands ==
    [][\A r \in Runs :
         /\ status[r] = "completed" => status'[r] = "completed"
         /\ by[r] \in {"owner", "user"} => by'[r] \in {"owner", "user"}]_vars

(* A run the server ended by itself, with its session or with its          *)
(* instance, keeps the note that lets its owner report what really became  *)
(* of it.                                                                  *)
ServerEndIsReportable ==
    \A r \in Runs : by[r] = "server" => status[r] = "canceled" /\ parted[r]

(* What the calls in flight know of their runs. *)
CallsAgree ==
    \A s \in Sessions :
        LET r == call[s].run IN
        /\ Called(s, "start") =>
             /\ status[r] = "absent"
             /\ \A t \in Sessions : Called(t, "start") /\ call[t].run = r => t = s
        /\ Called(s, "finish") => status[r] # "absent"
        /\ call[s].step = "inserted" => status[r] # "absent" /\ inst[r] = Home[s]
        /\ call[s].step = "finished" => status[r] \in Ended

(* A session owns rows that name its instance. *)
OwnedAtHome ==
    \A s \in Sessions : \A r \in owned[s] : status[r] # "absent" /\ inst[r] = Home[s]

(* A row is ended exactly when somebody ended it. *)
EndedBySomebody ==
    \A r \in Runs : by[r] # "nobody" <=> status[r] \in Ended

(* The inductive invariant: with what a call in flight, an owned run and an *)
(* ended row are, the keepers of the open runs and the notes of those the   *)
(* server ended.                                                            *)
IInv ==
    /\ TypeOK
    /\ CallsAgree
    /\ OwnedAtHome
    /\ EndedBySomebody
    /\ OpenRunHasAKeeper
    /\ ServerEndIsReportable

(* What every part of the server promises about the record of a run. *)
State(r) ==
    CASE Open(r) -> "running"
      [] status[r] = "canceled" /\ by[r] = "server" -> "presumed"
      [] OTHER -> status[r]

stateOf == [r \in Runs |-> State(r)]

Record == INSTANCE RunRecord WITH
    state <- stateOf, noted <- parted, buried <- [r \in Runs |-> FALSE]

ContractHolds == Record!Spec

(* The run of a client that left ends, by its session or by its instance,  *)
(* as long as an instance serves.                                          *)
Deserted(r) ==
    Open(r) /\ \E s \in Sessions : r \in owned[s] /\ conn[s] \in {"left", "closed"}

LeftRunEnds ==
    \A r \in Runs :
        Deserted(r) ~> (~Open(r) \/ r \in strays \/ \A i \in Instances : up[i] # "up")
==============================================================================
