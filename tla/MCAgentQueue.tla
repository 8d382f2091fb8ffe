---------------------------- MODULE MCAgentQueue -----------------------------
(* Instances of AgentQueue for TLC: two projects and two repositories.     *)
EXTENDS AgentQueue

CONSTANTS p1, p2, main, lib, ta, tb, tc, td

Job(kind, project, work, admitted, target, isolated, limit) ==
    [kind |-> kind, project |-> project, work |-> work, root |-> admitted,
     target |-> target, isolated |-> isolated, limit |-> limit]

(* p1 works in worktrees of main, and its limit was edited; one of its     *)
(* tickets is pinned to lib and was admitted while p1 used no worktrees.   *)
Worktrees == {Job("task", p1, ta, main, main, TRUE, 1), Job("task", p1, tb, main, main, TRUE, 2)}
PinnedTicket == {Job("task", p1, td, main, lib, FALSE, 1)}

(* p2 has the same checkout, and an external terminal on a task in lib. *)
Terminals == {Job("console", p2, "console", main, main, FALSE, 1),
              Job("external", p2, tc, lib, lib, FALSE, 1)}

AllJobs == Worktrees \union PinnedTicket \union Terminals

(* Ids are only names, so one order of them stands for all: they are       *)
(* registered in a fixed one.                                              *)
Place == CHOOSE place \in [Runs -> 1..Cardinality(Runs)] :
            \A q, r \in Runs : place[q] = place[r] => q = r

NamedInOrder == \A r \in Runs : seq[r] \in {0, Place[r]}

(* p2 works in lib, where the pinned ticket will move. *)
Apart == PinnedTicket \union {Job("task", p2, tc, lib, lib, FALSE, 1)}
==============================================================================
