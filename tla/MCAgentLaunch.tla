---------------------------- MODULE MCAgentLaunch ----------------------------
(* Instances of AgentLaunch for TLC.  The runs differ by their constants.  *)
EXTENDS AgentLaunch

(* Every database statement the code has an error path for, or an error of *)
(* which it drops.                                                         *)
AllFaults == {"claim", "rename", "start", "record", "dispatch", "complete", "finish", "close"}

(* Those that change what the task is busy with while two launches race: a *)
(* claim, a rename, a completion or a close that fails only ends a launcher *)
(* that could as well have stopped there.                                   *)
RaceFaults == {"start", "record", "dispatch", "finish"}
==============================================================================
