\* A queued and a direct launch on one task, one instance that may be paused.
SPECIFICATION Spec
CONSTANTS
  Launches = {q1, d1}
  Direct = {d1}
  Forced = {d1}
  Stoppable = {}
  Instances = {i1}
  First = i1
  Faults <- RaceFaults
INVARIANTS
  IInv
  OneAgentPerTask
PROPERTIES
  EndedLaunchRecordsNoRun
CHECK_DEADLOCK FALSE
