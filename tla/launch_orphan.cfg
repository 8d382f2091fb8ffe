\* The denial of an agent that is still resolving the dispatch.
SPECIFICATION Spec
CONSTANTS
  Launches = {q1}
  Direct = {}
  Forced = {}
  Stoppable = {q1}
  Instances = {i1, i2}
  First = i1
  Faults <- AllFaults
INVARIANT
  OrphanHasNoProcess
CHECK_DEADLOCK FALSE
