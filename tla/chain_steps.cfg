\* Two tasks, two evaluations, chains of users and of the orchestrator.
SPECIFICATION Spec
INVARIANTS
  IInv
  NoRunEscapesTheCap
  ReviewStaysHuman
PROPERTIES
  OnlyChainsExceedTheCap
  NoStepWithoutProgress
CONSTANTS
  Tasks = {t1, t2}
  Passes = {p1, p2}
  Caps = {1, 2}
  Reached = {"clarified", "specified", "implemented"}
  Stops = {"reviewed"}
  Faults = {"record", "stop"}
  None = None
  t1 = t1
  t2 = t2
  p1 = p1
  p2 = p2
SYMMETRY Symmetry
CHECK_DEADLOCK FALSE
