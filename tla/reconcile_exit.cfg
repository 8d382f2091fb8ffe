\* A reconnection closes a run whose outcome its agent knows.
SPECIFICATION Spec
INVARIANT
  RealExitReported
SYMMETRY Interchangeable
CONSTANTS
  Runs = {r1, r2}
  Pulls = {k1, k2}
CHECK_DEADLOCK FALSE
