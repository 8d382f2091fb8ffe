\* A reconnection closes a run the workstation is about to start.
SPECIFICATION Spec
INVARIANT
  OnlyOrphansClosed
SYMMETRY Interchangeable
CONSTANTS
  Runs = {r1, r2}
  Pulls = {k1, k2}
CHECK_DEADLOCK FALSE
