\* A pinned ticket moves to a checkout another execution works in.
SPECIFICATION Spec
INVARIANT
  TasksNeverShareCheckout
CONSTANTS
  Runs = {r1, r2, r3}
  Jobs <- Apart
  p1 = p1
  p2 = p2
  main = main
  lib = lib
  ta = ta
  tb = tb
  tc = tc
  td = td
CHECK_DEADLOCK FALSE
