\* Three executions of any kind, in any order, with cancel, clear and restart.
SPECIFICATION FairSpec
INVARIANTS
  SharedCheckoutSerial
  CapacityHeld
  FirstComeFirstServed
  SomebodyAdvances
  IInv
PROPERTY
  QueueAdvances
CONSTRAINT NamedInOrder
CONSTANTS
  Runs = {r1, r2, r3}
  Jobs <- AllJobs
  p1 = p1
  p2 = p2
  main = main
  lib = lib
  ta = ta
  tb = tb
  tc = tc
  td = td
CHECK_DEADLOCK FALSE
