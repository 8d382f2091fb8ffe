\* A client run, the session that owns it and another of its owner, with an instance that falls silent, drains and dies.
SPECIFICATION Spec
INVARIANTS
  IInv
  OpenRunHasAKeeper
PROPERTIES
  ContractHolds
  ReportStands
  LeftRunEnds
CONSTANTS
  Instances = {i1, i2}
  Mortal = {i1}
  Sessions = {s1, s2}
  Home <- Homes
  Runs = {c1}
  None = None
  Faults = {"close"}
  i1 = i1
  i2 = i2
  s1 = s1
  s2 = s2
  c1 = c1
CHECK_DEADLOCK FALSE
