\* One queued launch, two instances: every crash, pause, reclaim and cancel.
SPECIFICATION FairSpec
CONSTANTS
  Launches = {q1}
  Direct = {}
  Forced = {}
  Stoppable = {q1}
  Instances = {i1, i2}
  First = i1
  Faults <- AllFaults
INVARIANTS
  WorkHasAKeeper
  HeldRunStaysOpen
  WithdrawnNeverSent
PROPERTIES
  OutcomeIsFinal
  ContractHolds
  LaunchSettles
  NothingStranded
CHECK_DEADLOCK FALSE
