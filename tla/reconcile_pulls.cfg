\* One run, two pulls at once: what may close, reopen or recreate it.
SPECIFICATION FairSpec
INVARIANT
  IInv
PROPERTIES
  ContractHolds
  EndedForGood
  OnlyStartingRunsMistaken
  LostRunsClosed
CONSTANTS
  Runs = {r1}
  Pulls = {k1, k2}
CHECK_DEADLOCK FALSE
