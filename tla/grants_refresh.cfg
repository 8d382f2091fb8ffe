\* Two callers and the grants of a person for each of the three trackers.
SPECIFICATION Spec
INVARIANTS
  IInv
  RefreshesUnspentToken
  DisconnectedWhenDead
  RowHoldsLastConsent
  OnlyRecreatedRowsMistaken
CONSTANTS
  Callers = {c1, c2}
  Trackers = {"jira", "gitlab", "github"}
  MaxConsents = 2
  MaxVersion = 3
  Faults = {"crash", "lost", "pause"}
  c1 = c1
  c2 = c2
SYMMETRY Symmetry
CHECK_DEADLOCK FALSE
