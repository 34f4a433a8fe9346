CONSTANTS
  MaxHeight = 3
  BatchLimit = 2
  MaxRequests = 1
  MaxResets = 1
  ResetsInRound = TRUE
SPECIFICATION Spec
INVARIANTS TypeOK NoGap PriorityConserved PauseStopsScans

