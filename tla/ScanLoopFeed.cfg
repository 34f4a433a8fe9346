CONSTANTS
  MaxHeight = 2
  BatchLimit = 1
  MaxRequests = 2
  MaxResets = 1
  ResetsInRound = FALSE
SPECIFICATION FairSpec
PROPERTIES FeedSpec PriorityServed CatchesUp
