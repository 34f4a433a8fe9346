SPECIFICATION Spec
CONSTANTS
  Nodes = {"core1", "explorer"}
  KindOf <- MCKindOf
  Readers = {submitter}
  MaxLoads = 2
  MaySwitch = TRUE
  Coins = {witness, legacy}
  Legacy = {legacy}
  PrevOuts = {"v0_3000", "p2pkh_1000"}
  PrevOutOf <- MCPrevOutOf
  MaxDrafts = 2
  Submitter = submitter
PROPERTIES FailedPingKeepsClient
CHECK_DEADLOCK FALSE
