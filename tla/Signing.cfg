SPECIFICATION Spec
CONSTANTS
  Nodes = {"core1", "explorer"}
  KindOf <- MCKindOf
  Readers = {submitter}
  MaxLoads = 2
  MaySwitch = FALSE
  Coins = {witness, legacy}
  Legacy = {legacy}
  PrevOuts = {"v0_3000", "p2pkh_1000"}
  PrevOutOf <- MCPrevOutOf
  MaxDrafts = 2
  Submitter = submitter
INVARIANTS TypeOK ReaderFindsClient SettledOnServed SentIsVerified SignedCanBeVerified TakenIsNamed PrecomputedIsTaken
CHECK_DEADLOCK FALSE
