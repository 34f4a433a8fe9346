CONSTANTS
  MinFees = 0
  MinFeeRate = 1000
  DustLimit = 546
  OmitChangeBelowDust = TRUE
  MaxTxInputs = 3
  Int64Half = 1000000000
  Managed <- TwoWallet
  Genesis <- TwoGenesis
  Payments <- TwoPayments
  Rates <- NodeDecides
  NodeRates <- LegacyNode
  SpeedUps <- OneReplacement
  Sweeps <- Nothing
  MinTransfer = 3000
  Incoming <- Nothing
  MaxTxs = 2
  EnableRBF = TRUE
SPECIFICATION Spec
INVARIANTS ReplacementCanBeBooked
CHECK_DEADLOCK FALSE
