CONSTANTS
  MinFees = 0
  MinFeeRate = 1000
  DustLimit = 546
  OmitChangeBelowDust = TRUE
  MaxTxInputs = 3
  Int64Half = 4000000
  Managed <- TwoWallet
  Genesis <- TwoGenesis
  Payments <- TwoPayments
  Rates <- NodeDecides
  NodeRates <- LegacyNode
  SpeedUps <- Nothing
  Sweeps <- Nothing
  MinTransfer = 3000
  Incoming <- Nothing
  MaxTxs = 1
  EnableRBF = TRUE
SPECIFICATION Spec
INVARIANTS TwoPayersCanBeBooked
CHECK_DEADLOCK FALSE
