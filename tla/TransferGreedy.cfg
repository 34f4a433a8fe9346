CONSTANTS
  MinFees = 0
  MinFeeRate = 1000
  DustLimit = 546
  OmitChangeBelowDust = TRUE
  MaxTxInputs = 3
  Int64Half = 1000000000
  Managed <- TwoWallet
  Genesis <- TwoGenesis
  Payments <- TwoPayments
  Rates <- NodeDecides
  NodeRates <- LegacyNode
  SpeedUps <- Nothing
  Sweeps <- Nothing
  MinTransfer = 3000
  Incoming <- Nothing
  MaxTxs = 1
  EnableRBF = TRUE
SPECIFICATION Spec
INVARIANTS TransferCanBeBooked
CHECK_DEADLOCK FALSE
