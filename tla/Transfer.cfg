CONSTANTS
  MinFees = 0
  MinFeeRate = 1000
  DustLimit = 546
  OmitChangeBelowDust = TRUE
  MaxTxInputs = 3
  Int64Half = 1000000000
  Managed <- ThreeWallet
  Genesis <- ThreeGenesis
  Payments <- ThreePayments
  Rates <- NodeDecides
  NodeRates <- LegacyNode
  SpeedUps <- TwoReplacements
  Sweeps <- Sweep
  MinTransfer = 4000
  Incoming <- TwoIncoming
  MaxTxs = 3
  EnableRBF = TRUE
SPECIFICATION FairSpec
INVARIANTS TypeOK LedgerMatchesChain RecipientsGetTheirs FeeIsWhatIsPaid ChangeFitsPayer ReplacementAccepted OnePayerCanBeBooked TwoPayersCanBeBooked RefusedIfOvercharged PayersWithRoomCanBeBooked
PROPERTIES MinedIsScanned
CHECK_DEADLOCK FALSE
