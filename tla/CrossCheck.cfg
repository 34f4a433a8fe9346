SPECIFICATION Spec
CONSTANTS
  Nodes = {"exact", "plain", "explorer", "proxied"}
  KindOf <- MCKindOf
  Indexed = {"exact", "explorer", "proxied"}
  Fronted = {"proxied"}
  Wallets = {"plain"}
  Blocks = {"a1", "b1", "b2"}
  Holding = {"a1", "b2"}
  Chains <- MCChains
  Checks = {c1}
  Anchors <- MCAnchors
  PoolURLs <- MCPoolURLs
  MaxPools = 2
  MaxReorgs = 2
INVARIANTS TypeOK
PROPERTIES LooksAtomic
CHECK_DEADLOCK FALSE
