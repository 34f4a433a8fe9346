CONSTANTS
  Blocks <- TheBlocks
  Content <- TheContent
  Ins <- TheIns
  Outs <- TheOuts
  Managed <- OneManaged
  Faults = {"rpc", "response", "order", "prevout", "lookup", "late", "caller"}
  MaxFaults = 1
SPECIFICATION Spec
INVARIANTS TypeOK CacheEndsWithCall RowsAreReal DepositsKept
PROPERTIES LooksAtomic
