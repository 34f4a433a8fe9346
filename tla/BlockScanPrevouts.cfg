CONSTANTS
  Blocks <- TheBlocks
  Content <- TheContent
  Ins <- TheIns
  Outs <- TheOuts
  Managed <- OneManaged
  Faults = {"prevout"}
  MaxFaults = 1
SPECIFICATION Spec
INVARIANTS SpendsKept
