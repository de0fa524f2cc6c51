SPECIFICATION Spec
CONSTANTS
  NWords = 4
  IncRange = 2
  Blocks <- MCBlocks
  MaxOps = 3
  MaxFaults = 1
INVARIANT ParityDetects
CHECK_DEADLOCK FALSE
