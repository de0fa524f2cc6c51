SPECIFICATION PtrSpec
CONSTANTS
  Capacity = 4
  Counts = {0, 1, 2, 3, 4}
  MaxFaults = 2
INVARIANT ContiguousPushFits
