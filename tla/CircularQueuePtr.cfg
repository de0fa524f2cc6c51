SPECIFICATION Spec
CONSTANTS
  size = 3
  MaxWrites = 6
INVARIANT EmptyMeansEmpty
CHECK_DEADLOCK FALSE
