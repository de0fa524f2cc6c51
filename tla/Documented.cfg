SPECIFICATION Spec
CONSTANTS
  Byte = 4
  Modulus = 16
  MaxToken = 2
  W = 3
  Octet = 256
  Port = 65536
  MaxAddr = 63
  MaxPort = 7
  MaxParam = 63
  Million = 10
  EpochAdjustment = 3
  Era = 8
  Fraction = 16
  Grain = 4
INVARIANT SomeClaimStands
CHECK_DEADLOCK FALSE
