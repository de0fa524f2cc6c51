SPECIFICATION Spec
CONSTANTS
  States = {0, 1}
  Modulus = 32
  UsPerMs = 3
  Timeouts = {0, 3}
  MaxCalls = 1
  WrapInWindow = TRUE
PROPERTY TimeoutsFire
