SPECIFICATION MCSpec
CONSTANTS
  Symbols = {"5", "8"}
  None = "-"
  Modulus = 32
  UsPerMs = 3
  States = {0, 1}
  Timeouts = {0, 1, 3}
  MaxCalls = 2
  WrapInWindow = FALSE
  ActiveMs = 4
  InactiveMs = 3
  MaxGap = 2
  Word = 16
  Intervals = {3, 5, 18}
  Steps = {1, 4, 7}
  MaxUs = 24
  ResultSize = 1
INVARIANTS ReportsEachPress NoTickLost PressIsRecognised
PROPERTIES ImplementsTimedState TimeoutsFire ConfirmedChangesAfterWindow Settles OneResultPerPress
