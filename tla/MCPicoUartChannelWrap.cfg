SPECIFICATION MCSpec
CONSTANTS
  Width = 4
  RxSize = 4
  TxSize = 4
  Bytes = {"a", "b"}
  NoByte = "-"
  MaxBlock = 3
  RunOver = "anywhere"
INVARIANT NoPanic
