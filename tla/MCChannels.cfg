SPECIFICATION ChannelsSpec
CONSTANTS
  Width = 4
  RxSize = 4
  TxSize = 4
  Bytes = {"a", "b"}
  NoByte = "-"
  MaxBlock = 3
  RunOver = "between calls"
  S = 8
  OobLen = 1
  Messages <- MCMessages
  Caps = {1, 9}
  Threads = {"t1", "t2", "t3"}
  MaxItems = 4
INVARIANTS NoPanic NoLostWakeup EachOnceInOrder
PROPERTIES ImplementsQueue ReceivesInOrder SendsInOrder ItemsLeave
