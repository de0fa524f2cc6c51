SPECIFICATION Spec
CONSTANTS
  CadTimeout = 2
  TxTimeout = 3
  RxTimeout = 3
  MaxTickGap = 2
  TxSlots = 2
  RxSlots = 2
  MaxSends = 2
  MaxPackets = 2
  MaxGlitches = 1
INVARIANTS NoLostInterrupt RadioAgreement DeliveryOrder
PROPERTIES ListenBeforeTalk TxAbandonedOnlyOnTimeout QueueDrains RadioRecovers
