SPECIFICATION MCSpec
CONSTANTS
  Capacity = 4
  Counts = {0, 1, 2, 3, 4}
  MaxFaults = 2
  Items = {"a", "b"}
  NoItem = "-"
  FillTrigger = 3
  MaxFrame = 3
  Entries <- MCEntries
  comparator <- ByKey
  Queued = {"a", "b", "c"}
  Size = 3
  Packets <- MCPackets
  Room = 10
INVARIANT PointersAgree
PROPERTIES ImplementsBlockQueue WaitsForFill ImplementsSortedList ImplementsArrivalOrder ImplementsPacketList
