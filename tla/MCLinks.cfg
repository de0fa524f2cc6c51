SPECIFICATION MCSpec
CONSTANTS
  NWords = 4
  IncRange = 2
  Blocks <- MCBlocks
  MaxOps = 3
  MaxFaults = 2
  NPages = 4
  Offset = 1
  ImagePages = 2
  Tables <- MCTables
  Asked <- MCAsked
  Records <- MCRecords
  NameRoom = 64
  Mac <- MCMac
  ReqId = 513
  Buffers = {305, 306, 590}
  Offers <- MCOffers
  Others = {514}
  MaxNet = 3
  Hosts <- MCHosts
  MacOf <- MCMacOf
  IpOf <- MCIpOf
  Me = 1
  Frames <- MCFrames
INVARIANTS LineOwnership WritesAPrefix ReadIsTrue ReconnectWorks RunsAsAsked ReportsBadPages
  LeaseIsOneServers AnswersAreServers KnownIsOwners FunctionsAgree
PROPERTIES OnlyErasedPages FlashReturns
CHECK_DEADLOCK FALSE
