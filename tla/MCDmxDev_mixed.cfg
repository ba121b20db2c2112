SPECIFICATION Spec
CONSTANTS
  NFeeds = 2
  NFilters = 2
  Pids <- MCPids
  BadPid = BadPid
  PesTypes <- VideoOnly
  OtherPes = OtherPes
  NoFeed = NoFeed
  Signals = FALSE
  HwMayFail = FALSE
  NDev = 2
  NoDev = NoDev
  NoFilter = NoFilter
  SecRequests <- Plain
  PesRequests <- Streams
  TimerRaces = FALSE
CHECK_DEADLOCK FALSE
INVARIANTS
  TypeOK
  DeliveryToOwner
  BufferOwnPid
