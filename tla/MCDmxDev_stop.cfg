SPECIFICATION Spec
CONSTANTS
  NFeeds = 2
  NFilters = 2
  Pids <- MCPids
  BadPid = BadPid
  PesTypes <- VideoOnly
  OtherPes = OtherPes
  NoFeed = NoFeed
  Signals = FALSE
  HwMayFail = FALSE
  NDev = 1
  NoDev = NoDev
  NoFilter = NoFilter
  SecRequests <- OneShot
  PesRequests <- NoStreams
  TimerRaces = TRUE
CHECK_DEADLOCK FALSE
PROPERTIES
  StopMarksStopped
