SPECIFICATION Spec
CONSTANTS
  NFeeds = 2
  NFilters = 2
  Pids <- MCPids
  BadPid = BadPid
  PesTypes <- VideoOnly
  OtherPes = OtherPes
  NoFeed = NoFeed
  Signals = FALSE
  HwMayFail = FALSE
  NDev = 3
  NoDev = NoDev
  NoFilter = NoFilter
  SecRequests <- Sharing
  PesRequests <- NoStreams
  TimerRaces = FALSE
CHECK_DEADLOCK FALSE
INVARIANTS
  GoingIsFed
  OneFeedPerPid
  NoSlotLost
  TimerOnlyWhileGoing
  NobodyDies
