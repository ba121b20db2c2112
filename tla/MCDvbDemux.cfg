SPECIFICATION RobbedSpec
CONSTANTS
  NFeeds = 3
  NFilters = 3
  Pids <- MCPids
  BadPid = BadPid
  AskPids = {1}
  PesTypes = {VIDEO}
  OtherPes = OtherPes
  NoFeed = NoFeed
  Signals = FALSE
  HwMayFail = TRUE
  c1 = c1
  c2 = c2
  n1 = n1
  PesClients = {c1, c2}
  NetClients = {n1}
  NoClient = NoClient
  Wants <- Competing
  NetFilters = 1
SYMMETRY Symmetry
INVARIANTS
  FeedsNotShared
  FilterSlotsAccounted
  HardwareRunsLiveFeeds
  NoSelfDeadlock
