SPECIFICATION RobbedSpec
CONSTANTS
  NFeeds = 2
  NFilters = 2
  Pids <- MCPids
  BadPid = BadPid
  AskPids = {1, BadPid}
  PesTypes = {VIDEO, AUDIO}
  OtherPes = OtherPes
  NoFeed = NoFeed
  Signals = TRUE
  HwMayFail = TRUE
  c1 = c1
  c2 = c2
  n1 = n1
  PesClients = {c1, c2}
  NetClients = {n1}
  NoClient = NoClient
  Wants <- Competing
  NetFilters = 1
SYMMETRY Symmetry
INVARIANTS
  TypeOK
  NoDanglingPesFilter
  DecoderExclusiveUntilRobbed
