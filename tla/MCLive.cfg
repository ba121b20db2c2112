SPECIFICATION AnySpec
CONSTANTS
  Users = {"u1", "u2"}
  Patience = 2
  ShutdownTimeout = 5
  Nobody = "nobody"
INVARIANTS
  PidNamesThread
  FreedAfterThread
PROPERTIES
  NobodyWaitsForGood
  SettledIsFollowed
  RecoversFromLoss
CHECK_DEADLOCK FALSE
