SPECIFICATION AnySpec
CONSTANTS
  Slots = {1}
  Macs = {"m1", "m2"}
  Groups = {"g1", "g2"}
  MaxMulti = 1
  MaxFeeds = 1
INVARIANTS
  FiltersFollow
  FeedOnlyWhileUp
  StreamKept
  RegistrationsHold
  TunedAsAsked
  SemIsMutex
PROPERTIES
  ImplementsQueue
CHECK_DEADLOCK FALSE
