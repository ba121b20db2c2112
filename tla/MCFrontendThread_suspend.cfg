SPECIFICATION Spec
CONSTANTS
  Users = {u1}
  Patience = 2
  ShutdownTimeout = 5
  Nobody = Nobody
PROPERTIES
  SuspendsOnlyUnused
