SPECIFICATION AnySpec
CONSTANTS
  Size = 8
  Lengths = {3, 4}
  Counts = {1, 3, 8}
  MaxBusy = 2
  Writers = {"w1", "w2"}
  Callers = {"c1", "c2"}
  Keys = {"up", "ok"}
  Directions = {1, 2}
  Uses <- BoardUses
  Wires = {"power", "voltage"}
  MaxWaiting = 2
  MaxPresses = 3
  MaxLoads = 1
  Transfers <- BoardTransfers
  MaxBd = 4
  Times <- ClockTimes
  MaxLost = 1
  CardDrivers = {"mmc2test", "mmccombo"}
  CardUnits = 4
  BlockLens = {1, 2}
  FirstSector = 1
  Delay = 8
  MaxWrites = 1
  Varied = {"PB18", "PB19", "PA07", "PB16"}
  WordCounts = {1, 3, 4, 6, 8}
  MaxWords = 8
  Wrap = 32
  MaxSlow = 1
INVARIANTS
  OneOnTheBus
  DriversLoadCleanly
  MessagesArrive
  SwitchAndDisplayFollow
  DataCarriedWhole
PROPERTIES
  NothingElseWritten
CHECK_DEADLOCK FALSE
