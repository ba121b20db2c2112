SPECIFICATION Spec
CONSTANTS
  Payload = 8
  MaxSec = 19
  Lens = {4, 6, 11, 19}
  Ids = 3
  CcMod = 4
  CheckCrc = TRUE
  MaxLost = 1
INVARIANTS
  HoldsSectionSoFar
