SPECIFICATION Spec
CONSTANTS
  Size = 4
  Lengths = {1, 3}
  Wrap = 9
INVARIANTS
  BytesInOrder
