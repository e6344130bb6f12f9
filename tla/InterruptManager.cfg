SPECIFICATION FairSpec
CONSTANTS
  Devices = {keyboard, mouse}
  Capacity = 2
  MaxBytes = 3
  MaxEnables = 1
INVARIANTS
  ParsedInOrder
PROPERTIES
  BytesMoveOn
