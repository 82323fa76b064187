SPECIFICATION Spec
CONSTANTS
  a = a
  b = b
  NoReader = NoReader
  Readers <- TwoReaders
  NumSlots = 2
  Capacity = 5
  Setups <- Uneven
PROPERTY OnlyWasteSkipped
CHECK_DEADLOCK FALSE
