SPECIFICATION FairSpec
CONSTANTS
  a = a
  b = b
  NoReader = NoReader
  Readers <- TwoReaders
  NumSlots = 2
  Capacity = 4
  Setups <- AllSetups
INVARIANTS MagicMeansWhole HeldBlockStays
PROPERTIES NothingSkipped ReaderGoesOn
CHECK_DEADLOCK FALSE
