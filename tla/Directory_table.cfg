SPECIFICATION DirectorySpec
CONSTANTS
  a = a
  b = b
  c = c
  None = None
  Senders <- AllSenders
  Mortal <- SomeMortal
  NumSlots = 3
  MaxQueues = 2
  MaxConnects = 2
  InitMayFail = TRUE
INVARIANTS OneProducerPerQueue RefusedOnlyWhenFull ConnectionsAreReceived
SYMMETRY Symmetric
CHECK_DEADLOCK FALSE
