SPECIFICATION MemoryFairSpec
CONSTANTS
  a = a
  b = b
  c = c
  p = p
  q = q
  r = r
  None = None
  Peers <- ThreePeers
  Processes <- AllProcesses
  Placements <- Spread
  OwnerProcess = p
  Mortal <- TwoMortal
  MaxAccessors = 2
  MaxConnects = 1
  InitMayFail = TRUE
INVARIANTS AccessorsRecorded
PROPERTY DeadMemoryRemoved UsedMemoryKept
CHECK_DEADLOCK FALSE
