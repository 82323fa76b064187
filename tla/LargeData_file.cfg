SPECIFICATION FairSpec
CONSTANTS
  p = p
  q = q
  r = r
  j = j
  None = None
  Processes <- AllProcesses
  MaxObjects = 4
  MaxReaders = 2
  Setups <- AllScenarios
INVARIANTS OneChannel RefsCountUsers ReadersKeepTheirSlot NothingLeft
PROPERTY OrphansGo
CHECK_DEADLOCK FALSE
