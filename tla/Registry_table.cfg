SPECIFICATION FairSpec
CONSTANTS
  a = a
  b = b
  None = None
  OwnerDead = OwnerDead
  Nodes <- TwoNodes
  NumEntries = 2
  Setups <- AllScenarios
  CountMod = 16
INVARIANTS RegisteredNodesFound IdsUnique CountIsActive
PROPERTY DeadNodesRemoved
CHECK_DEADLOCK FALSE
