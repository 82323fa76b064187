SPECIFICATION FairSpec
CONSTANTS
  a = a
  b = b
  c = c
  p = p
  q = q
  r = r
  Nodes <- ThreeNodes
  Processes <- ThreeProcesses
  Setups <- AllScenarios
INVARIANTS Converged DepartedForgotten DeathReported PublishedOnce
  
CHECK_DEADLOCK FALSE
