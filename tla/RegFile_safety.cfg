SPECIFICATION Spec
CONSTANTS
  i = i
  j = j
  k = k
  p = p
  q = q
  Instances <- ThreeInstances
  Processes <- TwoProcesses
  Owner <- TwoAndOne
  Mortal <- TwoProcesses
  CanFail = TRUE
  MaxObjects = 3
  CountMod = 8
INVARIANTS UsersAreRecorded OneRegistry LastOneCleans
CHECK_DEADLOCK FALSE
