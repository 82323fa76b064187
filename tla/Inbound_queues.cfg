SPECIFICATION FairSpec
CONSTANTS
  a = a
  b = b
  None = None
  Rcv = Rcv
  Senders <- TwoSenders
  Slot <- Slots
  Capacity = 1
  DataPerPass = 1
  PendMod = 5
  CongMax = 2
  CongInc = 2
  CongInitial = 1
  Setups <- AllSetups
INVARIANTS PendingCountsRing
PROPERTIES EveryMessageDelivered StopReturns
CHECK_DEADLOCK FALSE
