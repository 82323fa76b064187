SPECIFICATION FairSpec
CONSTANTS
  p = p
  App = App
  Receiver = Receiver
  Nobody = Nobody
  System = System
  t = t
  u = u
  Publishers <- OnePublisher
  Topics <- TwoTopics
  NumThreads = 2
  Route <- Hash
  MaxQueue = 2
  MaxBatch = 2
  MaxSends = 3
  MaxSubs = 2
  Setups <- AllUsers
INVARIANTS Accounted InOrder NeverAnOldCallback TeardownOrder
PROPERTIES EveryMessageTaken DestructorReturns
CHECK_DEADLOCK FALSE
