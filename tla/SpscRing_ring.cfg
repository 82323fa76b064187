SPECIFICATION FairSpec
CONSTANTS
  BufWords = 7
  MaxSize = 16
  Sizes = {0, 5, 16, 17}
  MaxCalls = 6
PROPERTIES UnreadStable ImplementsFifo EveryMessageRead
