CONSTANTS
  BufWords = 7
  MaxSize = 16
  Sizes = {5, 16}
  MaxCalls = 6
SPECIFICATION Spec
INVARIANT FalseMeansEmpty
