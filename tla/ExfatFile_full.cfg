CONSTANTS
  f1 = f1
  f2 = f2
  NumClusters = 6
  ByteBits = 4
  Files <- MCFiles
  MaxSize <- MCMaxSize
  Slots = {s1, s2}
  Reserved = {}
  NoEntry = NoEntry
  HoldOpen = {}
  EntryFails = FALSE
SPECIFICATION Spec
PROPERTY FullMeansFull
CHECK_DEADLOCK FALSE
