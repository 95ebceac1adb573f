CONSTANTS
  f1 = f1
  f2 = f2
  NumClusters = 5
  ByteBits = 2
  Files <- MCFiles
  MaxSize <- MCMaxSize
  Slots = {s1, s2}
  Reserved = {}
  NoEntry = NoEntry
  HoldOpen = {}
  EntryFails = FALSE
SPECIFICATION Spec
INVARIANT NothingLeaks
CHECK_DEADLOCK FALSE
