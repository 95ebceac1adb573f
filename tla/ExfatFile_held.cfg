CONSTANTS
  f1 = f1
  f2 = f2
  NumClusters = 5
  ByteBits = 2
  Files <- MCFiles
  MaxSize <- MCMaxSize
  Slots = {s1, s2}
  Reserved = {}
  NoEntry = NoEntry
  HoldOpen = {f1}
  EntryFails = FALSE
SPECIFICATION Spec
\* One property at a time: each of these is violated.
PROPERTY ReadAllocatesNothing
\* INVARIANT GonePagesHarmless
\* INVARIANT DataIsItsOwn
CHECK_DEADLOCK FALSE
