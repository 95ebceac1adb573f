CONSTANTS
  f1 = f1
  f2 = f2
  NumClusters = 5
  ByteBits = 2
  Files <- MCFiles
  MaxSize <- MCMaxSize
  Slots = {s1, s2}
  Reserved = {}
  HoldOpen = {}
  EntryFails = FALSE
  NoEntry = NoEntry
VIEW View
SYMMETRY Symmetry
SPECIFICATION Spec
CONSTRAINT AskedEarly
INVARIANTS
  TypeOK
  DataIsItsOwn
  LookupFindsTheFile
  PagesGoHome
  UsedIsCounted
PROPERTIES
  RefinesFileSpec
CHECK_DEADLOCK FALSE
