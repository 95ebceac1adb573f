SPECIFICATION Spec
CONSTANTS
  d1 = d1
  d2 = d2
  f1 = f1
  f2 = f2
  NoFile = NoFile
  NoDir = NoDir
  Dirs = {d1, d2}
  Files = {f1, f2}
  Lengths = {1, 2}
  PerCluster = 2
  NumClusters = 5
  ByteBits = 2
  RenamesTurn = TRUE
  RefusalsSpoil = FALSE
SYMMETRY Symmetric
INVARIANT FidsFindTheirEntries
CHECK_DEADLOCK FALSE
