SPECIFICATION Spec
CONSTANTS
  Clients = {c1, c2}
  c1 = c1
  c2 = c2
  Paths = {f1, f2}
  f1 = f1
  f2 = f2
  Faulty = {"open", "write", "undo", "save"}
  MaxProposals = 1
  MaxEdits = 1
  MaxFaults = 1
  MaxCrashes = 1
PROPERTY NeverWrittenTwice
CHECK_DEADLOCK FALSE
