SPECIFICATION Spec
CONSTANTS
  Clients = {c1}
  c1 = c1
  Paths = {f1, f2}
  f1 = f1
  f2 = f2
  Faulty = {}
  MaxProposals = 2
  MaxEdits = 0
  MaxFaults = 0
  MaxCrashes = 0
\* One property at a time: each of these is violated.
INVARIANT NewestOnScreen
\* INVARIANT UndoOutlivesRestart
CHECK_DEADLOCK FALSE
