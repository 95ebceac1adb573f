SPECIFICATION Spec
CONSTANTS
  Clients = {c1, c2}
  c1 = c1
  c2 = c2
  Paths = {f1, f2}
  f1 = f1
  f2 = f2
  Faulty = {}
  MaxProposals = 2
  MaxEdits = 0
  MaxFaults = 0
  MaxCrashes = 0
INVARIANT NoHalfProposal
CHECK_DEADLOCK FALSE
