SPECIFICATION Spec
CONSTANTS
  Clients = {c1}
  c1 = c1
  Paths = {f1, f2}
  f1 = f1
  f2 = f2
  Faulty = {"write"}
  MaxProposals = 1
  MaxEdits = 0
  MaxFaults = 1
  MaxCrashes = 0
INVARIANT NoHalfProposal
CHECK_DEADLOCK FALSE
