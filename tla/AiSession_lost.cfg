SPECIFICATION Spec
CONSTANTS
  Clients = {c1, c2}
  AdoptsAlone = FALSE
  MaxSessions = 2
  MaxTurns = 3
  MaxFaults = 0
  MaxCrashes = 0
INVARIANT TurnsKept
CHECK_DEADLOCK FALSE
