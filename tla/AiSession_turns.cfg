SPECIFICATION Spec
CONSTANTS
  Clients = {c1, c2}
  AdoptsAlone = TRUE
  MaxSessions = 2
  MaxTurns = 3
  MaxFaults = 1
  MaxCrashes = 1
INVARIANT SettingNamesSession
PROPERTIES NothingForgotten GenerationEnds
CHECK_DEADLOCK FALSE
