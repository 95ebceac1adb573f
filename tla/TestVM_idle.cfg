SPECIFICATION Spec
CONSTANTS
  MaxSessions = 1
  MaxViewers = 1
  MaxFaults = 0
  MaxCrashes = 0
  MaxEarlyStops = 0
PROPERTY IdleMeansUnwatched
CHECK_DEADLOCK FALSE
