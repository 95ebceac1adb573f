SPECIFICATION Spec
CONSTANTS
  MaxSessions = 2
  MaxViewers = 0
  MaxFaults = 0
  MaxCrashes = 0
  MaxEarlyStops = 1
INVARIANT OneMachine
CHECK_DEADLOCK FALSE
