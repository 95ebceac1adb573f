SPECIFICATION Spec
CONSTANTS
  KeepBuilds = 1
  MaxJobs = 2
  Targets = {"iso"}
  MaxCrashes = 1
  MaxFaults = 0
  MaxVms = 0
  VmRequests = {}
  ChildrenSurvive = TRUE
INVARIANT OneBuildAtATime
CHECK_DEADLOCK FALSE
