SPECIFICATION Spec
CONSTANTS
  KeepBuilds = 1
  MaxJobs = 1
  Targets = {"iso"}
  MaxCrashes = 0
  MaxFaults = 0
  MaxVms = 0
  VmRequests = {}
  ChildrenSurvive = FALSE
\* One property at a time: each of these is violated.
INVARIANT ArtifactsOnlyOfSucceeded
\* PROPERTY CancelTakesEffect
CHECK_DEADLOCK FALSE
