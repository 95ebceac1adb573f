SPECIFICATION Spec
CONSTANTS
  KeepBuilds = 1
  MaxJobs = 3
  Targets = {"iso", "component"}
  MaxCrashes = 1
  MaxFaults = 0
  MaxVms = 1
  VmRequests = {1}
  ChildrenSurvive = FALSE
INVARIANTS ListedArtifactsExist WindowBounded
PROPERTY RetentionSpares
CHECK_DEADLOCK FALSE
