SPECIFICATION ManagerSpec
CONSTANTS
  KeepBuilds = 1
  MaxJobs = 2
  Targets = {"iso"}
  MaxCrashes = 1
  MaxFaults = 2
  MaxVms = 0
  VmRequests = {}
  ChildrenSurvive = FALSE
INVARIANTS WorkerSound OneBuildAtATime
PROPERTIES LifecycleSpec CancelEndsOrSticks BuildsEndOrStick
CHECK_DEADLOCK FALSE
