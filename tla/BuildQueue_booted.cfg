SPECIFICATION Spec
CONSTANTS
  KeepBuilds = 1
  MaxJobs = 3
  Targets = {"iso"}
  MaxCrashes = 0
  MaxFaults = 0
  MaxVms = 1
  VmRequests = {1}
  ChildrenSurvive = FALSE
PROPERTY MachineKeepsImage
CHECK_DEADLOCK FALSE
