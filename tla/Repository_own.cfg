SPECIFICATION Spec
CONSTANTS
  Branches = {"rel", "dev"}
  Default = "rel"
  UpstreamHas = {"rel", "dev"}
  Asked = {"check", "update", "checkout"}
  MaxCommits = 2
  MaxConflicts = 1
  MaxFaults = 0
  MaxCrashes = 0
PROPERTY UpdateTakesItsBranch
CHECK_DEADLOCK FALSE
