SPECIFICATION Spec
CONSTANTS
  Branches = {"rel", "dev"}
  Default = "rel"
  UpstreamHas = {"rel", "dev"}
  Asked = {"preview", "checkout"}
  MaxCommits = 1
  MaxConflicts = 1
  MaxFaults = 0
  MaxCrashes = 0
PROPERTY LandsOnItsBranch
CHECK_DEADLOCK FALSE
