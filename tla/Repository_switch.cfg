SPECIFICATION Spec
CONSTANTS
  Branches = {"rel", "dev"}
  Default = "rel"
  UpstreamHas = {"rel", "dev"}
  Asked = {"preview", "commit", "checkout", "update"}
  MaxCommits = 2
  MaxConflicts = 1
  MaxFaults = 0
  MaxCrashes = 0
PROPERTIES NothingLost AppliedAsPrepared
CHECK_DEADLOCK FALSE
