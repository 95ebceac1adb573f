SPECIFICATION Spec
CONSTANTS
  Branches = {"rel"}
  Default = "rel"
  UpstreamHas = {"rel"}
  Asked = {"preview", "pick", "commit"}
  MaxCommits = 3
  MaxConflicts = 1
  MaxFaults = 1
  MaxCrashes = 0
INVARIANT RetryPossible
CHECK_DEADLOCK FALSE
