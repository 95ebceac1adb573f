SPECIFICATION Spec
CONSTANTS
  Branches = {"rel"}
  Default = "rel"
  UpstreamHas = {"rel"}
  Asked = {"preview", "pick", "update"}
  MaxCommits = 3
  MaxConflicts = 1
  MaxFaults = 1
  MaxCrashes = 1
INVARIANTS GraftOwnsWorktree PullRequestIsOneCommit
CHECK_DEADLOCK FALSE
