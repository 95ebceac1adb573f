SPECIFICATION Spec
CONSTANTS
  Branches = {"rel"}
  Default = "rel"
  UpstreamHas = {"rel"}
  Asked = {"preview", "pick", "commit"}
  MaxCommits = 3
  MaxConflicts = 1
  MaxFaults = 0
  MaxCrashes = 0
\* One property at a time: each of these is violated.
INVARIANT GraftHasWorktree
\* PROPERTY OpenedOnHead
\* INVARIANT BuildsNotHeldUp
CHECK_DEADLOCK FALSE
