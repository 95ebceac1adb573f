SPECIFICATION FairSpec
CONSTANTS
  Viewers = {v1}
  v1 = v1
  MaxCaptures = 1
  MaxBytes = 3
  MaxFiles = 2
  Pipe = 1
  Chunk = 2
  Faulty = {"read", "save", "write", "docker", "rm"}
  MaxFaults = 1
  MaxCrashes = 1
INVARIANTS TypeOK LogIsOutput SucceededLogWhole DoneSawAll LogDiesWithBuild
PROPERTIES EndGetsVerdict StreamsEnd
CHECK_DEADLOCK FALSE
