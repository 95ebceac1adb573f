SPECIFICATION Spec
CONSTANTS
  Viewers = {}
  MaxCaptures = 2
  MaxBytes = 2
  MaxFiles = 1
  Pipe = 1
  Chunk = 2
  Faulty = {"read"}
  MaxFaults = 1
  MaxCrashes = 0
INVARIANT LogIsOutput
CHECK_DEADLOCK FALSE
