SPECIFICATION Spec
CONSTANTS
  Viewers = {v1}
  v1 = v1
  MaxCaptures = 1
  MaxBytes = 3
  MaxFiles = 1
  Pipe = 1
  Chunk = 2
  Faulty = {}
  MaxFaults = 0
  MaxCrashes = 0
PROPERTY CharactersWhole
CHECK_DEADLOCK FALSE
