SPECIFICATION FairSpec
CONSTANTS
  MaxSessions = 2
  MaxViewers = 1
  MaxFaults = 1
  MaxCrashes = 1
  MaxEarlyStops = 1
INVARIANTS OneMachineInOrder ViewHonest
PROPERTY SlotReleased
CHECK_DEADLOCK FALSE
