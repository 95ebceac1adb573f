SPECIFICATION WalkSpec
CONSTANTS
  KeepBuilds = 3
  Builds = 5
INVARIANTS WalkIsExpired WalkKeepsWhatIsPromised
