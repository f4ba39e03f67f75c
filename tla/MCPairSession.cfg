\* A session of at most three steps, two faults of any kind.
SPECIFICATION PairSpec
CONSTANTS
  Agents = {user}
  MaxSteps = 3
  MaxFaults = 2
  Backend = "local"
INVARIANTS
  NobodyStarves
  RoundsAligned
  VerdictFits
PROPERTIES
  KeepsContract
CHECK_DEADLOCK FALSE
