SPECIFICATION IsolatedSpec
CONSTANTS
  Agents = {a1, a2}
  MaxSteps = 2
  MaxFaults = 0
INVARIANTS
  RoundsAligned
CHECK_DEADLOCK FALSE
