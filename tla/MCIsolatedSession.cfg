\* Two agents, two steps, one fault of any kind.
SPECIFICATION IsolatedSpec
CONSTANTS
  Agents = {a1, a2}
  MaxSteps = 2
  MaxFaults = 1
INVARIANTS
  WholeRounds
PROPERTIES
  KeepsContract
CHECK_DEADLOCK FALSE
