SPECIFICATION ESpec
CONSTANTS
  Cases = {c1, c2}
  Need = 2
  MaxConcurrent = 2
  Isolated = FALSE
  MaxPresses = 2
INVARIANTS AccountsKept
PROPERTIES EveryContainerGoes
CHECK_DEADLOCK FALSE
