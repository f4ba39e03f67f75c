SPECIFICATION ESpec
CONSTANTS
  Cases = {c1, c2, c3}
  Need = 1
  MaxConcurrent = 1
  Isolated = FALSE
  MaxPresses = 1
INVARIANTS MachineLimit
CHECK_DEADLOCK FALSE
