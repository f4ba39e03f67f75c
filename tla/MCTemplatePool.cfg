SPECIFICATION ImageSpec
CONSTANTS
  Callers = {c1, c2}
  Keys = {k1, k2}
  Base = base
  MaxEvictions = 1
  MaxFaults = 2
INVARIANTS
  PoolTypeOK
  OneBuilder
  InUseExists
  CacheMatchesDisk
PROPERTIES
  PoolProgress
