SPECIFICATION Spec
CONSTANTS
  NoSubmission = none
  Workers = {w1, w2}
  Submissions = {s1}
  w1 = w1
  w2 = w2
  Slots = 2
  Deployments <- MCDeployments
  Retries = 2
  MaxFaults = 0
  Signals = {w1}
  BusyEscapes = FALSE
INVARIANTS
  ClaimIsALock
CHECK_DEADLOCK FALSE
