\* One worker of two slots or two of one slot, and one submission; one worker may be told to stop; two requests lost or sandboxes busy, enough to give a report up.
SPECIFICATION Spec
CONSTANTS
  NoSubmission = none
  Workers = {w1, w2}
  Submissions = {s1}
  w1 = w1
  w2 = w2
  Slots = 2
  Deployments <- MCDeployments
  Retries = 2
  MaxFaults = 2
  Signals = {w1}
  BusyEscapes = TRUE
INVARIANTS
  ServiceTypeOK
  LockedUntilSigterm
  BookkeepingExplained
PROPERTIES
  VerdictStands
  WorkerStops
  EverySubmissionDecided
CHECK_DEADLOCK FALSE
