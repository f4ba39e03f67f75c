\* Three isolated sessions, of a judge and one agent each, on two permits.
\* A session that may fail between two creates includes every pair session.
SPECIFICATION Spec
CONSTANTS
  Cases = {c1, c2, c3}
  Need = 2
  MaxConcurrent = 2
  Isolated = TRUE
INVARIANTS
  TypeOK
  PermitsConserved
  ContainerLimit
  NothingLeftAtShutdown
PROPERTIES
  SessionsEnd
  ImplementsPool
CHECK_DEADLOCK FALSE
