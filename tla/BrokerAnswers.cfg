SPECIFICATION ReachableSpec
CONSTANTS
  c1 = c1
  c2 = c2
  c3 = c3
  Call = {c1, c2}
  OpsOf <- PairOps
  Nobody = Nobody
  QueueCap = 1
  EventCap = 1
  ReadAttempts = 3
  WriteAttempts = 2
  BatchSize = 2
  BackoffBase = 1
  BackoffMax = 3
INVARIANTS
  ConnectedResetsBackoff
  TransmissionsInBudget
  HeardIsCurrent
PROPERTIES
  CommandsAnswered
CHECK_DEADLOCK FALSE
