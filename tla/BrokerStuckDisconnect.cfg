SPECIFICATION FairSpec
CONSTANTS
  c1 = c1
  c2 = c2
  c3 = c3
  Call = {c1, c2, c3}
  OpsOf <- RaceOps
  Nobody = Nobody
  QueueCap = 1
  EventCap = 1
  ReadAttempts = 2
  WriteAttempts = 1
  BatchSize = 2
  BackoffBase = 1
  BackoffMax = 1
PROPERTIES
  DisconnectTakesEffect
CHECK_DEADLOCK FALSE
