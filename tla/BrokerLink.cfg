SPECIFICATION Spec
CONSTANTS
  c1 = c1
  c2 = c2
  c3 = c3
  Call = {c1, c2, c3}
  OpsOf <- LinkOps
  Nobody = Nobody
  QueueCap = 2
  EventCap = 1
  ReadAttempts = 3
  WriteAttempts = 2
  BatchSize = 2
  BackoffBase = 1
  BackoffMax = 2
INVARIANTS
  TypeOK
  DormantIsQuiet
  StateMirrorsConn
  ExactlyOnce
  AbortExplained
PROPERTIES
  ImplementsService
CHECK_DEADLOCK FALSE
