SPECIFICATION Spec
CONSTANTS
  c1 = c1
  Client <- OneClient
  SendCap = 2
  HubCap = 1
  FuncCap = 1
INVARIANTS NeverSendsOnClosed
CHECK_DEADLOCK FALSE
