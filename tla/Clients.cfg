SPECIFICATION FairSpec
CONSTANTS
  c1 = c1
  Client <- OneClient
  SendCap = 3
  HubCap = 2
  FuncCap = 2
INVARIANTS TypeOK ClosedIsForgotten
PROPERTIES CommandsTaken RemovedPumpsEnd
CHECK_DEADLOCK FALSE
