SPECIFICATION Spec
CONSTANTS
  Mode = {"tcp", "rtu"}
  TxSpace = 3
  LateBy = 2
  MaxRequests = 4
INVARIANTS
  TypeOK
  OwnAnswer
  CleanBetween
PROPERTIES
  RequestsEnd
CHECK_DEADLOCK FALSE
