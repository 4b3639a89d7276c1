SPECIFICATION Spec
CONSTANTS
  Mode = {"rtu"}
  TxSpace = 3
  LateBy = 2
  MaxRequests = 2
PROPERTIES
  IllegalIsFinal
CHECK_DEADLOCK FALSE
