SPECIFICATION FairSpec
CONSTANTS
  r1 = r1
  r2 = r2
  Reader <- TwoReaders
  Nothing = Nothing
  Words <- MCWords
  FuncsCap = 1
  ResultCap = 1
  MaxConnects = 1
INVARIANTS TypeOK PlanIsDetected
PROPERTIES ReadingClears
