SPECIFICATION ValuesSpec
CONSTANTS
  Layout <- MCLayout
  MaxBatchRegisters = 60
  Words <- MCWords
  ShortBy <- MCShortBy
  TiesUp <- MCTiesUp
  TopoTowers = 2
  TopoPacksPerTower = 10
INVARIANTS
  PlacedOnce
  SlicesInside
  WithinLimit
  ShownIsOwn
  ValueMatchesRaw
  FaultsReported
  OnlineMatchesQuery
CHECK_DEADLOCK FALSE
