SPECIFICATION Spec
CONSTANTS
  c1 = c1
  c2 = c2
  pv = pv
  configuration = configuration
  r1 = r1
  r2 = r2
  Nothing = Nothing
  Client <- TwoClients
  Section <- TwoSections
  ReadOnce <- Cached
  Rebuilt <- Reconfigured
  Reader <- TwoReaders
  SpanCount = 1
  ResultCap = 1
SYMMETRY Symmetry
INVARIANTS TypeOK OneSubscription NoOrphanRead LiveReadIsWanted
