SPECIFICATION Spec
CONSTANTS
  c1 = c1
  c2 = c2
  p1 = p1
  p2 = p2
  r1 = r1
  r2 = r2
  Nothing = Nothing
  Client <- TwoClients
  Pack <- TwoPacks
  Reader <- TwoReaders
  QueueCap = 2
  ResultCap = 1
  MaxRequests = 4
SYMMETRY Symmetry
INVARIANTS TypeOK ShownIsPack ReadIsSelected
