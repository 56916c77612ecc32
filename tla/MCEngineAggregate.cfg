CONSTANTS
  OrderIds = {a, b}
  InvalidId = none
  Slots = {s1, s2}
  NULL = null
  MinPrice = 2
  TickSize = 2
  LevelCount = 2
  Prices = {0, 2, 3, 4, 6}
  Requests <- MCRequests
  MaxQuantity = 3
  MaxSequence = 3
SPECIFICATION Spec
SYMMETRY Symmetry
INVARIANT AggregateExact
