CONSTANTS
  OrderIds = {a, b, c}
  InvalidId = none
  Slots = {s1, s2, s3}
  NULL = null
  MinPrice = 2
  TickSize = 2
  LevelCount = 2
  Prices = {0, 2, 3, 4, 6}
  Requests <- MCRequests
  MaxQuantity = 3
  MaxSequence = 3
SPECIFICATION Spec
SYMMETRY Symmetry
INVARIANTS TypeOK NotCrossed TimePriority QuantityConserved NoInternalError
PROPERTIES ExecutionsFollowPriority PriorityKept EventProgress ImplementsPriceTimeBook
