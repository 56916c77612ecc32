CONSTANTS
  Ids = {a, b, c, d}
  NoId = none
  Orders = {o1, o2}
  NULL = null
  HashValues = {0, 3, 7}
  InitialCapacity = 4
  Reservations = {0, 3}
  MaxCapacity = 8
SPECIFICATION IndexFairSpec
INVARIANTS LookupExact ProbesEnd CountExact
PROPERTIES ContentsKept IndexCallReturns
