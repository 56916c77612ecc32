CONSTANTS
  OrderIds = {a, b, c}
  InvalidId = none
  Slots = {s1, s2, s3}
  NULL = null
  MinPrice = 2
  TickSize = 2
  LevelCount = 3
  Prices = {0, 2, 3, 4, 6, 8}
  Requests <- MCRequests
  MaxQuantity = 3
  MaxSequence = 1
SPECIFICATION HistSpec
SYMMETRY Symmetry
INVARIANTS BookTypeOK IndexMatchesPool QueuesMatchOrders TouchExact SnapshotExact
PROPERTY FailedAddRestoresBook
