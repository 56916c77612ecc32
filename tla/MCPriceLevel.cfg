CONSTANTS
  Levels = {l1, l2}
  Orders = {o1, o2, o3, o4}
  NULL = null
  MaxQuantity = 3
SPECIFICATION LevelSpec
SYMMETRY Symmetry
INVARIANTS ListsConsistent TotalIsSum
PROPERTY ImplementsLevelQueue
