CONSTANTS
  SlotsPerPage = 2
  MaxPages = 4
  NULL = null
SPECIFICATION PoolSpec
INVARIANTS FreeChainExact FreePagesExact
PROPERTY OrdersStable
