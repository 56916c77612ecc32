CONSTANTS
  MaxRaw = 23
  WordBits = 3
  MaxLevels = 7
  Ticks = {1, 2, 3}
  Headrooms = {0, 20, 50, 100}
  Origins = {0, 1, 2}
  MaxFilePrice = 8
SPECIFICATION InterchangeSpec
INVARIANTS PriceMapExact BitsetExact WalkExact LadderFitsRange
CHECK_DEADLOCK FALSE
