CONSTANTS
  FeedPrices = {1, 2}
  OrderShares = {2}
  Directory <- MCDirectory
  Locate = 1
  Bystanders <- MCBystanders
  Openings <- PlainOpenings
  MaxMessages = 3
  Wanted = {"SYM"}
  KeepSystem = TRUE
  Limits = {0}
  PriceScale = 2
  SyntheticIdBase = 100
SPECIFICATION ItchSpec
INVARIANT DesyncsReported
CHECK_DEADLOCK FALSE
