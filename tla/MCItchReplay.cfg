CONSTANTS
  FeedPrices = {1, 2}
  OrderShares = {2}
  Directory <- MCDirectory
  Locate = 1
  Bystanders <- MCBystanders
  Openings <- MCOpenings
  MaxMessages = 6
  Wanted = {"SYM"}
  KeepSystem = TRUE
  Limits = {0, 3}
  PriceScale = 2
  SyntheticIdBase = 100
SPECIFICATION ItchSpec
INVARIANTS CsvIsSession ReplayMatchesVenue AggressorsInjectedOnce
CHECK_DEADLOCK FALSE
