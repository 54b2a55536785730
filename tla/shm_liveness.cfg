SPECIFICATION FairSpec
CONSTANTS
  Workers = {w1}
  Settle = 1
  Grace = 2
  Check = 1
  MaxGen <- MCFewGen
  MissingAtStart <- MCMissing
INVARIANTS TimelyViewsMatch
PROPERTIES LatestServed
CHECK_DEADLOCK TRUE
