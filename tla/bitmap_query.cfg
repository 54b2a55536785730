SPECIFICATION Spec
CONSTANTS
  Targets = {t1, t2}
  Size = 3
  WordBytes = 1
  BidLists <- MCBidLists
  Prices = {0, 1}
  Queries <- MCQueries
SYMMETRY MCSymmetry
INVARIANTS TypeOK MaskIsAsked NoUnsignedWrap
CHECK_DEADLOCK FALSE
