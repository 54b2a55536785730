SPECIFICATION Spec
CONSTANTS
  Workers = {w1, w2}
  Settle = 1
  Grace = 2
  Check = 1
  MaxGen <- MCMaxGen
  MissingAtStart = {}
SYMMETRY MCSymmetry
INVARIANTS TimelyViewStable NoMissedUpdate NeverServesPartialLoad
PROPERTIES UpdatedOrExited StoreSpec
CHECK_DEADLOCK TRUE
