SPECIFICATION Spec
CONSTANTS
  Psids = {p1, p2}
  MaxDump = 2
  None = None
SYMMETRY MCSymmetry
INVARIANTS TypeOK OnlyWholeIndexLoads OnlyUserlessRefused
CHECK_DEADLOCK TRUE
