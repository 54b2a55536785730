SPECIFICATION Spec
CONSTANTS
  Workers = {w1, w2}
  Sockets = {s1, s2, s3, s4}
  QLen = 2
  MayStop = TRUE
  MayFail = FALSE
  None = None
SYMMETRY MCSymmetry
INVARIANTS TypeOK ContextOutlivesThreads
PROPERTIES FifoSpec
CHECK_DEADLOCK FALSE
