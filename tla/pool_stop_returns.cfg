SPECIFICATION FairSpec
CONSTANTS
  Workers = {w1, w2}
  Sockets = {s1}
  QLen = 1
  MayStop = TRUE
  MayFail = FALSE
  None = None
PROPERTIES StopReturns
CHECK_DEADLOCK FALSE
