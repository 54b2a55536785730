SPECIFICATION FairSpec
CONSTANTS
  Workers = {w1, w2}
  Sockets = {s1, s2}
  QLen = 1
  MayStop = FALSE
  MayFail = TRUE
  None = None
PROPERTIES EveryConnectionServed
CHECK_DEADLOCK FALSE
