SPECIFICATION Spec
CONSTANTS
  HoursPerDay = 2
  Conf <- MCConf
  Inputs <- MCInputs
  None = None
INVARIANTS TypeOK EveryPositionCounts AnswersThisQueryAlone
CHECK_DEADLOCK TRUE
