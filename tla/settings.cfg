SPECIFICATION ParamSpec
CONSTANTS
  Lines <- MCLines
  MaxLines = 3
  Numbers <- MCNumbers
  Lower <- MCLower
  Estimates <- MCEstimates
INVARIANTS ParamTypeOK LoadedAsWritten StepsAsWritten AnswerWithinLimits
