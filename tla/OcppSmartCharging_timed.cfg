SPECIFICATION TimedSpec
CONSTANTS
  Writers = {a}
  MaxLimit = 2
  Verdicts = {TRUE}
  MaxWrites = 1
  MaxTx = 1
  MaxDrops = 1
  MaxTimeouts = 8
  None = None
CHECK_DEADLOCK FALSE
INVARIANTS
  AppliedIsInstalled
  AnswersMatched

  
