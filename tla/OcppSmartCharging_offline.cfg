SPECIFICATION Spec
CONSTANTS
  Writers = {a}
  MaxLimit = 2
  Verdicts = {TRUE}
  MaxWrites = 1
  MaxTx = 1
  MaxDrops = 0
  MaxTimeouts = 0
  None = None
CHECK_DEADLOCK FALSE
INVARIANTS
  AppliedOnceStarted
