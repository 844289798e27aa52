SPECIFICATION Spec
CONSTANTS
  ChargePoints = {a, b}
  MaxId = 2
  MaxMeter = 1
  MaxEpoch = 3
  MaxQueue = 2
  MaxRestarts = 1
  None = None
SYMMETRY Symmetry
CHECK_DEADLOCK FALSE

  
PROPERTIES
  BillIsSession
  
