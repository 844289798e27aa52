SPECIFICATION FairSpec
CONSTANTS
  p = p
  q = q
  c = c
  Polled = {p}
  Cov = {c}
  Connection <- OwnConnection
  Threshold = 2
  Ids = {i1, i2, i3}
  Budget <- Everything
  None = None
INVARIANTS
  InStep
PROPERTIES
  
  OfflineIsEarned
  OfflineSettles
