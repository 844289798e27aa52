SPECIFICATION Spec
CONSTANTS
  Ids = {i1, i2, i3}
  Originators = {pump, meter}
  OriginTypes = {device, control}
  Types = {commLoss}
  Severities = {minor, critical}
  NoRow = NoRow
SYMMETRY Symmetry
INVARIANTS
  OneActive
PROPERTY Lifecycle
