SPECIFICATION SocketsSpec
CONSTANTS
  Sockets = {s1, s2}
  Senders = {p1, p2}
  Locks = {l1, l2, l3}
  Chains = {c1, c2, c3}
  MaxCalls = 3
  NoSocket = NoSocket
  NoLock = NoLock
  NoChain = NoChain
SYMMETRY Symmetry
CHECK_DEADLOCK FALSE
INVARIANTS
  SendsSerialised
  HandlersInArrivalOrder
  ConnectedIsOnline
