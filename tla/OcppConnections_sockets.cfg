SPECIFICATION FairSpec
CONSTANTS
  Sockets = {s1, s2, s3}
  Senders = {}
  Locks = {}
  Chains = {}
  MaxCalls = 0
  NoSocket = NoSocket
  NoLock = NoLock
  NoChain = NoChain
CHECK_DEADLOCK FALSE
INVARIANTS
  ConnectionsOwned
PROPERTIES
  ReplacedHandlerEnds
