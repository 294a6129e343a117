SPECIFICATION NsSpec
CONSTANTS
  None = None
  Commands = {}
  CommandTimeout = 2
  AckTimeout = 1
  WireMax = 2
  MaxTime = 2
  MaxLag = 1
  NodeId = 1
  InputEvents <- MCInputEvents
  HeartbeatTimeout = 1
  MaxEventsPerTick = 1
  Capacity = 2
INVARIANTS
  OnlineIsFresh
PROPERTIES
  FaultsReachRuntime
