SPECIFICATION MCSpec
CONSTANTS
  None = None
  Commands <- MCCommands
  Sessions = {0, 1, 3, 4}
  Sequences = {0, 1, 2}
  Deadlines = {2, 5}
  CommandTimeout = 2
  AckTimeout = 1
  WireMax = 2
  MaxTime = 4
  MaxLag = 1
  Peers = {"a", "bad"}
  MaxQueued = 1
  MaxLine = 2
  Channels = {0, 1}
INVARIANTS
  ClosedPathIsEmpty
  PanelDoesNotReplay
  MockIsHonest
PROPERTIES
  ImplementsOutputGate
  PanelComesBack
