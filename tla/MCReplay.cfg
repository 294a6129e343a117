SPECIFICATION OpSpec
CONSTANTS
  None = None
  Commands <- MCCommands
  SequenceNumbers = {1, 2}
  Deadlines = {4}
  NodeSession = 1
  CommandTimeout = 2
  AckTimeout = 1
  WireMax = 4
  ValidityUnit = 2
  MaxValidity = 3
  WireLines = {0}
  ClockMod = 64
  MaxTime = 4
  MaxLag = 0
  MaxSends = 2
  MaxActivations = 2
PROPERTIES
  NoReplayAcrossActivation
CHECK_DEADLOCK FALSE
