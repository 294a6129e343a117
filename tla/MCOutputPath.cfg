SPECIFICATION OpSpec
CONSTANTS
  None = None
  Commands <- MCCommands
  SequenceNumbers = {1, 2, 5}
  Deadlines = {5}
  NodeSession = 1
  CommandTimeout = 3
  AckTimeout = 2
  WireMax = 4
  ValidityUnit = 2
  MaxValidity = 3
  WireLines = {0}
  ClockMod = 64
  MaxTime = 5
  MaxLag = 1
  MaxSends = 2
  MaxActivations = 2
PROPERTIES
  AnswerMeetsItsFrame
  LeaseIsBounded
  SentIsResolved
  AdmittedIsResolved
CHECK_DEADLOCK FALSE
