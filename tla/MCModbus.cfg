SPECIFICATION MCSpec
CONSTANTS
  Size = 2
  MaxQuantity = 2
  Ops <- MCOps
  Attempts = 1
  TidMod = 6
  MaxCalls = 2
  MaxBacklog = 2
  Items <- MCItems
  MaxItems = 3
  MaxPayload = 2
  Base = 4
INVARIANTS
  ToldIsTrue
  NoSilentReplay
  FramesAreThoseSent
PROPERTIES
  StopReturns
