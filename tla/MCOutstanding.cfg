SPECIFICATION MtSpec
CONSTANTS
  Size = 2
  MaxQuantity = 2
  Ops <- MCOps
  Attempts = 1
  TidMod = 6
  MaxCalls = 2
  MaxBacklog = 2
INVARIANTS
  OneOutstanding
