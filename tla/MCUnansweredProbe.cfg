SPECIFICATION MpSpec
CONSTANTS
  Peers = {"a", "bad"}
  MaxQueued = 1
  MaxLine = 2
INVARIANTS
  DoFollowsGoodExchange
