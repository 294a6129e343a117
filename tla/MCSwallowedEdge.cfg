SPECIFICATION CiSpec
CONSTANTS
  Channels = 1
  Snapshots <- MCSnapshots
  Clients = {s1}
  MaxClients = 1
  MaxBacklog = 1
INVARIANT
  EveryEdgeIsRequested
