SPECIFICATION CiSpec
CONSTANTS
  Channels = 1
  Snapshots <- MCSnapshots
  Clients = {s1}
  MaxClients = 1
  MaxBacklog = 1
INVARIANTS
  ConfirmedIsTheCoil
  CoilFollowsMapper
PROPERTIES
  NoReplayOfDo0
  StationIsServed
