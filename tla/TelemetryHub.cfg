CONSTANTS
  Consoles = {a}
  ClientIds = {k1, k2, k3}
  NoClient = NoClient
  QueueSize = 2
  CacheSize = 1
  MaxClients = 2
  MaxSequence = 2
SPECIFICATION LiveHubSpec
INVARIANTS HubTypeOK QueueHoldsNewest EveryEventIsAccounted SlotsFollowHandlers GapsAreExplained
PROPERTY ClosedSocketFreesSlot
CHECK_DEADLOCK FALSE
