SPECIFICATION Spec
CONSTANTS
  Interfaces = {"eth1", "eth3"}
  Hops = {"router6", "router1"}
  Destinations = {"r2", "sender"}
  RoutingTable <- MCRoutingTable
  Withdrawable = {"r2"}
  Flows <- MCFlows
  Neighbours = {"eth3"}
  RetryAfter = 0
  MaxTimesSent = 1
  CacheExpired = 1
  MaxPackets = 2
  TTLs = {1, 3}
CHECK_DEADLOCK FALSE
INVARIANTS
  TypeOK
  OneFate
  ArpTablesAgree
  NoOvertaking
PROPERTIES
  WaitingEnds
  CacheForgets
  ImplementsLossyLines
