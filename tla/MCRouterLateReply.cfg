SPECIFICATION Spec
CONSTANTS
  Interfaces = {"eth1", "eth3"}
  Hops = {"router6", "router1"}
  Destinations = {"r2", "sender"}
  RoutingTable <- MCRoutingTable
  Withdrawable = {"r2"}
  Flows <- MCFlows
  Neighbours = {"eth3"}
  RetryAfter = 4
  MaxTimesSent = 5
  CacheExpired = 20
  MaxPackets = 1
  TTLs = {3}
CHECK_DEADLOCK FALSE
INVARIANTS
  ReplyIsExpected
