CONSTANTS
  Grants <- MCGrants
  JobExpiry = 12
  DeliveryReserve = 4
  Overrun = 1
  PlanLists <- MCPlanLists
  MethodWindow = 3
  CreateMargin = 1
  RouteTables <- MCRouteTables
  Documents <- MCDocuments
  MaxReplies = 4
  MaxFetches = 2
  Topologies <- MCTopologies
  Nats <- MCNats
  MaxRebinds = 1
SPECIFICATION FairTraversalSpec
INVARIANTS
  MappingSafe
  DiscoveryExact
  BehaviourExact
PROPERTIES
  ForeignUntouched
  LeaseSpec
  CollectorEnds
CHECK_DEADLOCK FALSE
