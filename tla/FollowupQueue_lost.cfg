SPECIFICATION FQSpec
CONSTANTS
  m1 = m1
  m2 = m2
  m3 = m3
  Messages <- ThreeMessages
  RouteOf <- MCRoutes
  Settings <- CollectOnly
  MaxQueues = 1
  MaxClears = 0
  MaxFailures = 0
  MaxRedeliveries = 0
INVARIANTS EveryAcceptedMessageReachesTheAgent
