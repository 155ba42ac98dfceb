SPECIFICATION FairFQSpec
CONSTANTS
  m1 = m1
  m2 = m2
  m3 = m3
  Messages <- ThreeMessages
  RouteOf <- MCRoutes
  Settings <- MixedSettings
  MaxQueues = 3
  MaxClears = 1
  MaxFailures = 1
  MaxRedeliveries = 1
INVARIANTS FQTypeOK IdleQueueHasNoCallback ToldOnce Conservation TellsInOrder
PROPERTIES DrainsSettle
