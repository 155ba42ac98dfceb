SPECIFICATION FairGatewaySpec
CONSTANTS
  chat1 = chat1
  chat2 = chat2
  s1 = s1
  Runs <- MCRuns
  Sessions = {s1}
  SessionOf <- MCSessionOf
  LaneArg <- MCLaneArg
  ManualCron = {}
  ConcurrencyChoices <- MCChoices
  MaxResets = 2
  MaxPending = 2
  SignalsDuringStart = FALSE
CHECK_DEADLOCK FALSE
INVARIANTS ServingAcceptsWork StartFindsPortFree ServingHoldsLock DrainedRestartIsExclusive
PROPERTIES CommandQueueSpec DrainingEnds
