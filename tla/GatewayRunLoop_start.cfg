SPECIFICATION GatewaySpec
CONSTANTS
  chat1 = chat1
  chat2 = chat2
  s1 = s1
  Runs <- MCRuns
  Sessions = {s1}
  SessionOf <- MCSessionOf
  LaneArg <- MCLaneArg
  ManualCron = {}
  ConcurrencyChoices <- MCChoices
  MaxResets = 1
  MaxPending = 1
  SignalsDuringStart = TRUE
CHECK_DEADLOCK FALSE
INVARIANTS ServingAcceptsWork
