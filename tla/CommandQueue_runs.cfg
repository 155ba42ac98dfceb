SPECIFICATION FairSpec
CONSTANTS
  chat1 = chat1
  chat2 = chat2
  job = job
  s1 = s1
  s2 = s2
  Sessions <- MCSessions
  Runs <- MCRuns
  SessionOf <- MCSessionOf
  LaneArg <- MCLaneArg
  ManualCron <- JustJob
  ConcurrencyChoices <- MCChoices
  MaxResets = 1
INVARIANTS SlotAccounting QueueAccounting WorkConserving SessionExclusive
PROPERTIES StartsWithinCapInOrder AcceptedRunsSettle
