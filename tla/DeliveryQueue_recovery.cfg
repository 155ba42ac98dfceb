SPECIFICATION MCFairDQSpec
CONSTANTS
  plain = plain
  effort = effort
  Deliveries <- Both
  BestEffort <- JustEffort
  WithOnError <- JustEffort
  MaxRetries = 2
  MaxSends = 1
  MaxRecoveries = 2
  MaxOverlaps = 1
  MaxCrashes = 2
  MaxIoErrors = 1
  MaxBudgetHits = 1
INVARIANTS DQTypeOK DeliveredOnce FailedIsFinal
PROPERTIES KeptUntilDelivered EntriesSettle
