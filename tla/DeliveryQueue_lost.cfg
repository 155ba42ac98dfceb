SPECIFICATION DQSpec
CONSTANTS
  plain = plain
  effort = effort
  Deliveries <- JustEffort
  BestEffort <- JustEffort
  WithOnError <- JustEffort
  MaxRetries = 2
  MaxSends = 1
  MaxRecoveries = 1
  MaxOverlaps = 0
  MaxCrashes = 0
  MaxIoErrors = 0
  MaxBudgetHits = 0
INVARIANTS NothingLost
