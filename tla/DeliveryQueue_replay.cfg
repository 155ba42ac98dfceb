SPECIFICATION DQSpec
CONSTANTS
  plain = plain
  effort = effort
  Deliveries <- JustPlain
  BestEffort = {}
  WithOnError = {}
  MaxRetries = 2
  MaxSends = 1
  MaxRecoveries = 1
  MaxOverlaps = 0
  MaxCrashes = 0
  MaxIoErrors = 0
  MaxBudgetHits = 0
INVARIANTS NoReplayWithoutCrash
