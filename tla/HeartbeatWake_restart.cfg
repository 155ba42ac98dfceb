SPECIFICATION FairHBSpec
CONSTANTS
  all = all
  session = session
  All <- all
  Targeted <- OneSession
  MaxRunners = 2
  MaxBatches = 2
  MaxRequests = 1
  MaxThrows = 1
  MaxChanges = 1
INVARIANTS OneBatchPerHandler EventsAreKept IntervalGoesOn
PROPERTIES EventsAreAnswered
CHECK_DEADLOCK FALSE
