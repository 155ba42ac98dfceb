SPECIFICATION CronSpec
CONSTANTS
  rep = rep
  once = once
  m1 = m1
  Jobs <- Both
  OneShots <- JustOnce
  Kept <- Nothing
  Initial <- JustOnce
  ManualRuns <- OneManual
  Period = 2
  StuckAfter = 1
  MaxTransient = 1
  LongestBackoff = 2
  FirstAt = 2
  Cap = 1
  MaxMissed = 1
  JobTimeout = 2
  Horizon = 3
  MaxEdits = 1
  MaxRestarts = 1
INVARIANTS CronTypeOK   SchedulerArmed
  
CHECK_DEADLOCK FALSE
