SPECIFICATION FairLockSpec
CONSTANTS
  gw = gw
  cli = cli
  g1 = g1
  g2 = g2
  c1 = c1
  Procs <- TwoProcs
  Gateways <- JustGw
  Actors <- ThreeActors
  ProcOf <- OwnersOfThree
  MaxIds = 3
  MaxInterrupts = 2
  MaxOverruns = 1
  MaxIoErrors = 1
INVARIANTS SingleWriter HoldersAreCounted
PROPERTY DeadLocksAreReclaimed
CHECK_DEADLOCK FALSE
