SPECIFICATION FairSpec
CONSTANTS
  NPROC = 3
  MaxPid = 6
  KillPids = {2, 3, 4}
  Waiters = {1, 2}
CHECK_DEADLOCK FALSE
INVARIANTS Family StackInUse
PROPERTIES BornAlive OrphansReaped WaitReturns
