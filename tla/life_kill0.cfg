SPECIFICATION Spec
CONSTANTS
  NPROC = 3
  MaxPid = 4
  KillPids = {0}
  Waiters = {1, 2, 3}
CHECK_DEADLOCK FALSE
PROPERTIES BornAlive
