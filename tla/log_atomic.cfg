SPECIFICATION FairSpec
CONSTANTS
  Procs = {p1, p2}
  First = p1
  Blocks = {b1, b2, b3}
  Data = {d1, d2}
  MAXOPBLOCKS = 2
  LOGSIZE = 4
  NLog = 4
  OpBlocks = 1
  NotCached = NotCached
INVARIANTS NoPanic NothingToLose
PROPERTIES CrashAtomic SleepersWoken
