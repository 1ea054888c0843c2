SPECIFICATION FairSpec
CONSTANTS
  NPROC = 2
  c1 = c1
  c2 = c2
  CPUs <- MCCPUs
  NoCPU = NoCPU
  MAX_SEM = 1
  Requests <- UpDown
  Victims <- MCVictims
  MaxValue = 1
  Preempt <- Anywhere
CHECK_DEADLOCK FALSE
PROPERTIES KillTakesEffect UnitsTaken
