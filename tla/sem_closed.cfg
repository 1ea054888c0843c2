SPECIFICATION Spec
CONSTANTS
  NPROC = 3
  c1 = c1
  c2 = c2
  CPUs <- MCCPUs
  NoCPU = NoCPU
  MAX_SEM = 1
  Requests <- All
  Victims <- MCVictims
  MaxValue = 1
  Preempt <- AtUser
CHECK_DEADLOCK FALSE
PROPERTIES ClosedNotUsed
SYMMETRY CPUSymmetry
