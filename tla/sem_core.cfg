SPECIFICATION Spec
CONSTANTS
  NPROC = 3
  c1 = c1
  c2 = c2
  CPUs <- MCCPUs
  NoCPU = NoCPU
  MAX_SEM = 2
  Requests <- Live
  Victims <- MCVictims
  MaxValue = 1
  Preempt <- UserOrExit
CHECK_DEADLOCK FALSE
INVARIANTS TypeOK OneCPU SchedLocks NoLostWakeup
PROPERTIES Refines
SYMMETRY CPUSymmetry
