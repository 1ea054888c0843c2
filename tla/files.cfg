SPECIFICATION Spec
CONSTANTS
  p1 = p1
  p2 = p2
  p3 = p3
  x1 = x1
  Procs <- MCProcs
  Pages <- OnePage
  None = None
  PIPESIZE = 1
  UintMod = 2
  Sizes <- MCSizes
  Victims <- Children
  NFILE = 2
  NOFILE = 2
  FirstProc = p1
  Parents <- Shell
  Clients <- Children
  MaxKilled = 1
CHECK_DEADLOCK FALSE
INVARIANTS SleepersJustified CountsExact
PROPERTIES Implements
SYMMETRY FilesSymmetry
