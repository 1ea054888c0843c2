SPECIFICATION Spec
CONSTANTS
  p1 = p1
  p2 = p2
  a = a
  b = b
  None = None
  Procs <- MCProcs
  NINODES = 3
  Names <- MCNames
  Paths <- Shallow
  Calls <- TwoKinds
  MaxLinks = 3
INVARIANTS NeverPanics CountsRight FreedRight IputNeverWaits
