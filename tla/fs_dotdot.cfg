SPECIFICATION Spec
CONSTANTS
  p1 = p1
  p2 = p2
  a = a
  b = b
  None = None
  Procs <- Alone
  NINODES = 3
  Names <- OneName
  Paths <- Dots
  Calls <- DirCalls
  MaxLinks = 3
INVARIANTS NeverPanics
