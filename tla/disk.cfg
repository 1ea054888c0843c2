SPECIFICATION Spec
CONSTANTS
  Procs = {p1, p2}
  Blocks = {b1, b2, b3}
  Data = {d1, d2}
  NBUF = 2
  NUM = 6
  IdxMod = 6
  None = None
  MaxPins = 1
  Victims = {p1, p2}
CHECK_DEADLOCK FALSE
INVARIANTS DriverRight Exclusive RefsExact NobodyForgotten
PROPERTIES Implements
SYMMETRY DiskSymmetry
