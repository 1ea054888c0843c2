SPECIFICATION Spec
CONSTANTS
  p1 = p1
  p2 = p2
  p3 = p3
  c1 = c1
  c2 = c2
  None = None
  CPUs = {c1, c2}
  Threads = {p1, p2}
  Locks = {"tickslock"}
  NoOne = None
  Games = {p1, p2}
  MAX_SEM = 3
  Rounds = 2
  NPROC = 3
  Cores = {c1, c2}
  NoCPU = None
  PrintCPUs = {c1, c2, p1}
  NoCaller = None
  Length = 2
  MemCPUs = {c1, c2}
  MemPages = {p1, p2, p3}
  Nil = Nil
  Readers = {p1, p2}
  Plain = {"x"}
  INPUT_BUF_SIZE = 2
  IndexMod = 4
  MaxRead = 2
  NoChar = None
  Writers = {p1, p2, p3}
  Echoers = {c1}
  UART_TX_BUF_SIZE = 2
  CountMod = 8
  FIFO_DEPTH = 2
  NoByte = None
  Sleepers = {p1, p2}
  TickMod = 4
  Durations <- Naps
  Victims = {p1}
  Callers = {p1, p2}
  Inos = {1, 2}
  NBLOCKS = 3
  NDIRECT = 1
  NINDIRECT = 2
  BSIZE = 2
  MAXOPBLOCKS = 6
  Writes <- Writings
  Truncates <- Truncations
  WriteSizes = {3}
  ReadSizes = {2}
  NoHolder = None
INVARIANTS SpinlocksRight GamesRight NobodyOvertaken PrintfRight ListRight SleepsExactly BlocksRight ShellsRight TrapsRight ResultsRight
PROPERTIES OutputRight ConsoleRight
