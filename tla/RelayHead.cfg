CONSTANTS
  w1 = w1
  w2 = w2
  w3 = w3
  cl1 = cl1
  cl2 = cl2
  None = None
  Workers <- MCWorkers
  NSlots = 3
  Depth = 2
  MaxBcast = 2
  Clients = {cl1, cl2}
  TableSlots = {1, 2}
  Grace = 1
  Idle = 2
  Deadline = 2
  Closing = 1
  RingCap = 1
  MaxTime = 3
  MaxClaims = 3
  Initial = 3
  MaxCredit = 6
  PtoMax = 2
  MaxDrops = 0
  Openings <- MCOpenings
  Quiet = FALSE
  GivesUp = TRUE
  Parts = {"relay"}
  RelayEdges = {"head"}
SPECIFICATION WorkerSpec
SYMMETRY Sym
INVARIANT RelayExact
CHECK_DEADLOCK FALSE
