CONSTANTS
  s1 = s1
  s2 = s2
  r1 = r1
  r2 = r2
  x = x
  y = y
  None = None
  Streams <- MCStreams
  Slots <- MCSlots
  SeenCap = 1
  Mps = 2
  InitData = 2
  InitStream = 1
  Raise = 2
  MaxLimit = 4
  MaxLen = 3
  Reordered = TRUE
  Requests <- MCRequests
  Cap = 2
  Base = 2
  Nil = Nil
  Retries = 1
  Cases <- MixedCases
  Datagrams <- MCDatagrams
  MaxSess = 1
  StaleSlots = FALSE
  Sessions = {x, y}
  Homes <- MCHomes
  WtStreams <- MCWtStreams
  KindOf <- MCKindOf
  SessSlots = {1, 2}
  RxSlots <- MCRxSlots
  TableOf <- MCTableOf
  TxCap = 2
  Wrap = 6
  FirstGen = 4
  NoId = NoId
  UniSlots = 2
  Split = {0}
  UniRepeats = TRUE
  Parts = {"flow"}
SPECIFICATION ServerSpec
INVARIANT WithinConnLimit
CHECK_DEADLOCK FALSE
