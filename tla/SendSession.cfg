CONSTANTS
  Cap = 4
  Chunk = 2
  Base = 1
  LogCap = 2
  RecCap = 8
  Threshold = 2
  PtoMax = 1
  Probes = 2
  MaxLen = 5
  MaxPn = 5
  MaxDrops = 1
  SealFails = FALSE
  HandlerDeclines = FALSE
  Spurious = TRUE
  Parts = {"tight", "roomy", "recv"}
  Uploads <- AllKinds
SPECIFICATION SizedSpec
INVARIANTS TypesOK NoHole BytesIntact ReleasedMeansDelivered FinalSizeStable AckedIsKept NoFalseClose RoomLeftUncut
CHECK_DEADLOCK FALSE
