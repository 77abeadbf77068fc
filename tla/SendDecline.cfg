CONSTANTS
  Cap = 4
  Chunk = 2
  Base = 1
  LogCap = 2
  RecCap = 8
  Threshold = 2
  PtoMax = 1
  Probes = 2
  MaxLen = 5
  MaxPn = 5
  MaxDrops = 1
  SealFails = FALSE
  HandlerDeclines = TRUE
  Spurious = TRUE
  Parts = {"tight"}
  Uploads <- AllKinds
SPECIFICATION SizedSpec
INVARIANT DeclineEndsStream
CHECK_DEADLOCK FALSE
