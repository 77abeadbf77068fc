CONSTANTS
  Cap = 4
  Chunk = 2
  Base = 1
  LogCap = 2
  RecCap = 8
  Threshold = 2
  PtoMax = 1
  Probes = 2
  MaxLen = 5
  MaxPn = 5
  MaxDrops = 1
  SealFails = FALSE
  HandlerDeclines = FALSE
  Spurious = TRUE
  Parts = {"recv"}
  Uploads <- TwoBodies
SPECIFICATION SizedSpec
INVARIANT MaxDataFollows
CHECK_DEADLOCK FALSE
