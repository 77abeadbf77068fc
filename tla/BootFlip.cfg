CONSTANTS
  None = None
  short = short
  long = long
  huge = huge
  Msgs <- MCMsgs
  SizeOf <- MCSizeOf
  Depth = 2
  Wrap = 4
  SlotMax = 2
  OutCap = 2
  MaxPush = 5
  w1 = w1
  w2 = w2
  s1 = s1
  r1 = r1
  Parts = {"boot"}
  Handshakes <- SplitHello
SPECIFICATION LiveSpec
PROPERTY HandshakeCompletes
CHECK_DEADLOCK FALSE
