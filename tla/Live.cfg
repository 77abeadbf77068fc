CONSTANTS
  None = None
  short = short
  long = long
  huge = huge
  Msgs <- MCMsgs
  SizeOf <- MCSizeOf
  Depth = 2
  Wrap = 4
  SlotMax = 2
  OutCap = 2
  MaxPush = 5
  w1 = w1
  w2 = w2
  s1 = s1
  r1 = r1
  Parts = {"ring", "threads", "send", "flow", "boot"}
  Handshakes <- LongFlights
SPECIFICATION LiveSpec
INVARIANTS TypeOK SlotExclusive FifoExact
PROPERTIES ImplementsFifo EveryMessagePopped InboxDrained ShutdownCompletes Delivered BlockedGetsThrough HandshakeCompletes
CHECK_DEADLOCK FALSE
