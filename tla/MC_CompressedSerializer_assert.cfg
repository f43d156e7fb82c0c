CONSTANTS
  WsSize <- MC_WsSize
  HdrLen = 2
  MaxBody = 2
  BufferBodies <- MC_BufferBodies
  PartialErrorReads = FALSE
  ZMax = 8
  MaxMsgs = 1
  ZStyles <- MC_ZStyles
INIT CInit
NEXT CNext
CHECK_DEADLOCK FALSE
INVARIANTS
  AssertionsHold
