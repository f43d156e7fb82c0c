CONSTANTS
  HdrLen = 2
  MaxBody = 2
  WsSize <- MC_WsSize
  BufferBodies <- MC_BufferBodies
  PartialErrorReads = FALSE
  ZMax = 8
  MaxMsgs = 2
  ZStyles <- MC_ZStylesAll
INIT CInit
NEXT CNext
PROPERTY RefinesMessageStream
CHECK_DEADLOCK FALSE
