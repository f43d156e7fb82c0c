CONSTANTS
  WsSize <- MC_WsSize
  HdrLen = 2
  MaxBody = 2
  BufferBodies <- MC_BufferBodies
  PartialErrorReads = FALSE
  ZMax = 8
  MaxMsgs = 1
  ZStyles <- MC_ZStyles
SPECIFICATION ZLiveSpec
CHECK_DEADLOCK FALSE
PROPERTIES
  ZTermination
