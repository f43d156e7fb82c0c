CONSTANTS
  WsSize <- MC_WsSize
  HdrLen = 2
  MaxBody = 4
  BufferBodies <- MC_BufferBodies
  PartialErrorReads = FALSE
SPECIFICATION LiveSpec
CHECK_DEADLOCK FALSE
PROPERTIES
  Termination
