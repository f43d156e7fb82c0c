CONSTANTS
  WsSize <- MC_WsSize
  HdrLen = 2
  MaxBody = 4
  BufferBodies <- MC_BufferBodies
  PartialErrorReads = TRUE
SPECIFICATION Spec
INVARIANTS
  CompleteAtDone
