CONSTANTS
  WsSize <- MC_WsSize
  HdrLen = 2
  MaxBody = 4
  BufferBodies <- MC_BufferBodiesAll
  PartialErrorReads = FALSE
SPECIFICATION Spec
INVARIANTS
  WireWellFormed
