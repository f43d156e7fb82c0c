CONSTANTS
  WsSize <- MC_WsSize
  HdrLen = 2
  MaxBody = 4
  BufferBodies <- MC_BufferBodies
  PartialErrorReads = FALSE
SPECIFICATION Spec
INVARIANTS
  TypeOK
  WireWellFormed
  CompleteAtDone
  NoTmp0Overflow
PROPERTIES
  ExpectPausesBody
  IdRefinesMessageStream
