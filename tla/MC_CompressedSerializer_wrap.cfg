CONSTANTS
  WsSize <- MC_WsSize
  HdrLen = 2
  MaxBody <- MC_WrapBody
  BufferBodies = {}
  PartialErrorReads = FALSE
  ZMax <- MC_WrapZMax
  MaxMsgs = 1
  ZStyles <- MC_ZStylesSource
INIT CInit
NEXT CNext
CONSTRAINT MC_WrapClean
INVARIANT MessageCompleteAtDone
CHECK_DEADLOCK FALSE
