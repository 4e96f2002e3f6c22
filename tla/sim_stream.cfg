SPECIFICATION Spec
CONSTANTS
  Streams <- MCStreams
  CutEscapes = FALSE
  MaxOut = 100
  SearchLen = 2
  ReplyLens = {0, 1, 3}
  ENOMEM = 3
  MaxAllocFail = 0
INVARIANTS TypeOK
PROPERTIES DecodesStream
CHECK_DEADLOCK FALSE
