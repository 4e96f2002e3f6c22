SPECIFICATION Spec
CONSTANTS
  Streams <- MCLimits
  CutEscapes = TRUE
  MaxOut = 4
  SearchLen = 2
  ReplyLens = {0, 1, 3}
  ENOMEM = 3
  MaxAllocFail = 2
INVARIANTS ReadsOwnWrite CommandRepliesFit
PROPERTIES ReturnsOrStarves
CHECK_DEADLOCK FALSE
