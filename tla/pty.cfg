SPECIFICATION Spec
CONSTANTS
  InBuf = 2
  ReplyLens = {0, 1, 3}
  InCap = 2
  OutCap = 2
  MaxSend = 3
INVARIANTS TypeOK NoUseAfterFree NothingLeaks RepliesHandedOver
PROPERTIES StopNoticed BytesServed
CHECK_DEADLOCK FALSE
