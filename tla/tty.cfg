SPECIFICATION TtySpec
CONSTANTS
  c1 = c1
  c2 = c2
  c3 = c3
  Clients = {c1, c2, c3}
  NoClient = NoClient
  TtyReplyLens = {0, 1, 2}
  FlipCap = 3
INVARIANTS CleansUp FreshStart RepliesInOrder
PROPERTIES ResetOutsideWrites WritesReturn
CHECK_DEADLOCK FALSE
