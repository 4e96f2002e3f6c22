SPECIFICATION Spec
CONSTANTS
  a = a
  b = b
  Files = {a, b}
  Dirs = {"d"}
  MaxP = 4
  DirSlots = 3
  Sizes = {1, 2}
  Handles = {1}
  MaxDepth = 1
  MaxCalls = 3
  MaxCuts = 0
PROPERTIES FileRecorded
