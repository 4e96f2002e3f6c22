SPECIFICATION Spec
CONSTANTS
  a = a
  b = b
  Files = {a, b}
  Dirs = {"d"}
  MaxP = 4
  DirSlots = 2
  Sizes = {1, 2}
  Handles = {1}
  MaxDepth = 2
  MaxCalls = 5
  MaxCuts = 2
VIEW MCView
SYMMETRY MCSymmetry
INVARIANTS TypeOK SoundKept
PROPERTIES OthersKept ReadsBack DeleteFrees
