SPECIFICATION Spec
CONSTANTS
  Blocks <- MCPlain
  Roms = {}
  SendBytes = {}
  Answers = {"echo"}
  SearchLen = 2
  MaxBlock = 5
  UChar = 256
  Levels = {"NORMAL", "STRONG5"}
PROPERTY BlockTransferred
