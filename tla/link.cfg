SPECIFICATION Spec
CONSTANTS
  Blocks <- MCBlocks
  Roms <- MCRoms
  SendBytes = {0, 193, 255}
  Answers = {"echo", "other", "more", "none"}
  SearchLen = 2
  MaxBlock = 5
  UChar = 8
  Levels = {"NORMAL", "STRONG5", "PROGRAM"}
VIEW MCView
PROPERTIES StaysInSync DetectExact Delivered
