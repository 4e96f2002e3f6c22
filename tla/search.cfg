SPECIFICATION Spec
CONSTANTS
  RomBits = 6
  FamilyBits = 2
  CrcBits = 2
  Roms <- MCRoms
  Alarming <- MCAlarming
INVARIANTS TypeOK Complete NoFalseError VerifyExact
PROPERTIES InOrder
