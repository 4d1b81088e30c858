SPECIFICATION Spec
CONSTANTS
  KEY_LEN = 16
  MaxBlocks = 13
  MayFail = TRUE
INVARIANTS
  BlocksInOrder
  SuccessIsWhole
