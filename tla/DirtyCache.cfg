SPECIFICATION Spec
CONSTANTS
  BlockSize = 2
  MaxFileSize = 8
  Direct = 1
  PerIndirect = 2
  DirtyLimit = 3
  TotalBlocks = 7
INVARIANTS AssertionsHold CleanIsStored BlocksAccountedFor
CHECK_DEADLOCK FALSE
