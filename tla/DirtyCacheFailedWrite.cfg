SPECIFICATION Spec
CONSTANTS
  BlockSize = 2
  MaxFileSize = 4
  Direct = 1
  PerIndirect = 2
  DirtyLimit = 3
  TotalBlocks = 7
INVARIANT NeverFoundDirty
CHECK_DEADLOCK FALSE
