SPECIFICATION FairSpec
CONSTANTS
  File = {"a"}
  Slot = {1, 2}
  FileOf <- MCOneFile
  Reservation = {r1, r2, r3, r4, r5}
  Blocks = 4
  DirtyLimit = 3
  MaxVersion = 2
  MaxCrashes = 0
INVARIANTS NoSpaceOnlyWhenFull ContinueHasSpace
PROPERTIES OperationsEnd FreedBlocksReturn NoRollback
