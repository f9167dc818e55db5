SPECIFICATION Spec
CONSTANTS
  File = {"a", "b"}
  Slot = {1, 2}
  FileOf <- MCOneEach
  Reservation = {r1, r2, r3, r4, r5}
  Blocks = 4
  DirtyLimit = 2
  MaxVersion = 2
  MaxCrashes = 1
INVARIANTS TypeOK RecoveredDataIntact RecoveredMetadataConsistent SyncedSurvives
