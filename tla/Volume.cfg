CONSTANTS
  MaxBlockDescriptors = 679
  Ino = {2, 3}
  Devices <- MCDevices
  MaxEntries = 3
  MaxDamage = 1
  CorruptsStale = FALSE
  CrashesInRepair = FALSE
SPECIFICATION Spec
INVARIANTS NeverRefused RegionsDisjoint SuperblockMatches CleanIsComplete PurgesUnlinkedOnly
