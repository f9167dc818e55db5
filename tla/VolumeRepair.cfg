CONSTANTS
  MaxBlockDescriptors = 679
  Ino = {2, 3}
  Devices <- MCDevices
  MaxEntries = 2
  MaxDamage = 1
  CorruptsStale = FALSE
  CrashesInRepair = TRUE
SPECIFICATION Spec
INVARIANT NeverRefused
