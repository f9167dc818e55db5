CONSTANTS
  InodeCount = 4
  BlockCount = 8
  Direct = 1
  Indirect = 1
  DoublyIndirect = 1
  PerIndirect = 2
  Volumes <- MCVolumes
  MaxDamage = 2
SPECIFICATION Spec
INVARIANT VerdictIsSound
PROPERTY FsckEnds
