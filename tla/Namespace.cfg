SPECIFICATION Spec
CONSTANTS
  Inodes = 4
  Name = {x, y}
  MaxOpen = 1
  MaxEntries = 1
  MaxCrashes = 2
SYMMETRY MCSymmetry
INVARIANTS TreeSound UnlinkedListSound KeptExactlyWhileOpen MemoryIsCommitted
