CONSTANTS
  Vnode = {v1, v2, v3, v4}
  Ino = {i1, i2}
  MaxOpen = 2
  MaxEntries = 3
  MaxVersion = 3
SPECIFICATION Spec
SYMMETRY Symmetry
INVARIANTS OneVnodePerInode HashIsSound ReadsCurrent
CHECK_DEADLOCK FALSE
