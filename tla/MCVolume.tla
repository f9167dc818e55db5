------------------------------- MODULE MCVolume --------------------------------
EXTENDS Volume

\* Plain devices too small, just large enough for the smallest and for the recommended
\* journal, and at the sizes where the block bitmap gets another eight blocks.  A
\* partition whose slices fill up after two files, in which there is room for two more.
MCDevices ==
  {Plain(n) : n \in {9, 178, 408, 409, 410, 524696, 524697, 524705}}
  \union {Partition(2 * BlockSize, 1 + 2 + 64 + 128 + 3, 1)}
  \union {Partition(32 * BlockSize, 1 + 2 + 4 + n, 1) : n \in {8, 9}}

================================================================================
