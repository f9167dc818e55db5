--------------------------------- MODULE Layout --------------------------------
(***************************************************************************)
(* Where Mkfs puts the parts of a volume, and what CheckSuperblock asks of   *)
(* one that is mounted.  The numbers are the ones of the format.  A device   *)
(* either has a fixed number of blocks, and the parts follow one another, or *)
(* is a partition of a volume manager (FVM), where every part has an area of *)
(* its own and as many slices of it as it was given.                        *)
(***************************************************************************)
EXTENDS Integers

CONSTANT MaxBlockDescriptors  \* fs::kMaxBlockDescriptors, of the journal's format

ASSUME LayoutAssumption == MaxBlockDescriptors \in Nat

BlockSize == 8192
BlockBits == BlockSize * 8
InodeSize == 256
InodesPerBlock == BlockSize \div InodeSize
Direct == 16
Indirect == 31
DoublyIndirect == 1
DirectPerIndirect == BlockSize \div 4
MaxDirentSize == 268
MaxDirectorySize == 1048572
DefaultInodeCount == 4096
NonFvmSuperblockBackup == 7
InodeBmStart == 65536   \* 0x10000, and so on: the areas of an FVM partition
DataBmStart == 131072
InodeStart == 196608
FvmSuperblockBackup == 262144
DataStart == 327680

Refused == [fvm |-> FALSE, blockCount |-> 0]  \* no superblock

Up(n, d) == (n + d - 1) \div d
RoundUp(n, d) == Up(n, d) * d
Larger(a, b) == IF a > b THEN a ELSE b

BlocksPerSlice(info) == info.sliceSize \div BlockSize

(***************************************************************************)
(* TransactionLimits: how large a journal has to be.                        *)
(***************************************************************************)
GetBlockBitmapBlocks(info) ==
  IF info.fvm THEN info.abmSlices * BlocksPerSlice(info) ELSE info.ino - info.abm

\* Data, indirect and doubly indirect blocks that a range of bytes touches.
Past(n, limit) == Larger(n, limit) - limit
DoublyCount(first, last) ==
  IF last >= Indirect
  THEN Past(last, Indirect) \div DirectPerIndirect - Past(first, Indirect) \div DirectPerIndirect + 1
  ELSE 0
IndirectCount(first, last) == last - first + 1 + DoublyCount(first, last)
BlockCount(first, last) ==
  last - first + 1
  + (IF last >= Direct
     THEN IndirectCount(Past(first, Direct) \div DirectPerIndirect,
                        Past(last, Direct) \div DirectPerIndirect)
     ELSE 0)
GetRequiredBlockCount(offset, length) ==
  BlockCount(offset \div BlockSize, (offset + length - 1) \div BlockSize)

MaxWriteBytes == 65536

\* Metadata of one operation in the data area: a directory entry across the end of the
\* indirect blocks, or the indirect blocks of the largest write there.
CrossingOffset == (Direct + Indirect * DirectPerIndirect) * BlockSize - 1
MaxMetaDataBlocks ==
  Larger(GetRequiredBlockCount(CrossingOffset, MaxDirentSize),
         GetRequiredBlockCount(CrossingOffset, MaxWriteBytes) - (Up(MaxWriteBytes, BlockSize) + 1))

RevocationBlocks ==
  Up(Larger(GetRequiredBlockCount(0, MaxDirectorySize),
            Indirect + DoublyIndirect * DirectPerIndirect), DirectPerIndirect)

\* Two superblocks, the inode bitmap, two blocks of inodes.
MaxEntryDataBlocks(bitmapBlocks) == 2 + 1 + bitmapBlocks + 2 + MaxMetaDataBlocks
HeaderBlocks(data) == 1 + Up(Past(data, MaxBlockDescriptors), DirectPerIndirect)
EntryBlocksFor(data) == HeaderBlocks(data) + RevocationBlocks + data + 1
MaxEntryBlocks(bitmapBlocks) == EntryBlocksFor(MaxEntryDataBlocks(bitmapBlocks))

\* The journal's own superblock, and the backup of the volume's, are part of the section.
GetMinimumIntegrityBlocks(info) == MaxEntryBlocks(GetBlockBitmapBlocks(info)) + 1 + 1
Recommended(minimum) == Larger(minimum, 256)
GetRecommendedIntegrityBlocks(info) == Recommended(GetMinimumIntegrityBlocks(info))

JournalStartBlock(info) == (IF info.fvm THEN FvmSuperblockBackup ELSE info.integrity) + 1
JournalBlocks(info) ==
  (IF info.fvm THEN info.integritySlices * BlocksPerSlice(info) ELSE info.dat - info.integrity) - 1

(***************************************************************************)
(* Mkfs.                                                                   *)
(***************************************************************************)
\* A device: blocks of a plain one, the slice size, slices and data slices of a
\* partition.
Plain(n) == [fvm |-> FALSE, blocks |-> n, sliceSize |-> 0, slices |-> 0, datSlices |-> 0]
Partition(size, n, k) == [fvm |-> TRUE, blocks |-> 0, sliceSize |-> size, slices |-> n, datSlices |-> k]

Blank ==
  [fvm |-> FALSE, clean |-> TRUE, head |-> 0, blockCount |-> 0, inodeCount |-> 0,
   allocBlocks |-> 2, allocInodes |-> 2, ibm |-> 0, abm |-> 0, ino |-> 0, integrity |-> 0,
   dat |-> 0, sliceSize |-> 0, ibmSlices |-> 0, abmSlices |-> 0, inoSlices |-> 0,
   integritySlices |-> 0, datSlices |-> 0]

\* The layout of a plain device whose block bitmap is given r blocks.
PlainAreas(r) ==
  LET ibm == 8
      abm == ibm + RoundUp(Up(DefaultInodeCount, BlockBits), 8)
  IN [Blank EXCEPT !.inodeCount = DefaultInodeCount, !.ibm = ibm, !.abm = abm, !.ino = abm + r,
                   !.integrity = abm + r + Up(DefaultInodeCount, InodesPerBlock)]

\* The recommended journal if it leaves room for data, or else the smallest.
JournalFor(minimum, room) == IF Recommended(minimum) >= room THEN minimum ELSE Recommended(minimum)

PlainLayout(areas, journal, blocks) ==
  [areas EXCEPT !.dat = areas.integrity + journal,
                !.blockCount = blocks - areas.integrity - journal]

LayoutOf(areas, blocks) ==
  PlainLayout(areas, JournalFor(GetMinimumIntegrityBlocks(areas), blocks - areas.integrity), blocks)

\* The bitmap grows by eight blocks until it has a bit for every block that is left.
FirstTry(info, r) == TRUE
BitmapSuffices(info, r) == r >= Up(info.blockCount, BlockBits)
Stops(info, r) == info.blockCount <= 0 \/ BitmapSuffices(info, r)
FirstStop(blocks) ==
  CHOOSE n \in 1..(blocks \div 8 + 1) :
    /\ Stops(LayoutOf(PlainAreas(8 * n), blocks), 8 * n)
    /\ \A m \in 1..(n - 1) : ~Stops(LayoutOf(PlainAreas(8 * m), blocks), 8 * m)

IfItHasRoom(info) == IF info.blockCount > 0 THEN info ELSE Refused
MkfsPlain(blocks) ==
  IF blocks <= 8 THEN Refused
  ELSE IfItHasRoom(LayoutOf(PlainAreas(8 * FirstStop(blocks)), blocks))

\* CreateFvmData: one slice for each bitmap, the others as many as they need.
MkfsFvm(device) ==
  LET perSlice == device.sliceSize \div BlockSize
      bitmaps == [Blank EXCEPT !.fvm = TRUE, !.sliceSize = device.sliceSize,
                               !.ibmSlices = 1, !.abmSlices = 1]
      inoSlices == Up(Up(DefaultInodeCount, InodesPerBlock), perSlice)
      integritySlices == Up(GetRecommendedIntegrityBlocks(bitmaps), perSlice)
  IN IF \/ device.sliceSize % BlockSize # 0
        \/ 1 + 2 + inoSlices + integritySlices + device.datSlices > device.slices
     THEN Refused
     ELSE [bitmaps EXCEPT !.inoSlices = inoSlices, !.integritySlices = integritySlices,
             !.datSlices = device.datSlices, !.blockCount = device.datSlices * perSlice,
             !.inodeCount = inoSlices * perSlice * InodesPerBlock,
             !.ibm = InodeBmStart, !.abm = DataBmStart, !.ino = InodeStart,
             !.integrity = FvmSuperblockBackup, !.dat = DataStart]

\* Blocks 0 and 1 of the data are taken at once: the root directory is written to the
\* second, and the bitmap's blocks, and a write that has no block fails.
WritesSucceed(info) ==
  /\ info.blockCount > 1
  /\ info.fvm => Up(info.blockCount, BlockBits) <= GetBlockBitmapBlocks(info)

IfWritesSucceed(info) == IF info # Refused /\ WritesSucceed(info) THEN info ELSE Refused
Mkfs(device) == IfWritesSucceed(IF device.fvm THEN MkfsFvm(device) ELSE MkfsPlain(device.blocks))

(***************************************************************************)
(* CheckSuperblock, of one that is whole.                                   *)
(***************************************************************************)
VerifySlicesSize(info) ==
  LET perSlice == BlocksPerSlice(info)
  IN /\ Up(info.inodeCount, BlockBits) <= info.ibmSlices * perSlice
     /\ info.ibmSlices * perSlice + info.ibm < info.abm
     /\ Up(info.blockCount, BlockBits) <= info.abmSlices * perSlice
     /\ info.abmSlices * perSlice + info.abm < info.ino
     /\ Up(info.inodeCount, InodesPerBlock) <= info.inoSlices * perSlice
     /\ info.inoSlices * perSlice + info.ino < info.integrity
     /\ GetMinimumIntegrityBlocks(info) <= info.integritySlices * perSlice
     /\ info.integritySlices * perSlice + info.integrity <= info.dat
     /\ info.blockCount <= info.datSlices * perSlice
     /\ info.blockCount > 1

\* datSlices is what the volume manager has for the data; the other areas never change.
CheckSuperblock(info, device, datSlices) ==
  /\ info.allocBlocks <= info.blockCount
  /\ info.allocInodes <= info.inodeCount
  /\ IF info.fvm
     THEN info.sliceSize = device.sliceSize /\ info.datSlices <= datSlices /\ VerifySlicesSize(info)
     ELSE /\ info.dat + info.blockCount = device.blocks
          /\ info.dat - info.integrity >= GetMinimumIntegrityBlocks(info)

================================================================================
