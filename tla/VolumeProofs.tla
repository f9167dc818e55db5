------------------------------ MODULE VolumeProofs ------------------------------
(***************************************************************************)
(* Theorems about the layout of a volume and about its life, for every set   *)
(* of devices and of inodes and every number of entries in the journal.      *)
(***************************************************************************)
EXTENDS Volume, FiniteSetTheorems, WellFoundedInduction, TLAPS

(***************************************************************************)
(* Numbers.                                                                *)
(***************************************************************************)

LEMMA Divides ==
  ASSUME NEW n \in Nat \ {0}, NEW x \in Nat
  PROVE  /\ x \div n \in Nat /\ (x \div n) * n \in Nat
         /\ (x \div n) * n <= x /\ x < (x \div n) * n + n
OBVIOUS

\* Up(x, n) is the least number of pieces of n that x fits in.
LEMMA UpIs ==
  ASSUME NEW n \in Nat \ {0}, NEW x \in Nat
  PROVE  /\ Up(x, n) \in Nat /\ Up(x, n) * n \in Nat
         /\ x <= Up(x, n) * n /\ Up(x, n) * n <= x + n - 1
<1>. DEFINE y == x + n - 1
<1>1. y \in Nat
  OBVIOUS
<1>2. /\ y \div n \in Nat /\ (y \div n) * n \in Nat
      /\ (y \div n) * n <= y /\ y < (y \div n) * n + n
  BY <1>1, Divides
<1>3. Up(x, n) = y \div n
  BY DEF Up
<1>. HIDE DEF y
<1>4. x = y - n + 1
  BY DEF y
<1>. QED
  BY <1>1, <1>2, <1>3, <1>4

\* A non-empty set of naturals has a least element.
NatLess == {p \in Nat \X Nat : p[1] < p[2]}

LEMMA LeastOf ==
  ASSUME NEW S \in SUBSET Nat, S # {}
  PROVE  \E i \in S : \A j \in S : i <= j
<1>1. NatLess = OpToRel(<, Nat)
  BY Zenon DEF NatLess, OpToRel
<1>2. IsWellFoundedOn(NatLess, Nat)
  BY <1>1, NatLessThanWellFounded, Zenon
<1>3. \E i \in S : \A j \in S : ~(<<j, i>> \in NatLess)
  BY <1>2, WFMin
<1>4. ASSUME NEW i \in Nat, NEW j \in Nat, <<j, i>> \notin NatLess
      PROVE  i <= j
  BY <1>4 DEF NatLess
<1>. QED
  BY <1>3, <1>4

\* The metadata and the revocations of the largest transaction.
LEMMA TransactionIs == MaxMetaDataBlocks \in 0..100 /\ RevocationBlocks \in 0..100
BY DEF MaxMetaDataBlocks, RevocationBlocks, MaxWriteBytes, MaxDirectorySize, DoublyIndirect, Up,
       GetRequiredBlockCount, CrossingOffset, MaxDirentSize, BlockCount, IndirectCount, DoublyCount,
       Past, Larger, Direct, Indirect, DirectPerIndirect, BlockSize

\* A larger bitmap asks for a larger journal, but not for much more.
LEMMA EntryBlocks ==
  ASSUME NEW n \in Nat
  PROVE  MaxEntryBlocks(n) \in Nat /\ MaxEntryBlocks(n) <= 2 * n + 500
<1>. PICK m \in 0..100 : m = MaxMetaDataBlocks
  BY TransactionIs
<1>. PICK v \in 0..100 : v = RevocationBlocks
  BY TransactionIs
<1>. PICK data \in Nat : data = 5 + n + m
  OBVIOUS
<1>1. MaxEntryDataBlocks(n) = data
  BY DEF MaxEntryDataBlocks
<1>. PICK past \in Nat : past = Past(data, MaxBlockDescriptors) /\ past <= data
  BY LayoutAssumption DEF LayoutAssumption, Past, Larger
<1>2. Up(past, DirectPerIndirect) \in Nat /\ Up(past, DirectPerIndirect) <= past
  BY DEF Up, DirectPerIndirect, BlockSize
<1>3. HeaderBlocks(data) \in Nat /\ HeaderBlocks(data) <= data + 1
  BY <1>2 DEF HeaderBlocks
<1>4. MaxEntryBlocks(n) = HeaderBlocks(data) + v + data + 1
  BY <1>1 DEF MaxEntryBlocks, EntryBlocksFor
<1>. QED
  BY <1>3, <1>4

(***************************************************************************)
(* The layout.                                                             *)
(***************************************************************************)

Superblock ==
  [fvm : BOOLEAN, clean : BOOLEAN, head : Ino \union {0}, blockCount : Int, inodeCount : Int,
   allocBlocks : Int, allocInodes : Int, ibm : Int, abm : Int, ino : Int, integrity : Int,
   dat : Int, sliceSize : Int, ibmSlices : Int, abmSlices : Int, inoSlices : Int,
   integritySlices : Int, datSlices : Int]

\* The areas of a partition are 65536 blocks apart: slices have to be small against that.
SliceBlocks == 1..16384
SlicesAreSmall == \A d \in Devices : d.fvm => BlocksPerSlice(d) \in SliceBlocks

\* What is true of the areas whichever way they were laid out.
AreasFit(sb) ==
  /\ NonFvmSuperblockBackup < sb.ibm
  /\ sb.ibm + Up(sb.inodeCount, BlockBits) <= sb.abm
  /\ sb.abm + Up(sb.blockCount, BlockBits) <= sb.ino
  /\ sb.ino + Up(sb.inodeCount, InodesPerBlock) <= sb.integrity
  /\ JournalStartBlock(sb) + JournalBlocks(sb) <= sb.dat
  /\ MaxEntryBlocks(GetBlockBitmapBlocks(sb)) < JournalBlocks(sb)

\* A superblock of the device.
Laid(sb) ==
  /\ sb \in Superblock /\ sb.fvm = device.fvm
  /\ sb.blockCount > 1 /\ sb.inodeCount >= DefaultInodeCount /\ sb.datSlices \in Nat
  /\ AreasFit(sb) /\ sb.dat = Mkfs(device).dat
  /\ ~sb.fvm => /\ sb.dat + sb.blockCount = device.blocks
                /\ sb.dat - sb.integrity >= GetMinimumIntegrityBlocks(sb)
                /\ sb.datSlices = 0
  /\ sb.fvm => /\ sb.sliceSize = device.sliceSize /\ VerifySlicesSize(sb)
               /\ sb.blockCount = sb.datSlices * BlocksPerSlice(sb)

SameLayout(a, b) ==
  /\ a.fvm = b.fvm /\ a.blockCount = b.blockCount /\ a.inodeCount = b.inodeCount
  /\ a.ibm = b.ibm /\ a.abm = b.abm /\ a.ino = b.ino /\ a.integrity = b.integrity /\ a.dat = b.dat
  /\ a.sliceSize = b.sliceSize /\ a.ibmSlices = b.ibmSlices /\ a.abmSlices = b.abmSlices
  /\ a.inoSlices = b.inoSlices /\ a.integritySlices = b.integritySlices
  /\ a.datSlices = b.datSlices

LEMMA SameIsLaid ==
  ASSUME NEW a, NEW b \in Superblock, Laid(a), SameLayout(a, b)
  PROVE  Laid(b)
<1>1. /\ AreasFit(b) <=> AreasFit(a) 
      /\ VerifySlicesSize(b) <=> VerifySlicesSize(a)
      /\ BlocksPerSlice(b) = BlocksPerSlice(a)
      /\ GetMinimumIntegrityBlocks(b) = GetMinimumIntegrityBlocks(a)
  BY DEF SameLayout, AreasFit, VerifySlicesSize, BlocksPerSlice, GetMinimumIntegrityBlocks,
         GetBlockBitmapBlocks, JournalStartBlock, JournalBlocks
<1>. QED
  BY <1>1 DEF Laid, SameLayout

Counts(sb) == sb.allocBlocks <= sb.blockCount /\ sb.allocInodes <= sb.inodeCount

LEMMA LaidIsValid ==
  ASSUME NEW sb, Laid(sb)
  PROVE  /\ sb # Torn /\ sb # Unwritten
         /\ slices \in Int /\ sb.datSlices <= slices /\ Counts(sb) => IsValid(sb)
         /\ IsValid(sb) => Counts(sb)
BY DEF Laid, Counts, IsValid, CheckSuperblock, Torn, Refused, Unwritten

(***************************************************************************)
(* Mkfs.                                                                   *)
(***************************************************************************)

LEMMA BlankIs ==
  /\ Blank \in Superblock
  /\ Blank.fvm = FALSE /\ Blank.clean = TRUE /\ Blank.head = 0 /\ Blank.datSlices = 0
  /\ Blank.allocBlocks = 2 /\ Blank.allocInodes = 2
BY DEF Blank, Superblock

\* A plain device whose bitmap has r blocks.
PlainVolume(sb, r, blocks) ==
  /\ sb \in Superblock
  /\ sb.fvm = FALSE /\ sb.clean = TRUE /\ sb.head = 0
  /\ sb.allocBlocks = 2 /\ sb.allocInodes = 2
  /\ sb.inodeCount = DefaultInodeCount /\ sb.datSlices = 0
  /\ sb.ibm = 8 /\ sb.abm = 16 /\ sb.ino = 16 + r /\ sb.integrity = 144 + r
  /\ sb.dat + sb.blockCount = blocks
  /\ sb.dat - sb.integrity >= GetMinimumIntegrityBlocks(sb)

\* The areas of a plain device with r blocks of bitmap, and the journal after them.
LEMMA PlainLayoutIs ==
  ASSUME NEW r \in Nat, NEW blocks \in Nat, NEW sb, sb = LayoutOf(PlainAreas(r), blocks)
  PROVE  PlainVolume(sb, r, blocks)
<1>1. /\ RoundUp(Up(DefaultInodeCount, BlockBits), 8) = 8
      /\ Up(DefaultInodeCount, InodesPerBlock) = 128
  BY DEF RoundUp, Up, DefaultInodeCount, BlockBits, BlockSize, InodesPerBlock, InodeSize
<1>. DEFINE areas == PlainAreas(r)
<1>. PICK abm \in Int : abm = 8 + RoundUp(Up(DefaultInodeCount, BlockBits), 8) /\ abm = 16
  BY <1>1
<1>. PICK ino \in Int : ino = abm + r /\ ino = 16 + r
  OBVIOUS
<1>. PICK integrity \in Int :
       integrity = abm + r + Up(DefaultInodeCount, InodesPerBlock) /\ integrity = 144 + r
  BY <1>1
<1>2. areas = [Blank EXCEPT !.inodeCount = DefaultInodeCount, !.ibm = 8, !.abm = abm, !.ino = ino,
                            !.integrity = integrity]
  BY Zenon DEF PlainAreas
<1>3. /\ areas \in Superblock
      /\ areas.fvm = FALSE /\ areas.clean = TRUE /\ areas.head = 0 /\ areas.allocBlocks = 2
      /\ areas.allocInodes = 2 /\ areas.datSlices = 0
      /\ areas.inodeCount = DefaultInodeCount /\ areas.ibm = 8 /\ areas.abm = 16
      /\ areas.ino = 16 + r /\ areas.integrity = 144 + r
  <2>. HIDE DEF areas
  <2>. PICK b \in Superblock : b = Blank
    BY BlankIs
  <2>. PICK inodes_ \in Int : inodes_ = DefaultInodeCount
    BY DEF DefaultInodeCount
  <2>. PICK ibm \in Int : ibm = 8
    OBVIOUS
  <2>1. areas = [b EXCEPT !.inodeCount = inodes_, !.ibm = ibm, !.abm = abm, !.ino = ino,
                          !.integrity = integrity]
    BY <1>2
  <2>2. areas \in Superblock
    BY <2>1 DEF Superblock
  <2>3. /\ areas.fvm = b.fvm /\ areas.clean = b.clean /\ areas.head = b.head
        /\ areas.allocBlocks = b.allocBlocks /\ areas.allocInodes = b.allocInodes
        /\ areas.datSlices = b.datSlices
        /\ areas.inodeCount = inodes_ /\ areas.ibm = ibm /\ areas.abm = abm /\ areas.ino = ino
        /\ areas.integrity = integrity
    BY <2>1 DEF Superblock
  <2>. QED
    BY <2>2, <2>3, BlankIs
<1>. HIDE DEF areas
<1>. PICK minimum \in Nat : minimum = GetMinimumIntegrityBlocks(areas) /\ minimum = MaxEntryBlocks(r) + 2
  BY <1>3, EntryBlocks DEF GetMinimumIntegrityBlocks, GetBlockBitmapBlocks
<1>. PICK journal \in Nat : journal = JournalFor(minimum, blocks - areas.integrity) /\ journal >= minimum
  BY DEF JournalFor, Recommended, Larger
<1>. PICK dat \in Int : dat = areas.integrity + journal
  BY <1>3
<1>. PICK count \in Int : count = blocks - areas.integrity - journal
  BY <1>3
<1>4. sb = [areas EXCEPT !.dat = dat, !.blockCount = count]
  BY Zenon DEF LayoutOf, PlainLayout, areas
<1>5. /\ sb \in Superblock
      /\ sb.fvm = areas.fvm /\ sb.clean = areas.clean /\ sb.head = areas.head
      /\ sb.allocBlocks = areas.allocBlocks /\ sb.allocInodes = areas.allocInodes
      /\ sb.inodeCount = areas.inodeCount /\ sb.datSlices = areas.datSlices
      /\ sb.ibm = areas.ibm /\ sb.abm = areas.abm /\ sb.ino = areas.ino
      /\ sb.integrity = areas.integrity /\ sb.dat = dat /\ sb.blockCount = count
  BY <1>3, <1>4, ZenonT(60) DEF Superblock
<1>6. GetMinimumIntegrityBlocks(sb) = minimum
  BY <1>3, <1>5 DEF GetMinimumIntegrityBlocks, GetBlockBitmapBlocks
<1>. QED
  BY <1>3, <1>5, <1>6 DEF PlainVolume

\* The search for a bitmap that is large enough ends, and its last step is what it says.
LEMMA FirstStopIs ==
  ASSUME NEW blocks \in Nat
  PROVE  /\ FirstStop(blocks) \in Nat
         /\ Stops(LayoutOf(PlainAreas(8 * FirstStop(blocks)), blocks), 8 * FirstStop(blocks))
<1>. DEFINE stop(n) == Stops(LayoutOf(PlainAreas(8 * n), blocks), 8 * n)
            N == 1..(blocks \div 8 + 1)
            S == {n \in N : stop(n)}
<1>1. blocks \div 8 + 1 \in N /\ stop(blocks \div 8 + 1)
  <2>. PICK n \in Nat : n = blocks \div 8 + 1 /\ 8 * n > blocks /\ n >= 1
    OBVIOUS
  <2>. PICK r \in Nat : r = 8 * n
    OBVIOUS
  <2>. PICK sb : sb = LayoutOf(PlainAreas(r), blocks)
    OBVIOUS
  <2>1. /\ sb \in Superblock /\ sb.dat + sb.blockCount = blocks
        /\ sb.dat - sb.integrity >= GetMinimumIntegrityBlocks(sb)
        /\ sb.fvm = FALSE /\ sb.abm = 16 /\ sb.ino = 16 + r /\ sb.integrity = 144 + r
    <3>1. PlainVolume(sb, r, blocks)
      BY PlainLayoutIs
    <3>. QED
      BY <3>1 DEF PlainVolume
  <2>2. GetMinimumIntegrityBlocks(sb) \in Nat
    BY <2>1, EntryBlocks DEF GetMinimumIntegrityBlocks, GetBlockBitmapBlocks
  <2>3. sb.blockCount \in Int /\ sb.blockCount <= blocks
    BY <2>1, <2>2 DEF Superblock
  <2>4. sb.blockCount <= 0 \/ 8 * n >= Up(sb.blockCount, BlockBits)
    BY <2>3 DEF Up, BlockBits, BlockSize
  <2>. QED
    BY <2>4 DEF Stops, BitmapSuffices
<1>2. S \in SUBSET Nat /\ S # {}
  BY <1>1
<1>3. PICK i \in S : \A j \in S : i <= j
  BY <1>2, LeastOf
<1>4. i \in N /\ stop(i) /\ \A m \in 1..(i - 1) : ~stop(m)
  <2>. HIDE DEF stop
  <2>. QED
    BY <1>3
<1>5. \E n \in N : stop(n) /\ \A m \in 1..(n - 1) : ~stop(m)
  BY <1>4
<1>6. FirstStop(blocks) = CHOOSE n \in N : stop(n) /\ \A m \in 1..(n - 1) : ~stop(m)
  BY DEF FirstStop
<1>7. FirstStop(blocks) \in N /\ stop(FirstStop(blocks))
  <2>. HIDE DEF stop, N
  <2>. QED
    BY <1>5, <1>6
<1>. QED
  BY <1>7

\* What Mkfs makes of a device, whatever was allocated since.
Fresh(sb) ==
  /\ sb.clean /\ sb.head = 0 /\ sb.allocBlocks = 2 /\ sb.allocInodes = 2
  /\ sb.fvm => sb.datSlices = device.datSlices

LEMMA PlainIsLaid ==
  ASSUME device \in Devices, ~device.fvm, NEW sb, sb = Mkfs(device), sb # Refused
  PROVE  Laid(sb) /\ Fresh(sb)
<1>1. device.blocks \in Nat /\ device.fvm = FALSE
  BY VolumeAssumption DEF VolumeAssumption
<1>. PICK n \in Nat : n = FirstStop(device.blocks)
  BY <1>1, FirstStopIs
<1>. PICK r \in Nat : r = 8 * n
  OBVIOUS
<1>2. /\ sb = LayoutOf(PlainAreas(r), device.blocks) /\ sb.blockCount > 0
      /\ WritesSucceed(sb)
  BY DEF Mkfs, IfWritesSucceed, MkfsPlain, IfItHasRoom
<1>3. /\ sb \in Superblock /\ sb.fvm = FALSE /\ Fresh(sb)
      /\ sb.inodeCount = DefaultInodeCount /\ sb.datSlices = 0
      /\ sb.ibm = 8 /\ sb.abm = 16 /\ sb.ino = 16 + r /\ sb.integrity = 144 + r
      /\ sb.dat + sb.blockCount = device.blocks
      /\ sb.dat - sb.integrity >= GetMinimumIntegrityBlocks(sb)
  <2>1. PlainVolume(sb, r, device.blocks)
    BY <1>1, <1>2, PlainLayoutIs
  <2>. QED
    BY <2>1 DEF PlainVolume, Fresh
<1>4. sb.blockCount > 1 /\ Up(sb.blockCount, BlockBits) <= r
  <2>1. Stops(sb, r)
    BY <1>1, <1>2, FirstStopIs
  <2>2. sb.blockCount \in Int
    BY <1>3 DEF Superblock
  <2>. QED
    BY <1>2, <2>1, <2>2 DEF WritesSucceed, Stops, BitmapSuffices
<1>5. AreasFit(sb)
  <2>1. Up(sb.inodeCount, BlockBits) = 1 /\ Up(sb.inodeCount, InodesPerBlock) = 128
    BY <1>3 DEF Up, DefaultInodeCount, BlockBits, BlockSize, InodesPerBlock, InodeSize
  <2>. PICK e \in Nat : e = MaxEntryBlocks(r)
    BY EntryBlocks
  <2>2. GetBlockBitmapBlocks(sb) = r /\ GetMinimumIntegrityBlocks(sb) = e + 2
    BY <1>3 DEF GetMinimumIntegrityBlocks, GetBlockBitmapBlocks
  <2>3. JournalBlocks(sb) = sb.dat - sb.integrity - 1 /\ JournalStartBlock(sb) = sb.integrity + 1
    BY <1>3 DEF JournalBlocks, JournalStartBlock
  <2>4. sb.dat \in Int /\ sb.blockCount \in Int
    BY <1>3 DEF Superblock
  <2>5. Up(sb.blockCount, BlockBits) \in Int
    BY <2>4 DEF Up, BlockBits, BlockSize
  <2>. QED
    BY <1>3, <1>4, <2>1, <2>2, <2>3, <2>4, <2>5 DEF AreasFit, NonFvmSuperblockBackup
<1>6. sb.inodeCount >= DefaultInodeCount /\ sb.datSlices \in Nat
  BY <1>3 DEF DefaultInodeCount
<1>7. sb.fvm = device.fvm
  BY <1>1, <1>3, Zenon
<1>. QED
  BY <1>3, <1>4, <1>5, <1>6, <1>7, Zenon DEF Laid

\* A partition: sizes of its parts, in blocks and in slices of p blocks.
PartsFit(p, e, j) ==
    /\ Up(128, p) \in Nat /\ Up(128, p) * p \in 128..(127 + p)
    /\ Up(j, p) \in Nat /\ Up(j, p) * p \in (e + 2)..(3 * p + 501)

LEMMA PartsInSlices ==
  ASSUME NEW p \in SliceBlocks, NEW e \in Nat, e <= 2 * p + 500, NEW j, j = Recommended(e + 2)
  PROVE  PartsFit(p, e, j)
<1>1. j \in Nat /\ e + 2 <= j /\ j <= 2 * p + 502
  BY DEF Recommended, Larger, SliceBlocks
<1>0. p \in Nat \ {0} /\ 128 \in Nat
  BY DEF SliceBlocks
<1>2. /\ Up(128, p) \in Nat /\ Up(128, p) * p \in Nat
      /\ 128 <= Up(128, p) * p /\ Up(128, p) * p <= 128 + p - 1
  BY <1>0, UpIs, Zenon
<1>3. /\ Up(j, p) \in Nat /\ Up(j, p) * p \in Nat
      /\ j <= Up(j, p) * p /\ Up(j, p) * p <= j + p - 1
  BY <1>0, <1>1, UpIs, Zenon
<1>. QED
  BY <1>0, <1>1, <1>2, <1>3 DEF PartsFit

LEMMA InodesInSlices ==
  ASSUME NEW p \in SliceBlocks, NEW i \in 128..(127 + p)
  PROVE  /\ i * InodesPerBlock \in Nat /\ i * InodesPerBlock >= DefaultInodeCount
         /\ Up(i * InodesPerBlock, BlockBits) <= p
         /\ Up(i * InodesPerBlock, InodesPerBlock) = i
BY DEF Up, DefaultInodeCount, BlockBits, BlockSize, InodesPerBlock, InodeSize, SliceBlocks

LEMMA SliceIs ==
  ASSUME NEW p \in SliceBlocks
  PROVE  /\ p \in Nat \ {0} /\ p \in Int /\ p <= p /\ 1 * p = p
         /\ \A n \in Int : n * p \in Int
BY DEF SliceBlocks

\* sb is b with the sizes and places of a partition.
FieldsAre(sb, b, n, k, slices_, count, inodeCount, ibm, abm, ino, integrity, dat) ==
  /\ sb \in Superblock /\ sb.fvm = b.fvm /\ sb.clean = b.clean /\ sb.head = b.head
  /\ sb.allocBlocks = b.allocBlocks /\ sb.allocInodes = b.allocInodes
  /\ sb.sliceSize = b.sliceSize /\ sb.ibmSlices = b.ibmSlices /\ sb.abmSlices = b.abmSlices
  /\ sb.inoSlices = n /\ sb.integritySlices = k /\ sb.datSlices = slices_
  /\ sb.blockCount = count /\ sb.inodeCount = inodeCount
  /\ sb.ibm = ibm /\ sb.abm = abm /\ sb.ino = ino /\ sb.integrity = integrity /\ sb.dat = dat

LEMMA PartitionFields ==
  ASSUME NEW b \in Superblock, NEW n \in Int, NEW k \in Int, NEW slices_ \in Int, NEW count \in Int,
         NEW inodeCount \in Int, NEW ibm \in Int, NEW abm \in Int, NEW ino \in Int,
         NEW integrity \in Int, NEW dat \in Int, NEW sb,
         sb = [b EXCEPT !.inoSlices = n, !.integritySlices = k, !.datSlices = slices_,
                 !.blockCount = count, !.inodeCount = inodeCount,
                 !.ibm = ibm, !.abm = abm, !.ino = ino, !.integrity = integrity, !.dat = dat]
  PROVE  FieldsAre(sb, b, n, k, slices_, count, inodeCount, ibm, abm, ino, integrity, dat)
<1>. DEFINE first == [b EXCEPT !.inoSlices = n, !.integritySlices = k, !.datSlices = slices_,
                                !.blockCount = count, !.inodeCount = inodeCount]
            all == [first EXCEPT !.ibm = ibm, !.abm = abm, !.ino = ino,
                                 !.integrity = integrity, !.dat = dat]
<1>1. first \in Superblock
  BY DEF Superblock
<1>2. /\ first.fvm = b.fvm /\ first.clean = b.clean /\ first.head = b.head
      /\ first.allocBlocks = b.allocBlocks /\ first.allocInodes = b.allocInodes
      /\ first.sliceSize = b.sliceSize /\ first.ibmSlices = b.ibmSlices
      /\ first.abmSlices = b.abmSlices /\ first.inoSlices = n /\ first.integritySlices = k
      /\ first.datSlices = slices_ /\ first.blockCount = count /\ first.inodeCount = inodeCount
  BY DEF Superblock
<1>3. sb = all
  BY DEF Superblock
<1>. HIDE DEF first
<1>4. all \in Superblock
  BY <1>1 DEF Superblock
<1>5. /\ all.fvm = first.fvm /\ all.clean = first.clean /\ all.head = first.head
      /\ all.allocBlocks = first.allocBlocks /\ all.allocInodes = first.allocInodes
      /\ all.sliceSize = first.sliceSize /\ all.ibmSlices = first.ibmSlices
      /\ all.abmSlices = first.abmSlices /\ all.inoSlices = first.inoSlices
      /\ all.integritySlices = first.integritySlices /\ all.datSlices = first.datSlices
      /\ all.blockCount = first.blockCount /\ all.inodeCount = first.inodeCount
      /\ all.ibm = ibm /\ all.abm = abm /\ all.ino = ino /\ all.integrity = integrity
      /\ all.dat = dat
  BY <1>1 DEF Superblock
<1>. HIDE DEF all
<1>. QED
  BY <1>2, <1>3, <1>4, <1>5 DEF FieldsAre

LEMMA AreasApart ==
  ASSUME NEW p \in SliceBlocks, NEW i \in 128..(127 + p), NEW q \in Nat, q <= 3 * p + 501
  PROVE  /\ NonFvmSuperblockBackup < InodeBmStart
         /\ \A u \in Int : u <= p =>
              /\ InodeBmStart + u <= DataBmStart /\ u + InodeBmStart < DataBmStart
              /\ DataBmStart + u <= InodeStart /\ u + DataBmStart < InodeStart
         /\ InodeStart + i <= FvmSuperblockBackup /\ i + InodeStart < FvmSuperblockBackup
         /\ FvmSuperblockBackup + 1 + (q - 1) <= DataStart /\ q + FvmSuperblockBackup <= DataStart
BY SMT DEF SliceBlocks, NonFvmSuperblockBackup, InodeBmStart, DataBmStart, InodeStart,
           FvmSuperblockBackup, DataStart

\* A partition with slices of p blocks, i blocks of inodes, q of the journal, which needs
\* e for an entry.
PartitionIs(sb, p, i, q, e) ==
  /\ sb \in Superblock /\ sb.fvm = TRUE /\ BlocksPerSlice(sb) = p
  /\ sb.ibmSlices = 1 /\ sb.abmSlices = 1 /\ sb.blockCount = sb.datSlices * p
  /\ sb.inoSlices * p = i /\ sb.integritySlices * p = q /\ q <= 3 * p + 501
  /\ e = MaxEntryBlocks(p) /\ e + 2 <= q
  /\ sb.inodeCount = i * InodesPerBlock
  /\ sb.ibm = InodeBmStart /\ sb.abm = DataBmStart /\ sb.ino = InodeStart
  /\ sb.integrity = FvmSuperblockBackup /\ sb.dat = DataStart
  /\ sb.blockCount > 1 /\ Up(sb.blockCount, BlockBits) <= p

\* What the slices of a partition have room for.
LEMMA PartitionFits ==
  ASSUME NEW sb, NEW p \in SliceBlocks, NEW i \in 128..(127 + p), NEW q \in Nat, NEW e \in Nat,
         PartitionIs(sb, p, i, q, e)
  PROVE  AreasFit(sb) /\ VerifySlicesSize(sb)
<1>1. /\ sb \in Superblock /\ sb.fvm = TRUE /\ BlocksPerSlice(sb) = p
      /\ sb.ibmSlices = 1 /\ sb.abmSlices = 1
      /\ sb.inoSlices * p = i /\ sb.integritySlices * p = q /\ sb.blockCount = sb.datSlices * p
  BY Zenon DEF PartitionIs
<1>2. e = MaxEntryBlocks(p) /\ e + 2 <= q /\ q <= 3 * p + 501
  BY Zenon DEF PartitionIs
<1>3. /\ sb.ibm = InodeBmStart /\ sb.abm = DataBmStart /\ sb.ino = InodeStart
      /\ sb.integrity = FvmSuperblockBackup /\ sb.dat = DataStart
  BY Zenon DEF PartitionIs
<1>4. sb.inodeCount = i * InodesPerBlock /\ sb.blockCount > 1 /\ Up(sb.blockCount, BlockBits) <= p
  BY Zenon DEF PartitionIs
<1>5. sb.ibmSlices * p = p /\ sb.abmSlices * p = p
  BY <1>1, SliceIs, Zenon
<1>6. GetBlockBitmapBlocks(sb) = p /\ GetMinimumIntegrityBlocks(sb) = e + 2
  <2>1. GetBlockBitmapBlocks(sb) = p
    BY <1>1, <1>5, Zenon DEF GetBlockBitmapBlocks
  <2>2. e + 1 + 1 = e + 2
    OBVIOUS
  <2>. QED
    BY <1>2, <2>1, <2>2, Zenon DEF GetMinimumIntegrityBlocks
<1>7. JournalBlocks(sb) = q - 1 /\ JournalStartBlock(sb) = FvmSuperblockBackup + 1
  BY <1>1, Zenon DEF JournalBlocks, JournalStartBlock
<1>8. Up(sb.inodeCount, BlockBits) <= p /\ Up(sb.inodeCount, InodesPerBlock) = i
  BY <1>4, InodesInSlices, Zenon
<1>9. Up(sb.inodeCount, BlockBits) \in Int /\ Up(sb.blockCount, BlockBits) \in Int
  <2>1. sb.inodeCount \in Int /\ sb.blockCount \in Int
    BY <1>1 DEF Superblock
  <2>. QED
    BY <2>1 DEF Up, BlockBits, BlockSize
<1>10. /\ p <= p /\ i <= i /\ NonFvmSuperblockBackup < InodeBmStart
       /\ \A u \in Int : u <= p =>
            /\ InodeBmStart + u <= DataBmStart /\ u + InodeBmStart < DataBmStart
            /\ DataBmStart + u <= InodeStart /\ u + DataBmStart < InodeStart
       /\ InodeStart + i <= FvmSuperblockBackup /\ i + InodeStart < FvmSuperblockBackup
       /\ FvmSuperblockBackup + 1 + (q - 1) <= DataStart /\ q + FvmSuperblockBackup <= DataStart
       /\ e < q - 1 /\ p \in Int
  <2>1. p <= p /\ p \in Int /\ i <= i
    BY SliceIs
  <2>2. e < q - 1
    BY <1>2
  <2>3. /\ NonFvmSuperblockBackup < InodeBmStart
        /\ \A u \in Int : u <= p =>
             /\ InodeBmStart + u <= DataBmStart /\ u + InodeBmStart < DataBmStart
             /\ DataBmStart + u <= InodeStart /\ u + DataBmStart < InodeStart
        /\ InodeStart + i <= FvmSuperblockBackup /\ i + InodeStart < FvmSuperblockBackup
        /\ FvmSuperblockBackup + 1 + (q - 1) <= DataStart /\ q + FvmSuperblockBackup <= DataStart
    BY <1>2, AreasApart, Zenon
  <2>. QED
    BY <2>1, <2>2, <2>3, Zenon
<1>11. AreasFit(sb)
  BY <1>2, <1>3, <1>4, <1>6, <1>7, <1>8, <1>9, <1>10, Zenon DEF AreasFit
<1>12. sb.blockCount <= sb.datSlices * p
  <2>1. sb.blockCount \in Int
    BY <1>1 DEF Superblock
  <2>2. sb.blockCount <= sb.blockCount
    BY <2>1
  <2>. QED
    BY <1>1, <2>2, Zenon
<1>13. VerifySlicesSize(sb)
  <2>1. Up(sb.inodeCount, BlockBits) <= sb.ibmSlices * p /\ Up(sb.blockCount, BlockBits) <= sb.abmSlices * p
    BY <1>4, <1>5, <1>8, Zenon
  <2>2. p + InodeBmStart < DataBmStart /\ p + DataBmStart < InodeStart
    BY <1>10, Zenon
  <2>3. /\ sb.ibmSlices * p + sb.ibm < sb.abm /\ sb.abmSlices * p + sb.abm < sb.ino
        /\ sb.inoSlices * p + sb.ino < sb.integrity /\ sb.integritySlices * p + sb.integrity <= sb.dat
    BY <1>1, <1>3, <1>5, <1>10, <2>2, Zenon
  <2>4. Up(sb.inodeCount, InodesPerBlock) <= sb.inoSlices * p
    BY <1>1, <1>8, <1>10, Zenon
  <2>5. GetMinimumIntegrityBlocks(sb) <= sb.integritySlices * p
    BY <1>1, <1>2, <1>6, Zenon
  <2>. QED
    BY <1>1, <1>4, <1>12, <2>1, <2>3, <2>4, <2>5, Zenon DEF VerifySlicesSize
<1>. QED
  BY <1>11, <1>13

\* What Mkfs makes of a partition whose slices have p blocks.
FvmVolume(sb, p) ==
  /\ sb \in Superblock /\ sb.fvm = TRUE /\ sb.clean = TRUE /\ sb.head = 0
  /\ sb.allocBlocks = 2 /\ sb.allocInodes = 2
  /\ sb.sliceSize = device.sliceSize /\ sb.ibmSlices = 1 /\ sb.abmSlices = 1
  /\ sb.inoSlices = Up(128, p) /\ sb.integritySlices = Up(Recommended(MaxEntryBlocks(p) + 2), p)
  /\ sb.datSlices = device.datSlices /\ sb.blockCount = device.datSlices * p
  /\ sb.inodeCount = Up(128, p) * p * InodesPerBlock
  /\ sb.ibm = InodeBmStart /\ sb.abm = DataBmStart /\ sb.ino = InodeStart
  /\ sb.integrity = FvmSuperblockBackup /\ sb.dat = DataStart
  /\ WritesSucceed(sb)

LEMMA FvmVolumeIs ==
  ASSUME device \in Devices, device.fvm, NEW sb, sb = Mkfs(device), sb # Refused,
         NEW p, p = BlocksPerSlice(device)
  PROVE  p \in Nat \ {0} /\ FvmVolume(sb, p)
<1>1. /\ device.sliceSize \in Nat /\ device.slices \in Nat /\ device.datSlices \in Nat
      /\ device.sliceSize > BlockSize /\ device.fvm = TRUE
  BY VolumeAssumption DEF VolumeAssumption
<1>2. p = device.sliceSize \div BlockSize
  BY Zenon DEF BlocksPerSlice
<1>3. p \in Nat \ {0}
  BY <1>1, <1>2 DEF BlockSize
<1>. DEFINE bitmaps == [Blank EXCEPT !.fvm = TRUE, !.sliceSize = device.sliceSize,
                                     !.ibmSlices = 1, !.abmSlices = 1]
<1>4. /\ bitmaps \in Superblock /\ bitmaps.fvm = TRUE /\ bitmaps.clean = TRUE /\ bitmaps.head = 0
      /\ bitmaps.allocBlocks = 2 /\ bitmaps.allocInodes = 2
      /\ bitmaps.sliceSize = device.sliceSize /\ bitmaps.ibmSlices = 1 /\ bitmaps.abmSlices = 1
  <2>. PICK b \in Superblock : b = Blank
    BY BlankIs
  <2>. PICK one \in Int, size \in Int : one = 1 /\ size = device.sliceSize
    BY <1>1
  <2>1. bitmaps = [b EXCEPT !.fvm = TRUE, !.sliceSize = size, !.ibmSlices = one, !.abmSlices = one]
    OBVIOUS
  <2>. HIDE DEF bitmaps
  <2>2. bitmaps \in Superblock
    BY <2>1, ZenonT(60) DEF Superblock
  <2>3. /\ bitmaps.fvm = TRUE /\ bitmaps.clean = b.clean /\ bitmaps.head = b.head
        /\ bitmaps.allocBlocks = b.allocBlocks /\ bitmaps.allocInodes = b.allocInodes
        /\ bitmaps.sliceSize = size /\ bitmaps.ibmSlices = one /\ bitmaps.abmSlices = one
    BY <2>1 DEF Superblock
  <2>. QED
    BY <2>2, <2>3, BlankIs
<1>. HIDE DEF bitmaps
<1>. DEFINE e == MaxEntryBlocks(p)
            j == GetRecommendedIntegrityBlocks(bitmaps)
            n == Up(Up(DefaultInodeCount, InodesPerBlock), p)
            k == Up(j, p)
            inodeCount == n * p * InodesPerBlock
            blockCount == device.datSlices * p
<1>5. /\ sb = [bitmaps EXCEPT !.inoSlices = n, !.integritySlices = k,
                 !.datSlices = device.datSlices, !.blockCount = blockCount,
                 !.inodeCount = inodeCount,
                 !.ibm = InodeBmStart, !.abm = DataBmStart, !.ino = InodeStart,
                 !.integrity = FvmSuperblockBackup, !.dat = DataStart]
      /\ WritesSucceed(sb)
  <2>1. sb = MkfsFvm(device) /\ WritesSucceed(sb) /\ MkfsFvm(device) # Refused
    BY DEF Mkfs, IfWritesSucceed
  <2>. QED
    BY <1>2, <2>1, Zenon DEF MkfsFvm, bitmaps
<1>6. j = Recommended(MaxEntryBlocks(p) + 2) /\ j \in Nat
  <2>1. BlocksPerSlice(bitmaps) = p /\ 1 * p = p
    BY <1>2, <1>3, <1>4 DEF BlocksPerSlice
  <2>2. GetMinimumIntegrityBlocks(bitmaps) = MaxEntryBlocks(p) + 1 + 1
    BY <1>4, <2>1 DEF GetMinimumIntegrityBlocks, GetBlockBitmapBlocks
  <2>3. e \in Nat
    BY <1>3, EntryBlocks
  <2>4. e + 1 + 1 = e + 2 /\ e + 2 \in Nat
    BY <2>3
  <2>5. j = Recommended(e + 2)
    BY <2>2, <2>4, Zenon DEF GetRecommendedIntegrityBlocks
  <2>6. Recommended(e + 2) \in Nat
    BY <2>4 DEF Recommended, Larger
  <2>. QED
    BY <2>5, <2>6
<1>7. n = Up(128, p) /\ n \in Nat /\ k \in Nat
  <2>1. Up(DefaultInodeCount, InodesPerBlock) = 128
    BY DEF Up, DefaultInodeCount, InodesPerBlock, BlockSize, InodeSize
  <2>. HIDE DEF j
  <2>2. Up(128, p) \in Nat /\ Up(j, p) \in Nat
    BY <1>3, <1>6, UpIs
  <2>. QED
    BY <2>1, <2>2, Zenon
<1>. HIDE DEF e, j, n
<1>8. k = Up(Recommended(MaxEntryBlocks(p) + 2), p)
  BY <1>6, Zenon
<1>. HIDE DEF k
<1>9. inodeCount \in Int /\ blockCount \in Int
  <2>. PICK a \in Nat, b \in Nat : a = n /\ b = p
    BY <1>3, <1>7
  <2>1. a * b \in Int
    OBVIOUS
  <2>2. inodeCount \in Int
    BY <2>1 DEF InodesPerBlock, BlockSize, InodeSize
  <2>. PICK d \in Nat : d = device.datSlices
    BY <1>1
  <2>3. d * b \in Int
    OBVIOUS
  <2>. QED
    BY <2>2, <2>3
<1>10. inodeCount = Up(128, p) * p * InodesPerBlock
  BY <1>7, Zenon
<1>. HIDE DEF inodeCount
<1>11. blockCount = device.datSlices * p
  OBVIOUS
<1>. HIDE DEF blockCount
<1>12. FieldsAre(sb, bitmaps, n, k, device.datSlices, blockCount, inodeCount, InodeBmStart,
                 DataBmStart, InodeStart, FvmSuperblockBackup, DataStart)
  <2>1. /\ InodeBmStart \in Int /\ DataBmStart \in Int /\ InodeStart \in Int
        /\ FvmSuperblockBackup \in Int /\ DataStart \in Int
    BY SMT DEF InodeBmStart, DataBmStart, InodeStart, FvmSuperblockBackup, DataStart
  <2>2. n \in Int /\ k \in Int /\ device.datSlices \in Int
    BY <1>1, <1>7
  <2>. QED
    BY <1>4, <1>5, <1>9, <2>1, <2>2, PartitionFields, Zenon
<1>. QED
  <2>1. /\ sb \in Superblock /\ sb.fvm = bitmaps.fvm /\ sb.clean = bitmaps.clean
        /\ sb.head = bitmaps.head /\ sb.allocBlocks = bitmaps.allocBlocks
        /\ sb.allocInodes = bitmaps.allocInodes /\ sb.sliceSize = bitmaps.sliceSize
        /\ sb.ibmSlices = bitmaps.ibmSlices /\ sb.abmSlices = bitmaps.abmSlices
        /\ sb.inoSlices = n /\ sb.integritySlices = k /\ sb.datSlices = device.datSlices
        /\ sb.blockCount = blockCount /\ sb.inodeCount = inodeCount
        /\ sb.ibm = InodeBmStart /\ sb.abm = DataBmStart /\ sb.ino = InodeStart
        /\ sb.integrity = FvmSuperblockBackup /\ sb.dat = DataStart
    BY <1>12, Zenon DEF FieldsAre
  <2>. QED
    BY <1>3, <1>4, <1>5, <1>7, <1>8, <1>10, <1>11, <2>1, Zenon DEF FvmVolume

LEMMA FvmIsLaid ==
  ASSUME device \in Devices, device.fvm, SlicesAreSmall, NEW sb, sb = Mkfs(device), sb # Refused
  PROVE  Laid(sb) /\ Fresh(sb)
<1>. PICK p : p = BlocksPerSlice(device)
  OBVIOUS
<1>1. p \in SliceBlocks
  BY Zenon DEF SlicesAreSmall
<1>2. FvmVolume(sb, p)
  BY FvmVolumeIs, Zenon
<1>3. /\ sb \in Superblock /\ sb.fvm = TRUE /\ sb.clean = TRUE /\ sb.head = 0
      /\ sb.allocBlocks = 2 /\ sb.allocInodes = 2
      /\ sb.sliceSize = device.sliceSize /\ sb.ibmSlices = 1 /\ sb.abmSlices = 1
      /\ sb.datSlices = device.datSlices /\ sb.blockCount = device.datSlices * p
      /\ sb.ibm = InodeBmStart /\ sb.abm = DataBmStart /\ sb.ino = InodeStart
      /\ sb.integrity = FvmSuperblockBackup /\ sb.dat = DataStart
  BY <1>2, Zenon DEF FvmVolume
<1>4. /\ sb.inoSlices = Up(128, p) /\ sb.integritySlices = Up(Recommended(MaxEntryBlocks(p) + 2), p)
      /\ sb.inodeCount = Up(128, p) * p * InodesPerBlock /\ WritesSucceed(sb)
  BY <1>2, Zenon DEF FvmVolume
<1>5. device.datSlices \in Nat /\ device.fvm = TRUE
  BY VolumeAssumption DEF VolumeAssumption
<1>. PICK e \in Nat : e = MaxEntryBlocks(p) /\ e <= 2 * p + 500
  <2>1. p \in Nat
    BY <1>1, SliceIs
  <2>. QED
    BY <2>1, EntryBlocks
<1>6. Up(128, p) * p \in 128..(127 + p) /\ sb.integritySlices * p \in (e + 2)..(3 * p + 501)
  <2>. PICK j : j = Recommended(e + 2)
    OBVIOUS
  <2>1. sb.integritySlices = Up(j, p)
    BY <1>4, Zenon
  <2>2. Up(128, p) * p \in 128..(127 + p) /\ Up(j, p) * p \in (e + 2)..(3 * p + 501)
    <3>1. PartsFit(p, e, j)
      BY <1>1, PartsInSlices, Zenon
    <3>. QED
      BY <3>1 DEF PartsFit
  <2>. QED
    BY <2>1, <2>2, Zenon
<1>. PICK i \in 128..(127 + p) : i = Up(128, p) * p
  BY <1>6
<1>. PICK q \in Nat : q = sb.integritySlices * p /\ q <= 3 * p + 501 /\ e + 2 <= q
  BY <1>6
<1>7. sb.inodeCount = i * InodesPerBlock /\ sb.inoSlices * p = i /\ sb.inodeCount >= DefaultInodeCount
  <2>1. sb.inodeCount = i * InodesPerBlock /\ sb.inoSlices * p = i
    BY <1>4, Zenon
  <2>2. i * InodesPerBlock >= DefaultInodeCount
    BY <1>1, InodesInSlices, Zenon
  <2>. QED
    BY <2>1, <2>2, ZenonT(30)
<1>8. BlocksPerSlice(sb) = p /\ GetBlockBitmapBlocks(sb) = p
  <2>1. BlocksPerSlice(sb) = p
    BY <1>3, Zenon DEF BlocksPerSlice
  <2>2. 1 * p = p
    BY <1>1, SliceIs, Zenon
  <2>. QED
    BY <1>3, <2>1, <2>2, Zenon DEF GetBlockBitmapBlocks
<1>9. sb.blockCount > 1 /\ Up(sb.blockCount, BlockBits) <= p
  BY <1>3, <1>4, <1>8, Zenon DEF WritesSucceed
<1>10. sb.blockCount = sb.datSlices * p
  BY <1>3, Zenon
<1>11. PartitionIs(sb, p, i, q, e)
  BY <1>3, <1>7, <1>8, <1>9, <1>10, Zenon DEF PartitionIs
<1>12. AreasFit(sb) /\ VerifySlicesSize(sb)
  BY <1>1, <1>11, PartitionFits, Zenon
<1>13. Fresh(sb)
  BY <1>3, Zenon DEF Fresh
<1>14. sb.fvm = device.fvm /\ sb.datSlices \in Nat
  BY <1>3, <1>5, Zenon
<1>. QED
  BY <1>3, <1>7, <1>8, <1>9, <1>10, <1>12, <1>13, <1>14, Zenon DEF Laid

LEMMA MkfsIsLaid ==
  ASSUME device \in Devices, SlicesAreSmall, NEW sb, sb = Mkfs(device), sb # Refused
  PROVE  Laid(sb) /\ Fresh(sb)
BY PlainIsLaid, FvmIsLaid, Zenon

(***************************************************************************)
(* What the operations make of a superblock.                               *)
(***************************************************************************)

\* b has the areas of a, and these flag, list and counts.
Updated(a, b, clean, head, allocBlocks, allocInodes) ==
  /\ b \in Superblock /\ SameLayout(a, b)
  /\ b.clean = clean /\ b.head = head
  /\ b.allocBlocks = allocBlocks /\ b.allocInodes = allocInodes

LEMMA UpdateIs ==
  ASSUME NEW sb \in Superblock, NEW clean \in BOOLEAN, NEW head \in Ino \union {0}, NEW allocBlocks \in Int,
         NEW allocInodes \in Int, NEW new,
         new = [sb EXCEPT !.clean = clean, !.head = head, !.allocBlocks = allocBlocks,
                          !.allocInodes = allocInodes]
  PROVE  Updated(sb, new, clean, head, allocBlocks, allocInodes)
<1>1. new \in Superblock
  BY DEF Superblock
<1>2. SameLayout(sb, new)
  BY DEF Superblock, SameLayout
<1>3. /\ new.clean = clean /\ new.head = head
      /\ new.allocBlocks = allocBlocks /\ new.allocInodes = allocInodes
  BY DEF Superblock
<1>. QED
  BY <1>1, <1>2, <1>3 DEF Updated

LEMMA FlagIs ==
  ASSUME NEW sb \in Superblock, NEW clean \in BOOLEAN, NEW new, new = [sb EXCEPT !.clean = clean]
  PROVE  Updated(sb, new, clean, sb.head, sb.allocBlocks, sb.allocInodes)
<1>1. new = [sb EXCEPT !.clean = clean, !.head = sb.head, !.allocBlocks = sb.allocBlocks,
                       !.allocInodes = sb.allocInodes]
  BY DEF Superblock
<1>2. sb.head \in Ino \union {0} /\ sb.allocBlocks \in Int /\ sb.allocInodes \in Int
  BY DEF Superblock
<1>. QED
  BY <1>1, <1>2, UpdateIs, Zenon

LEMMA HeadIs ==
  ASSUME NEW sb \in Superblock, NEW head \in Ino \union {0}, NEW new, new = [sb EXCEPT !.head = head]
  PROVE  Updated(sb, new, sb.clean, head, sb.allocBlocks, sb.allocInodes)
<1>1. new = [sb EXCEPT !.clean = sb.clean, !.head = head, !.allocBlocks = sb.allocBlocks,
                       !.allocInodes = sb.allocInodes]
  BY DEF Superblock
<1>2. sb.clean \in BOOLEAN /\ sb.allocBlocks \in Int /\ sb.allocInodes \in Int
  BY DEF Superblock
<1>. QED
  BY <1>1, <1>2, UpdateIs, Zenon

LEMMA OneMoreIs ==
  ASSUME NEW sb \in Superblock
  PROVE  Updated(sb, WithOneMore(sb), sb.clean, sb.head, sb.allocBlocks + 1, sb.allocInodes + 1)
<1>. PICK x \in Int, y \in Int : x = sb.allocBlocks + 1 /\ y = sb.allocInodes + 1
  BY DEF Superblock
<1>1. WithOneMore(sb) = [sb EXCEPT !.clean = sb.clean, !.head = sb.head, !.allocBlocks = x,
                                   !.allocInodes = y]
  BY DEF WithOneMore, Superblock
<1>2. sb.clean \in BOOLEAN /\ sb.head \in Ino \union {0}
  BY DEF Superblock
<1>. QED
  BY <1>1, <1>2, UpdateIs, Zenon

LEMMA FreedIs ==
  ASSUME NEW sb \in Superblock, NEW head \in Ino \union {0}, NEW new, new = [Freed(sb) EXCEPT !.head = head]
  PROVE  Updated(sb, new, sb.clean, head, sb.allocBlocks - 1, sb.allocInodes - 1)
<1>. PICK x \in Int, y \in Int : x = sb.allocBlocks - 1 /\ y = sb.allocInodes - 1
  BY DEF Superblock
<1>1. new = [sb EXCEPT !.clean = sb.clean, !.head = head, !.allocBlocks = x, !.allocInodes = y]
  BY DEF Freed, Superblock
<1>2. sb.clean \in BOOLEAN
  BY DEF Superblock
<1>. QED
  BY <1>1, <1>2, UpdateIs, Zenon

LEMMA ReconstructedIs ==
  ASSUME NEW sb \in Superblock, NEW n \in Int, NEW new,
         new = [sb EXCEPT !.allocBlocks = n, !.allocInodes = n]
  PROVE  Updated(sb, new, sb.clean, sb.head, n, n)
<1>1. new = [sb EXCEPT !.clean = sb.clean, !.head = sb.head, !.allocBlocks = n, !.allocInodes = n]
  BY DEF Superblock
<1>2. sb.clean \in BOOLEAN /\ sb.head \in Ino \union {0}
  BY DEF Superblock
<1>. QED
  BY <1>1, <1>2, UpdateIs, Zenon

LEMMA UpdatedIsLaid ==
  ASSUME NEW a, NEW b, NEW clean, NEW head, NEW allocBlocks, NEW allocInodes, Laid(a),
         Updated(a, b, clean, head, allocBlocks, allocInodes)
  PROVE  Laid(b) /\ b.datSlices = a.datSlices /\ b.blockCount = a.blockCount /\ b.fvm = a.fvm
BY SameIsLaid, Zenon DEF Updated, SameLayout

\* A data slice more, for which there is room in the bitmap.
OneLarger(a, b) ==
  /\ b.clean = a.clean /\ b.head = a.head
  /\ b.allocBlocks = a.allocBlocks /\ b.allocInodes = a.allocInodes
  /\ b.fvm = a.fvm /\ b.datSlices = a.datSlices + 1 /\ b.blockCount > a.blockCount

LEMMA ExtendedIsLaid ==
  ASSUME device \in Devices, NEW sb, Laid(sb), sb.fvm,
         BitmapBlocksForSize((sb.datSlices + 1) * BlocksPerSlice(sb)) <= GetBlockBitmapBlocks(sb)
  PROVE  Laid(Extended(sb)) /\ OneLarger(sb, Extended(sb))
<1>1. /\ sb \in Superblock /\ device.fvm = TRUE /\ sb.fvm = TRUE /\ sb.sliceSize = device.sliceSize
      /\ sb.datSlices \in Nat
  BY DEF Laid, Superblock
<1>. PICK p \in Nat \ {0} : p = BlocksPerSlice(sb)
  <2>1. device.sliceSize \in Nat /\ device.sliceSize > BlockSize
    BY <1>1, VolumeAssumption DEF VolumeAssumption
  <2>. QED
    BY <1>1, <2>1 DEF BlocksPerSlice, BlockSize
<1>. PICK n \in Nat : n = sb.datSlices + 1
  BY <1>1
<1>. PICK count \in Nat : count = n * p
  OBVIOUS
<1>. DEFINE new == Extended(sb)
<1>2. new = [sb EXCEPT !.datSlices = n, !.blockCount = count]
  BY Zenon DEF Extended
<1>. HIDE DEF new
<1>3. /\ new \in Superblock /\ new.fvm = sb.fvm /\ new.clean = sb.clean /\ new.head = sb.head
      /\ new.inodeCount = sb.inodeCount /\ new.allocBlocks = sb.allocBlocks
      /\ new.allocInodes = sb.allocInodes
      /\ new.datSlices = n /\ new.blockCount = count
  <2>1. n \in Int /\ count \in Int
    OBVIOUS
  <2>2. new \in Superblock
    BY <1>1, <1>2, <2>1, ZenonT(60) DEF Superblock
  <2>3. new.datSlices = n /\ new.blockCount = count
    BY <1>1, <1>2 DEF Superblock
  <2>4. /\ new.fvm = sb.fvm /\ new.clean = sb.clean /\ new.head = sb.head
        /\ new.inodeCount = sb.inodeCount /\ new.allocBlocks = sb.allocBlocks
        /\ new.allocInodes = sb.allocInodes
    BY <1>1, <1>2 DEF Superblock
  <2>. QED
    BY <2>2, <2>3, <2>4
<1>4. /\ new.ibm = sb.ibm /\ new.abm = sb.abm /\ new.ino = sb.ino /\ new.integrity = sb.integrity
      /\ new.dat = sb.dat /\ new.sliceSize = sb.sliceSize /\ new.ibmSlices = sb.ibmSlices
      /\ new.abmSlices = sb.abmSlices /\ new.inoSlices = sb.inoSlices
      /\ new.integritySlices = sb.integritySlices
  BY <1>1, <1>2 DEF Superblock
<1>5. /\ BlocksPerSlice(new) = p /\ GetBlockBitmapBlocks(new) = GetBlockBitmapBlocks(sb)
      /\ GetMinimumIntegrityBlocks(new) = GetMinimumIntegrityBlocks(sb)
      /\ JournalBlocks(new) = JournalBlocks(sb) /\ JournalStartBlock(new) = JournalStartBlock(sb)
  BY <1>3, <1>4, Zenon DEF BlocksPerSlice, GetBlockBitmapBlocks, GetMinimumIntegrityBlocks,
     JournalBlocks, JournalStartBlock
<1>6. count > sb.blockCount /\ count > 1 /\ sb.blockCount \in Int
  <2>. PICK m \in Nat : m = sb.datSlices
    BY <1>1
  <2>1. sb.blockCount = m * p /\ sb.blockCount > 1
    BY <1>1, Zenon DEF Laid
  <2>2. count = m * p + p
    OBVIOUS
  <2>3. m * p \in Int
    OBVIOUS
  <2>. QED
    BY <2>1, <2>2, <2>3
<1>7. Up(count, BlockBits) <= sb.abmSlices * p
  <2>1. BitmapBlocksForSize((sb.datSlices + 1) * BlocksPerSlice(sb)) = Up(count, BlockBits)
    BY Zenon DEF BitmapBlocksForSize
  <2>2. GetBlockBitmapBlocks(sb) = sb.abmSlices * p
    BY <1>1, Zenon DEF GetBlockBitmapBlocks
  <2>. QED
    BY <2>1, <2>2, Zenon
<1>8. VerifySlicesSize(sb) /\ AreasFit(sb)
  BY <1>1, Zenon DEF Laid
<1>9. count <= n * p
  OBVIOUS
<1>10. VerifySlicesSize(new)
  BY <1>3, <1>4, <1>5, <1>6, <1>7, <1>8, <1>9, Zenon DEF VerifySlicesSize
<1>11. AreasFit(new)
  <2>1. sb.abmSlices * p + sb.abm < sb.ino
    BY <1>8, Zenon DEF VerifySlicesSize
  <2>2. sb.abm \in Int /\ sb.ino \in Int /\ sb.abmSlices * p \in Int /\ Up(count, BlockBits) \in Int
    BY <1>1 DEF Superblock, Up, BlockBits, BlockSize
  <2>3. sb.abm + Up(count, BlockBits) <= sb.ino
    BY <1>7, <2>1, <2>2
  <2>. QED
    BY <1>3, <1>4, <1>5, <1>8, <2>3, Zenon DEF AreasFit
<1>12. new.blockCount = new.datSlices * BlocksPerSlice(new)
  BY <1>3, <1>5, Zenon
<1>13. OneLarger(sb, new)
  BY <1>3, <1>6, Zenon DEF OneLarger
<1>14. Laid(new)
  <2>1. sb.inodeCount >= DefaultInodeCount /\ sb.dat = Mkfs(device).dat /\ sb.fvm = device.fvm
    BY Zenon DEF Laid
  <2>. QED
    BY <1>1, <1>3, <1>4, <1>6, <1>10, <1>11, <1>12, <2>1, Zenon DEF Laid
<1>. QED
  BY <1>13, <1>14 DEF new

LEMMA MkfsIs ==
  ASSUME device \in Devices, NEW sb, sb = Mkfs(device), sb # Refused
  PROVE  sb \in Superblock /\ Fresh(sb)
<1>1. CASE ~device.fvm
  BY <1>1, PlainIsLaid, Zenon DEF Laid
<1>2. CASE device.fvm
  <2>. PICK p : p = BlocksPerSlice(device)
    OBVIOUS
  <2>1. FvmVolume(sb, p)
    BY <1>2, FvmVolumeIs, Zenon
  <2>. QED
    BY <2>1, Zenon DEF FvmVolume, Fresh
<1>. QED
  BY <1>1, <1>2

(***************************************************************************)
(* What holds in every state.                                              *)
(***************************************************************************)
Inode == [state : {"free", "linked", "unlinked"}, next : Ino \union {0}]
Table == [Ino -> Inode]
Entry == [primary : Superblock, backup : Superblock \union {Unwritten}, inodes : Table]

\* The journal and what it has written.
Typed ==
  /\ device \in Devices /\ slices \in Int /\ damage \in Nat
  /\ disk \in [primary : Superblock \union {Torn}, backup : Superblock \union {Torn}, inodes : Table]
  /\ entries \in Seq(Entry) /\ written \in 0..Len(entries)
  /\ \A k \in 1..Len(entries) : entries[k].backup \in {Unwritten, entries[k].primary}
  /\ phase \in Mounted \union {"down", "replaying", "loaded"}

Placed ==
  /\ written > 0 => disk.primary = entries[written].primary /\ disk.inodes = entries[written].inodes
  /\ phase = "down" => written = 0
  /\ phase # "down" => info \in Superblock /\ disk.primary # Torn
  /\ phase = "loaded" => entries = <<>> /\ info = disk.primary
  /\ phase \in Mounted =>
       /\ inodes \in Table
       /\ inodes = IF entries = <<>> THEN disk.inodes ELSE entries[Len(entries)].inodes

JournalInv == Typed /\ Placed

\* Every superblock is one of the device, and no later one has fewer slices.
WholeOnDisk == {disk.primary, disk.backup} \ {Torn}
AllLaid ==
  /\ \A sb \in WholeOnDisk : Laid(sb) /\ sb.datSlices <= slices
  /\ \A k \in 1..Len(entries) : Laid(entries[k].primary) /\ entries[k].primary.datSlices <= slices
  /\ phase # "down" => Laid(info)

Settled == entries = <<>> \/ (phase \in Mounted /\ written = 0)
SlicesGrow ==
  /\ \A k \in 1..Len(entries), m \in 1..Len(entries) :
       k <= m => entries[k].primary.datSlices <= entries[m].primary.datSlices
  /\ Settled => \A sb \in WholeOnDisk : disk.primary # Torn => sb.datSlices <= disk.primary.datSlices
  /\ entries # <<>> => \A sb \in WholeOnDisk : sb.datSlices <= entries[Len(entries)].primary.datSlices
  /\ phase \in Mounted =>
       /\ \A k \in 1..Len(entries) :
            /\ entries[k].primary.datSlices <= info.datSlices
            /\ k >= written => \A sb \in WholeOnDisk : sb.datSlices <= entries[k].primary.datSlices
       /\ disk.primary.datSlices <= info.datSlices
       /\ info.fvm => slices = info.datSlices

SlicesInv == AllLaid /\ SlicesGrow

\* What is clean, and what is left to replay if it is.
SomethingClean == \E sb \in WholeOnDisk : sb.clean
CleanLast ==
  \A k \in 1..Len(entries) :
    entries[k].primary.clean => k = Len(entries) /\ phase \in {"stopping", "down", "replaying"}
CleanInUse == phase \in {"purging", "serving"} => ~SomethingClean /\ ~info.clean
CleanStarting ==
  phase = "starting" =>
    /\ Len(entries) = 1 /\ entries[1].inodes = disk.inodes
    /\ entries[1].backup = entries[1].primary
    /\ ~info.clean
    /\ written = 1 => ~SomethingClean
CleanStopping ==
  phase = "stopping" =>
    /\ entries # <<>> /\ entries[Len(entries)].primary.clean
    /\ written < Len(entries) => ~SomethingClean
CleanReplay ==
  SomethingClean /\ entries # <<>> =>
    \/ entries[Len(entries)].primary.clean
    \/ \A k \in 1..Len(entries) : entries[k].inodes = disk.inodes
CleanInv == CleanLast /\ CleanInUse /\ CleanStarting /\ CleanStopping /\ CleanReplay

\* The unlinked inodes are a list from the head.
ListIs(table, head, n, list) ==
  /\ list \in [1..n -> Ino]
  /\ \A a \in 1..n, b \in 1..n : list[a] = list[b] => a = b
  /\ \A i \in Ino : table[i].state = "unlinked" <=> \E a \in 1..n : list[a] = i
  /\ \A a \in 1..n : table[list[a]].next = IF a = n THEN 0 ELSE list[a + 1]
  /\ \A i \in Ino : table[i].state # "unlinked" => table[i].next = 0
  /\ head = IF n = 0 THEN 0 ELSE list[1]
Listed(table, head) == \E n \in Nat : \E list \in [1..n -> Ino] : ListIs(table, head, n, list)

Used(table) == 2 + Cardinality(Allocated(table))
Sound(sb, table) ==
  /\ sb.allocBlocks = Used(table) /\ sb.allocInodes = Used(table)
  /\ Used(table) <= sb.blockCount
  /\ Listed(table, sb.head)

\* If the primary is lost, the backup has all but the counts.
SoundDisk(d) ==
  IF d.primary # Torn THEN Sound(d.primary, d.inodes)
  ELSE /\ d.backup # Torn
       /\ Used(d.inodes) <= d.backup.blockCount /\ Listed(d.inodes, d.backup.head)
SoundInv ==
  /\ \A k \in 1..Len(entries) : Sound(entries[k].primary, entries[k].inodes)
  /\ Settled => SoundDisk(disk)
  /\ phase \in Mounted => Sound(info, inodes)

\* One superblock at most is not what it should be.
DamageInv ==
  /\ damage <= 1
  /\ damage = 1 => disk.primary # Torn /\ disk.backup # Torn /\ Counts(disk.backup)
  /\ phase = "down" => IF disk.primary # Torn THEN Counts(disk.primary)
                       ELSE disk.backup # Torn /\ Counts(disk.backup)

\* There are never more inodes than any volume has.
LEMMA AllocatedFit ==
  ASSUME NEW table
  PROVE  /\ IsFiniteSet(Allocated(table)) /\ Used(table) \in Nat
         /\ Cardinality(Allocated(table)) \in Nat /\ Used(table) <= DefaultInodeCount
<1>. PICK c \in Int : c = DefaultInodeCount - 1
  BY DEF DefaultInodeCount
<1>1. Allocated(table) \subseteq 2..c
  BY VolumeAssumption, Zenon DEF VolumeAssumption, Allocated
<1>. PICK two \in Int : two = 2
  OBVIOUS
<1>2. IsFiniteSet(two..c) /\ Cardinality(two..c) = IF two > c THEN 0 ELSE c - two + 1
  BY FS_Interval
<1>3. /\ IsFiniteSet(Allocated(table)) /\ Cardinality(Allocated(table)) <= Cardinality(two..c)
  BY <1>1, <1>2, FS_Subset, Zenon
<1>4. Cardinality(Allocated(table)) \in Nat
  BY <1>3, FS_CardinalityType
<1>5. c = 4095 /\ DefaultInodeCount = 4096
  BY SMT DEF DefaultInodeCount
<1>. QED
  BY <1>2, <1>3, <1>4, <1>5, SMT DEF Used

(***************************************************************************)
(* The journal.                                                            *)
(***************************************************************************)

LEMMA Distinct ==
  /\ Torn \notin Superblock /\ Unwritten \notin Superblock /\ Torn # Unwritten /\ 0 \notin Ino
BY VolumeAssumption DEF Torn, Refused, Unwritten, Superblock, VolumeAssumption

LEMMA Appended ==
  ASSUME NEW S, NEW s \in Seq(S), NEW x \in S, NEW t, t = Append(s, x)
  PROVE  /\ t \in Seq(S) /\ Len(t) = Len(s) + 1 /\ t # <<>> /\ t[Len(t)] = x
         /\ Len(s) \in Nat /\ \A k \in 1..Len(s) : t[k] = s[k]
OBVIOUS

LEMMA Emptied ==
  ASSUME NEW S, NEW s \in Seq(S)
  PROVE  /\ <<>> \in Seq(S) /\ Len(<<>>) = 0 /\ Len(s) \in Nat
         /\ (s = <<>> <=> Len(s) = 0) /\ \A k \in 1..Len(s) : s[k] \in S
OBVIOUS

LEMMA Shortened ==
  ASSUME NEW S, NEW s \in Seq(S), NEW n \in 0..Len(s), NEW t, t = SubSeq(s, 1, n)
  PROVE  /\ t \in Seq(S) /\ Len(t) = n /\ \A k \in 1..n : t[k] = s[k]
         /\ n = Len(s) => t = s
OBVIOUS

\* An operation, or the end of a mount, or of the use of the volume.
Commits(b) ==
  /\ entries' = Append(entries, [primary |-> info', backup |-> b, inodes |-> inodes'])
  /\ b \in {Unwritten, info'}
  /\ device' = device /\ disk' = disk /\ written' = written /\ damage' = damage
  /\ phase \in Mounted \union {"loaded"} /\ phase' \in Mounted
  /\ info' \in Superblock /\ inodes' \in Table

\* The journal has nothing more to do.
Forgets ==
  /\ Synced /\ Forget
  /\ device' = device /\ disk' = disk /\ damage' = damage
  /\ phase \in Mounted \union {"replaying"}

LEMMA CommitsKeepsJournal ==
  ASSUME JournalInv, NEW b, Commits(b), slices' \in Int
  PROVE  JournalInv'
<1>. DEFINE e == [primary |-> info', backup |-> b, inodes |-> inodes']
<1>1. e \in Entry
  BY DEF Commits, Entry
<1>2. entries \in Seq(Entry) /\ written \in 0..Len(entries)
  BY DEF JournalInv, Typed
<1>3. /\ entries' \in Seq(Entry) /\ Len(entries') = Len(entries) + 1 /\ entries' # <<>>
      /\ entries'[Len(entries')] = e /\ Len(entries) \in Nat
      /\ \A k \in 1..Len(entries) : entries'[k] = entries[k]
  BY <1>1, <1>2, Appended DEF Commits
<1>4. written' \in 0..Len(entries') /\ written' = written /\ (written > 0 => written \in 1..Len(entries))
  BY <1>2, <1>3 DEF Commits
<1>5. \A k \in 1..Len(entries') : entries'[k].backup \in {Unwritten, entries'[k].primary}
  <2>. TAKE k \in 1..Len(entries')
  <2>1. CASE k = Len(entries')
    BY <1>3, <2>1 DEF Commits
  <2>2. CASE k # Len(entries')
    <3>1. k \in 1..Len(entries)
      BY <1>3, <2>2
    <3>. QED
      BY <1>3, <3>1 DEF JournalInv, Typed
  <2>. QED
    BY <2>1, <2>2
<1>6. Typed'
  BY <1>3, <1>4, <1>5 DEF JournalInv, Typed, Commits
<1>7. Placed'
  <2>1. e.inodes = inodes'
    OBVIOUS
  <2>2. phase # "down" /\ phase' # "down" /\ phase' # "loaded"
    BY DEF Commits, Mounted
  <2>. QED
    BY <1>3, <1>4, <2>1, <2>2 DEF JournalInv, Placed, Commits
<1>. QED
  BY <1>6, <1>7 DEF JournalInv

LEMMA ForgetsKeepsJournal ==
  ASSUME JournalInv, Forgets, slices' \in Int,
         \/ phase' \in Mounted /\ phase \in Mounted /\ info' = info /\ inodes' = inodes
         \/ phase' = "loaded" /\ info' = disk.primary
         \/ phase' = "down"
  PROVE  /\ JournalInv'
         /\ entries # <<>> => /\ disk.primary = entries[Len(entries)].primary
                              /\ disk.inodes = entries[Len(entries)].inodes
<1>1. /\ entries \in Seq(Entry) /\ written = Len(entries) /\ entries' = <<>> /\ written' = 0
      /\ Len(<<>>) = 0
  BY Emptied DEF JournalInv, Typed, Forgets, Forget, Synced
<1>2. entries # <<>> => written > 0
  BY <1>1, Emptied
<1>3. entries # <<>> => /\ disk.primary = entries[Len(entries)].primary
                        /\ disk.inodes = entries[Len(entries)].inodes
  BY <1>1, <1>2 DEF JournalInv, Placed
<1>4. Typed'
  <2>1. 0 \in 0..0 /\ 1..0 = {} /\ <<>> \in Seq(Entry)
    OBVIOUS
  <2>. QED
    BY <1>1, <2>1 DEF JournalInv, Typed, Forgets
<1>5. phase # "down" /\ disk.primary \in Superblock \union {Torn}
  BY DEF Forgets, Mounted, JournalInv, Typed
<1>6. Placed'
  <2>1. ~(0 > 0)
    OBVIOUS
  <2>2. disk.primary # Torn /\ info \in Superblock
    BY <1>5 DEF JournalInv, Placed
  <2>3. "loaded" # "down" /\ "loaded" \notin Mounted /\ "down" \notin Mounted
    BY DEF Mounted
  <2>4. phase' \in Mounted => inodes' \in Table /\ inodes' = disk.inodes /\ info' = info
    BY <1>3, <2>3 DEF JournalInv, Placed
  <2>. QED
    BY <1>1, <1>5, <2>1, <2>2, <2>3, <2>4 DEF Placed, Forgets
<1>. QED
  BY <1>3, <1>4, <1>6 DEF JournalInv

(***************************************************************************)
(* The operations.                                                         *)
(***************************************************************************)

\* What a step does to the superblock in memory.
Updates(clean, head, allocBlocks, allocInodes) ==
  Updated(info, info', clean, head, allocBlocks, allocInodes)

LEMMA StartIs ==
  ASSUME JournalInv, Start
  PROVE  /\ Commits(info') /\ Updates(FALSE, info.head, info.allocBlocks, info.allocInodes)
         /\ info \in Superblock /\ slices' = IF info.fvm THEN info.datSlices ELSE slices
         /\ inodes' = disk.inodes /\ info = disk.primary /\ entries = <<>>
         /\ phase = "loaded" /\ phase' = "starting"
<1>1. info \in Superblock /\ info = disk.primary /\ entries = <<>>
  BY DEF JournalInv, Placed, Start
<1>2. Updates(FALSE, info.head, info.allocBlocks, info.allocInodes)
  BY <1>1, FlagIs DEF Start, Updates
<1>3. disk.inodes \in Table
  BY DEF JournalInv, Typed
<1>4. info' \in Superblock
  BY <1>2, Zenon DEF Updates, Updated
<1>. QED
  BY <1>1, <1>2, <1>3, <1>4, Zenon DEF Start, Commits, Commit, UpdateFlags, Mounted, CheckSlices

LEMMA StopWritebackIs ==
  ASSUME JournalInv, StopWriteback
  PROVE  /\ Commits(info') /\ Updates(TRUE, info.head, info.allocBlocks, info.allocInodes)
         /\ info \in Superblock /\ slices' = slices /\ inodes' = inodes
         /\ phase = "serving" /\ phase' = "stopping"
<1>1. info \in Superblock /\ inodes \in Table
  BY DEF JournalInv, Placed, StopWriteback, Begins, Mounted
<1>2. Updates(TRUE, info.head, info.allocBlocks, info.allocInodes)
  BY <1>1, FlagIs DEF StopWriteback, Updates
<1>3. info' \in Superblock
  BY <1>2, Zenon DEF Updates, Updated
<1>. QED
  BY <1>1, <1>2, <1>3, Zenon DEF StopWriteback, Begins, Commits, Commit, UpdateFlags, Mounted

LEMMA FreeInode == Nobody \in Inode /\ Nobody.state = "free" /\ Nobody.next = 0
BY DEF Nobody, Inode

LEMMA PurgeUnlinkedIs ==
  ASSUME JournalInv, PurgeUnlinked
  PROVE  /\ Commits(Unwritten)
         /\ Updates(info.clean, inodes[info.head].next, info.allocBlocks - 1, info.allocInodes - 1)
         /\ info \in Superblock /\ slices' = slices /\ inodes \in Table
         /\ inodes' = [inodes EXCEPT ![info.head] = Nobody] /\ info.head \in Ino
         /\ phase = "purging" /\ phase' = "purging"
<1>1. info \in Superblock /\ inodes \in Table
  BY DEF JournalInv, Placed, PurgeUnlinked, Mounted
<1>2. info.head \in Ino /\ inodes[info.head].next \in Ino \union {0}
  BY <1>1 DEF PurgeUnlinked, Superblock, Table, Inode
<1>3. Updates(info.clean, inodes[info.head].next, info.allocBlocks - 1, info.allocInodes - 1)
  BY <1>1, <1>2, FreedIs, Zenon DEF PurgeUnlinked, Updates
<1>4. info' \in Superblock
  BY <1>3, Zenon DEF Updates, Updated
<1>5. inodes' \in Table
  BY <1>1, FreeInode DEF PurgeUnlinked, Table
<1>. QED
  BY <1>1, <1>2, <1>3, <1>4, <1>5, Zenon DEF PurgeUnlinked, Commits, Commit, Mounted

LEMMA CreateIs ==
  ASSUME JournalInv, NEW i \in Ino, Create(i)
  PROVE  /\ Commits(Unwritten)
         /\ Updates(info.clean, info.head, info.allocBlocks + 1, info.allocInodes + 1)
         /\ info \in Superblock /\ slices' = slices /\ inodes \in Table
         /\ inodes' = Created(i) /\ inodes[i] = Nobody /\ info.allocBlocks < info.blockCount
         /\ phase = "serving" /\ phase' = "serving"
<1>1. info \in Superblock /\ inodes \in Table
  BY DEF JournalInv, Placed, Create, Begins, Mounted
<1>2. Updates(info.clean, info.head, info.allocBlocks + 1, info.allocInodes + 1)
  BY <1>1, OneMoreIs, Zenon DEF Create, Updates
<1>3. info' \in Superblock
  BY <1>2, Zenon DEF Updates, Updated
<1>4. inodes' \in Table
  BY <1>1 DEF Create, Created, Table, Inode, Nobody
<1>. QED
  BY <1>1, <1>2, <1>3, <1>4, Zenon DEF Create, Begins, Commits, Commit, Mounted

LEMMA UnlinkIs ==
  ASSUME JournalInv, NEW i \in Ino, Unlink(i)
  PROVE  /\ Commits(Unwritten)
         /\ Updates(info.clean, IF info.head = 0 THEN i ELSE info.head, info.allocBlocks, info.allocInodes)
         /\ info \in Superblock /\ slices' = slices /\ inodes \in Table
         /\ inodes[i].state = "linked"
         /\ inodes' = [j \in Ino |->
              IF j = i THEN [state |-> "unlinked", next |-> 0]
              ELSE IF j \in Last THEN [inodes[j] EXCEPT !.next = i] ELSE inodes[j]]
         /\ phase = "serving" /\ phase' = "serving"
<1>1. info \in Superblock /\ inodes \in Table
  BY DEF JournalInv, Placed, Unlink, Begins, Mounted
<1>. DEFINE head == IF info.head = 0 THEN i ELSE info.head
<1>2. info' = [info EXCEPT !.head = head] /\ head \in Ino \union {0}
  BY <1>1 DEF Superblock, Unlink
<1>. HIDE DEF head
<1>3. Updates(info.clean, head, info.allocBlocks, info.allocInodes)
  BY <1>1, <1>2, HeadIs, Zenon DEF Updates
<1>4. info' \in Superblock
  BY <1>3, Zenon DEF Updates, Updated
<1>5. inodes' \in Table
  BY <1>1 DEF Unlink, Last, Table, Inode
<1>6. Updates(info.clean, IF info.head = 0 THEN i ELSE info.head, info.allocBlocks, info.allocInodes)
  BY <1>3 DEF head
<1>. QED
  BY <1>1, <1>4, <1>5, <1>6, Zenon DEF Unlink, Begins, Commits, Commit, Mounted

LEMMA CloseIs ==
  ASSUME JournalInv, NEW i \in Ino, Close(i)
  PROVE  /\ Commits(Unwritten)
         /\ Updates(info.clean, IF info.head = i THEN inodes[i].next ELSE info.head,
                    info.allocBlocks - 1, info.allocInodes - 1)
         /\ info \in Superblock /\ slices' = slices /\ inodes \in Table
         /\ inodes[i].state = "unlinked"
         /\ inodes' = [j \in Ino |->
              IF j = i THEN Nobody
              ELSE IF inodes[j].next = i THEN [inodes[j] EXCEPT !.next = inodes[i].next]
              ELSE inodes[j]]
         /\ phase = "serving" /\ phase' = "serving"
<1>1. info \in Superblock /\ inodes \in Table
  BY DEF JournalInv, Placed, Close, Begins, Mounted
<1>2. inodes[i].next \in Ino \union {0}
  BY <1>1 DEF Table, Inode
<1>3. HeadWithout(i) \in Ino \union {0}
  BY <1>1, <1>2 DEF Superblock, HeadWithout
<1>4. Updates(info.clean, HeadWithout(i), info.allocBlocks - 1, info.allocInodes - 1)
  BY <1>1, <1>3, FreedIs, Zenon DEF Close, Updates
<1>5. info' \in Superblock
  BY <1>4, Zenon DEF Updates, Updated
<1>6. inodes' \in Table
  BY <1>1, <1>2, FreeInode DEF Close, Table, Inode
<1>7. Updates(info.clean, IF info.head = i THEN inodes[i].next ELSE info.head,
              info.allocBlocks - 1, info.allocInodes - 1)
  BY <1>4, Zenon DEF HeadWithout
<1>. QED
  BY <1>1, <1>5, <1>6, <1>7, Zenon DEF Close, Begins, Commits, Commit, Mounted

LEMMA ExtendedIs ==
  ASSUME NEW sb \in Superblock
  PROVE  /\ Extended(sb) \in Superblock /\ Extended(sb).clean = sb.clean
         /\ Extended(sb).head = sb.head /\ Extended(sb).allocBlocks = sb.allocBlocks
         /\ Extended(sb).allocInodes = sb.allocInodes
         /\ Extended(sb).datSlices = sb.datSlices + 1
<1>. PICK p \in Int : p = BlocksPerSlice(sb)
  BY DEF Superblock, BlocksPerSlice, BlockSize
<1>. PICK n \in Int : n = sb.datSlices + 1
  BY DEF Superblock
<1>. PICK count : count = n * p
  OBVIOUS
<1>1. count \in Int
  OBVIOUS
<1>. DEFINE new == Extended(sb)
<1>2. new = [sb EXCEPT !.datSlices = n, !.blockCount = count]
  BY Zenon DEF Extended
<1>. HIDE DEF new
<1>3. new \in Superblock
  BY <1>1, <1>2, ZenonT(60) DEF Superblock
<1>4. new.datSlices = n
  BY <1>2 DEF Superblock
<1>5. /\ new.clean = sb.clean /\ new.head = sb.head
      /\ new.allocBlocks = sb.allocBlocks /\ new.allocInodes = sb.allocInodes
  BY <1>2 DEF Superblock
<1>. QED
  BY <1>3, <1>4, <1>5 DEF new

LEMMA CreateAndExtendIs ==
  ASSUME JournalInv, NEW i \in Ino, CreateAndExtend(i)
  PROVE  /\ Commits(info')
         /\ Updated(Extended(info), info', info.clean, info.head, info.allocBlocks + 1,
                    info.allocInodes + 1)
         /\ info \in Superblock /\ slices' = slices + 1 /\ inodes \in Table
         /\ inodes' = Created(i) /\ inodes[i] = Nobody /\ MayExtend
         /\ info.allocBlocks = info.blockCount
         /\ phase = "serving" /\ phase' = "serving"
<1>1. info \in Superblock /\ inodes \in Table
  BY DEF JournalInv, Placed, CreateAndExtend, Begins, Mounted
<1>. DEFINE wider == Extended(info)
<1>2. /\ wider \in Superblock /\ wider.clean = info.clean /\ wider.head = info.head
      /\ wider.allocBlocks = info.allocBlocks /\ wider.allocInodes = info.allocInodes
  BY <1>1, ExtendedIs
<1>. HIDE DEF wider
<1>3. Updated(wider, WithOneMore(wider), wider.clean, wider.head, wider.allocBlocks + 1,
              wider.allocInodes + 1)
  BY <1>2, OneMoreIs, Zenon
<1>4. Updated(wider, info', info.clean, info.head, info.allocBlocks + 1, info.allocInodes + 1)
  BY <1>2, <1>3, Zenon DEF CreateAndExtend, wider
<1>5. info' \in Superblock
  BY <1>4, Zenon DEF Updated
<1>6. inodes' \in Table
  BY <1>1 DEF CreateAndExtend, Created, Table, Inode, Nobody
<1>. QED
  BY <1>1, <1>4, <1>5, <1>6, Zenon DEF CreateAndExtend, Begins, Commits, Commit, Mounted, wider

\* The blocks of an entry that has been written, in part.
LEMMA WriteIs ==
  ASSUME NEW d, d \in [primary : Superblock \union {Torn}, backup : Superblock \union {Torn}, inodes : Table],
         NEW e \in Entry, NEW parts \in SUBSET Parts, NEW new, new = Write(d, e, parts)
  PROVE  /\ new \in [primary : Superblock \union {Torn}, backup : Superblock \union {Torn},
                     inodes : Table]
         /\ new.primary = d.primary \/ new.primary = e.primary
         /\ new.backup = d.backup \/ (new.backup = e.backup /\ e.backup # Unwritten)
         /\ new.inodes = d.inodes \/ new.inodes = e.inodes
         /\ d.primary # Torn => new.primary # Torn
         /\ d.backup # Torn => new.backup # Torn
<1>1. /\ e.primary \in Superblock /\ e.backup \in Superblock \union {Unwritten} /\ e.inodes \in Table
      /\ d.primary \in Superblock \union {Torn} /\ d.backup \in Superblock \union {Torn}
      /\ d.inodes \in Table
  BY DEF Entry
<1>2. /\ new.primary = (IF "primary" \in parts THEN e.primary ELSE d.primary)
      /\ new.backup = (IF "backup" \in parts /\ e.backup # Unwritten THEN e.backup ELSE d.backup)
      /\ new.inodes = (IF "inodes" \in parts THEN e.inodes ELSE d.inodes)
      /\ new = [primary |-> new.primary, backup |-> new.backup, inodes |-> new.inodes]
  BY DEF Write
<1>3. /\ new.primary = d.primary \/ new.primary = e.primary
      /\ new.backup = d.backup \/ (new.backup = e.backup /\ e.backup # Unwritten)
      /\ new.inodes = d.inodes \/ new.inodes = e.inodes
  BY <1>2, Zenon
<1>4. /\ new.primary \in Superblock \union {Torn} /\ new.backup \in Superblock \union {Torn}
      /\ new.inodes \in Table
  BY <1>1, <1>3
<1>. QED
  BY <1>1, <1>2, <1>3, <1>4, Distinct

LEMMA WriteEntryIs ==
  ASSUME JournalInv, WriteEntry
  PROVE  /\ written + 1 \in 1..Len(entries) /\ written' = written + 1
         /\ disk'.primary = entries[written + 1].primary
         /\ disk'.inodes = entries[written + 1].inodes
         /\ disk'.backup = IF entries[written + 1].backup # Unwritten
                           THEN entries[written + 1].backup ELSE disk.backup
         /\ JournalInv'
<1>1. entries \in Seq(Entry) /\ written \in 0..Len(entries) /\ Len(entries) \in Nat
  BY DEF JournalInv, Typed
<1>2. written + 1 \in 1..Len(entries) /\ written + 1 > 0 /\ written + 1 \in 0..Len(entries)
  BY <1>1 DEF WriteEntry
<1>. PICK e \in Entry : e = entries[written + 1]
  BY <1>1, <1>2
<1>3. /\ disk'.primary = e.primary /\ disk'.inodes = e.inodes
      /\ disk'.backup = IF e.backup # Unwritten THEN e.backup ELSE disk.backup
  BY DEF WriteEntry, Write, Parts
<1>4. disk' \in [primary : Superblock \union {Torn}, backup : Superblock \union {Torn}, inodes : Table]
  BY WriteIs DEF WriteEntry, JournalInv, Typed
<1>5. Typed'
  BY <1>2, <1>4, Zenon DEF WriteEntry, JournalInv, Typed
<1>6. e.primary # Torn
  BY Distinct DEF Entry
<1>7. Placed'
  <2>1. phase # "down" /\ phase # "loaded" /\ entries # <<>>
    BY <1>1, <1>2 DEF WriteEntry, Mounted
  <2>. QED
    BY <1>3, <1>6, <2>1, Zenon DEF WriteEntry, JournalInv, Placed
<1>. QED
  BY <1>2, <1>3, <1>5, <1>7, Zenon DEF WriteEntry, JournalInv

Disks == [primary : Superblock \union {Torn}, backup : Superblock \union {Torn}, inodes : Table]

\* The kept entries survive a crash; the disk has d, but for what it tears.
CrashesWith(kept, parts, d) ==
  /\ kept \in written..Len(entries) /\ parts \in SUBSET Parts
  /\ phase = "replaying" => kept = Len(entries)
  /\ entries' = SubSeq(entries, 1, kept)
  /\ kept = written => d = disk
  /\ kept # written => written + 1 \in 1..kept /\ d = Write(disk, entries[written + 1], parts)
  /\ d \in Disks /\ disk' \in Disks /\ disk'.inodes = d.inodes
  /\ \/ disk' = d /\ damage' = damage
     \/ /\ damage > 0 /\ damage' = damage - 1 /\ kept # written
        /\ \/ disk'.primary = Torn /\ disk'.backup = d.backup
           \/ disk'.primary = d.primary /\ disk'.backup = Torn

LEMMA CrashIs ==
  ASSUME JournalInv, Crash
  PROVE  /\ \E kept \in written..Len(entries), parts \in SUBSET Parts, d \in Disks :
              CrashesWith(kept, parts, d)
         /\ CrashesInRepair \/ IsValid(disk.primary)
         /\ phase # "down" /\ phase' = "down" /\ slices' = slices /\ device' = device
         /\ JournalInv'
<1>1. /\ entries \in Seq(Entry) /\ written \in 0..Len(entries) /\ Len(entries) \in Nat
      /\ disk \in Disks
  BY DEF JournalInv, Typed, Disks
<1>. PICK kept \in written..Len(entries), parts \in SUBSET Parts :
       /\ phase = "replaying" => kept = Len(entries)
       /\ kept = written => parts = {}
       /\ entries' = SubSeq(entries, 1, kept)
       /\ LET d == IF kept = written THEN disk ELSE Write(disk, entries[written + 1], parts)
          IN \/ disk' = d /\ UNCHANGED damage
             \/ /\ damage > 0 /\ damage' = damage - 1
                /\ \/ "primary" \in parts /\ disk' = [d EXCEPT !.primary = Torn]
                   \/ /\ "backup" \in parts /\ entries[written + 1].backup # Unwritten
                      /\ disk' = [d EXCEPT !.backup = Torn]
  BY Zenon DEF Crash
<1>. DEFINE d == IF kept = written THEN disk ELSE Write(disk, entries[written + 1], parts)
<1>2. kept # written => written + 1 \in 1..kept /\ entries[written + 1] \in Entry
  BY <1>1
<1>3. d \in Disks
  <2>1. CASE kept = written
    BY <1>1, <2>1
  <2>2. CASE kept # written
    BY <1>1, <1>2, <2>2, WriteIs DEF Disks
  <2>. QED
    BY <2>1, <2>2
<1>4. kept = written => d = disk
  OBVIOUS
<1>5. kept # written => d = Write(disk, entries[written + 1], parts)
  OBVIOUS
<1>6. \/ disk' = d /\ damage' = damage
      \/ /\ damage > 0 /\ damage' = damage - 1 /\ kept # written
         /\ \/ disk' = [d EXCEPT !.primary = Torn]
            \/ disk' = [d EXCEPT !.backup = Torn]
  OBVIOUS
<1>. HIDE DEF d
<1>7. \/ disk' = d /\ damage' = damage
      \/ /\ damage > 0 /\ damage' = damage - 1 /\ kept # written
         /\ \/ disk'.primary = Torn /\ disk'.backup = d.backup
            \/ disk'.primary = d.primary /\ disk'.backup = Torn
  BY <1>3, <1>6 DEF Disks
<1>8. disk' \in Disks /\ disk'.inodes = d.inodes
  BY <1>3, <1>6 DEF Disks
<1>9. CrashesWith(kept, parts, d)
  BY <1>2, <1>3, <1>4, <1>5, <1>7, <1>8, Zenon DEF CrashesWith
<1>10. /\ entries' \in Seq(Entry) /\ Len(entries') = kept /\ \A k \in 1..kept : entries'[k] = entries[k]
       /\ kept \in 0..Len(entries)
  BY <1>1, Shortened
<1>11. Typed'
  <2>1. \A k \in 1..Len(entries') : entries'[k].backup \in {Unwritten, entries'[k].primary}
    BY <1>1, <1>10 DEF JournalInv, Typed
  <2>2. damage' \in Nat
    BY <1>7 DEF JournalInv, Typed
  <2>3. 0 \in 0..Len(entries')
    BY <1>10
  <2>. QED
    BY <1>8, <1>10, <2>1, <2>2, <2>3 DEF JournalInv, Typed, Disks, Crash
<1>12. Placed'
  BY DEF Placed, Crash, Mounted
<1>13. phase # "down"
  BY DEF Crash, Mounted
<1>. QED
  BY <1>3, <1>9, <1>11, <1>12, <1>13, Zenon DEF JournalInv, Crash

LEMMA RepairIs ==
  ASSUME JournalInv, RepairSuperblock
  PROVE  /\ disk.backup \in Superblock /\ IsValid(disk.backup) /\ ~IsValid(disk.primary)
         /\ Updated(disk.backup, info', disk.backup.clean, disk.backup.head, Used(disk.inodes),
                    Used(disk.inodes))
         /\ disk'.primary = info' /\ disk'.backup = info' /\ disk'.inodes = disk.inodes
         /\ JournalInv'
<1>1. disk \in Disks /\ disk.backup \in Superblock
  BY DEF JournalInv, Typed, Disks, RepairSuperblock, IsValid
<1>2. Used(disk.inodes) \in Int
  BY AllocatedFit
<1>3. Updated(disk.backup, info', disk.backup.clean, disk.backup.head, Used(disk.inodes),
              Used(disk.inodes))
  BY <1>1, <1>2, ReconstructedIs, Zenon DEF RepairSuperblock, LoadsAs, ReconstructAllocCounts, Used
<1>4. info' \in Superblock
  BY <1>3, Zenon DEF Updated
<1>5. disk' = [disk EXCEPT !.primary = info', !.backup = info']
  BY Zenon DEF RepairSuperblock
<1>6. disk' \in Disks /\ disk'.primary = info' /\ disk'.backup = info' /\ disk'.inodes = disk.inodes
  BY <1>1, <1>4, <1>5 DEF Disks
<1>7. /\ phase = "down" /\ phase' = "replaying" /\ device' = device /\ slices' = slices
      /\ entries' = entries /\ written' = written /\ inodes' = inodes /\ damage' = damage
  BY DEF RepairSuperblock, LoadsAs, SlicesLookedAt
<1>8. Typed'
  BY <1>6, <1>7 DEF JournalInv, Typed, Disks
<1>9. Placed'
  <2>1. ~(written > 0)
    BY <1>7 DEF JournalInv, Placed
  <2>. QED
    BY <1>4, <1>6, <1>7, <2>1, Distinct DEF Placed, Mounted
<1>. QED
  BY <1>1, <1>3, <1>6, <1>8, <1>9, Zenon DEF JournalInv, RepairSuperblock

LEMMA LoadIs ==
  ASSUME JournalInv, LoadSuperblock
  PROVE  info' = disk.primary /\ IsValid(disk.primary) /\ JournalInv'
<1>1. disk.primary \in Superblock
  BY DEF JournalInv, Typed, LoadSuperblock, IsValid
<1>2. Typed'
  BY DEF JournalInv, Typed, LoadSuperblock, LoadsAs, SlicesLookedAt
<1>3. Placed'
  BY <1>1, Distinct DEF JournalInv, Placed, LoadSuperblock, LoadsAs, Mounted
<1>. QED
  BY <1>2, <1>3, Zenon DEF JournalInv, LoadSuperblock, LoadsAs

LEMMA CorruptIs ==
  ASSUME JournalInv, Corrupt
  PROVE  /\ disk'.primary = Torn /\ disk'.backup = disk.backup /\ disk'.inodes = disk.inodes
         /\ JournalInv'
<1>1. disk \in Disks
  BY DEF JournalInv, Typed, Disks
<1>2. disk' = [disk EXCEPT !.primary = Torn]
  BY Zenon DEF Corrupt
<1>3. disk' \in Disks /\ disk'.primary = Torn /\ disk'.backup = disk.backup /\ disk'.inodes = disk.inodes
  BY <1>1, <1>2 DEF Disks
<1>4. Typed'
  BY <1>3 DEF JournalInv, Typed, Corrupt, Disks
<1>5. Placed'
  BY <1>3 DEF JournalInv, Placed, Corrupt, Mounted
<1>. QED
  BY <1>3, <1>4, <1>5 DEF JournalInv

\* The four steps that end with a sync.
LEMMA ForgetsIs ==
  ASSUME JournalInv
  PROVE  /\ ReloadSuperblock =>
              /\ Forgets /\ slices' = slices /\ info' = disk.primary /\ IsValid(disk.primary)
              /\ phase = "replaying" /\ phase' = "loaded"
         /\ Started => /\ Forgets /\ slices' = slices /\ info' = info /\ inodes' = inodes
                       /\ phase = "starting" /\ phase' = "purging"
         /\ Sync => /\ Forgets /\ slices' = slices /\ info' = info /\ inodes' = inodes
                    /\ phase = "serving" /\ phase' = "serving"
         /\ Stopped => /\ Forgets /\ slices' = slices
                       /\ phase = "stopping" /\ phase' = "down"
BY DEF ReloadSuperblock, Started, Sync, Stopped, Forgets, Mounted

LEMMA ExtendAndFailIs ==
  ASSUME JournalInv, ExtendAndFail
  PROVE  /\ info' = Extended(info) /\ info \in Superblock /\ slices' = slices + 1 /\ MayExtend
         /\ device' = device /\ disk' = disk /\ entries' = entries /\ written' = written
         /\ inodes' = inodes /\ damage' = damage /\ phase = "serving" /\ phase' = "serving"
         /\ JournalInv'
<1>1. info \in Superblock
  BY DEF JournalInv, Placed, ExtendAndFail, Begins, Mounted
<1>2. info' \in Superblock
  BY <1>1, ExtendedIs DEF ExtendAndFail
<1>3. Typed'
  BY DEF JournalInv, Typed, ExtendAndFail, Begins
<1>4. Placed'
  BY <1>2 DEF JournalInv, Placed, ExtendAndFail, Begins, Mounted
<1>. QED
  BY <1>1, <1>3, <1>4 DEF JournalInv, ExtendAndFail, Begins

LEMMA PurgedIs ==
  ASSUME JournalInv, Purged
  PROVE  JournalInv'
<1>1. Typed'
  BY DEF JournalInv, Typed, Purged, Mounted
<1>2. Placed'
  BY DEF JournalInv, Placed, Purged, Mounted
<1>. QED
  BY <1>1, <1>2 DEF JournalInv

LEMMA StutterKeepsJournal ==
  ASSUME JournalInv, UNCHANGED vars
  PROVE  JournalInv'
<1>1. Typed'
  BY DEF JournalInv, Typed, vars
<1>2. Placed'
  BY DEF JournalInv, Placed, vars
<1>. QED
  BY <1>1, <1>2 DEF JournalInv

LEMMA JournalInit ==
  ASSUME Init
  PROVE  JournalInv /\ disk.primary = Mkfs(device) /\ disk.backup = disk.primary
         /\ disk.primary \in Superblock /\ disk.inodes = NoInodes
<1>. PICK sb : sb = Mkfs(device) /\ sb # Refused /\ disk = [primary |-> sb, backup |-> sb, inodes |-> NoInodes]
  BY DEF Init
<1>1. sb \in Superblock /\ device \in Devices
  BY MkfsIs, Zenon DEF Init
<1>2. NoInodes \in Table
  BY FreeInode DEF NoInodes, Table
<1>3. device.datSlices \in Int
  BY <1>1, VolumeAssumption DEF VolumeAssumption
<1>4. Typed
  BY <1>1, <1>2, <1>3, VolumeAssumption DEF Init, Typed, VolumeAssumption
<1>5. Placed
  BY DEF Init, Placed, Mounted
<1>. QED
  BY <1>1, <1>4, <1>5 DEF JournalInv

LEMMA JournalNext ==
  ASSUME JournalInv, [Next]_vars
  PROVE  JournalInv'
<1>1. slices \in Int
  BY DEF JournalInv, Typed
<1>2. CASE LoadSuperblock
  BY <1>2, LoadIs
<1>3. CASE RepairSuperblock
  BY <1>3, RepairIs
<1>4. CASE ReloadSuperblock \/ Started \/ Sync \/ Stopped
  <2>1. Forgets /\ slices' = slices
    BY <1>4, ForgetsIs
  <2>2. \/ phase' \in Mounted /\ phase \in Mounted /\ info' = info /\ inodes' = inodes
        \/ phase' = "loaded" /\ info' = disk.primary
        \/ phase' = "down"
    BY <1>4, ForgetsIs DEF Mounted
  <2>. QED
    BY <1>1, <2>1, <2>2, ForgetsKeepsJournal
<1>5. CASE Start
  <2>1. info.datSlices \in Int
    BY <1>5, StartIs DEF Superblock
  <2>2. slices' \in Int /\ Commits(info')
    BY <1>1, <1>5, <2>1, StartIs
  <2>. QED
    BY <2>2, CommitsKeepsJournal
<1>6. CASE StopWriteback
  BY <1>1, <1>6, StopWritebackIs, CommitsKeepsJournal
<1>7. CASE PurgeUnlinked
  BY <1>1, <1>7, PurgeUnlinkedIs, CommitsKeepsJournal
<1>8. CASE Purged
  BY <1>8, PurgedIs
<1>9. ASSUME NEW i \in Ino, Create(i) \/ Unlink(i) \/ Close(i)
      PROVE  JournalInv'
  <2>1. Commits(Unwritten) /\ slices' = slices
    BY <1>9, CreateIs, UnlinkIs, CloseIs, Zenon
  <2>. QED
    BY <1>1, <2>1, CommitsKeepsJournal
<1>10. ASSUME NEW i \in Ino, CreateAndExtend(i)
       PROVE  JournalInv'
  <2>1. Commits(info') /\ slices' = slices + 1
    BY <1>10, CreateAndExtendIs, Zenon
  <2>. QED
    BY <1>1, <2>1, CommitsKeepsJournal
<1>11. CASE ExtendAndFail
  BY <1>11, ExtendAndFailIs
<1>12. CASE WriteEntry
  BY <1>12, WriteEntryIs
<1>13. CASE Crash
  BY <1>13, CrashIs
<1>14. CASE Corrupt
  BY <1>14, CorruptIs
<1>15. CASE UNCHANGED vars
  BY <1>15, StutterKeepsJournal
<1>. QED
  BY <1>2, <1>3, <1>4, <1>5, <1>6, <1>7, <1>8, <1>9, <1>10, <1>11, <1>12, <1>13, <1>14, <1>15, Zenon
  DEF Next

(***************************************************************************)
(* The clean flag.                                                         *)
(***************************************************************************)

LEMMA EntryIs ==
  ASSUME JournalInv
  PROVE  /\ entries \in Seq(Entry) /\ Len(entries) \in Nat /\ written \in 0..Len(entries)
         /\ disk \in Disks /\ (entries = <<>> <=> Len(entries) = 0)
         /\ \A k \in 1..Len(entries) :
              /\ entries[k] \in Entry /\ entries[k].primary \in Superblock
              /\ entries[k].backup \in {Unwritten, entries[k].primary}
<1>1. entries \in Seq(Entry) /\ written \in 0..Len(entries) /\ disk \in Disks
  BY DEF JournalInv, Typed, Disks
<1>2. Len(entries) \in Nat /\ (entries = <<>> <=> Len(entries) = 0)
      /\ \A k \in 1..Len(entries) : entries[k] \in Entry
  BY <1>1, Emptied
<1>3. \A e \in Entry : e.primary \in Superblock
  BY DEF Entry
<1>4. \A k \in 1..Len(entries) : entries[k].backup \in {Unwritten, entries[k].primary}
  BY DEF JournalInv, Typed
<1>. QED
  BY <1>1, <1>2, <1>3, <1>4

\* What is on disk after a write of e is clean only if it was before, or e is.
LEMMA CleanFrom ==
  ASSUME NEW e, e.backup \in {Unwritten, e.primary},
         disk'.primary \in {disk.primary, e.primary, Torn},
         disk'.backup \in {disk.backup, e.primary, Torn},
         SomethingClean'
  PROVE  SomethingClean \/ e.primary.clean
<1>. PICK sb \in {disk'.primary, disk'.backup} \ {Torn} : sb.clean
  BY Zenon DEF SomethingClean, WholeOnDisk
<1>1. sb = e.primary \/ sb \in {disk.primary, disk.backup} \ {Torn}
  OBVIOUS
<1>. QED
  BY <1>1, Zenon DEF SomethingClean, WholeOnDisk

LEMMA CommitsKeepsClean ==
  ASSUME JournalInv, CleanInv, NEW b, Commits(b), ~info.clean, ~info'.clean,
         phase \in {"purging", "serving"}, phase' = phase
  PROVE  CleanInv'
<1>. DEFINE e == [primary |-> info', backup |-> b, inodes |-> inodes']
<1>1. e \in Entry /\ e.primary = info'
  BY DEF Commits, Entry
<1>2. /\ Len(entries') = Len(entries) + 1 /\ entries'[Len(entries')] = e /\ Len(entries) \in Nat
      /\ \A k \in 1..Len(entries) : entries'[k] = entries[k]
  BY <1>1, EntryIs, Appended DEF Commits
<1>3. ~SomethingClean /\ ~SomethingClean'
  <2>1. disk' = disk
    BY DEF Commits
  <2>. QED
    BY <2>1 DEF CleanInv, CleanInUse, SomethingClean, WholeOnDisk
<1>4. \A k \in 1..Len(entries') : ~entries'[k].primary.clean
  <2>. TAKE k \in 1..Len(entries')
  <2>1. CASE k = Len(entries')
    BY <1>1, <1>2, <2>1
  <2>2. CASE k # Len(entries')
    <3>1. k \in 1..Len(entries)
      BY <1>2, <2>2
    <3>. QED
      BY <1>2, <3>1 DEF CleanInv, CleanLast
  <2>. QED
    BY <2>1, <2>2
<1>5. CleanLast' /\ CleanInUse' /\ CleanReplay'
  BY <1>3, <1>4 DEF CleanLast, CleanInUse, CleanReplay
<1>6. CleanStarting' /\ CleanStopping'
  BY DEF CleanStarting, CleanStopping
<1>. QED
  BY <1>5, <1>6 DEF CleanInv

\* Once the journal has nothing to replay, only the use of the volume says anything.
LEMMA ForgetsKeepsClean ==
  ASSUME JournalInv, Forgets, phase' \notin {"starting", "stopping"},
         phase' \in {"purging", "serving"} => ~SomethingClean' /\ ~info'.clean
  PROVE  CleanInv'
<1>1. entries' = <<>> /\ Len(entries') = 0
  BY Emptied DEF Forgets, Forget
<1>2. CleanLast'
  BY <1>1 DEF CleanLast
<1>. QED
  BY <1>1, <1>2 DEF CleanInv, CleanInUse, CleanStarting, CleanStopping, CleanReplay

LEMMA StartKeepsClean ==
  ASSUME JournalInv, Start
  PROVE  CleanInv'
<1>. DEFINE e == [primary |-> info', backup |-> info', inodes |-> inodes']
<1>1. /\ Commits(info') /\ entries = <<>> /\ inodes' = disk.inodes /\ phase' = "starting"
      /\ Updates(FALSE, info.head, info.allocBlocks, info.allocInodes)
  BY StartIs
<1>2. e \in Entry /\ e.primary = info' /\ e.backup = info' /\ e.inodes = disk.inodes
  BY <1>1 DEF Commits, Entry
<1>3. info'.clean = FALSE
  BY <1>1, Zenon DEF Updates, Updated
<1>4. /\ Len(entries) = 0 /\ Len(entries') = 1 /\ entries'[1] = e
  BY <1>1, <1>2, EntryIs, Appended DEF Commits
<1>5. written' # 1 /\ disk' = disk
  BY <1>1, <1>4, EntryIs DEF Commits
<1>6. \A k \in 1..Len(entries') : k = 1
  BY <1>4
<1>7. CleanLast' /\ CleanStarting' /\ CleanReplay'
  BY <1>2, <1>3, <1>4, <1>5, <1>6, Zenon DEF CleanLast, CleanStarting, CleanReplay
<1>8. CleanInUse' /\ CleanStopping'
  BY <1>1 DEF CleanInUse, CleanStopping
<1>. QED
  BY <1>7, <1>8 DEF CleanInv

LEMMA StopKeepsClean ==
  ASSUME JournalInv, CleanInv, StopWriteback
  PROVE  CleanInv'
<1>. DEFINE e == [primary |-> info', backup |-> info', inodes |-> inodes']
<1>1. /\ Commits(info') /\ phase = "serving" /\ phase' = "stopping"
      /\ Updates(TRUE, info.head, info.allocBlocks, info.allocInodes)
  BY StopWritebackIs
<1>2. e \in Entry /\ e.primary = info'
  BY <1>1 DEF Commits, Entry
<1>3. info'.clean = TRUE
  BY <1>1, Zenon DEF Updates, Updated
<1>4. /\ Len(entries') = Len(entries) + 1 /\ entries'[Len(entries')] = e /\ Len(entries) \in Nat
      /\ entries' # <<>> /\ \A k \in 1..Len(entries) : entries'[k] = entries[k]
  BY <1>1, <1>2, EntryIs, Appended DEF Commits
<1>5. ~SomethingClean'
  <2>1. disk' = disk
    BY <1>1 DEF Commits
  <2>. QED
    BY <1>1, <2>1 DEF CleanInv, CleanInUse, SomethingClean, WholeOnDisk
<1>6. CleanLast'
  <2>1. \A k \in 1..Len(entries') : k # Len(entries') => ~entries'[k].primary.clean
    BY <1>1, <1>4 DEF CleanInv, CleanLast
  <2>. QED
    BY <1>1, <2>1 DEF CleanLast
<1>7. CleanStopping' /\ CleanReplay'
  BY <1>2, <1>3, <1>4, <1>5, Zenon DEF CleanStopping, CleanReplay
<1>8. CleanInUse' /\ CleanStarting'
  BY <1>1 DEF CleanInUse, CleanStarting
<1>. QED
  BY <1>6, <1>7, <1>8 DEF CleanInv

LEMMA WriteKeepsClean ==
  ASSUME JournalInv, CleanInv, WriteEntry
  PROVE  CleanInv'
<1>. PICK k \in 1..Len(entries) : k = written + 1
  BY WriteEntryIs
<1>. PICK e \in Entry : e = entries[k] /\ e.backup \in {Unwritten, e.primary}
  BY EntryIs
<1>1. /\ disk'.primary = e.primary /\ disk'.inodes = e.inodes
      /\ disk'.backup = IF e.backup # Unwritten THEN e.backup ELSE disk.backup
      /\ written' = k /\ entries' = entries /\ phase' = phase /\ info' = info
      /\ written \in Nat /\ Len(entries) \in Nat /\ entries # <<>> /\ written < k
  BY WriteEntryIs, EntryIs DEF WriteEntry
<1>2. SomethingClean' => SomethingClean \/ e.primary.clean
  BY <1>1, CleanFrom
<1>3. CleanLast'
  BY <1>1 DEF CleanInv, CleanLast
<1>4. CleanInUse'
  <2>1. phase \in {"purging", "serving"} => ~e.primary.clean
    BY DEF CleanInv, CleanLast
  <2>. QED
    BY <1>1, <1>2, <2>1 DEF CleanInv, CleanInUse
<1>5. CleanStarting'
  <2>. SUFFICES ASSUME phase = "starting"
                PROVE  CleanStarting'
    BY <1>1 DEF CleanStarting
  <2>1. /\ Len(entries) = 1 /\ entries[1].inodes = disk.inodes
        /\ entries[1].backup = entries[1].primary /\ ~info.clean
    BY DEF CleanInv, CleanStarting
  <2>2. k = 1 /\ ~e.primary.clean
    BY <2>1 DEF CleanInv, CleanLast
  <2>3. e.backup = e.primary /\ e.backup # Unwritten /\ e.primary # Torn
    BY <2>1, <2>2, Distinct DEF Entry
  <2>4. disk'.backup = e.primary
    BY <1>1, <2>3
  <2>5. ~SomethingClean'
    BY <1>1, <2>2, <2>4 DEF SomethingClean, WholeOnDisk
  <2>. QED
    BY <1>1, <2>1, <2>2, <2>5 DEF CleanStarting
<1>6. CleanStopping'
  <2>. SUFFICES ASSUME phase = "stopping", k < Len(entries)
                PROVE  ~SomethingClean'
    BY <1>1 DEF CleanInv, CleanStopping
  <2>1. ~e.primary.clean
    BY DEF CleanInv, CleanLast
  <2>2. ~SomethingClean
    BY <1>1 DEF CleanInv, CleanStopping
  <2>. QED
    BY <1>2, <2>1, <2>2
<1>7. CleanReplay'
  <2>1. CASE e.primary.clean
    BY <1>1, <2>1 DEF CleanInv, CleanLast, CleanReplay
  <2>2. CASE ~e.primary.clean
    BY <1>1, <1>2, <2>2 DEF CleanInv, CleanReplay
  <2>. QED
    BY <2>1, <2>2
<1>. QED
  BY <1>3, <1>4, <1>5, <1>6, <1>7 DEF CleanInv

LEMMA CrashKeepsClean ==
  ASSUME JournalInv, CleanInv, Crash
  PROVE  CleanInv'
<1>. PICK kept \in written..Len(entries), parts \in SUBSET Parts, d \in Disks :
       CrashesWith(kept, parts, d)
  BY CrashIs, Zenon
<1>1. phase' = "down" /\ phase # "down" /\ phase \in Mounted \union {"replaying", "loaded"}
  BY CrashIs DEF Crash
<1>2. /\ entries \in Seq(Entry) /\ Len(entries) \in Nat /\ written \in 0..Len(entries)
      /\ kept \in 0..Len(entries)
  BY EntryIs
<1>3. /\ entries' \in Seq(Entry) /\ Len(entries') = kept
      /\ \A k \in 1..kept : entries'[k] = entries[k]
      /\ kept = Len(entries) => entries' = entries
  BY <1>2, Shortened DEF CrashesWith
<1>4. entries' # <<>> => kept > 0
  BY <1>2, <1>3, Emptied
<1>5. CleanLast'
  BY <1>1, <1>2, <1>3 DEF CleanInv, CleanLast
<1>6. CleanInUse' /\ CleanStarting' /\ CleanStopping'
  BY <1>1 DEF CleanInUse, CleanStarting, CleanStopping
<1>7. /\ kept = written =>
           disk'.inodes = disk.inodes /\ disk'.primary = disk.primary /\ disk'.backup = disk.backup
      /\ kept # written =>
           /\ written + 1 \in 1..kept
           /\ disk'.inodes \in {disk.inodes, entries[written + 1].inodes}
           /\ disk'.primary \in {disk.primary, entries[written + 1].primary, Torn}
           /\ disk'.backup \in {disk.backup, entries[written + 1].primary, Torn}
  <2>1. CASE kept = written
    BY <2>1 DEF CrashesWith
  <2>2. CASE kept # written
    <3>1. written + 1 \in 1..kept /\ written + 1 \in 1..Len(entries)
      BY <1>2, <2>2 DEF CrashesWith
    <3>. PICK e \in Entry : e = entries[written + 1] /\ e.backup \in {Unwritten, e.primary}
      BY <3>1, EntryIs
    <3>2. disk \in Disks /\ d = Write(disk, e, parts)
      <4>1. d = Write(disk, e, parts)
        BY <2>2, Zenon DEF CrashesWith
      <4>. QED
        BY <4>1, EntryIs
    <3>3. /\ d.primary = disk.primary \/ d.primary = e.primary
          /\ d.backup = disk.backup \/ (d.backup = e.backup /\ e.backup # Unwritten)
          /\ d.inodes = disk.inodes \/ d.inodes = e.inodes
      BY <3>2, WriteIs DEF Disks
    <3>. QED
      BY <2>2, <3>1, <3>3 DEF CrashesWith
  <2>. QED
    BY <2>1, <2>2
<1>8. CleanReplay'
  <2>. SUFFICES ASSUME SomethingClean', kept > 0
                PROVE  \/ entries'[kept].primary.clean
                       \/ \A k \in 1..kept : entries'[k].inodes = disk'.inodes
    BY <1>3, <1>4 DEF CleanReplay
  <2>1. CASE kept # written /\ entries[written + 1].primary.clean
    <3>1. written + 1 = Len(entries)
      BY <1>2, <1>7, <2>1 DEF CleanInv, CleanLast
    <3>2. kept = Len(entries) /\ kept \in 1..kept
      BY <1>2, <1>7, <2>1, <3>1
    <3>. QED
      BY <1>3, <2>1, <3>1, <3>2
  <2>2. CASE ~(kept # written /\ entries[written + 1].primary.clean)
    <3>1. SomethingClean
      <4>1. CASE kept = written
        BY <1>7, <4>1 DEF SomethingClean, WholeOnDisk
      <4>2. CASE kept # written
        <5>1. written + 1 \in 1..Len(entries)
          BY <1>2, <1>7, <4>2
        <5>. PICK e : e = entries[written + 1] /\ e.backup \in {Unwritten, e.primary}
          BY <5>1, EntryIs
        <5>. QED
          BY <1>7, <2>2, <4>2, CleanFrom
      <4>. QED
        BY <4>1, <4>2
    <3>2. entries # <<>> /\ Len(entries) > 0
      BY <1>2, EntryIs
    <3>3. CASE kept = Len(entries)
      <4>1. CASE entries[Len(entries)].primary.clean
        BY <1>3, <3>2, <3>3, <4>1
      <4>2. CASE \A k \in 1..Len(entries) : entries[k].inodes = disk.inodes
        <5>1. disk'.inodes = disk.inodes
          BY <1>2, <1>7, <4>2
        <5>. QED
          BY <1>3, <3>3, <4>2, <5>1
      <4>. QED
        BY <3>1, <3>2, <4>1, <4>2 DEF CleanInv, CleanReplay
    <3>4. CASE kept # Len(entries)
      <4>1. phase # "replaying" /\ phase \notin {"purging", "serving"} /\ phase # "loaded"
        BY <3>1, <3>2, <3>4 DEF CrashesWith, CleanInv, CleanInUse, JournalInv, Placed
      <4>2. phase # "stopping"
        BY <1>2, <3>1, <3>4 DEF CleanInv, CleanStopping
      <4>3. phase # "starting"
        <5>1. phase = "starting" => Len(entries) = 1
          BY DEF CleanInv, CleanStarting
        <5>. PICK n \in Nat : n = Len(entries)
          BY <1>2
        <5>2. kept \in 1..n /\ kept # n
          BY <1>2, <3>4
        <5>3. n # 1
          BY <5>2
        <5>. QED
          BY <5>1, <5>3
      <4>. QED
        BY <1>1, <4>1, <4>2, <4>3 DEF Mounted
    <3>. QED
      BY <3>3, <3>4
  <2>. QED
    BY <2>1, <2>2
<1>. QED
  BY <1>5, <1>6, <1>8 DEF CleanInv

LEMMA CleanNext ==
  ASSUME JournalInv, CleanInv, [Next]_vars
  PROVE  CleanInv'
<1>1. CASE LoadSuperblock
  BY <1>1 DEF LoadSuperblock, LoadsAs, CleanInv, CleanLast, CleanInUse, CleanStarting, CleanStopping,
              CleanReplay, SomethingClean, WholeOnDisk
<1>2. CASE RepairSuperblock
  <2>1. /\ disk.backup \in Superblock /\ disk'.primary = info' /\ disk'.backup = info'
        /\ disk'.inodes = disk.inodes /\ entries' = entries /\ phase = "down" /\ phase' = "replaying"
    BY <1>2, RepairIs DEF RepairSuperblock, LoadsAs
  <2>2. info'.clean = disk.backup.clean
    BY <1>2, RepairIs, Zenon DEF Updated
  <2>3. SomethingClean' => SomethingClean
    BY <2>1, <2>2, Distinct DEF SomethingClean, WholeOnDisk
  <2>. QED
    BY <2>1, <2>3 DEF CleanInv, CleanLast, CleanInUse, CleanStarting, CleanStopping, CleanReplay
<1>3. CASE ReloadSuperblock \/ Stopped
  <2>1. Forgets /\ phase' \in {"loaded", "down"}
    BY <1>3, ForgetsIs
  <2>. QED
    BY <2>1, ForgetsKeepsClean
<1>4. CASE Started
  <2>1. Forgets /\ phase = "starting" /\ phase' = "purging" /\ info' = info
    BY <1>4, ForgetsIs
  <2>2. Len(entries) = 1 /\ written = 1 /\ ~info.clean /\ ~SomethingClean
    BY <2>1 DEF CleanInv, CleanStarting, Forgets, Synced
  <2>3. ~SomethingClean'
    BY <2>1, <2>2 DEF Forgets, SomethingClean, WholeOnDisk
  <2>. QED
    BY <2>1, <2>2, <2>3, ForgetsKeepsClean
<1>5. CASE Sync
  <2>1. Forgets /\ phase = "serving" /\ phase' = "serving" /\ info' = info
    BY <1>5, ForgetsIs
  <2>2. ~info.clean /\ ~SomethingClean'
    BY <2>1 DEF CleanInv, CleanInUse, Forgets, SomethingClean, WholeOnDisk
  <2>. QED
    BY <2>1, <2>2, ForgetsKeepsClean
<1>6. CASE Start
  BY <1>6, StartKeepsClean
<1>7. CASE StopWriteback
  BY <1>7, StopKeepsClean
<1>8. CASE PurgeUnlinked
  <2>1. /\ Commits(Unwritten) /\ phase = "purging" /\ phase' = "purging"
        /\ Updates(info.clean, inodes[info.head].next, info.allocBlocks - 1, info.allocInodes - 1)
    BY <1>8, PurgeUnlinkedIs
  <2>2. ~info.clean
    BY <2>1 DEF CleanInv, CleanInUse
  <2>3. info'.clean = info.clean
    BY <2>1, Zenon DEF Updates, Updated
  <2>. QED
    BY <2>1, <2>2, <2>3, CommitsKeepsClean
<1>9. ASSUME NEW i \in Ino, Create(i) \/ CreateAndExtend(i) \/ Unlink(i) \/ Close(i)
      PROVE  CleanInv'
  <2>1. /\ \E b : Commits(b)
        /\ phase = "serving" /\ phase' = "serving" /\ info'.clean = info.clean
    <3>1. CASE Create(i)
      BY <3>1, CreateIs, Zenon DEF Updates, Updated
    <3>2. CASE CreateAndExtend(i)
      BY <3>2, CreateAndExtendIs, Zenon DEF Updated
    <3>3. CASE Unlink(i)
      BY <3>3, UnlinkIs, Zenon DEF Updates, Updated
    <3>4. CASE Close(i)
      BY <3>4, CloseIs, Zenon DEF Updates, Updated
    <3>. QED
      BY <1>9, <3>1, <3>2, <3>3, <3>4
  <2>2. ~info.clean
    BY <2>1 DEF CleanInv, CleanInUse
  <2>. QED
    BY <2>1, <2>2, CommitsKeepsClean
<1>10. CASE Purged
  BY <1>10 DEF Purged, CleanInv, CleanLast, CleanInUse, CleanStarting, CleanStopping,
               CleanReplay, SomethingClean, WholeOnDisk
<1>11. CASE ExtendAndFail
  <2>1. /\ info'.clean = info.clean /\ disk' = disk /\ entries' = entries /\ written' = written
        /\ phase = "serving" /\ phase' = "serving"
    BY <1>11, ExtendAndFailIs, ExtendedIs
  <2>. QED
    BY <2>1 DEF CleanInv, CleanLast, CleanInUse, CleanStarting, CleanStopping,
                CleanReplay, SomethingClean, WholeOnDisk
<1>12. CASE WriteEntry
  BY <1>12, WriteKeepsClean
<1>13. CASE Crash
  BY <1>13, CrashKeepsClean
<1>14. CASE Corrupt
  <2>1. /\ disk'.primary = Torn /\ disk'.backup = disk.backup /\ disk'.inodes = disk.inodes
        /\ entries' = entries /\ written' = written /\ phase' = phase /\ phase = "down"
    BY <1>14, CorruptIs DEF Corrupt
  <2>2. SomethingClean' => SomethingClean
    BY <2>1 DEF SomethingClean, WholeOnDisk
  <2>. QED
    BY <2>1, <2>2 DEF CleanInv, CleanLast, CleanInUse, CleanStarting, CleanStopping, CleanReplay
<1>15. CASE UNCHANGED vars
  BY <1>15 DEF vars, CleanInv, CleanLast, CleanInUse, CleanStarting, CleanStopping,
               CleanReplay, SomethingClean, WholeOnDisk
<1>. QED
  BY <1>1, <1>2, <1>3, <1>4, <1>5, <1>6, <1>7, <1>8, <1>9, <1>10, <1>11, <1>12, <1>13, <1>14, <1>15,
     Zenon DEF Next

\* Whatever is not clean is in use, or was not unmounted; and of a volume that says it is
\* clean nothing is lost by not replaying (MinfsChecker and the flag's readers, minfs.cc:1004).
THEOREM CleanVolumeIsComplete == Spec => []CleanIsComplete
<1>1. Init => JournalInv /\ CleanInv
  <2>. SUFFICES ASSUME Init
                PROVE  JournalInv /\ CleanInv
    OBVIOUS
  <2>1. entries = <<>> /\ Len(entries) = 0 /\ phase = "down"
    BY DEF Init
  <2>. QED
    BY <2>1, JournalInit DEF CleanInv, CleanLast, CleanInUse, CleanStarting, CleanStopping, CleanReplay
<1>2. JournalInv /\ CleanInv /\ [Next]_vars => JournalInv' /\ CleanInv'
  BY JournalNext, CleanNext
<1>3. JournalInv /\ CleanInv => CleanIsComplete
  <2>. SUFFICES ASSUME JournalInv, CleanInv, disk.primary # Torn, disk.primary.clean
                PROVE  /\ phase \notin {"purging", "serving"}
                       /\ disk.inodes = Recovered.inodes \/ Recovered.primary.clean
    BY DEF CleanIsComplete
  <2>1. SomethingClean
    BY DEF SomethingClean, WholeOnDisk
  <2>2. phase \notin {"purging", "serving"}
    BY <2>1 DEF CleanInv, CleanInUse
  <2>3. CASE entries = <<>>
    BY <2>2, <2>3 DEF Recovered
  <2>4. CASE entries # <<>>
    <3>1. Len(entries) \in 1..Len(entries)
      BY <2>4, EntryIs
    <3>2. /\ Recovered.primary = entries[Len(entries)].primary
          /\ Recovered.inodes = entries[Len(entries)].inodes
      BY <2>4 DEF Recovered, Write
    <3>. QED
      BY <2>1, <2>2, <2>4, <3>1, <3>2 DEF CleanInv, CleanReplay
  <2>. QED
    BY <2>3, <2>4
<1>. QED
  BY <1>1, <1>2, <1>3, PTL DEF Spec

(***************************************************************************)
(* The slices and the areas.                                               *)
(***************************************************************************)

LEMMA LaidStays ==
  ASSUME device' = device, NEW sb, Laid(sb)
  PROVE  Laid(sb)'
BY Zenon DEF Laid

LEMMA LaidSlices ==
  ASSUME NEW sb, Laid(sb)
  PROVE  sb.datSlices \in Nat /\ sb \in Superblock /\ sb # Torn
BY Distinct DEF Laid

\* No superblock has more slices than the one in memory.
LEMMA NewestHasMost ==
  ASSUME JournalInv, SlicesInv, phase \in Mounted \union {"loaded"}
  PROVE  /\ \A sb \in WholeOnDisk : sb.datSlices <= info.datSlices
         /\ \A k \in 1..Len(entries) : entries[k].primary.datSlices <= info.datSlices
         /\ disk.primary \in WholeOnDisk /\ Laid(info)
<1>1. phase # "down" /\ Laid(info)
  BY DEF Mounted, SlicesInv, AllLaid
<1>2. disk.primary \in WholeOnDisk
  BY <1>1 DEF JournalInv, Placed, WholeOnDisk
<1>3. Len(entries) \in Nat /\ (entries = <<>> <=> Len(entries) = 0) /\ written \in 0..Len(entries)
  BY EntryIs
<1>4. CASE phase = "loaded"
  <2>1. entries = <<>> /\ info = disk.primary
    BY <1>4 DEF JournalInv, Placed
  <2>2. \A sb \in WholeOnDisk : sb.datSlices <= info.datSlices
    BY <1>2, <2>1 DEF SlicesInv, SlicesGrow, Settled, WholeOnDisk
  <2>. QED
    BY <1>1, <1>2, <1>3, <2>1, <2>2
<1>5. CASE phase \in Mounted
  <2>1. /\ \A k \in 1..Len(entries) : entries[k].primary.datSlices <= info.datSlices
        /\ disk.primary.datSlices <= info.datSlices
    BY <1>5 DEF SlicesInv, SlicesGrow
  <2>2. ASSUME NEW sb \in WholeOnDisk
        PROVE  sb.datSlices <= info.datSlices
    <3>1. sb.datSlices \in Nat /\ info.datSlices \in Nat /\ disk.primary.datSlices \in Nat
      BY <1>1, <1>2, <2>2, LaidSlices DEF SlicesInv, AllLaid
    <3>2. CASE entries = <<>>
      <4>1. sb.datSlices <= disk.primary.datSlices
        BY <1>2, <2>2, <3>2 DEF SlicesInv, SlicesGrow, Settled, WholeOnDisk
      <4>. QED
        BY <2>1, <3>1, <4>1
    <3>3. CASE entries # <<>>
      <4>. PICK last \in 1..Len(entries) : last = Len(entries)
        BY <1>3, <3>3
      <4>1. sb.datSlices <= entries[last].primary.datSlices
        BY <2>2, <3>3 DEF SlicesInv, SlicesGrow
      <4>2. entries[last].primary.datSlices \in Nat
        BY LaidSlices DEF SlicesInv, AllLaid
      <4>3. entries[last].primary.datSlices <= info.datSlices
        BY <2>1
      <4>. QED
        BY <3>1, <4>1, <4>2, <4>3
    <3>. QED
      BY <3>2, <3>3
  <2>. QED
    BY <1>1, <1>2, <2>1, <2>2
<1>. QED
  BY <1>4, <1>5

LEMMA CommitsKeepsSlices ==
  ASSUME JournalInv, SlicesInv, NEW b, Commits(b), NEW sb, sb = info', Laid(sb), slices' \in Int,
         info.datSlices <= sb.datSlices, sb.datSlices <= slices', sb.fvm => slices' = sb.datSlices
  PROVE  SlicesInv'
<1>. DEFINE e == [primary |-> info', backup |-> b, inodes |-> inodes']
<1>1. e \in Entry /\ e.primary = sb
  BY DEF Commits, Entry
<1>. PICK n \in Nat : n = Len(entries)
  BY EntryIs
<1>. HIDE DEF e
<1>2. /\ Len(entries') = n + 1 /\ entries'[n + 1] = e /\ entries' # <<>>
      /\ \A k \in 1..n : entries'[k] = entries[k]
  <2>1. entries' = Append(entries, e)
    BY DEF Commits, e
  <2>. QED
    BY <1>1, <2>1, EntryIs, Appended
<1>3. /\ \A x \in WholeOnDisk : x.datSlices <= info.datSlices
      /\ \A k \in 1..n : entries[k].primary.datSlices <= info.datSlices
      /\ disk.primary \in WholeOnDisk /\ Laid(info)
  <2>1. phase \in Mounted \union {"loaded"}
    BY DEF Commits
  <2>. QED
    BY <2>1, NewestHasMost
<1>4. /\ device' = device /\ disk' = disk /\ written' = written /\ phase' \in Mounted
      /\ WholeOnDisk' = WholeOnDisk
  BY DEF Commits, WholeOnDisk
<1>5. /\ \A x \in WholeOnDisk : Laid(x) /\ x.datSlices \in Nat
      /\ \A k \in 1..n : Laid(entries[k].primary) /\ entries[k].primary.datSlices \in Nat
      /\ info.datSlices \in Nat /\ sb.datSlices \in Nat
  BY <1>3, LaidSlices DEF SlicesInv, AllLaid
<1>6. /\ \A x \in WholeOnDisk : x.datSlices <= sb.datSlices /\ x.datSlices <= slices'
      /\ \A k \in 1..n : /\ entries[k].primary.datSlices <= sb.datSlices
                         /\ entries[k].primary.datSlices <= slices'
  BY <1>3, <1>5
<1>7. AllLaid'
  <2>1. \A x \in WholeOnDisk : Laid(x)'
    BY <1>4, <1>5, LaidStays
  <2>2. ASSUME NEW k \in 1..(n + 1)
        PROVE  Laid(entries[k].primary)' /\ entries'[k].primary.datSlices <= slices'
    <3>. PICK x : x = entries'[k].primary
      OBVIOUS
    <3>1. Laid(x) /\ x.datSlices <= slices'
      <4>1. CASE k = n + 1
        BY <1>1, <1>2, <4>1
      <4>2. CASE k # n + 1
        <5>1. k \in 1..n
          BY <4>2
        <5>. QED
          BY <1>2, <1>5, <1>6, <5>1
      <4>. QED
        BY <4>1, <4>2
    <3>2. Laid(x)'
      BY <1>4, <3>1, LaidStays
    <3>. QED
      BY <3>1, <3>2
  <2>3. Laid(sb)'
    BY <1>4, LaidStays
  <2>4. Laid(info)'
    BY <2>3
  <2>. QED
    BY <1>2, <1>4, <1>6, <2>1, <2>2, <2>4 DEF AllLaid
<1>8. SlicesGrow'
  <2>1. \A k \in 1..(n + 1), m \in 1..(n + 1) :
          k <= m => entries'[k].primary.datSlices <= entries'[m].primary.datSlices
    <3>. TAKE k \in 1..(n + 1), m \in 1..(n + 1)
    <3>. HAVE k <= m
    <3>1. CASE m = n + 1
      <4>1. CASE k = n + 1
        BY <1>1, <1>2, <1>5, <3>1, <4>1
      <4>2. CASE k # n + 1
        <5>1. k \in 1..n
          BY <4>2
        <5>. QED
          BY <1>1, <1>2, <1>6, <3>1, <5>1
      <4>. QED
        BY <4>1, <4>2
    <3>2. CASE m # n + 1
      <4>1. k \in 1..n /\ m \in 1..n
        BY <3>2
      <4>. QED
        BY <1>2, <4>1 DEF SlicesInv, SlicesGrow
    <3>. QED
      BY <3>1, <3>2
  <2>2. written = 0 => \A x \in WholeOnDisk : x.datSlices <= disk.primary.datSlices
    <3>1. written = 0 => Settled
      BY DEF Commits, Settled, JournalInv, Placed
    <3>. QED
      BY <1>3, <3>1 DEF SlicesInv, SlicesGrow, WholeOnDisk
  <2>3. ASSUME NEW k \in 1..(n + 1), k >= written, NEW x \in WholeOnDisk
        PROVE  x.datSlices <= entries'[k].primary.datSlices
    <3>1. CASE k = n + 1
      BY <1>1, <1>2, <1>6, <2>3, <3>1
    <3>2. CASE k # n + 1
      <4>1. k \in 1..n /\ entries # <<>>
        BY <3>2, EntryIs
      <4>2. phase \in Mounted
        BY <4>1 DEF Commits, JournalInv, Placed
      <4>. QED
        BY <1>2, <2>3, <4>1, <4>2 DEF SlicesInv, SlicesGrow
    <3>. QED
      BY <3>1, <3>2
  <2>4. \A k \in 1..(n + 1) : entries'[k].primary.datSlices <= sb.datSlices
    <3>. TAKE k \in 1..(n + 1)
    <3>1. CASE k = n + 1
      BY <1>1, <1>2, <1>5, <3>1
    <3>2. CASE k # n + 1
      <4>1. k \in 1..n
        BY <3>2
      <4>. QED
        BY <1>2, <1>6, <4>1
    <3>. QED
      BY <3>1, <3>2
  <2>5. \A x \in WholeOnDisk : x.datSlices <= entries'[n + 1].primary.datSlices
    BY <1>1, <1>2, <1>6
  <2>. QED
    BY <1>2, <1>3, <1>4, <1>6, <2>1, <2>2, <2>3, <2>4, <2>5, Zenon DEF SlicesGrow, Settled
<1>. QED
  BY <1>7, <1>8 DEF SlicesInv

LEMMA ForgetsKeepsSlices ==
  ASSUME JournalInv, SlicesInv, Forgets, slices' = slices,
         \/ phase' \in Mounted /\ phase \in Mounted /\ info' = info /\ inodes' = inodes
         \/ phase' = "loaded" /\ info' = disk.primary
         \/ phase' = "down"
  PROVE  SlicesInv'
<1>1. /\ device' = device /\ disk' = disk /\ WholeOnDisk' = WholeOnDisk /\ phase # "down"
      /\ entries' = <<>> /\ Len(entries') = 0
  BY Emptied DEF Forgets, Forget, WholeOnDisk, Mounted
<1>2. /\ \A x \in WholeOnDisk : Laid(x) /\ x.datSlices <= slices
      /\ Laid(info) /\ disk.primary \in WholeOnDisk
  BY <1>1 DEF SlicesInv, AllLaid, JournalInv, Placed, WholeOnDisk
<1>3. AllLaid'
  <2>1. \A x \in WholeOnDisk : Laid(x)'
    BY <1>1, <1>2, LaidStays
  <2>2. phase' # "down" => Laid(info)'
    <3>. SUFFICES ASSUME phase' # "down"
                  PROVE  Laid(info)'
      OBVIOUS
    <3>. PICK x : x = info'
      OBVIOUS
    <3>1. Laid(x)
      BY <1>2
    <3>2. Laid(x)'
      BY <1>1, <3>1, LaidStays
    <3>. QED
      BY <3>2
  <2>. QED
    BY <1>1, <1>2, <2>1, <2>2 DEF AllLaid
<1>4. \A x \in WholeOnDisk : x.datSlices <= disk.primary.datSlices
  <2>1. CASE entries = <<>>
    BY <1>2, <2>1 DEF SlicesInv, SlicesGrow, Settled, WholeOnDisk
  <2>2. CASE entries # <<>>
    <3>1. disk.primary = entries[Len(entries)].primary
      <4>1. slices' \in Int
        BY DEF JournalInv, Typed
      <4>. QED
        BY <2>2, <4>1, ForgetsKeepsJournal
    <3>. QED
      BY <2>2, <3>1 DEF SlicesInv, SlicesGrow
  <2>. QED
    BY <2>1, <2>2
<1>5. SlicesGrow'
  <2>1. phase' \in Mounted => /\ info' = info /\ disk.primary.datSlices <= info.datSlices
                              /\ info.fvm => slices = info.datSlices
    BY DEF SlicesInv, SlicesGrow, Mounted
  <2>. QED
    BY <1>1, <1>4, <2>1 DEF SlicesGrow
<1>. QED
  BY <1>3, <1>5 DEF SlicesInv

\* The superblocks that are on disk after some entries are written, in whole or in part.
LEMMA WritesKeepLaid ==
  ASSUME JournalInv, SlicesInv, device' = device, slices' = slices, NEW k \in 1..Len(entries),
         disk'.primary \in {disk.primary, entries[k].primary, Torn},
         disk'.backup \in {disk.backup, entries[k].primary, Torn}
  PROVE  /\ \A x \in WholeOnDisk' : Laid(x)' /\ x.datSlices <= slices'
         /\ \A m \in 1..Len(entries) :
              /\ m >= k
              /\ \A x \in WholeOnDisk : x.datSlices <= entries[m].primary.datSlices
              => \A x \in WholeOnDisk' : x.datSlices <= entries[m].primary.datSlices
<1>1. \A x \in WholeOnDisk' : x = entries[k].primary \/ x \in WholeOnDisk
  BY DEF WholeOnDisk
<1>2. /\ \A x \in WholeOnDisk : Laid(x) /\ x.datSlices <= slices
      /\ Laid(entries[k].primary) /\ entries[k].primary.datSlices <= slices
  BY DEF SlicesInv, AllLaid
<1>3. \A x \in WholeOnDisk' : Laid(x) /\ x.datSlices <= slices
  BY <1>1, <1>2
<1>4. \A x \in WholeOnDisk' : Laid(x)'
  BY <1>3, LaidStays
<1>5. ASSUME NEW m \in 1..Len(entries), m >= k,
             \A x \in WholeOnDisk : x.datSlices <= entries[m].primary.datSlices
      PROVE  \A x \in WholeOnDisk' : x.datSlices <= entries[m].primary.datSlices
  <2>1. k <= m
    BY <1>5
  <2>2. entries[k].primary.datSlices <= entries[m].primary.datSlices
    BY <2>1 DEF SlicesInv, SlicesGrow
  <2>. QED
    BY <1>1, <1>5, <2>2
<1>. QED
  BY <1>3, <1>4, <1>5

\* The entries stay where they are.
LEMMA EntriesStayLaid ==
  ASSUME JournalInv, SlicesInv, device' = device, slices' \in Int, slices <= slices',
         NEW n \in 0..Len(entries), Len(entries') = n, \A k \in 1..n : entries'[k] = entries[k]
  PROVE  /\ \A k \in 1..n : Laid(entries[k].primary)' /\ entries'[k].primary.datSlices <= slices'
         /\ \A k \in 1..n, m \in 1..n :
              k <= m => entries'[k].primary.datSlices <= entries'[m].primary.datSlices
<1>1. \A k \in 1..n : k \in 1..Len(entries)
  BY EntryIs
<1>2. ASSUME NEW k \in 1..n
      PROVE  Laid(entries[k].primary)' /\ entries'[k].primary.datSlices <= slices'
  <2>. PICK x : x = entries'[k].primary
    OBVIOUS
  <2>1. Laid(x) /\ x.datSlices <= slices
    BY <1>1 DEF SlicesInv, AllLaid
  <2>2. Laid(x)' /\ x.datSlices \in Nat /\ slices \in Int
    BY <2>1, LaidStays, LaidSlices DEF JournalInv, Typed
  <2>3. x.datSlices <= slices'
    BY <2>1, <2>2
  <2>. QED
    BY <2>2, <2>3
<1>3. \A k \in 1..n, m \in 1..n :
        k <= m => entries'[k].primary.datSlices <= entries'[m].primary.datSlices
  BY <1>1 DEF SlicesInv, SlicesGrow
<1>. QED
  BY <1>2, <1>3

LEMMA WriteKeepsSlices ==
  ASSUME JournalInv, SlicesInv, WriteEntry
  PROVE  SlicesInv'
<1>. PICK k \in 1..Len(entries) : k = written + 1
  BY WriteEntryIs
<1>1. /\ disk'.primary = entries[k].primary
      /\ disk'.backup = IF entries[k].backup # Unwritten THEN entries[k].backup ELSE disk.backup
      /\ written' = k
  BY WriteEntryIs
<1>2. /\ entries[k].backup \in {Unwritten, entries[k].primary} /\ written \in 0..Len(entries)
      /\ Len(entries) \in Nat /\ (entries = <<>> <=> Len(entries) = 0)
  BY EntryIs
<1>3. /\ device' = device /\ slices' = slices /\ entries' = entries /\ info' = info /\ phase' = phase
      /\ slices \in Int /\ phase \in Mounted \union {"replaying"}
  BY DEF WriteEntry, JournalInv, Typed
<1>4. /\ \A x \in WholeOnDisk' : Laid(x)' /\ x.datSlices <= slices'
      /\ \A m \in 1..Len(entries) :
           /\ m >= k
           /\ \A x \in WholeOnDisk : x.datSlices <= entries[m].primary.datSlices
           => \A x \in WholeOnDisk' : x.datSlices <= entries[m].primary.datSlices
  BY <1>1, <1>2, <1>3, WritesKeepLaid
<1>. PICK n \in Nat : n = Len(entries)
  BY <1>2
<1>5. n \in 0..Len(entries) /\ Len(entries') = n /\ slices <= slices'
  BY <1>3
<1>6. /\ \A i \in 1..n : Laid(entries[i].primary)' /\ entries'[i].primary.datSlices <= slices'
      /\ \A i \in 1..n, m \in 1..n :
           i <= m => entries'[i].primary.datSlices <= entries'[m].primary.datSlices
  BY <1>3, <1>5, EntriesStayLaid
<1>7. AllLaid'
  <2>1. Laid(info)'
    <3>1. Laid(info)
      BY <1>3 DEF SlicesInv, AllLaid, Mounted
    <3>. PICK x : x = info
      OBVIOUS
    <3>2. Laid(x)'
      BY <1>3, <3>1, LaidStays
    <3>. QED
      BY <1>3, <3>2
  <2>. QED
    BY <1>4, <1>5, <1>6, <2>1 DEF AllLaid
<1>8. SlicesGrow'
  <2>1. n \in 1..n /\ n >= k /\ entries # <<>>
    BY <1>2
  <2>2. \A x \in WholeOnDisk' : x.datSlices <= entries[n].primary.datSlices
    BY <1>4, <2>1 DEF SlicesInv, SlicesGrow
  <2>3. ASSUME phase \in Mounted
        PROVE  /\ \A m \in 1..n :
                    /\ entries[m].primary.datSlices <= info.datSlices
                    /\ m >= k => \A x \in WholeOnDisk' : x.datSlices <= entries[m].primary.datSlices
               /\ info.fvm => slices = info.datSlices
    <3>1. \A m \in 1..n : m >= k => m >= written
      BY <1>2
    <3>. QED
      BY <1>4, <2>3, <3>1 DEF SlicesInv, SlicesGrow
  <2>4. ~Settled'
    BY <1>1, <1>3, <2>1 DEF Settled
  <2>. QED
    BY <1>1, <1>3, <1>6, <2>1, <2>2, <2>3, <2>4 DEF SlicesGrow
<1>. QED
  BY <1>7, <1>8 DEF SlicesInv

\* What a crash leaves on disk, whichever entry it interrupts.
LEMMA CrashLeaves ==
  ASSUME JournalInv, NEW kept \in written..Len(entries), NEW parts \in SUBSET Parts, NEW d \in Disks,
         CrashesWith(kept, parts, d)
  PROVE  /\ kept \in 0..Len(entries) /\ kept \in Nat /\ written \in Nat /\ Len(entries) \in Nat
         /\ entries' \in Seq(Entry) /\ Len(entries') = kept /\ (entries' = <<>> <=> kept = 0)
         /\ \A k \in 1..kept : entries'[k] = entries[k]
         /\ kept = written =>
              /\ disk'.inodes = disk.inodes /\ disk'.primary = disk.primary
              /\ disk'.backup = disk.backup
         /\ kept # written =>
              /\ written + 1 \in 1..kept
              /\ disk'.inodes \in {disk.inodes, entries[written + 1].inodes}
              /\ disk'.primary \in {disk.primary, entries[written + 1].primary, Torn}
              /\ disk'.backup \in {disk.backup, entries[written + 1].primary, Torn}
<1>1. /\ entries \in Seq(Entry) /\ Len(entries) \in Nat /\ written \in 0..Len(entries)
      /\ kept \in 0..Len(entries)
  BY EntryIs
<1>2. /\ entries' \in Seq(Entry) /\ Len(entries') = kept
      /\ \A k \in 1..kept : entries'[k] = entries[k]
  BY <1>1, Shortened DEF CrashesWith
<1>3. entries' = <<>> <=> kept = 0
  BY <1>2, Emptied
<1>4. CASE kept = written
  BY <1>1, <1>2, <1>3, <1>4 DEF CrashesWith
<1>5. CASE kept # written
  <2>1. written + 1 \in 1..kept /\ written + 1 \in 1..Len(entries)
    BY <1>1, <1>5 DEF CrashesWith
  <2>. PICK e \in Entry : e = entries[written + 1] /\ e.backup \in {Unwritten, e.primary}
    BY <2>1, EntryIs
  <2>2. d = Write(disk, e, parts)
    BY <1>5, Zenon DEF CrashesWith
  <2>3. disk \in Disks
    BY EntryIs
  <2>4. /\ d.primary = disk.primary \/ d.primary = e.primary
        /\ d.backup = disk.backup \/ (d.backup = e.backup /\ e.backup # Unwritten)
        /\ d.inodes = disk.inodes \/ d.inodes = e.inodes
    BY <2>2, <2>3, WriteIs DEF Disks
  <2>5. /\ disk'.inodes \in {disk.inodes, e.inodes}
        /\ disk'.primary \in {disk.primary, e.primary, Torn}
        /\ disk'.backup \in {disk.backup, e.primary, Torn}
    BY <2>4 DEF CrashesWith
  <2>. QED
    BY <1>1, <1>2, <1>3, <1>5, <2>1, <2>5
<1>. QED
  BY <1>4, <1>5

LEMMA CrashKeepsSlices ==
  ASSUME JournalInv, SlicesInv, Crash
  PROVE  SlicesInv'
<1>. PICK kept \in written..Len(entries), parts \in SUBSET Parts, d \in Disks :
       CrashesWith(kept, parts, d)
  BY CrashIs, Zenon
<1>1. /\ phase' = "down" /\ phase \in Mounted \union {"replaying", "loaded"}
      /\ device' = device /\ slices' = slices /\ slices \in Int
  BY CrashIs DEF Crash, JournalInv, Typed
<1>2. /\ kept \in 0..Len(entries) /\ kept \in Nat /\ written \in Nat /\ Len(entries) \in Nat
      /\ Len(entries') = kept /\ (entries' = <<>> <=> kept = 0)
      /\ \A k \in 1..kept : entries'[k] = entries[k]
      /\ kept = written => disk'.primary = disk.primary /\ disk'.backup = disk.backup
      /\ kept # written =>
           /\ written + 1 \in 1..kept
           /\ disk'.primary \in {disk.primary, entries[written + 1].primary, Torn}
           /\ disk'.backup \in {disk.backup, entries[written + 1].primary, Torn}
  BY CrashLeaves
<1>3. /\ \A k \in 1..kept : Laid(entries[k].primary)' /\ entries'[k].primary.datSlices <= slices'
      /\ \A k \in 1..kept, m \in 1..kept :
           k <= m => entries'[k].primary.datSlices <= entries'[m].primary.datSlices
  <2>1. slices' \in Int /\ slices <= slices'
    BY <1>1
  <2>2. kept \in 0..Len(entries) /\ Len(entries') = kept /\ \A k \in 1..kept : entries'[k] = entries[k]
    BY <1>2
  <2>. QED
    BY <1>1, <2>1, <2>2, EntriesStayLaid, Zenon
<1>4. kept > 0 => \A x \in WholeOnDisk : x.datSlices <= entries[kept].primary.datSlices
  <2>. SUFFICES ASSUME kept > 0
                PROVE  \A x \in WholeOnDisk : x.datSlices <= entries[kept].primary.datSlices
    OBVIOUS
  <2>1. kept \in 1..Len(entries) /\ entries # <<>> /\ kept >= written
    BY <1>2, EntryIs
  <2>2. CASE phase \in Mounted
    BY <2>1, <2>2 DEF SlicesInv, SlicesGrow
  <2>3. CASE phase = "replaying"
    BY <2>1, <2>3 DEF SlicesInv, SlicesGrow, CrashesWith
  <2>4. phase # "loaded"
    BY <2>1 DEF JournalInv, Placed
  <2>. QED
    BY <1>1, <2>2, <2>3, <2>4
<1>5. CASE kept = written
  <2>1. WholeOnDisk' = WholeOnDisk
    BY <1>2, <1>5 DEF WholeOnDisk
  <2>2. \A x \in WholeOnDisk : Laid(x)' /\ x.datSlices <= slices
    BY <1>1, LaidStays DEF SlicesInv, AllLaid
  <2>3. AllLaid'
    BY <1>1, <1>2, <1>3, <2>1, <2>2 DEF AllLaid
  <2>4. kept = 0 => Settled
    <3>1. kept = 0 /\ phase = "replaying" => entries = <<>>
      BY EntryIs DEF CrashesWith
    <3>. QED
      BY <1>1, <1>5, <3>1 DEF Settled, JournalInv, Placed
  <2>5. Settled' <=> kept = 0
    BY <1>1, <1>2 DEF Settled, Mounted
  <2>6. kept # 0 => kept > 0 /\ kept \in 1..kept
    BY <1>2
  <2>7. Settled' => \A sb \in WholeOnDisk : disk.primary # Torn => sb.datSlices <= disk.primary.datSlices
    BY <2>4, <2>5 DEF SlicesInv, SlicesGrow
  <2>8. entries' # <<>> => \A sb \in WholeOnDisk : sb.datSlices <= entries'[kept].primary.datSlices
    BY <1>2, <1>4, <2>6
  <2>9. phase' \notin Mounted
    BY <1>1 DEF Mounted
  <2>10. disk'.primary = disk.primary
    BY <1>2, <1>5
  <2>11. SlicesGrow'
    BY <1>2, <1>3, <2>1, <2>7, <2>8, <2>9, <2>10, Zenon DEF SlicesGrow
  <2>. QED
    BY <2>3, <2>11 DEF SlicesInv
<1>6. CASE kept # written
  <2>1. written + 1 \in 1..Len(entries) /\ kept \in 1..Len(entries) /\ kept \in 1..kept
        /\ kept >= written + 1 /\ kept > 0
    BY <1>2, <1>6
  <2>. PICK k \in 1..Len(entries) : k = written + 1
    BY <2>1
  <2>2. /\ disk'.primary \in {disk.primary, entries[k].primary, Torn}
        /\ disk'.backup \in {disk.backup, entries[k].primary, Torn}
    BY <1>2, <1>6
  <2>3. /\ \A x \in WholeOnDisk' : Laid(x)' /\ x.datSlices <= slices'
        /\ \A m \in 1..Len(entries) :
             /\ m >= k
             /\ \A x \in WholeOnDisk : x.datSlices <= entries[m].primary.datSlices
             => \A x \in WholeOnDisk' : x.datSlices <= entries[m].primary.datSlices
    BY <1>1, <2>2, WritesKeepLaid
  <2>4. \A x \in WholeOnDisk' : x.datSlices <= entries[kept].primary.datSlices
    BY <1>4, <2>1, <2>3
  <2>5. AllLaid'
    BY <1>1, <1>2, <1>3, <2>3 DEF AllLaid
  <2>6. phase' \notin Mounted /\ ~Settled'
    BY <1>1, <1>2, <2>1 DEF Settled, Mounted
  <2>7. \A x \in WholeOnDisk' : x.datSlices <= entries'[kept].primary.datSlices
    BY <1>2, <2>1, <2>4
  <2>8. SlicesGrow'
    BY <1>2, <1>3, <2>6, <2>7, Zenon DEF SlicesGrow
  <2>. QED
    BY <2>5, <2>8 DEF SlicesInv
<1>. QED
  BY <1>5, <1>6

LEMMA RepairKeepsSlices ==
  ASSUME JournalInv, SlicesInv, RepairSuperblock
  PROVE  SlicesInv'
<1>1. /\ disk.backup \in WholeOnDisk
      /\ disk'.primary = info' /\ disk'.backup = info'
      /\ Updated(disk.backup, info', disk.backup.clean, disk.backup.head, Used(disk.inodes),
                 Used(disk.inodes))
  BY RepairIs, Distinct DEF WholeOnDisk
<1>2. /\ phase' = "replaying" /\ device' = device /\ slices' = slices /\ entries' = entries
      /\ slices \in Int
  BY DEF RepairSuperblock, LoadsAs, SlicesLookedAt, JournalInv, Typed
<1>. PICK b : b = disk.backup
  OBVIOUS
<1>. PICK sb : sb = info'
  OBVIOUS
<1>3. Laid(b) /\ b.datSlices <= slices
  BY <1>1 DEF SlicesInv, AllLaid
<1>4. Laid(sb) /\ sb.datSlices = b.datSlices
  <2>1. Updated(b, sb, b.clean, b.head, Used(disk.inodes), Used(disk.inodes))
    BY <1>1, Zenon
  <2>. QED
    BY <1>3, <2>1, UpdatedIsLaid, Zenon
<1>5. Laid(sb)' /\ WholeOnDisk' \subseteq {sb}
  BY <1>1, <1>2, <1>4, LaidStays DEF WholeOnDisk
<1>. PICK n \in Nat : n = Len(entries)
  BY EntryIs
<1>6. n \in 0..Len(entries) /\ Len(entries') = n /\ slices <= slices'
  BY <1>2
<1>7. /\ \A i \in 1..n : Laid(entries[i].primary)' /\ entries'[i].primary.datSlices <= slices'
      /\ \A i \in 1..n, m \in 1..n :
           i <= m => entries'[i].primary.datSlices <= entries'[m].primary.datSlices
  BY <1>2, <1>6, EntriesStayLaid
<1>8. AllLaid'
  <2>1. Laid(info)'
    BY <1>5
  <2>. QED
    BY <1>2, <1>3, <1>4, <1>5, <1>6, <1>7, <2>1 DEF AllLaid
<1>9. SlicesGrow'
  <2>1. b.datSlices \in Nat
    BY <1>3, LaidSlices
  <2>2. entries # <<>> => b.datSlices <= entries[n].primary.datSlices
    BY <1>1 DEF SlicesInv, SlicesGrow
  <2>3. phase' \notin Mounted
    BY <1>2 DEF Mounted
  <2>4. sb.datSlices <= sb.datSlices
    BY <1>4, <2>1
  <2>. QED
    BY <1>1, <1>2, <1>4, <1>5, <1>6, <1>7, <2>2, <2>3, <2>4 DEF SlicesGrow
<1>. QED
  BY <1>8, <1>9 DEF SlicesInv

LEMMA ExtendKeepsSlices ==
  ASSUME JournalInv, SlicesInv, ExtendAndFail
  PROVE  SlicesInv'
<1>1. /\ info' = Extended(info) /\ slices' = slices + 1 /\ MayExtend
      /\ device' = device /\ disk' = disk /\ entries' = entries /\ written' = written
      /\ phase = "serving" /\ phase' = "serving" /\ device \in Devices /\ slices \in Int
  BY ExtendAndFailIs DEF JournalInv, Typed
<1>. PICK sb : sb = info
  OBVIOUS
<1>. PICK new : new = Extended(sb)
  OBVIOUS
<1>2. Laid(sb)
  BY <1>1 DEF SlicesInv, AllLaid
<1>3. Laid(new) /\ OneLarger(sb, new)
  BY <1>1, <1>2, ExtendedIsLaid DEF MayExtend
<1>4. new.datSlices = slices + 1 /\ sb.datSlices = slices /\ new.datSlices \in Nat
      /\ sb.datSlices \in Nat
  BY <1>1, <1>2, <1>3, LaidSlices DEF MayExtend, OneLarger
<1>5. WholeOnDisk' = WholeOnDisk /\ \A x \in WholeOnDisk : Laid(x)' /\ x.datSlices <= slices
  BY <1>1, LaidStays DEF SlicesInv, AllLaid, WholeOnDisk
<1>. PICK n \in Nat : n = Len(entries)
  BY EntryIs
<1>6. n \in 0..Len(entries) /\ Len(entries') = n /\ slices <= slices' /\ slices' \in Int
  BY <1>1
<1>7. /\ \A i \in 1..n : Laid(entries[i].primary)' /\ entries'[i].primary.datSlices <= slices'
      /\ \A i \in 1..n, m \in 1..n :
           i <= m => entries'[i].primary.datSlices <= entries'[m].primary.datSlices
  BY <1>1, <1>6, EntriesStayLaid
<1>8. /\ \A x \in WholeOnDisk : x.datSlices \in Nat
      /\ \A i \in 1..n : entries[i].primary.datSlices \in Nat
  BY LaidSlices DEF SlicesInv, AllLaid
<1>9. AllLaid'
  <2>1. Laid(new)'
    BY <1>1, <1>3, LaidStays
  <2>2. Laid(info)'
    BY <1>1, <2>1
  <2>3. \A x \in WholeOnDisk : x.datSlices <= slices'
    BY <1>1, <1>5, <1>8
  <2>. QED
    BY <1>5, <1>6, <1>7, <2>2, <2>3 DEF AllLaid
<1>10. SlicesGrow'
  <2>1. phase \in Mounted
    BY <1>1 DEF Mounted
  <2>2. /\ \A k \in 1..n : entries[k].primary.datSlices <= new.datSlices
        /\ disk.primary.datSlices <= new.datSlices
        /\ new.fvm => slices' = new.datSlices
    <3>1. /\ \A k \in 1..n : entries[k].primary.datSlices <= sb.datSlices
          /\ disk.primary \in WholeOnDisk /\ disk.primary.datSlices <= sb.datSlices
      BY <2>1, NewestHasMost
    <3>. QED
      BY <1>1, <1>4, <1>8, <3>1
  <2>3. new = info'
    BY <1>1
  <2>4. Settled' <=> Settled
    BY <1>1 DEF Settled
  <2>. QED
    BY <1>1, <1>5, <1>6, <1>7, <2>1, <2>2, <2>3, <2>4, Zenon DEF SlicesInv, SlicesGrow
<1>. QED
  BY <1>9, <1>10 DEF SlicesInv

LEMMA MountedSlices ==
  ASSUME JournalInv, SlicesInv, phase \in Mounted \union {"loaded"}
  PROVE  /\ Laid(info) /\ info.datSlices <= slices /\ info.datSlices \in Nat /\ slices \in Nat
         /\ phase \in Mounted /\ info.fvm => slices = info.datSlices
<1>1. /\ disk.primary \in WholeOnDisk /\ Laid(info) /\ slices \in Int
  BY NewestHasMost DEF JournalInv, Typed
<1>2. disk.primary.datSlices \in Nat /\ disk.primary.datSlices <= slices /\ info.datSlices \in Nat
  BY <1>1, LaidSlices DEF SlicesInv, AllLaid
<1>3. slices \in Nat
  BY <1>1, <1>2
<1>4. phase \in Mounted /\ info.fvm => slices = info.datSlices
  BY DEF SlicesInv, SlicesGrow
<1>5. info.datSlices <= slices
  <2>1. CASE phase \in Mounted /\ info.fvm
    BY <1>3, <1>4, <2>1
  <2>2. CASE ~info.fvm
    <3>1. info.datSlices = 0
      BY <1>1, <2>2, Zenon DEF Laid
    <3>. QED
      BY <1>3, <3>1
  <2>3. CASE phase = "loaded"
    <3>1. info = disk.primary
      BY <2>3 DEF JournalInv, Placed
    <3>. QED
      BY <1>2, <3>1
  <2>. QED
    BY <2>1, <2>2, <2>3
<1>. QED
  BY <1>1, <1>2, <1>3, <1>4, <1>5

\* A transaction that adds no slice.
LEMMA UpdateKeepsSlices ==
  ASSUME JournalInv, SlicesInv, NEW b, Commits(b), NEW clean, NEW head, NEW blocks_, NEW inodes_,
         Updates(clean, head, blocks_, inodes_), phase \in Mounted, slices' = slices
  PROVE  SlicesInv'
<1>. PICK sb : sb = info'
  OBVIOUS
<1>1. /\ Laid(info) /\ info.datSlices <= slices /\ info.datSlices \in Nat /\ slices \in Nat
      /\ info.fvm => slices = info.datSlices
  BY MountedSlices
<1>2. Laid(sb) /\ sb.datSlices = info.datSlices /\ sb.fvm = info.fvm
  <2>1. Updated(info, sb, clean, head, blocks_, inodes_)
    BY Zenon DEF Updates
  <2>. QED
    BY <1>1, <2>1, UpdatedIsLaid, Zenon
<1>3. /\ slices' \in Int /\ info.datSlices <= sb.datSlices /\ sb.datSlices <= slices'
      /\ sb.fvm => slices' = sb.datSlices
  BY <1>1, <1>2
<1>. QED
  BY <1>2, <1>3, CommitsKeepsSlices

LEMMA SlicesNext ==
  ASSUME JournalInv, SlicesInv, [Next]_vars
  PROVE  SlicesInv'
<1>1. CASE LoadSuperblock
  <2>1. /\ disk.primary \in WholeOnDisk /\ info' = disk.primary /\ slices' = slices /\ device' = device
        /\ disk' = disk /\ entries' = entries /\ written' = written /\ phase = "down"
        /\ phase' = "replaying" /\ WholeOnDisk' = WholeOnDisk
    BY <1>1, LoadIs DEF LoadSuperblock, LoadsAs, SlicesLookedAt, IsValid, WholeOnDisk
  <2>. PICK x : x = disk.primary
    OBVIOUS
  <2>2. Laid(x)' /\ \A y \in WholeOnDisk : Laid(y)'
    BY <2>1, LaidStays DEF SlicesInv, AllLaid
  <2>3. Laid(info)'
    BY <2>1, <2>2
  <2>. PICK n \in Nat : n = Len(entries)
    BY EntryIs
  <2>4. n \in 0..Len(entries) /\ Len(entries') = n /\ slices <= slices' /\ slices' \in Int
        /\ \A i \in 1..n : entries'[i] = entries[i]
    BY <2>1 DEF JournalInv, Typed
  <2>5. /\ \A i \in 1..n : Laid(entries[i].primary)' /\ entries'[i].primary.datSlices <= slices'
        /\ \A i \in 1..n, m \in 1..n :
             i <= m => entries'[i].primary.datSlices <= entries'[m].primary.datSlices
    BY <2>1, <2>4, EntriesStayLaid, Zenon
  <2>6. AllLaid'
    BY <2>1, <2>2, <2>3, <2>4, <2>5 DEF SlicesInv, AllLaid
  <2>7. SlicesGrow'
    BY <2>1, <2>4, <2>5 DEF SlicesInv, SlicesGrow, Settled, Mounted
  <2>. QED
    BY <2>6, <2>7 DEF SlicesInv
<1>2. CASE RepairSuperblock
  BY <1>2, RepairKeepsSlices
<1>3. CASE ReloadSuperblock \/ Started \/ Sync \/ Stopped
  <2>1. Forgets /\ slices' = slices
    BY <1>3, ForgetsIs
  <2>2. \/ phase' \in Mounted /\ phase \in Mounted /\ info' = info /\ inodes' = inodes
        \/ phase' = "loaded" /\ info' = disk.primary
        \/ phase' = "down"
    BY <1>3, ForgetsIs DEF Mounted
  <2>. QED
    BY <2>1, <2>2, ForgetsKeepsSlices
<1>4. CASE Start
  <2>1. /\ Commits(info') /\ Updates(FALSE, info.head, info.allocBlocks, info.allocInodes)
        /\ slices' = IF info.fvm THEN info.datSlices ELSE slices
        /\ phase = "loaded"
    BY <1>4, StartIs
  <2>2. /\ Laid(info) /\ info.datSlices <= slices /\ info.datSlices \in Nat /\ slices \in Nat
    BY <2>1, MountedSlices
  <2>. PICK sb : sb = info'
    OBVIOUS
  <2>3. Laid(sb) /\ sb.datSlices = info.datSlices /\ sb.fvm = info.fvm
    <3>1. Updated(info, sb, FALSE, info.head, info.allocBlocks, info.allocInodes)
      BY <2>1, Zenon DEF Updates
    <3>. QED
      BY <2>2, <3>1, UpdatedIsLaid, Zenon
  <2>4. /\ slices' \in Int /\ info.datSlices <= sb.datSlices /\ sb.datSlices <= slices'
        /\ sb.fvm => slices' = sb.datSlices
    BY <2>1, <2>2, <2>3
  <2>. QED
    BY <2>1, <2>3, <2>4, CommitsKeepsSlices
<1>5. CASE StopWriteback
  BY <1>5, StopWritebackIs, UpdateKeepsSlices DEF Mounted
<1>6. CASE PurgeUnlinked
  BY <1>6, PurgeUnlinkedIs, UpdateKeepsSlices DEF Mounted
<1>7. CASE Purged
  <2>1. /\ slices' = slices /\ device' = device /\ disk' = disk /\ entries' = entries
        /\ written' = written /\ info' = info /\ phase \in Mounted /\ phase' \in Mounted
    BY <1>7 DEF Purged, Mounted
  <2>2. phase # "down" /\ phase' # "down"
    BY <2>1 DEF Mounted
  <2>3. AllLaid'
    BY <2>1, <2>2, Zenon DEF SlicesInv, AllLaid, WholeOnDisk, Laid
  <2>4. SlicesGrow'
    BY <2>1, Zenon DEF SlicesInv, SlicesGrow, WholeOnDisk, Settled
  <2>. QED
    BY <2>3, <2>4 DEF SlicesInv
<1>8. ASSUME NEW i \in Ino, Create(i) \/ Unlink(i) \/ Close(i)
      PROVE  SlicesInv'
  <2>1. CASE Create(i)
    BY <2>1, CreateIs, UpdateKeepsSlices DEF Mounted
  <2>2. CASE Unlink(i)
    BY <2>2, UnlinkIs, UpdateKeepsSlices DEF Mounted
  <2>3. CASE Close(i)
    BY <2>3, CloseIs, UpdateKeepsSlices DEF Mounted
  <2>. QED
    BY <1>8, <2>1, <2>2, <2>3
<1>9. ASSUME NEW i \in Ino, CreateAndExtend(i)
      PROVE  SlicesInv'
  <2>1. /\ Commits(info')
        /\ Updated(Extended(info), info', info.clean, info.head, info.allocBlocks + 1,
                   info.allocInodes + 1)
        /\ slices' = slices + 1 /\ MayExtend /\ phase = "serving"
    BY <1>9, CreateAndExtendIs
  <2>2. /\ Laid(info) /\ info.datSlices \in Nat /\ slices \in Nat
    BY <2>1, MountedSlices DEF Mounted
  <2>. PICK new : new = Extended(info)
    OBVIOUS
  <2>3. Laid(new) /\ OneLarger(info, new)
    <3>1. device \in Devices /\ info.fvm
          /\ BitmapBlocksForSize((info.datSlices + 1) * BlocksPerSlice(info)) <= GetBlockBitmapBlocks(info)
      BY <2>1, Zenon DEF MayExtend, JournalInv, Typed
    <3>. QED
      BY <2>2, <3>1, ExtendedIsLaid, Zenon
  <2>. PICK sb : sb = info'
    OBVIOUS
  <2>4. Laid(sb) /\ sb.datSlices = new.datSlices
    <3>1. Updated(new, sb, info.clean, info.head, info.allocBlocks + 1, info.allocInodes + 1)
      BY <2>1, Zenon
    <3>2. sb \in Superblock /\ SameLayout(new, sb)
      BY <3>1, Zenon DEF Updated
    <3>3. sb.datSlices = new.datSlices
      BY <3>2, Zenon DEF SameLayout
    <3>. QED
      BY <2>3, <3>2, <3>3, SameIsLaid, Zenon
  <2>5. /\ slices' \in Int /\ info.datSlices <= sb.datSlices /\ sb.datSlices <= slices'
        /\ sb.fvm => slices' = sb.datSlices
    BY <2>1, <2>2, <2>3, <2>4 DEF OneLarger, MayExtend
  <2>. QED
    BY <2>1, <2>4, <2>5, CommitsKeepsSlices
<1>10. CASE ExtendAndFail
  BY <1>10, ExtendKeepsSlices
<1>11. CASE WriteEntry
  BY <1>11, WriteKeepsSlices
<1>12. CASE Crash
  BY <1>12, CrashKeepsSlices
<1>13. CASE Corrupt
  <2>1. /\ disk'.primary = Torn /\ disk'.backup = disk.backup /\ slices' = slices /\ device' = device
        /\ entries' = entries /\ written' = written /\ phase = "down" /\ phase' = "down"
    BY <1>13, CorruptIs DEF Corrupt
  <2>2. WholeOnDisk' \subseteq WholeOnDisk
    BY <2>1 DEF WholeOnDisk
  <2>3. AllLaid'
    <3>1. \A x \in WholeOnDisk' : Laid(x)' /\ x.datSlices <= slices
      BY <2>1, <2>2, LaidStays DEF SlicesInv, AllLaid
    <3>2. ASSUME NEW k \in 1..Len(entries)
          PROVE  Laid(entries[k].primary)' /\ entries[k].primary.datSlices <= slices
      <4>. PICK x : x = entries[k].primary
        OBVIOUS
      <4>1. Laid(x) /\ x.datSlices <= slices
        BY DEF SlicesInv, AllLaid
      <4>2. Laid(x)' /\ x = entries'[k].primary
        BY <2>1, <4>1, LaidStays
      <4>. QED
        BY <4>1, <4>2
    <3>. QED
      BY <2>1, <3>1, <3>2 DEF AllLaid
  <2>4. SlicesGrow'
    BY <2>1, <2>2 DEF SlicesInv, SlicesGrow, Mounted
  <2>. QED
    BY <2>3, <2>4 DEF SlicesInv
<1>14. CASE UNCHANGED vars
  <2>1. AllLaid'
    BY <1>14, Zenon DEF vars, SlicesInv, AllLaid, WholeOnDisk, Laid
  <2>2. SlicesGrow'
    BY <1>14, Zenon DEF vars, SlicesInv, SlicesGrow, WholeOnDisk, Settled
  <2>. QED
    BY <2>1, <2>2 DEF SlicesInv
<1>. QED
  BY <1>1, <1>2, <1>3, <1>4, <1>5, <1>6, <1>7, <1>8, <1>9, <1>10, <1>11, <1>12, <1>13, <1>14, Zenon
  DEF Next

LEMMA SlicesInit ==
  ASSUME SlicesAreSmall, Init
  PROVE  SlicesInv
<1>. PICK sb : sb = disk.primary
  OBVIOUS
<1>1. /\ sb = Mkfs(device) /\ disk.backup = sb /\ device \in Devices /\ sb # Refused
  BY JournalInit, Distinct DEF Init, Torn
<1>2. Laid(sb) /\ Fresh(sb)
  BY <1>1, MkfsIsLaid, Zenon
<1>3. /\ entries = <<>> /\ Len(entries) = 0 /\ phase = "down" /\ slices = device.datSlices
      /\ written = 0
  BY Emptied DEF Init
<1>4. sb.datSlices <= slices /\ sb.datSlices <= sb.datSlices
  <2>1. sb.datSlices \in Nat /\ slices \in Nat
    BY <1>1, <1>2, <1>3, LaidSlices, VolumeAssumption DEF VolumeAssumption
  <2>2. CASE sb.fvm
    BY <1>2, <1>3, <2>1, <2>2 DEF Fresh
  <2>3. CASE ~sb.fvm
    <3>1. sb.datSlices = 0
      BY <1>2, <2>3, Zenon DEF Laid
    <3>. QED
      BY <2>1, <3>1
  <2>. QED
    BY <2>2, <2>3
<1>5. WholeOnDisk \subseteq {sb}
  BY <1>1 DEF WholeOnDisk
<1>6. AllLaid
  BY <1>2, <1>3, <1>4, <1>5 DEF AllLaid
<1>7. SlicesGrow
  BY <1>3, <1>4, <1>5 DEF SlicesGrow, Mounted
<1>. QED
  BY <1>6, <1>7 DEF SlicesInv

LEMMA SlicesHold ==
  ASSUME SlicesAreSmall
  PROVE  Spec => [](JournalInv /\ SlicesInv)
<1>1. Init => JournalInv /\ SlicesInv
  BY JournalInit, SlicesInit
<1>2. JournalInv /\ SlicesInv /\ [Next]_vars => JournalInv' /\ SlicesInv'
  BY JournalNext, SlicesNext
<1>. QED
  BY <1>1, <1>2, PTL DEF Spec

\* The parts of every superblock that is on disk are in their order, whatever was extended,
\* torn, repaired and replayed: the bitmaps cover what they describe, and the blocks that
\* the superblock counts on are those of the device (format.h:213, CheckSuperblock).
THEOREM PartsStayApart ==
  ASSUME SlicesAreSmall
  PROVE  Spec => []RegionsDisjoint
<1>1. JournalInv /\ SlicesInv => RegionsDisjoint
  <2>. SUFFICES ASSUME JournalInv, SlicesInv, NEW sb \in WholeOnDisk
                PROVE  /\ AreasFit(sb)
                       /\ sb.blockCount <= IF sb.fvm THEN slices * BlocksPerSlice(sb)
                                           ELSE device.blocks - sb.dat
    BY Zenon DEF RegionsDisjoint, WholeOnDisk, AreasFit
  <2>1. Laid(sb) /\ sb.datSlices <= slices /\ slices \in Int
    BY DEF SlicesInv, AllLaid, JournalInv, Typed
  <2>2. AreasFit(sb) /\ sb \in Superblock /\ sb.fvm = device.fvm /\ sb.datSlices \in Nat
    BY <2>1, LaidSlices DEF Laid
  <2>3. CASE sb.fvm
    <3>1. sb.blockCount = sb.datSlices * BlocksPerSlice(sb) /\ sb.sliceSize = device.sliceSize
      BY <2>1, <2>3, Zenon DEF Laid
    <3>. PICK p \in Nat : p = BlocksPerSlice(sb)
      <4>1. device.sliceSize \in Nat
        BY VolumeAssumption DEF VolumeAssumption, JournalInv, Typed
      <4>. QED
        BY <3>1, <4>1 DEF BlocksPerSlice, BlockSize
    <3>. PICK m \in Nat, n \in Nat : m = sb.datSlices /\ n = slices
      BY <2>1, <2>2
    <3>2. m * p <= n * p
      <4>. PICK q \in Nat : n = m + q
        <5>1. n - m \in Nat /\ n = m + (n - m)
          BY <2>1
        <5>. QED
          BY <5>1
      <4>1. n * p = m * p + q * p /\ m * p \in Nat /\ q * p \in Nat
        OBVIOUS
      <4>. QED
        BY <4>1
    <3>. QED
      BY <2>2, <2>3, <3>1, <3>2
  <2>4. CASE ~sb.fvm
    <3>1. sb.dat + sb.blockCount = device.blocks
      BY <2>1, <2>4, Zenon DEF Laid
    <3>2. sb.dat \in Int /\ sb.blockCount \in Int
      BY <2>2 DEF Superblock
    <3>3. device.blocks \in Nat
      BY VolumeAssumption DEF VolumeAssumption, JournalInv, Typed
    <3>4. sb.blockCount <= device.blocks - sb.dat
      BY <3>1, <3>2, <3>3
    <3>. QED
      BY <2>2, <2>4, <3>4
  <2>. QED
    BY <2>3, <2>4
<1>. QED
  BY <1>1, SlicesHold, PTL

(***************************************************************************)
(* The counts and the list of unlinked inodes.                             *)
(***************************************************************************)

LEMMA UsedIs ==
  ASSUME NEW table, NEW new, NEW i
  PROVE  /\ Allocated(new) = Allocated(table) => Used(new) = Used(table)
         /\ Allocated(new) = Allocated(table) \union {i} /\ i \notin Allocated(table)
            => Used(new) = Used(table) + 1
         /\ Allocated(new) = Allocated(table) \ {i} /\ i \in Allocated(table)
            => Used(new) = Used(table) - 1
<1>1. IsFiniteSet(Allocated(table)) /\ Cardinality(Allocated(table)) \in Nat
  BY AllocatedFit
<1>. PICK c \in Nat : c = Cardinality(Allocated(table))
  BY <1>1
<1>. PICK d : d = Cardinality(Allocated(new))
  OBVIOUS
<1>2. i \notin Allocated(table) /\ Allocated(new) = Allocated(table) \union {i} => d = c + 1
  BY <1>1, FS_AddElement
<1>3. i \in Allocated(table) /\ Allocated(new) = Allocated(table) \ {i} => d = c - 1
  BY <1>1, FS_RemoveElement
<1>4. Allocated(new) = Allocated(table) => d = c
  OBVIOUS
<1>5. Used(table) = 2 + c /\ Used(new) = 2 + d
  BY DEF Used
<1>. QED
  BY <1>2, <1>3, <1>4, <1>5

LEMMA CreatedIs ==
  ASSUME NEW table \in Table, NEW i \in Ino, table[i] = Nobody, NEW new,
         new = [table EXCEPT ![i] = [Nobody EXCEPT !.state = "linked"]], NEW head
  PROVE  /\ Used(new) = Used(table) + 1
         /\ Listed(table, head) => Listed(new, head)
<1>1. /\ \A j \in Ino : j # i => new[j] = table[j]
      /\ new[i].state = "linked" /\ new[i].next = 0
      /\ table[i].state = "free" /\ table[i].next = 0
  BY DEF Table, Nobody
<1>2. Allocated(new) = Allocated(table) \union {i} /\ i \notin Allocated(table)
  BY <1>1 DEF Allocated
<1>3. ASSUME NEW n \in Nat, NEW list \in [1..n -> Ino], ListIs(table, head, n, list)
      PROVE  ListIs(new, head, n, list)
  <2>1. \A a \in 1..n : list[a] \in Ino /\ list[a] # i
    BY <1>1, <1>3 DEF ListIs
  <2>. QED
    BY <1>1, <1>3, <2>1 DEF ListIs
<1>. QED
  BY <1>2, <1>3, UsedIs, Zenon DEF Listed

\* An inode that is unlinked comes last.
LastIn(table) == {j \in Ino : table[j].state = "unlinked" /\ table[j].next = 0}
WithLast(table, i) ==
  [j \in Ino |->
     IF j = i THEN [state |-> "unlinked", next |-> 0]
     ELSE IF j \in LastIn(table) THEN [table[j] EXCEPT !.next = i] ELSE table[j]]

LEMMA UnlinkedIs ==
  ASSUME NEW table \in Table, NEW i \in Ino, table[i].state = "linked", NEW new,
         new = WithLast(table, i), NEW head, Listed(table, head),
         NEW first, first = IF head = 0 THEN i ELSE head
  PROVE  Used(new) = Used(table) /\ Listed(new, first)
<1>. PICK last : last = LastIn(table)
  OBVIOUS
<1>1. /\ new[i].state = "unlinked" /\ new[i].next = 0
      /\ \A j \in Ino : j # i => /\ new[j].state = table[j].state
                                 /\ new[j].next = IF j \in last THEN i ELSE table[j].next
  BY DEF Table, Inode, WithLast
<1>2. Allocated(new) = Allocated(table)
  BY <1>1 DEF Allocated
<1>. PICK n \in Nat : \E list \in [1..n -> Ino] : ListIs(table, head, n, list)
  BY DEF Listed
<1>. PICK list \in [1..n -> Ino] : ListIs(table, head, n, list)
  OBVIOUS
<1>. PICK m \in Nat : m = n + 1
  OBVIOUS
<1>. PICK longer : longer = [a \in 1..m |-> IF a = m THEN i ELSE list[a]]
  OBVIOUS
<1>3. /\ longer \in [1..m -> Ino] /\ longer[m] = i /\ m \in 1..m
      /\ \A a \in 1..n : a \in 1..m /\ a # m /\ longer[a] = list[a] /\ list[a] \in Ino
      /\ \A a \in 1..m : a = m \/ a \in 1..n
  OBVIOUS
<1>4. \A a \in 1..n : list[a] # i
  BY DEF ListIs
<1>5. \A a \in 1..n : list[a] \in last <=> a = n
  <2>. TAKE a \in 1..n
  <2>1. table[list[a]].state = "unlinked"
    BY <1>3 DEF ListIs
  <2>2. table[list[a]].next = 0 <=> a = n
    <3>1. a # n => a + 1 \in 1..n
      OBVIOUS
    <3>. QED
      BY <3>1, Distinct DEF ListIs
  <2>. QED
    BY <1>3, <2>1, <2>2 DEF LastIn
<1>6. \A a \in 1..m, b \in 1..m : longer[a] = longer[b] => a = b
  BY <1>3, <1>4 DEF ListIs
<1>7. \A j \in Ino : new[j].state = "unlinked" <=> \E a \in 1..m : longer[a] = j
  BY <1>1, <1>3, <1>4 DEF ListIs
<1>8. \A a \in 1..m : new[longer[a]].next = IF a = m THEN 0 ELSE longer[a + 1]
  <2>. TAKE a \in 1..m
  <2>1. CASE a = m
    BY <1>1, <1>3, <2>1
  <2>2. CASE a = n
    BY <1>1, <1>3, <1>4, <1>5, <2>2
  <2>3. CASE a # m /\ a # n
    <3>1. a \in 1..n /\ a + 1 \in 1..n
      BY <1>3, <2>3
    <3>2. table[list[a]].next = list[a + 1]
      BY <2>3, <3>1 DEF ListIs
    <3>. QED
      BY <1>1, <1>3, <1>4, <1>5, <2>3, <3>1, <3>2
  <2>. QED
    BY <2>1, <2>2, <2>3
<1>9. \A j \in Ino : new[j].state # "unlinked" => new[j].next = 0
  BY <1>1 DEF ListIs, LastIn
<1>10. (IF head = 0 THEN i ELSE head) = longer[1]
  <2>1. CASE n = 0
    BY <1>3, <2>1 DEF ListIs
  <2>2. CASE n # 0
    <3>1. 1 \in 1..n /\ head = list[1]
      BY <2>2 DEF ListIs
    <3>. QED
      BY <1>3, <3>1, Distinct
  <2>. QED
    BY <2>1, <2>2
<1>11. (IF head = 0 THEN i ELSE head) = IF m = 0 THEN 0 ELSE longer[1]
  BY <1>3, <1>10
<1>12. ListIs(new, first, m, longer)
  BY <1>3, <1>6, <1>7, <1>8, <1>9, <1>11, Zenon DEF ListIs
<1>. QED
  BY <1>2, <1>3, <1>12, UsedIs, Zenon DEF Listed

\* An inode that nobody has open any more leaves the list wherever it is.
LEMMA ClosedIs ==
  ASSUME NEW table \in Table, NEW i \in Ino, table[i].state = "unlinked", NEW new,
         new = [j \in Ino |->
           IF j = i THEN Nobody
           ELSE IF table[j].next = i THEN [table[j] EXCEPT !.next = table[i].next]
           ELSE table[j]],
         NEW head, Listed(table, head)
  PROVE  /\ Used(new) = Used(table) - 1
         /\ Listed(new, IF head = i THEN table[i].next ELSE head)
<1>1. /\ new[i].state = "free" /\ new[i].next = 0
      /\ \A j \in Ino :
           j # i => /\ new[j].state = table[j].state
                    /\ new[j].next = IF table[j].next = i THEN table[i].next ELSE table[j].next
  BY FreeInode DEF Table, Inode
<1>2. Allocated(new) = Allocated(table) \ {i} /\ i \in Allocated(table)
  BY <1>1 DEF Allocated
<1>. PICK n \in Nat : \E list \in [1..n -> Ino] : ListIs(table, head, n, list)
  BY DEF Listed
<1>. PICK list \in [1..n -> Ino] : ListIs(table, head, n, list)
  OBVIOUS
<1>. PICK k \in 1..n : list[k] = i
  BY DEF ListIs
<1>. PICK m \in Nat : n = m + 1
  <2>1. n - 1 \in Nat /\ n = (n - 1) + 1
    OBVIOUS
  <2>. QED
    BY <2>1
<1>. PICK shorter : shorter = [a \in 1..m |-> IF a < k THEN list[a] ELSE list[a + 1]]
  OBVIOUS
<1>3. \A a \in 1..m : /\ a \in 1..n /\ a + 1 \in 1..n
                      /\ shorter[a] = IF a < k THEN list[a] ELSE list[a + 1]
  OBVIOUS
<1>4. shorter \in [1..m -> Ino]
  OBVIOUS
<1>5. \A a \in 1..n, b \in 1..n : list[a] = list[b] => a = b
  BY DEF ListIs
<1>6. \A a \in 1..n : list[a] = i <=> a = k
  BY <1>5
<1>7. table[i].next = IF k = n THEN 0 ELSE list[k + 1]
  BY DEF ListIs
<1>8. \A a \in 1..m, b \in 1..m : shorter[a] = shorter[b] => a = b
  <2>. TAKE a \in 1..m, b \in 1..m
  <2>. HAVE shorter[a] = shorter[b]
  <2>. PICK c \in 1..n, d \in 1..n : /\ c = (IF a < k THEN a ELSE a + 1)
                                     /\ d = (IF b < k THEN b ELSE b + 1)
    BY <1>3
  <2>1. list[c] = list[d]
    BY <1>3
  <2>2. c = d
    BY <1>5, <2>1
  <2>. QED
    BY <2>2
<1>9. \A j \in Ino : new[j].state = "unlinked" <=> \E a \in 1..m : shorter[a] = j
  <2>. TAKE j \in Ino
  <2>1. CASE j = i
    <3>1. \A a \in 1..m : shorter[a] # i
      BY <1>3, <1>6
    <3>. QED
      BY <1>1, <2>1, <3>1
  <2>2. CASE j # i
    <3>1. new[j].state = "unlinked" <=> \E a \in 1..n : list[a] = j
      BY <1>1, <2>2 DEF ListIs
    <3>2. ASSUME NEW a \in 1..n, list[a] = j
          PROVE  \E b \in 1..m : shorter[b] = j
      <4>1. a # k
        BY <2>2, <3>2
      <4>2. CASE a < k
        <5>1. a \in 1..m /\ shorter[a] = j
          BY <1>3, <3>2, <4>2
        <5>. QED
          BY <5>1
      <4>3. CASE a > k
        <5>1. a - 1 \in 1..m /\ ~(a - 1 < k) /\ (a - 1) + 1 = a
          BY <4>3
        <5>2. shorter[a - 1] = j
          BY <1>3, <3>2, <5>1
        <5>. QED
          BY <5>1, <5>2
      <4>. QED
        BY <4>1, <4>2, <4>3
    <3>3. ASSUME NEW b \in 1..m, shorter[b] = j
          PROVE  \E a \in 1..n : list[a] = j
      BY <1>3, <3>3
    <3>. QED
      BY <3>1, <3>2, <3>3
  <2>. QED
    BY <2>1, <2>2
<1>10. \A a \in 1..m : new[shorter[a]].next = IF a = m THEN 0 ELSE shorter[a + 1]
  <2>. TAKE a \in 1..m
  <2>. PICK c \in 1..n : c = IF a < k THEN a ELSE a + 1
    BY <1>3
  <2>1. shorter[a] = list[c] /\ list[c] \in Ino /\ c # k /\ list[c] # i
    BY <1>3, <1>6
  <2>2. table[list[c]].next = IF c = n THEN 0 ELSE list[c + 1]
    BY DEF ListIs
  <2>3. CASE c + 1 = k
    <3>1. table[list[c]].next = i /\ a = c /\ a < k
      BY <2>2, <2>3
    <3>2. new[shorter[a]].next = IF k = n THEN 0 ELSE list[k + 1]
      BY <1>1, <1>7, <2>1, <3>1
    <3>3. k = n <=> a = m
      BY <2>3, <3>1
    <3>4. a # m => a + 1 \in 1..m /\ ~(a + 1 < k) /\ (a + 1) + 1 = k + 1
      BY <2>3, <3>1
    <3>5. a # m => shorter[a + 1] = list[k + 1]
      BY <1>3, <3>4
    <3>. QED
      BY <3>2, <3>3, <3>5
  <2>4. CASE c + 1 # k
    <3>1. c # n => c + 1 \in 1..n
      OBVIOUS
    <3>2. table[list[c]].next # i
      BY <1>6, <2>2, <2>4, <3>1, Distinct
    <3>3. new[shorter[a]].next = IF c = n THEN 0 ELSE list[c + 1]
      BY <1>1, <2>1, <2>2, <3>2
    <3>4. c = n <=> a = m
      BY <2>1, <2>4
    <3>5. a # m => /\ a + 1 \in 1..m
                   /\ a + 1 < k => c + 1 = a + 1
                   /\ ~(a + 1 < k) => c + 1 = (a + 1) + 1
      BY <2>1, <2>4
    <3>6. a # m => shorter[a + 1] = list[c + 1]
      BY <1>3, <3>5
    <3>. QED
      BY <3>3, <3>4, <3>6
  <2>. QED
    BY <2>3, <2>4
<1>11. \A j \in Ino : new[j].state # "unlinked" => new[j].next = 0
  <2>1. \A j \in Ino : table[j].state # "unlinked" => table[j].next = 0
    BY DEF ListIs
  <2>. QED
    BY <1>1, <2>1, Distinct
<1>12. (IF head = i THEN table[i].next ELSE head) = IF m = 0 THEN 0 ELSE shorter[1]
  <2>1. 1 \in 1..n /\ head = list[1]
    BY DEF ListIs
  <2>2. head = i <=> k = 1
    BY <1>6, <2>1
  <2>3. m = 0 => k = 1 /\ k = n
    OBVIOUS
  <2>4. m # 0 => 1 \in 1..m /\ (k = 1 => k # n) /\ (k # 1 => 1 < k)
    OBVIOUS
  <2>5. m # 0 => shorter[1] = IF k = 1 THEN list[k + 1] ELSE list[1]
    BY <1>3, <2>4
  <2>. QED
    BY <1>7, <2>1, <2>2, <2>3, <2>4, <2>5
<1>13. ListIs(new, IF head = i THEN table[i].next ELSE head, m, shorter)
  BY <1>4, <1>8, <1>9, <1>10, <1>11, <1>12 DEF ListIs
<1>. QED
  BY <1>2, <1>4, <1>13, UsedIs, Zenon DEF Listed

\* The purge takes the first.
LEMMA HeadIsUnlinked ==
  ASSUME NEW table \in Table, NEW head \in Ino, Listed(table, head)
  PROVE  /\ table[head].state = "unlinked" /\ table[head].next # head
         /\ \A j \in Ino : table[j].next # head
<1>. PICK n \in Nat : \E list \in [1..n -> Ino] : ListIs(table, head, n, list)
  BY DEF Listed
<1>. PICK list \in [1..n -> Ino] : ListIs(table, head, n, list)
  OBVIOUS
<1>1. n # 0
  BY Distinct DEF ListIs
<1>2. 1 \in 1..n /\ head = list[1] /\ table[head].state = "unlinked"
  BY <1>1 DEF ListIs
<1>3. ASSUME NEW j \in Ino, table[j].next = head
      PROVE  FALSE
  <2>1. table[j].state = "unlinked"
    BY <1>3, Distinct DEF ListIs
  <2>. PICK a \in 1..n : list[a] = j
    BY <2>1 DEF ListIs
  <2>2. a # n /\ a + 1 \in 1..n /\ a + 1 # 1
    BY <1>3, Distinct DEF ListIs
  <2>3. list[a + 1] = list[1]
    BY <1>2, <1>3, <2>2 DEF ListIs
  <2>. QED
    BY <1>2, <2>2, <2>3 DEF ListIs
<1>. QED
  BY <1>2, <1>3

LEMMA PurgedInodeIs ==
  ASSUME NEW table \in Table, NEW head \in Ino, Listed(table, head), NEW new,
         new = [table EXCEPT ![head] = Nobody]
  PROVE  Used(new) = Used(table) - 1 /\ Listed(new, table[head].next)
<1>1. table[head].state = "unlinked" /\ \A j \in Ino : table[j].next # head
  BY HeadIsUnlinked
<1>2. new = [j \in Ino |->
        IF j = head THEN Nobody
        ELSE IF table[j].next = head THEN [table[j] EXCEPT !.next = table[head].next]
        ELSE table[j]]
  BY <1>1 DEF Table
<1>3. /\ Used(new) = Used(table) - 1
      /\ Listed(new, IF head = head THEN table[head].next ELSE head)
  BY <1>1, <1>2, ClosedIs, Zenon
<1>. QED
  BY <1>3

\* What is updated with the count and the list of a table is sound for it.
LEMMA SoundFrom ==
  ASSUME NEW wide, NEW new, NEW clean, NEW head, NEW n, NEW m, NEW after,
         Updated(wide, new, clean, head, n, m),
         n = Used(after), m = Used(after), Listed(after, head), Used(after) <= wide.blockCount
  PROVE  Sound(new, after)
BY Zenon DEF Sound, Updated, SameLayout

LEMMA SoundWithFlag ==
  ASSUME NEW sb, NEW table, Sound(sb, table), NEW new, NEW clean,
         Updated(sb, new, clean, sb.head, sb.allocBlocks, sb.allocInodes)
  PROVE  Sound(new, table)
<1>1. /\ sb.allocBlocks = Used(table) /\ sb.allocInodes = Used(table)
      /\ Used(table) <= sb.blockCount /\ Listed(table, sb.head)
  BY Zenon DEF Sound
<1>. QED
  BY <1>1, SoundFrom, Zenon

\* The superblock in memory stays sound with the inodes in memory.
LEMMA InfoStaysSound ==
  ASSUME JournalInv, SlicesInv, SoundInv, phase \in Mounted, NEW i \in Ino,
         PurgeUnlinked \/ Create(i) \/ CreateAndExtend(i) \/ Unlink(i) \/ Close(i)
  PROVE  Sound(info', inodes')
<1>. PICK sb : sb = info
  OBVIOUS
<1>. PICK new : new = info'
  OBVIOUS
<1>. PICK table : table = inodes
  OBVIOUS
<1>. PICK after : after = inodes'
  OBVIOUS
<1>1. /\ Sound(sb, table) /\ Laid(sb) /\ sb \in Superblock
      /\ sb.allocBlocks = Used(table) /\ sb.allocInodes = Used(table)
      /\ Used(table) <= sb.blockCount /\ Listed(table, sb.head)
      /\ Used(table) \in Nat /\ Used(after) \in Nat /\ sb.blockCount \in Int
  BY AllocatedFit, MountedSlices, LaidSlices, SMTT(30) DEF SoundInv, Sound, Superblock
<1>2. CASE PurgeUnlinked
  <2>1. /\ Updated(sb, new, sb.clean, table[sb.head].next, sb.allocBlocks - 1, sb.allocInodes - 1)
        /\ table \in Table /\ after = [table EXCEPT ![sb.head] = Nobody] /\ sb.head \in Ino
    BY <1>2, PurgeUnlinkedIs, Zenon DEF Updates
  <2>2. Used(after) = Used(table) - 1 /\ Listed(after, table[sb.head].next)
    BY <1>1, <2>1, PurgedInodeIs, Zenon
  <2>3. /\ sb.allocBlocks - 1 = Used(after) /\ sb.allocInodes - 1 = Used(after)
        /\ Used(after) <= sb.blockCount
    BY <1>1, <2>2
  <2>4. Sound(new, after)
    BY <2>1, <2>2, <2>3, SoundFrom, Zenon
  <2>. QED
    BY <2>4
<1>3. CASE Create(i)
  <2>1. /\ Updated(sb, new, sb.clean, sb.head, sb.allocBlocks + 1, sb.allocInodes + 1)
        /\ table \in Table /\ table[i] = Nobody /\ sb.allocBlocks < sb.blockCount
        /\ after = [table EXCEPT ![i] = [Nobody EXCEPT !.state = "linked"]]
    BY <1>3, CreateIs, Zenon DEF Updates, Created
  <2>2. Used(after) = Used(table) + 1 /\ Listed(after, sb.head)
    BY <1>1, <2>1, CreatedIs, Zenon
  <2>3. /\ sb.allocBlocks + 1 = Used(after) /\ sb.allocInodes + 1 = Used(after)
        /\ Used(after) <= sb.blockCount
    BY <1>1, <2>1, <2>2
  <2>4. Sound(new, after)
    BY <2>1, <2>2, <2>3, SoundFrom, Zenon
  <2>. QED
    BY <2>4
<1>4. CASE CreateAndExtend(i)
  <2>. PICK wide : wide = Extended(sb)
    OBVIOUS
  <2>1. /\ Updated(wide, new, sb.clean, sb.head, sb.allocBlocks + 1, sb.allocInodes + 1)
        /\ table \in Table /\ table[i] = Nobody
        /\ after = [table EXCEPT ![i] = [Nobody EXCEPT !.state = "linked"]] /\ MayExtend
    BY <1>4, CreateAndExtendIs, Zenon DEF Created
  <2>2. Used(after) = Used(table) + 1 /\ Listed(after, sb.head)
    BY <1>1, <2>1, CreatedIs, Zenon
  <2>3. Laid(wide) /\ OneLarger(sb, wide)
    <3>1. device \in Devices /\ sb.fvm
          /\ BitmapBlocksForSize((sb.datSlices + 1) * BlocksPerSlice(sb)) <= GetBlockBitmapBlocks(sb)
      BY <2>1, Zenon DEF MayExtend, JournalInv, Typed
    <3>. QED
      BY <1>1, <3>1, ExtendedIsLaid, Zenon
  <2>4. wide.blockCount \in Int /\ wide.blockCount > sb.blockCount
    BY <2>3, LaidSlices DEF OneLarger, Superblock
  <2>5. /\ sb.allocBlocks + 1 = Used(after) /\ sb.allocInodes + 1 = Used(after)
        /\ Used(after) <= wide.blockCount
    BY <1>1, <2>2, <2>4
  <2>6. Sound(new, after)
    BY <2>1, <2>2, <2>5, SoundFrom, Zenon
  <2>. QED
    BY <2>6
<1>5. CASE Unlink(i)
  <2>. PICK head : head = IF sb.head = 0 THEN i ELSE sb.head
    OBVIOUS
  <2>1. /\ Updated(sb, new, sb.clean, head, sb.allocBlocks, sb.allocInodes)
        /\ table \in Table /\ table[i].state = "linked"
        /\ after = WithLast(table, i)
    BY <1>5, UnlinkIs, Zenon DEF Updates, Last, LastIn, WithLast
  <2>2. Used(after) = Used(table) /\ Listed(after, head)
    BY <1>1, <2>1, UnlinkedIs
  <2>3. Sound(new, after)
    BY <1>1, <2>1, <2>2, SoundFrom, Zenon
  <2>. QED
    BY <2>3
<1>6. CASE Close(i)
  <2>. PICK head : head = IF sb.head = i THEN table[i].next ELSE sb.head
    OBVIOUS
  <2>1. /\ Updated(sb, new, sb.clean, head, sb.allocBlocks - 1, sb.allocInodes - 1)
        /\ table \in Table /\ table[i].state = "unlinked"
        /\ after = [j \in Ino |->
             IF j = i THEN Nobody
             ELSE IF table[j].next = i THEN [table[j] EXCEPT !.next = table[i].next]
             ELSE table[j]]
    BY <1>6, CloseIs, Zenon DEF Updates
  <2>2. /\ Used(after) = Used(table) - 1
        /\ Listed(after, IF sb.head = i THEN table[i].next ELSE sb.head)
    BY <1>1, <2>1, ClosedIs, ZenonT(30)
  <2>3. Listed(after, head)
    BY <2>2, Zenon
  <2>4. /\ sb.allocBlocks - 1 = Used(after) /\ sb.allocInodes - 1 = Used(after)
        /\ Used(after) <= sb.blockCount
    BY <1>1, <2>2
  <2>5. Sound(new, after)
    BY <1>1, <2>1, <2>2, <2>3, <2>4, SoundFrom, Zenon
  <2>. QED
    BY <2>5
<1>. QED
  BY <1>2, <1>3, <1>4, <1>5, <1>6

LEMMA CommitsKeepsSound ==
  ASSUME JournalInv, SoundInv, NEW b, Commits(b), Sound(info', inodes')
  PROVE  SoundInv'
<1>. PICK n \in Nat : n = Len(entries)
  BY EntryIs
<1>. PICK sb, table : sb = info' /\ table = inodes'
  OBVIOUS
<1>. DEFINE e == [primary |-> sb, backup |-> b, inodes |-> table]
<1>1. e \in Entry /\ e.primary = sb /\ e.inodes = table
  BY DEF Commits, Entry
<1>2. entries' = Append(entries, e)
  BY DEF Commits
<1>. HIDE DEF e
<1>3. /\ Len(entries') = n + 1 /\ entries' # <<>> /\ entries'[n + 1] = e
      /\ \A k \in 1..n : entries'[k] = entries[k]
  BY <1>1, <1>2, EntryIs, Appended
<1>4. \A k \in 1..n + 1 : k = n + 1 \/ k \in 1..n
  OBVIOUS
<1>5. \A k \in 1..n + 1 : Sound(entries'[k].primary, entries'[k].inodes)
  BY <1>1, <1>3, <1>4 DEF SoundInv
<1>6. Settled' => SoundDisk(disk')
  <2>1. Settled' => Settled
    BY <1>3 DEF Commits, Settled, JournalInv, Placed
  <2>. QED
    BY <2>1 DEF SoundInv, Commits
<1>. QED
  BY <1>3, <1>5, <1>6 DEF SoundInv

LEMMA ForgetsKeepsSound ==
  ASSUME JournalInv, SoundInv, Forgets, slices' = slices,
         \/ phase' \in Mounted /\ phase \in Mounted /\ info' = info /\ inodes' = inodes
         \/ phase' = "loaded" /\ info' = disk.primary
         \/ phase' = "down"
  PROVE  SoundInv'
<1>1. disk' = disk /\ entries' = <<>> /\ Len(entries') = 0 /\ phase # "down" /\ disk.primary # Torn
  BY Emptied DEF Forgets, Forget, Mounted, JournalInv, Placed
<1>2. SoundDisk(disk)
  <2>1. CASE entries = <<>>
    BY <2>1 DEF SoundInv, Settled
  <2>2. CASE entries # <<>>
    <3>. PICK n \in 1..Len(entries) : n = Len(entries)
      BY <2>2, EntryIs
    <3>1. slices' \in Int
      BY DEF JournalInv, Typed
    <3>2. disk.primary = entries[n].primary /\ disk.inodes = entries[n].inodes
      BY <2>2, <3>1, ForgetsKeepsJournal
    <3>3. Sound(entries[n].primary, entries[n].inodes)
      BY DEF SoundInv
    <3>. QED
      BY <1>1, <3>2, <3>3 DEF SoundDisk
  <2>. QED
    BY <2>1, <2>2
<1>3. phase' \in Mounted => Sound(info', inodes')
  BY DEF SoundInv, Mounted
<1>. QED
  BY <1>1, <1>2, <1>3 DEF SoundInv

LEMMA CrashKeepsSound ==
  ASSUME JournalInv, SoundInv, Crash
  PROVE  SoundInv'
<1>. PICK kept \in written..Len(entries), parts \in SUBSET Parts, d \in Disks :
       CrashesWith(kept, parts, d)
  BY CrashIs, Zenon
<1>1. phase' = "down" /\ phase \in Mounted \union {"replaying", "loaded"} /\ phase' \notin Mounted
  BY CrashIs DEF Crash, Mounted
<1>2. /\ kept \in 0..Len(entries) /\ kept \in Nat /\ written \in Nat /\ Len(entries) \in Nat
      /\ Len(entries') = kept /\ (entries' = <<>> <=> kept = 0)
      /\ \A k \in 1..kept : entries'[k] = entries[k]
      /\ kept = written => /\ disk'.inodes = disk.inodes /\ disk'.primary = disk.primary
                           /\ disk'.backup = disk.backup
      /\ kept # written => written + 1 \in 1..kept
  BY CrashLeaves
<1>3. \A k \in 1..kept : Sound(entries'[k].primary, entries'[k].inodes)
  BY <1>2 DEF SoundInv
<1>4. kept = 0 => SoundDisk(disk')
  <2>. SUFFICES ASSUME kept = 0
                PROVE  SoundDisk(disk')
    OBVIOUS
  <2>1. kept = written
    BY <1>2
  <2>2. Settled
    <3>1. phase = "replaying" => entries = <<>>
      BY EntryIs DEF CrashesWith
    <3>. QED
      BY <1>1, <2>1, <3>1 DEF Settled, JournalInv, Placed
  <2>3. SoundDisk(disk)
    BY <2>2 DEF SoundInv
  <2>. QED
    BY <1>2, <2>1, <2>3 DEF SoundDisk
<1>. QED
  BY <1>1, <1>2, <1>3, <1>4 DEF SoundInv, Settled

\* A primary that is on disk when the journal has nothing for it passes the check.
LEMMA SettledIsValid ==
  ASSUME JournalInv, SlicesInv, NEW sb, Laid(sb), sb.datSlices <= slices, NEW table, Sound(sb, table)
  PROVE  IsValid(sb)
<1>1. /\ sb.allocBlocks = Used(table) /\ sb.allocInodes = Used(table) /\ Used(table) <= sb.blockCount
      /\ Used(table) \in Nat /\ Used(table) <= DefaultInodeCount
      /\ sb.inodeCount >= DefaultInodeCount /\ sb.inodeCount \in Int
  BY AllocatedFit, LaidSlices DEF Sound, Laid, Superblock
<1>2. Counts(sb)
  BY <1>1, SMT DEF Counts, DefaultInodeCount
<1>. QED
  BY <1>2, LaidIsValid DEF JournalInv, Typed

LEMMA RepairKeepsSound ==
  ASSUME JournalInv, SlicesInv, SoundInv, RepairSuperblock
  PROVE  SoundInv'
<1>1. /\ disk.backup # Torn /\ ~IsValid(disk.primary)
      /\ disk'.primary = info' /\ disk'.inodes = disk.inodes
      /\ Updated(disk.backup, info', disk.backup.clean, disk.backup.head, Used(disk.inodes),
                 Used(disk.inodes))
  BY RepairIs, Distinct
<1>2. /\ phase = "down" /\ phase' = "replaying" /\ phase' \notin Mounted /\ phase \notin Mounted
      /\ entries' = entries /\ written' = written
  BY DEF RepairSuperblock, LoadsAs, Mounted
<1>3. ASSUME Settled
      PROVE  SoundDisk(disk')
  <2>1. SoundDisk(disk)
    BY <1>3 DEF SoundInv
  <2>2. disk.primary = Torn
    <3>. SUFFICES ASSUME disk.primary # Torn
                  PROVE  FALSE
      OBVIOUS
    <3>. PICK sb : sb = disk.primary
      OBVIOUS
    <3>1. Laid(sb) /\ sb.datSlices <= slices /\ Sound(sb, disk.inodes)
      BY <2>1 DEF SoundDisk, SlicesInv, AllLaid, WholeOnDisk
    <3>2. IsValid(sb)
      BY <3>1, SettledIsValid
    <3>. QED
      BY <1>1, <3>2
  <2>. PICK b, sb, table : b = disk.backup /\ sb = info' /\ table = disk.inodes
    OBVIOUS
  <2>3. Used(table) <= b.blockCount /\ Listed(table, b.head)
    BY <2>1, <2>2 DEF SoundDisk
  <2>4. Updated(b, sb, b.clean, b.head, Used(table), Used(table))
    BY <1>1, Zenon
  <2>5. Sound(sb, table) /\ sb # Torn
    BY <2>3, <2>4, SoundFrom, Distinct DEF Updated
  <2>. QED
    BY <1>1, <2>5 DEF SoundDisk
<1>4. Settled' <=> Settled
  BY <1>2 DEF Settled
<1>. QED
  BY <1>2, <1>3, <1>4 DEF SoundInv

LEMMA SameSum ==
  ASSUME NEW x \in Int, NEW y \in Int, NEW z \in Int, x + y = x + z
  PROVE  y = z
OBVIOUS

LEMMA CorruptKeepsSound ==
  ASSUME ~CorruptsStale, JournalInv, SlicesInv, SoundInv, Corrupt
  PROVE  SoundInv'
<1>1. /\ disk'.primary = Torn /\ disk'.backup = disk.backup /\ disk'.inodes = disk.inodes
      /\ disk.primary # Torn /\ disk.backup # Torn /\ ~BackupIsStale
      /\ phase = "down" /\ phase' = phase /\ entries' = entries /\ written' = written
      /\ phase' \notin Mounted
  BY CorruptIs DEF Corrupt, Mounted
<1>2. ASSUME Settled
      PROVE  SoundDisk(disk')
  <2>. PICK a, b : a = disk.primary /\ b = disk.backup
    OBVIOUS
  <2>1. entries = <<>>
    BY <1>1, <1>2 DEF Settled
  <2>2. b.head = a.head /\ b.datSlices = a.datSlices
    BY <1>1, <2>1 DEF BackupIsStale
  <2>3. Laid(a) /\ Laid(b)
    BY <1>1 DEF SlicesInv, AllLaid, WholeOnDisk
  <2>4. a.blockCount = b.blockCount
    <3>1. CASE device.fvm
      <4>1. /\ a.fvm /\ b.fvm /\ a.sliceSize = b.sliceSize
            /\ a.blockCount = a.datSlices * BlocksPerSlice(a)
            /\ b.blockCount = b.datSlices * BlocksPerSlice(b)
        BY <2>3, <3>1, Zenon DEF Laid
      <4>2. BlocksPerSlice(a) = BlocksPerSlice(b)
        BY <4>1, Zenon DEF BlocksPerSlice
      <4>. QED
        BY <2>2, <4>1, <4>2
    <3>2. CASE ~device.fvm
      <4>1. /\ a.dat + a.blockCount = device.blocks /\ b.dat + b.blockCount = device.blocks
            /\ a.dat = b.dat
        BY <2>3, <3>2, Zenon DEF Laid
      <4>. PICK x \in Int, y \in Int, z \in Int : x = a.dat /\ y = a.blockCount /\ z = b.blockCount
        BY <2>3, LaidSlices DEF Superblock
      <4>2. x + y = x + z
        BY <4>1
      <4>3. y = z
        BY <4>2, SameSum, Zenon
      <4>. QED
        BY <4>3
    <3>. QED
      BY <3>1, <3>2
  <2>5. Sound(a, disk.inodes)
    BY <1>1, <1>2 DEF SoundInv, SoundDisk
  <2>. QED
    BY <1>1, <2>2, <2>4, <2>5 DEF Sound, SoundDisk
<1>3. Settled' <=> Settled
  BY <1>1 DEF Settled
<1>. QED
  BY <1>1, <1>2, <1>3 DEF SoundInv

LEMMA ExtendKeepsSound ==
  ASSUME JournalInv, SlicesInv, SoundInv, ExtendAndFail
  PROVE  SoundInv'
<1>1. /\ info' = Extended(info) /\ MayExtend /\ disk' = disk /\ entries' = entries
      /\ written' = written /\ inodes' = inodes /\ phase = "serving" /\ phase' = "serving"
      /\ device \in Devices
  BY ExtendAndFailIs DEF JournalInv, Typed
<1>. PICK sb, new : sb = info /\ new = Extended(sb)
  OBVIOUS
<1>2. Laid(sb) /\ Sound(sb, inodes)
  BY <1>1 DEF SlicesInv, AllLaid, SoundInv, Mounted
<1>3. Laid(new) /\ OneLarger(sb, new)
  BY <1>1, <1>2, ExtendedIsLaid DEF MayExtend
<1>4. /\ Used(inodes) \in Nat /\ sb.blockCount \in Int /\ new.blockCount \in Int
  BY <1>2, <1>3, AllocatedFit, LaidSlices DEF Superblock
<1>5. Sound(new, inodes)
  BY <1>2, <1>3, <1>4 DEF Sound, OneLarger
<1>6. Settled' <=> Settled
  BY <1>1 DEF Settled
<1>. QED
  BY <1>1, <1>5, <1>6 DEF SoundInv

LEMMA SoundInit ==
  ASSUME SlicesAreSmall, Init
  PROVE  SoundInv
<1>. PICK sb : sb = disk.primary
  OBVIOUS
<1>1. /\ sb = Mkfs(device) /\ disk.inodes = NoInodes /\ device \in Devices /\ sb # Refused
      /\ sb # Torn
  BY JournalInit, Distinct DEF Init, Torn
<1>2. Laid(sb) /\ Fresh(sb)
  BY <1>1, MkfsIsLaid, Zenon
<1>3. Used(NoInodes) = 2
  <2>1. Allocated(NoInodes) = {}
    BY FreeInode DEF Allocated, NoInodes
  <2>. QED
    BY <2>1, FS_EmptySet DEF Used
<1>4. Listed(NoInodes, 0)
  <2>. PICK list : list \in [1..0 -> Ino]
    <3>1. [a \in 1..0 |-> 0] \in [1..0 -> Ino]
      OBVIOUS
    <3>. QED
      BY <3>1
  <2>1. 1..0 = {}
    OBVIOUS
  <2>2. \A i \in Ino : NoInodes[i].state = "free" /\ NoInodes[i].next = 0
    BY FreeInode DEF NoInodes
  <2>3. ListIs(NoInodes, 0, 0, list)
    BY <2>1, <2>2 DEF ListIs
  <2>. QED
    BY <2>3 DEF Listed
<1>5. sb.blockCount \in Int /\ sb.blockCount > 1
  BY <1>2, LaidSlices DEF Laid, Superblock
<1>6. Sound(sb, NoInodes)
  BY <1>2, <1>3, <1>4, <1>5 DEF Sound, Fresh
<1>7. SoundDisk(disk)
  BY <1>1, <1>6 DEF SoundDisk
<1>8. Len(entries) = 0 /\ phase \notin Mounted
  BY Emptied DEF Init, Mounted
<1>. QED
  BY <1>7, <1>8 DEF SoundInv

LEMMA SoundNext ==
  ASSUME ~CorruptsStale, JournalInv, SlicesInv, SoundInv, [Next]_vars
  PROVE  SoundInv'
<1>1. CASE LoadSuperblock
  <2>1. /\ disk' = disk /\ entries' = entries /\ written' = written /\ phase \notin Mounted
        /\ phase' \notin Mounted
    BY <1>1 DEF LoadSuperblock, LoadsAs, Mounted
  <2>. QED
    BY <2>1 DEF SoundInv, Settled
<1>2. CASE RepairSuperblock
  BY <1>2, RepairKeepsSound
<1>3. CASE ReloadSuperblock \/ Started \/ Sync \/ Stopped
  <2>1. Forgets /\ slices' = slices
    BY <1>3, ForgetsIs
  <2>2. \/ phase' \in Mounted /\ phase \in Mounted /\ info' = info /\ inodes' = inodes
        \/ phase' = "loaded" /\ info' = disk.primary
        \/ phase' = "down"
    BY <1>3, ForgetsIs DEF Mounted
  <2>. QED
    BY <2>1, <2>2, ForgetsKeepsSound
<1>4. CASE Start
  <2>. PICK sb, new, table : sb = info /\ new = info' /\ table = disk.inodes
    OBVIOUS
  <2>1. /\ Commits(info') /\ Updated(sb, new, FALSE, sb.head, sb.allocBlocks, sb.allocInodes)
        /\ inodes' = table /\ sb = disk.primary /\ entries = <<>> /\ sb # Torn
    BY <1>4, StartIs, Distinct, Zenon DEF Updates
  <2>2. Sound(sb, table)
    BY <2>1 DEF SoundInv, Settled, SoundDisk
  <2>3. Sound(new, table)
    BY <2>1, <2>2, SoundWithFlag, Zenon
  <2>4. Sound(info', inodes')
    BY <2>1, <2>3
  <2>. QED
    BY <2>1, <2>4, CommitsKeepsSound
<1>5. CASE StopWriteback
  <2>. PICK sb, new, table : sb = info /\ new = info' /\ table = inodes
    OBVIOUS
  <2>1. /\ Commits(info') /\ Updated(sb, new, TRUE, sb.head, sb.allocBlocks, sb.allocInodes)
        /\ inodes' = table /\ phase = "serving"
    BY <1>5, StopWritebackIs, Zenon DEF Updates
  <2>2. Sound(sb, table)
    BY <2>1 DEF SoundInv, Mounted
  <2>3. Sound(new, table)
    BY <2>1, <2>2, SoundWithFlag, Zenon
  <2>4. Sound(info', inodes')
    BY <2>1, <2>3
  <2>. QED
    BY <2>1, <2>4, CommitsKeepsSound
<1>6. CASE PurgeUnlinked
  <2>1. Commits(Unwritten) /\ phase \in Mounted /\ info.head \in Ino
    BY <1>6, PurgeUnlinkedIs DEF Mounted
  <2>2. Sound(info', inodes')
    BY <1>6, <2>1, InfoStaysSound
  <2>. QED
    BY <2>1, <2>2, CommitsKeepsSound
<1>7. CASE Purged
  <2>1. /\ disk' = disk /\ entries' = entries /\ written' = written /\ info' = info
        /\ inodes' = inodes /\ phase \in Mounted /\ phase' \in Mounted
    BY <1>7 DEF Purged, Mounted
  <2>. QED
    BY <2>1 DEF SoundInv, Settled
<1>8. ASSUME NEW i \in Ino, Create(i) \/ CreateAndExtend(i) \/ Unlink(i) \/ Close(i)
      PROVE  SoundInv'
  <2>1. phase \in Mounted /\ \E b : Commits(b)
    BY <1>8, CreateIs, CreateAndExtendIs, UnlinkIs, CloseIs DEF Mounted
  <2>2. Sound(info', inodes')
    BY <1>8, <2>1, InfoStaysSound
  <2>. QED
    BY <2>1, <2>2, CommitsKeepsSound
<1>9. CASE ExtendAndFail
  BY <1>9, ExtendKeepsSound
<1>10. CASE WriteEntry
  <2>1. /\ entries' = entries /\ info' = info /\ inodes' = inodes /\ phase' = phase
        /\ written' = written + 1 /\ written + 1 \in 1..Len(entries)
    BY <1>10, WriteEntryIs DEF WriteEntry
  <2>2. ~Settled'
    BY <2>1, EntryIs DEF Settled
  <2>. QED
    BY <2>1, <2>2 DEF SoundInv
<1>11. CASE Crash
  BY <1>11, CrashKeepsSound
<1>12. CASE Corrupt
  BY <1>12, CorruptKeepsSound
<1>13. CASE UNCHANGED vars
  BY <1>13 DEF vars, SoundInv, Settled
<1>. QED
  BY <1>1, <1>2, <1>3, <1>4, <1>5, <1>6, <1>7, <1>8, <1>9, <1>10, <1>11, <1>12, <1>13, Zenon
  DEF Next

LEMMA SoundHolds ==
  ASSUME SlicesAreSmall, ~CorruptsStale
  PROVE  Spec => [](JournalInv /\ SlicesInv /\ SoundInv)
<1>1. Init => JournalInv /\ SlicesInv /\ SoundInv
  BY JournalInit, SlicesInit, SoundInit
<1>2. JournalInv /\ SlicesInv /\ SoundInv /\ [Next]_vars => JournalInv' /\ SlicesInv' /\ SoundInv'
  BY JournalNext, SlicesNext, SoundNext
<1>. QED
  BY <1>1, <1>2, PTL DEF Spec

\* While a volume is mounted, its superblock counts the blocks and inodes that are allocated,
\* has room for them, and knows every slice that the volume manager gave it
\* (ReconstructAllocCounts, CheckSlices, PersistentStorage::Extend), as long as no primary is
\* lost whose backup knows less.
THEOREM SuperblockIsExact ==
  ASSUME SlicesAreSmall, ~CorruptsStale
  PROVE  Spec => []SuperblockMatches
<1>1. JournalInv /\ SlicesInv /\ SoundInv => SuperblockMatches
  <2>. SUFFICES ASSUME JournalInv, SlicesInv, SoundInv, phase \in Mounted
                PROVE  /\ info.allocBlocks = Used(inodes) /\ info.allocInodes = Used(inodes)
                       /\ info.allocBlocks <= info.blockCount
                       /\ info.fvm => slices = info.datSlices
    BY Zenon DEF SuperblockMatches, Used
  <2>1. Sound(info, inodes)
    BY DEF SoundInv
  <2>. QED
    BY <2>1, MountedSlices, Zenon DEF Sound
<1>. QED
  BY <1>1, SoundHolds, PTL

\* The purge of a mount frees what is in the list of unlinked inodes, and only an unlinked
\* inode is (the assertions of PurgeUnlinked, minfs.cc:846), whatever the crash before left.
THEOREM OnlyUnlinkedArePurged ==
  ASSUME SlicesAreSmall, ~CorruptsStale
  PROVE  Spec => []PurgesUnlinkedOnly
<1>1. JournalInv /\ SlicesInv /\ SoundInv => PurgesUnlinkedOnly
  <2>. SUFFICES ASSUME JournalInv, SlicesInv, SoundInv, phase = "purging", info.head # 0
                PROVE  inodes[info.head].state # "linked"
    BY Zenon DEF PurgesUnlinkedOnly
  <2>. PICK table, head : table = inodes /\ head = info.head
    OBVIOUS
  <2>1. phase \in Mounted /\ phase # "down"
    BY DEF Mounted
  <2>2. table \in Table /\ head \in Ino /\ Listed(table, head)
    BY <2>1 DEF SoundInv, Sound, JournalInv, Placed, Superblock
  <2>3. table[head].state = "unlinked"
    BY <2>2, HeadIsUnlinked, Zenon
  <2>. QED
    BY <2>3
<1>. QED
  BY <1>1, SoundHolds, PTL

(***************************************************************************)
(* The damage.                                                             *)
(***************************************************************************)

LEMMA SoundCounts ==
  ASSUME NEW sb, NEW table, Laid(sb), Sound(sb, table)
  PROVE  Counts(sb)
<1>1. /\ sb.allocBlocks = Used(table) /\ sb.allocInodes = Used(table) /\ Used(table) <= sb.blockCount
      /\ Used(table) \in Nat /\ Used(table) <= DefaultInodeCount
      /\ sb.inodeCount >= DefaultInodeCount /\ sb.inodeCount \in Int
  BY AllocatedFit, LaidSlices DEF Sound, Laid, Superblock
<1>. QED
  BY <1>1, SMT DEF Counts, DefaultInodeCount

\* Whatever the journal holds passes the check.
LEMMA EntriesCount ==
  ASSUME SlicesInv, SoundInv, NEW k \in 1..Len(entries)
  PROVE  Counts(entries[k].primary)
<1>. PICK sb, table : sb = entries[k].primary /\ table = entries[k].inodes
  OBVIOUS
<1>1. Laid(sb) /\ Sound(sb, table)
  BY DEF SlicesInv, AllLaid, SoundInv
<1>2. Counts(sb)
  BY <1>1, SoundCounts, Zenon
<1>. QED
  BY <1>2

\* What is on disk once there is nothing to replay.
LEMMA SyncedCounts ==
  ASSUME JournalInv, SlicesInv, SoundInv, phase # "down", Synced
  PROVE  Counts(disk.primary) /\ disk.primary # Torn
<1>1. disk.primary # Torn
  BY DEF JournalInv, Placed
<1>2. CASE entries = <<>>
  <2>. PICK sb, table : sb = disk.primary /\ table = disk.inodes
    OBVIOUS
  <2>1. Laid(sb) /\ Sound(sb, table)
    BY <1>1, <1>2 DEF SoundInv, Settled, SoundDisk, SlicesInv, AllLaid, WholeOnDisk
  <2>2. Counts(sb)
    BY <2>1, SoundCounts, Zenon
  <2>. QED
    BY <1>1, <2>2
<1>3. CASE entries # <<>>
  <2>. PICK n \in 1..Len(entries) : n = Len(entries) /\ n > 0
    BY <1>3, EntryIs
  <2>1. disk.primary = entries[n].primary
    BY DEF Synced, JournalInv, Placed
  <2>. QED
    BY <1>1, <2>1, EntriesCount
<1>. QED
  BY <1>2, <1>3

LEMMA WholeIsValid ==
  ASSUME JournalInv, SlicesInv, NEW sb \in WholeOnDisk
  PROVE  IsValid(sb) <=> Counts(sb)
<1>1. Laid(sb) /\ sb.datSlices <= slices /\ slices \in Int
  BY DEF SlicesInv, AllLaid, JournalInv, Typed
<1>. QED
  BY <1>1, LaidIsValid, Zenon

LEMMA CrashKeepsDamage ==
  ASSUME ~CrashesInRepair, JournalInv, SlicesInv, SoundInv, DamageInv, Crash
  PROVE  DamageInv'
<1>. PICK kept \in written..Len(entries), parts \in SUBSET Parts, d \in Disks :
       CrashesWith(kept, parts, d)
  BY CrashIs, Zenon
<1>1. /\ phase # "down" /\ phase' = "down" /\ IsValid(disk.primary) /\ damage \in Nat
      /\ disk \in Disks
  BY CrashIs, EntryIs DEF JournalInv, Typed
<1>2. disk.primary \in WholeOnDisk /\ disk.primary # Torn
  BY <1>1 DEF JournalInv, Placed, WholeOnDisk
<1>3. Counts(disk.primary)
  BY <1>1, <1>2, WholeIsValid
<1>4. /\ d.primary # Torn /\ Counts(d.primary)
      /\ damage = 1 => d.backup # Torn /\ Counts(d.backup)
  <2>1. CASE kept = written
    BY <1>2, <1>3, <2>1 DEF CrashesWith, DamageInv
  <2>2. CASE kept # written
    <3>. PICK k \in 1..Len(entries) : k = written + 1
      BY <2>2, CrashLeaves
    <3>. PICK e \in Entry : e = entries[k] /\ e.backup \in {Unwritten, e.primary}
      BY EntryIs
    <3>1. Counts(e.primary)
      BY EntriesCount
    <3>2. d = Write(disk, e, parts)
      BY <2>2, Zenon DEF CrashesWith
    <3>3. /\ d.primary = disk.primary \/ d.primary = e.primary
          /\ d.backup = disk.backup \/ (d.backup = e.backup /\ e.backup # Unwritten)
          /\ d.primary # Torn
          /\ disk.backup # Torn => d.backup # Torn
      BY <1>1, <1>2, <3>2, WriteIs DEF Disks
    <3>. QED
      BY <1>3, <3>1, <3>3 DEF DamageInv
  <2>. QED
    BY <2>1, <2>2
<1>5. \/ disk' = d /\ damage' = damage
      \/ /\ damage > 0 /\ damage' = damage - 1
         /\ \/ disk'.primary = Torn /\ disk'.backup = d.backup
            \/ disk'.primary = d.primary /\ disk'.backup = Torn
  BY DEF CrashesWith
<1>6. damage <= 1 /\ (damage > 0 => damage = 1)
  BY <1>1 DEF DamageInv
<1>. QED
  BY <1>1, <1>4, <1>5, <1>6 DEF DamageInv

LEMMA DamageNext ==
  ASSUME ~CrashesInRepair, JournalInv, SlicesInv, SoundInv, DamageInv, [Next]_vars
  PROVE  DamageInv'
<1>0. damage \in Nat
  BY DEF JournalInv, Typed
<1>1. /\ disk' = disk /\ damage' = damage
      /\ phase' # "down" \/ phase = "down" \/ (Counts(disk.primary) /\ disk.primary # Torn)
      => DamageInv'
  BY DEF DamageInv
<1>2. CASE LoadSuperblock \/ Purged \/ UNCHANGED vars
  <2>1. /\ disk' = disk /\ damage' = damage /\ (phase' # "down" \/ phase = "down")
    BY <1>2 DEF LoadSuperblock, LoadsAs, Purged, vars
  <2>. QED
    BY <1>1, <2>1, Zenon
<1>3. CASE RepairSuperblock
  <2>1. /\ ~IsValid(disk.primary) /\ disk'.primary = info' /\ disk'.backup = info'
        /\ info' \in Superblock /\ phase = "down" /\ phase' = "replaying" /\ damage' = damage
    BY <1>3, RepairIs, Zenon DEF RepairSuperblock, LoadsAs, Updated
  <2>2. disk.primary = Torn
    <3>. SUFFICES ASSUME disk.primary # Torn
                  PROVE  FALSE
      OBVIOUS
    <3>1. disk.primary \in WholeOnDisk /\ Counts(disk.primary)
      BY <2>1 DEF DamageInv, WholeOnDisk
    <3>. QED
      BY <2>1, <3>1, WholeIsValid
  <2>. QED
    BY <2>1, <2>2 DEF DamageInv
<1>4. CASE ReloadSuperblock \/ Started \/ Sync \/ Stopped
  <2>1. Forgets /\ phase # "down"
    BY <1>4, ForgetsIs DEF Forgets, Mounted
  <2>2. Counts(disk.primary) /\ disk.primary # Torn
    BY <2>1, SyncedCounts DEF Forgets
  <2>. QED
    BY <1>1, <2>1, <2>2 DEF Forgets
<1>5. ASSUME NEW b, Commits(b)
      PROVE  DamageInv'
  <2>1. disk' = disk /\ damage' = damage /\ phase' # "down"
    BY <1>5 DEF Commits, Mounted
  <2>. QED
    BY <1>1, <2>1, Zenon
<1>6. CASE Start \/ StopWriteback \/ PurgeUnlinked
  BY <1>5, <1>6, StartIs, StopWritebackIs, PurgeUnlinkedIs
<1>7. ASSUME NEW i \in Ino, Create(i) \/ CreateAndExtend(i) \/ Unlink(i) \/ Close(i)
      PROVE  DamageInv'
  BY <1>5, <1>7, CreateIs, CreateAndExtendIs, UnlinkIs, CloseIs
<1>8. CASE ExtendAndFail
  <2>1. disk' = disk /\ damage' = damage /\ phase' # "down"
    BY <1>8, ExtendAndFailIs
  <2>. QED
    BY <1>1, <2>1, Zenon
<1>9. CASE WriteEntry
  <2>. PICK k \in 1..Len(entries) : k = written + 1
    BY <1>9, WriteEntryIs
  <2>. PICK e \in Entry : e = entries[k] /\ e.backup \in {Unwritten, e.primary}
    BY EntryIs
  <2>1. /\ disk'.primary = e.primary
        /\ disk'.backup = IF e.backup # Unwritten THEN e.backup ELSE disk.backup
        /\ phase' = phase /\ phase # "down" /\ damage' = damage
    BY <1>9, WriteEntryIs DEF WriteEntry, Mounted
  <2>2. Counts(e.primary) /\ e.primary \in Superblock
    BY EntriesCount DEF Entry
  <2>. QED
    BY <2>1, <2>2, Distinct DEF DamageInv
<1>10. CASE Crash
  BY <1>10, CrashKeepsDamage
<1>11. CASE Corrupt
  <2>1. /\ disk'.primary = Torn /\ disk'.backup = disk.backup /\ disk.backup # Torn
        /\ damage > 0 /\ damage' = damage - 1
    BY <1>11, CorruptIs DEF Corrupt
  <2>2. damage = 1 /\ damage' = 0
    BY <1>0, <2>1 DEF DamageInv
  <2>. QED
    BY <2>1, <2>2 DEF DamageInv
<1>. QED
  BY <1>2, <1>3, <1>4, <1>6, <1>7, <1>8, <1>9, <1>10, <1>11, Zenon DEF Next

\* The volume can always be mounted, whenever it crashed, with one superblock torn or bad:
\* one of the two passes CheckSuperblock when a mount begins, and the primary does when the
\* journal is replayed (LoadSuperblockWithRepair, ReplayJournalReloadSuperblock), as long as
\* no primary is lost whose backup knows less and no crash meets a repair.
THEOREM MountIsNeverRefused ==
  ASSUME SlicesAreSmall, ~CorruptsStale, ~CrashesInRepair, MaxDamage <= 1
  PROVE  Spec => []NeverRefused
<1>1. Init => DamageInv
  <2>. SUFFICES ASSUME Init
                PROVE  DamageInv
    OBVIOUS
  <2>. PICK sb, table : sb = disk.primary /\ table = disk.inodes
    OBVIOUS
  <2>1. /\ sb # Torn /\ disk.backup = sb /\ damage <= 1 /\ entries = <<>>
    BY JournalInit, Distinct DEF Init
  <2>2. Laid(sb) /\ Sound(sb, table)
    BY <2>1, SlicesInit, SoundInit DEF SlicesInv, AllLaid, WholeOnDisk, SoundInv, SoundDisk, Settled
  <2>3. Counts(sb)
    BY <2>2, SoundCounts, Zenon
  <2>. QED
    BY <2>1, <2>3 DEF DamageInv
<1>2. JournalInv /\ SlicesInv /\ SoundInv /\ DamageInv /\ [Next]_vars => DamageInv'
  BY DamageNext
<1>3. JournalInv /\ SlicesInv /\ SoundInv /\ DamageInv => NeverRefused
  <2>. SUFFICES ASSUME JournalInv, SlicesInv, SoundInv, DamageInv
                PROVE  NeverRefused
    OBVIOUS
  <2>1. ASSUME phase = "down"
        PROVE  IsValid(disk.primary) \/ IsValid(disk.backup)
    <3>1. CASE disk.primary # Torn
      <4>1. disk.primary \in WholeOnDisk /\ Counts(disk.primary)
        BY <2>1, <3>1 DEF DamageInv, WholeOnDisk
      <4>. QED
        BY <4>1, WholeIsValid
    <3>2. CASE disk.primary = Torn
      <4>1. disk.backup \in WholeOnDisk /\ Counts(disk.backup)
        BY <2>1, <3>2 DEF DamageInv, WholeOnDisk
      <4>. QED
        BY <4>1, WholeIsValid
    <3>. QED
      BY <3>1, <3>2
  <2>2. ASSUME phase = "replaying", Synced
        PROVE  IsValid(disk.primary)
    <3>1. disk.primary \in WholeOnDisk /\ Counts(disk.primary)
      BY <2>2, SyncedCounts DEF WholeOnDisk
    <3>. QED
      BY <3>1, WholeIsValid
  <2>. QED
    BY <2>1, <2>2 DEF NeverRefused
<1>. QED
  BY <1>1, <1>2, <1>3, SoundHolds, PTL DEF Spec

================================================================================
