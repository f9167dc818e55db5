--------------------------------- MODULE Volume --------------------------------
(***************************************************************************)
(* A volume between Mkfs and the grave: mounted, used, unmounted, and        *)
(* recovered after a crash.  The superblock is kept twice.  Every            *)
(* transaction writes the primary; only a change of the flags or of the      *)
(* number of slices writes the backup too, so what else the backup says may  *)
(* be old.  Both are ordinary blocks of a journal entry, which are written   *)
(* to their places in any order, and the one being written in a crash is     *)
(* neither old nor new.  Slices are the exception: the volume manager adds   *)
(* and takes them at once, whatever becomes of the transaction.              *)
(*                                                                         *)
(* A file here has one block.  The journal is not in this repository: it     *)
(* writes entries in the order of their commit, keeps them until a sync, or  *)
(* for longer, and loses a suffix of them in a crash.                        *)
(***************************************************************************)
EXTENDS Layout, Sequences, FiniteSets

CONSTANTS
  Ino,           \* inodes that files may have
  Devices,       \* what Mkfs is given
  MaxEntries,    \* bound: transactions in the journal
  MaxDamage,     \* bound: superblocks that are torn or go bad, in all
  CorruptsStale, \* whether the primary may go bad when the backup is out of date
  CrashesInRepair \* whether a crash may interrupt a repair that is not consistent yet

ASSUME VolumeAssumption ==
  /\ Ino \subseteq 2..(DefaultInodeCount - 1)  \* 1 is the root's
  /\ Devices \subseteq [fvm : BOOLEAN, blocks : Nat, sliceSize : Nat, slices : Nat, datSlices : Nat]
  /\ \A d \in Devices : d.fvm => d.sliceSize > BlockSize
  /\ MaxEntries \in Nat /\ MaxDamage \in Nat
  /\ CorruptsStale \in BOOLEAN /\ CrashesInRepair \in BOOLEAN

VARIABLES
  device,   \* the device
  slices,   \* data slices the volume manager has given it
  disk,     \* superblocks and inodes in their places
  entries,  \* what the journal would replay, oldest first
  written,  \* entries of those written to their places
  phase,    \* how far the mount has come
  info,     \* the superblock in memory
  inodes,   \* the inodes and their bitmap in memory
  damage    \* superblocks that may still go bad

vars == <<device, slices, disk, entries, written, phase, info, inodes, damage>>

Torn == Refused
Nobody == [state |-> "free", next |-> 0]
NoInodes == [i \in Ino |-> Nobody]
Unwritten == [fvm |-> FALSE, blockCount |-> -1]
Mounted == {"starting", "purging", "serving", "stopping"}

Allocated(table) == {i \in Ino : table[i].state # "free"}
IsValid(sb) == sb # Torn /\ CheckSuperblock(sb, device, slices)

Init ==
  /\ device \in Devices
  /\ slices = device.datSlices
  /\ disk \in {[primary |-> sb, backup |-> sb, inodes |-> NoInodes] : sb \in {Mkfs(device)} \ {Refused}}
  /\ entries = <<>> /\ written = 0
  /\ phase = "down"
  /\ info = Refused /\ inodes = NoInodes
  /\ damage = MaxDamage

(***************************************************************************)
(* The journal.                                                            *)
(***************************************************************************)
\* SuperblockManager::Write, with the inodes of the same transaction.
Commit(sb, table, backup) ==
  entries' = Append(entries, [primary |-> sb, backup |-> backup, inodes |-> table])

\* The blocks in parts of an entry go to their places.
Write(d, e, parts) ==
  [primary |-> IF "primary" \in parts THEN e.primary ELSE d.primary,
   backup |-> IF "backup" \in parts /\ e.backup # Unwritten THEN e.backup ELSE d.backup,
   inodes |-> IF "inodes" \in parts THEN e.inodes ELSE d.inodes]

Parts == {"primary", "backup", "inodes"}

\* What is on disk once every entry is written: each has all there is to say, but the
\* backup.
Recovered ==
  IF entries = <<>> THEN disk ELSE Write(disk, entries[Len(entries)], {"primary", "inodes"})

WriteEntry ==
  /\ phase \in Mounted \union {"replaying"}
  /\ written < Len(entries)
  /\ disk' = Write(disk, entries[written + 1], Parts)
  /\ written' = written + 1
  /\ UNCHANGED <<device, slices, entries, phase, info, inodes, damage>>

\* BlockingJournalSync.
Synced == written = Len(entries)
Forget == entries' = <<>> /\ written' = 0

(***************************************************************************)
(* Mount.                                                                  *)
(***************************************************************************)
\* CheckSlices, twice: as a part of CheckSuperblock it only looks; once the journal is
\* replayed it gives back what the superblock knows nothing of.
SlicesGivenBack(sb) == IF sb.fvm THEN sb.datSlices ELSE slices
SlicesLookedAt(sb) == slices
CheckSlices(sb) == IF sb.fvm THEN sb.datSlices ELSE slices

LoadsAs(sb) ==
  /\ info' = sb /\ slices' = SlicesLookedAt(sb)
  /\ phase' = "replaying"

\* If neither superblock is valid the mount is refused, and nothing changes.
LoadSuperblock ==
  /\ phase = "down" /\ IsValid(disk.primary)
  /\ LoadsAs(disk.primary)
  /\ UNCHANGED <<device, disk, entries, written, inodes, damage>>

\* The backup takes the primary's place, with its counts made anew.
AsTheyAre(sb) == sb
ReconstructAllocCounts(sb) ==
  [sb EXCEPT !.allocBlocks = 2 + Cardinality(Allocated(disk.inodes)),
             !.allocInodes = 2 + Cardinality(Allocated(disk.inodes))]

RepairSuperblock ==
  /\ phase = "down" /\ ~IsValid(disk.primary) /\ IsValid(disk.backup)
  /\ LoadsAs(ReconstructAllocCounts(disk.backup))
  /\ disk' = [disk EXCEPT !.primary = info', !.backup = info']
  /\ UNCHANGED <<device, entries, written, inodes, damage>>

\* The end of ReplayJournalReloadSuperblock; WriteEntry is its middle.
ReloadSuperblock ==
  /\ phase = "replaying" /\ Synced /\ IsValid(disk.primary)
  /\ Forget
  /\ info' = disk.primary
  /\ phase' = "loaded"
  /\ UNCHANGED <<device, slices, disk, inodes, damage>>

\* The flags go to both superblocks.
PrimaryOnly(sb) == Unwritten
UpdateFlags(sb) == sb

Start ==
  /\ phase = "loaded"
  /\ inodes' = disk.inodes
  /\ slices' = CheckSlices(info)
  /\ info' = [info EXCEPT !.clean = FALSE]
  /\ Commit(info', inodes', UpdateFlags(info'))
  /\ phase' = "starting"
  /\ UNCHANGED <<device, disk, written, damage>>

\* UpdateCleanBitAndOldestRevision waits for the journal.
Started ==
  /\ phase = "starting" /\ Synced
  /\ Forget
  /\ phase' = "purging"
  /\ UNCHANGED <<device, slices, disk, info, inodes, damage>>

\* InoFree, of the inode and of its block.
Freed(sb) == [sb EXCEPT !.allocBlocks = @ - 1, !.allocInodes = @ - 1]

PurgeUnlinked ==
  /\ phase = "purging" /\ info.head # 0 /\ Len(entries) < MaxEntries
  /\ info' = [Freed(info) EXCEPT !.head = inodes[info.head].next]
  /\ inodes' = [inodes EXCEPT ![info.head] = Nobody]
  /\ Commit(info', inodes', Unwritten)
  /\ UNCHANGED <<device, slices, disk, written, phase, damage>>

Purged ==
  /\ phase = "purging" /\ info.head = 0
  /\ phase' = "serving"
  /\ UNCHANGED <<device, slices, disk, entries, written, info, inodes, damage>>

(***************************************************************************)
(* Operations.                                                             *)
(***************************************************************************)
Begins == phase = "serving" /\ Len(entries) < MaxEntries

Created(i) == [inodes EXCEPT ![i] = [Nobody EXCEPT !.state = "linked"]]
WithOneMore(sb) == [sb EXCEPT !.allocBlocks = @ + 1, !.allocInodes = @ + 1]

Create(i) ==
  /\ Begins /\ inodes[i] = Nobody
  /\ info.allocBlocks < info.blockCount
  /\ inodes' = Created(i)
  /\ info' = WithOneMore(info)
  /\ Commit(info', inodes', Unwritten)
  /\ UNCHANGED <<device, slices, disk, written, phase, damage>>

\* PersistentStorage::Extend: the volume first, then the superblock in memory, which
\* reaches the disk if the transaction does.
BitmapBlocksForSize(n) == Up(n, BlockBits)
SlicesOf(sb) == 1 + sb.ibmSlices + sb.abmSlices + sb.inoSlices + sb.integritySlices + sb.datSlices
MayExtend ==
  /\ info.fvm
  /\ BitmapBlocksForSize((info.datSlices + 1) * BlocksPerSlice(info)) <= GetBlockBitmapBlocks(info)
  /\ SlicesOf(info) < device.slices
  /\ slices = info.datSlices  \* a slice that is there is not given again

Extended(sb) ==
  [sb EXCEPT !.datSlices = @ + 1, !.blockCount = (sb.datSlices + 1) * BlocksPerSlice(sb)]

CreateAndExtend(i) ==
  /\ Begins /\ inodes[i] = Nobody
  /\ info.allocBlocks = info.blockCount
  /\ MayExtend
  /\ slices' = slices + 1
  /\ inodes' = Created(i)
  /\ info' = WithOneMore(Extended(info))
  /\ Commit(info', inodes', info')
  /\ UNCHANGED <<device, disk, written, phase, damage>>

\* The operation fails later on, and its transaction is dropped.
ExtendAndFail ==
  /\ Begins /\ info.allocBlocks = info.blockCount
  /\ MayExtend
  /\ slices' = slices + 1
  /\ info' = Extended(info)
  /\ UNCHANGED <<device, disk, entries, written, phase, inodes, damage>>

\* The file is open: it goes to the end of the unlinked list.
Last == {i \in Ino : inodes[i].state = "unlinked" /\ inodes[i].next = 0}
Unlink(i) ==
  /\ Begins /\ inodes[i].state = "linked"
  /\ inodes' = [j \in Ino |->
       IF j = i THEN [state |-> "unlinked", next |-> 0]
       ELSE IF j \in Last THEN [inodes[j] EXCEPT !.next = i] ELSE inodes[j]]
  /\ info' = [info EXCEPT !.head = IF @ = 0 THEN i ELSE @]
  /\ Commit(info', inodes', Unwritten)
  /\ UNCHANGED <<device, slices, disk, written, phase, damage>>

HeadStays(i) == info.head
HeadWithout(i) == IF info.head = i THEN inodes[i].next ELSE info.head

Close(i) ==
  /\ Begins /\ inodes[i].state = "unlinked"
  /\ inodes' = [j \in Ino |->
       IF j = i THEN Nobody
       ELSE IF inodes[j].next = i THEN [inodes[j] EXCEPT !.next = inodes[i].next] ELSE inodes[j]]
  /\ info' = [Freed(info) EXCEPT !.head = HeadWithout(i)]
  /\ Commit(info', inodes', Unwritten)
  /\ UNCHANGED <<device, slices, disk, written, phase, damage>>

Sync ==
  /\ phase = "serving" /\ entries # <<>> /\ Synced
  /\ Forget
  /\ UNCHANGED <<device, slices, disk, phase, info, inodes, damage>>

StopWriteback ==
  /\ Begins
  /\ info' = [info EXCEPT !.clean = TRUE]
  /\ Commit(info', inodes, UpdateFlags(info'))
  /\ phase' = "stopping"
  /\ UNCHANGED <<device, slices, disk, written, inodes, damage>>

Stopped ==
  /\ phase = "stopping" /\ Synced
  /\ Forget
  /\ phase' = "down" /\ info' = Refused /\ inodes' = NoInodes
  /\ UNCHANGED <<device, slices, disk, damage>>

(***************************************************************************)
(* Crashes, with one entry half written, and superblocks that go bad.       *)
(***************************************************************************)
Crash ==
  /\ phase \in Mounted \union {"replaying", "loaded"}
  /\ CrashesInRepair \/ IsValid(disk.primary)
  /\ \E kept \in written..Len(entries), parts \in SUBSET Parts :
       /\ phase = "replaying" => kept = Len(entries)
       /\ kept = written => parts = {}
       /\ entries' = SubSeq(entries, 1, kept)
       /\ LET d == IF kept = written THEN disk ELSE Write(disk, entries[written + 1], parts)
          IN \/ disk' = d /\ UNCHANGED damage
             \/ /\ damage > 0 /\ damage' = damage - 1
                /\ \/ "primary" \in parts /\ disk' = [d EXCEPT !.primary = Torn]
                   \/ /\ "backup" \in parts /\ entries[written + 1].backup # Unwritten
                      /\ disk' = [d EXCEPT !.backup = Torn]
  /\ written' = 0
  /\ phase' = "down" /\ info' = Refused /\ inodes' = NoInodes
  /\ UNCHANGED <<device, slices>>

\* The primary goes bad when nobody looks.  An entry of the journal would restore it.
BackupIsStale ==
  /\ entries = <<>>
  /\ disk.backup.head # disk.primary.head \/ disk.backup.datSlices # disk.primary.datSlices

Corrupt ==
  /\ phase = "down" /\ damage > 0 /\ disk.backup # Torn /\ disk.primary # Torn
  /\ CorruptsStale \/ ~BackupIsStale
  /\ disk' = [disk EXCEPT !.primary = Torn]
  /\ damage' = damage - 1
  /\ UNCHANGED <<device, slices, entries, written, phase, info, inodes>>

Next ==
  \/ LoadSuperblock \/ RepairSuperblock \/ ReloadSuperblock \/ Start \/ Started \/ PurgeUnlinked \/ Purged
  \/ \E i \in Ino : Create(i) \/ CreateAndExtend(i) \/ Unlink(i) \/ Close(i)
  \/ ExtendAndFail \/ Sync \/ WriteEntry \/ StopWriteback \/ Stopped
  \/ Crash \/ Corrupt

Spec == Init /\ [][Next]_vars

(***************************************************************************)
(* Properties.                                                             *)
(***************************************************************************)
\* A volume that Mkfs has made, or minfs has used, can be mounted, whenever it crashed,
\* and with one superblock in pieces: the layout passes every check, the backup is there
\* when the primary is not, and the journal is replayed before slices are given back.
NeverRefused ==
  /\ phase = "down" => IsValid(disk.primary) \/ IsValid(disk.backup)
  /\ phase = "replaying" /\ Synced => IsValid(disk.primary)

\* The parts of the volume are in their order and none reaches into the next
\* (format.h:213), with every superblock the disk ever has: the bitmaps and the inode
\* table have room for what they describe, and the volume has the blocks.
RegionsDisjoint ==
  \A sb \in {disk.primary, disk.backup} \ {Torn} :
    /\ NonFvmSuperblockBackup < sb.ibm
    /\ sb.ibm + Up(sb.inodeCount, BlockBits) <= sb.abm
    /\ sb.abm + Up(sb.blockCount, BlockBits) <= sb.ino
    /\ sb.ino + Up(sb.inodeCount, InodesPerBlock) <= sb.integrity
    /\ JournalStartBlock(sb) + JournalBlocks(sb) <= sb.dat
    /\ MaxEntryBlocks(GetBlockBitmapBlocks(sb)) < JournalBlocks(sb)
    /\ sb.blockCount <= IF sb.fvm THEN slices * BlocksPerSlice(sb) ELSE device.blocks - sb.dat

\* A mounted volume's superblock says what is there, the one made from the backup too:
\* its counts are those of the bitmaps, and what a crash left of an extension is undone
\* (a slice that is there without the superblock's knowing can never be added again).
SuperblockMatches ==
  phase \in Mounted =>
    /\ info.allocBlocks = 2 + Cardinality(Allocated(inodes))
    /\ info.allocInodes = 2 + Cardinality(Allocated(inodes))
    /\ info.allocBlocks <= info.blockCount
    /\ info.fvm => slices = info.datSlices

\* A volume that says it is clean is not in use, and nothing is left to replay but the
\* superblock itself, or what brings the volume to where it was when it was unmounted: a
\* crash in the middle of a replay may leave older inodes beside the newer flag.
CleanIsComplete ==
  disk.primary # Torn /\ disk.primary.clean =>
    /\ phase \notin {"purging", "serving"}
    /\ disk.inodes = Recovered.inodes \/ Recovered.primary.clean

\* The assertions of PurgeUnlinked (minfs.cc:846).
PurgesUnlinkedOnly ==
  phase = "purging" /\ info.head # 0 => inodes[info.head].state # "linked"

================================================================================
