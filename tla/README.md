# minfs in TLA+

A verification development for minfs, the file system in `src/src/storage/minfs`
(all paths below are relative to that directory). It consists of TLA+ modules
that model its core, TLC configurations that check them on small instances, and
theorems about them whose proofs the TLA+ proof system checks.

## 1. The system and its parts

minfs keeps a superblock, two bitmaps, an inode table and data blocks on a block
device. Metadata goes through a journal (`fs::Journal`, a library that is not in
this repository). File data is written outside the journal and never in place:
a flush allocates new blocks for what changed and frees those they replace. One
dispatcher thread runs all vnode operations, one after the other; the journal
has threads of its own, whose callbacks release blocks and vnodes.

| component | state | operations | talks to |
|---|---|---|---|
| **Allocator** (`allocator/`) of blocks and of inodes | bitmap, pool size, used count, `reserved_`, `first_free_`, registered `PendingChange`s | `Reserve`, `Allocate`, `Free`, `Commit`, cancel, the destructors of pending changes, extension by a slice | transactions; the journal's callback, which destroys `PendingDeallocations` on another thread |
| **Transactions** (`minfs.cc`, `minfs_target.cc`, `writeback.*`) | the transaction lock, the reservations, `journal_sync_task_` | `BeginTransaction`, `ContinueTransaction`, `CommitTransaction`, `BlockingJournalSync`, `Sync` | allocator, journal, vnodes |
| **Journal** (external) | entries under way | schedule data, commit an entry, sync; replay | device; commit and complete callbacks |
| **Dirty cache** (`file.cc`, `file_target.cc`, `vnode_allocation.*`) | pending blocks, `new_blocks_`, `cached_transaction_`, the size in memory and in the inode | `Write`, `Truncate`, flush, close, unlink, destruction | transactions; block mapping |
| **Namespace** (`directory.cc`, `vnode.cc`, `minfs.cc`) | entries, link and entry counts, open counts, the on-disk list of unlinked inodes | `Create`, `Link`, `Rename`, `Unlink`, `Open`, `Close`, purge at mount | transactions, inode allocator |
| **Directory records** (`directory.cc`, `format.h`) | records in the directory's file, `seq_num`, the cookie of a listing | find, find space, append, unlink with coalescing, `Readdir` | block reservation, truncation |
| **Vnode cache** (`minfs.cc`, `vnode.cc`) | `vnode_hash_`, references, pinned vnodes | lookup, insert, release, recreate | journal callbacks |
| **Block mapping** (`vnode_mapper.*`, `transaction_limits.*`) | direct, indirect and doubly indirect pointers | map, set, advance, flush; required block counts | dirty cache, lazy buffers |
| **Lazy buffers** (`lazy_*`, `buffer_view.*`, `resizeable_*`) | which blocks have been read | read, grow, shrink, flush a view | block mapping |
| **Inode table** (`allocator/inode_manager.*`) | the mapped table | allocate, update, free, grow | allocator, transactions |
| **Superblock and mounting** (`superblock.*`, `minfs.cc`) | counts, clean bit, list ends, slices, backup copy | mount, replay, repair, unmount | everything |
| **Fsck** (`fsck.cc`) | inodes, blocks and links counted so far | checks an unmounted volume; repairs a superblock | reads the disk |

`PROJECT.json` lists these and the parts around them (host build, block cache,
service, inspector, metrics) that are left out, each with its reason.

### What is hard here

* **Space that is freed is not free yet.** `Commit` clears the bits of freed
  blocks at once, but until the entry that frees them is on disk a crash brings
  back the inode that points to them, and a data write would have destroyed its
  contents. Only the `PendingDeallocations` in the journal's callback stand
  between the two; they are dropped on the journal's thread, while the
  dispatcher searches the same bitmap with a cursor (`first_free_`).
* **Reservation, then use.** A write reserves blocks long before it allocates
  them, from an estimate that must cover indirect blocks and overlapping writes.
  Too little hits an assertion in the flush; a leak shrinks the volume.
* **Waiting.** An operation that finds no space lets the journal write all it has
  and tries again. The journal then has to give back every block.
* **Clean or dirty.** A file is dirty if it has a cached transaction; pending
  blocks, sizes and that transaction are changed on different paths, which fail
  at different points.
* **Crashes** between any two entries, and in the middle of the purge that runs
  at the mount after a crash.
* **Counts kept in several places**: links, entries, list ends and back links,
  used blocks, new blocks.
* **Offsets kept across calls**: a listing resumes in a directory others changed.
* **Objects that two threads let go of**: the hash of vnodes holds no references,
  and the journal's thread may drop the last one while the dispatcher looks it up.
* **Two superblocks, one journal, one volume manager**: the backup is written
  seldom, the journal is replayed after a superblock has been chosen and repaired,
  and slices come and go at once, whatever becomes of the transaction.

The hazards, each at its line and with the properties that would catch it, are
in `PROJECT.json` under `hazards`. Those without a property are work left.

## 2. The modules

| module | models | abstract specification |
|---|---|---|
| `ElementPool` | what an allocator promises | — |
| `Allocator` | `allocator/allocator*.cc`, `storage.cc`: `Allocator`, `AllocatorReservation`, `PendingChange` | implements `ElementPool` |
| `AllocatorProofs` | theorems about `Allocator`: its types, owners of elements, counts, cursor, search, the refinement of `ElementPool` | |
| `Transactions` | transactions, flushes, sync, the journal and the disk, over an instance of `Allocator` | |
| `TransactionsProofs` | theorems about `Transactions`: who owns a reservation and its blocks | |
| `TransactionsRecovery` | theorems about `Transactions`: what a crash leaves; waiting for space, being refused | |
| `DirtyCache` | one file's pending blocks, sizes and reservation | |
| `DirtyCacheProofs` | theorems about `DirtyCache` | |
| `Namespace` | directories, links, unlinked inodes, mount, with the journal and crashes | |
| `NamespaceProofs` | theorems about `Namespace`: the tree, the list of unlinked inodes, what memory and disk have in common | |
| `DirentRecords` | the records of one directory and a listing | |
| `DirentRecordsProofs` | theorems about `DirentRecords`: records, names, listings, block reservations | |
| `VnodeMapper` | block pointers of one file on all levels, the indirect file, the iterator | the map from blocks to blocks it stands for (`map`) |
| `VnodeCache` | vnodes and their hash, between the dispatcher and the journal's thread | |
| `VnodeCacheProofs` | theorems about `VnodeCache`: references, the hash, and a file's data through its vnodes' lives | |
| `Fsck` | the consistency checker on damaged volumes | what a sound volume is, told without a walk (`Sound`) |
| `Layout` | `Mkfs`'s arithmetic, `TransactionLimits`, `CheckSuperblock` | |
| `Volume` | a device from `Mkfs` through mounts, use, crashes and repairs, over `Layout` | |
| `VolumeProofs` | theorems about `Layout` and `Volume`: areas, slices, counts, the clean flag, the mount | |

Every `MC` module gives the constants of its module their small values; those of
`VnodeMapper` are numbers, which its configuration gives directly.

### Allocator

One action per critical section of `Allocator::lock_`, so that reservations of
several threads and the journal's callback interleave between them. `map`,
`total`, `used`, `reserved` and `firstFree` are the members of the allocator and
the counts of its storage; `phase`, `held`, `alloc` and `dealloc` are an
`AllocatorReservation` with its two pending changes. Destructors are taken apart
where another thread can come in between: an uncommitted reservation is
cancelled (`Cancel`), then its deallocations go (`Abort`), then its allocations
(`DropAllocations`). `phase[r] = "journal"` is a reservation of which only the
deallocations are left, in the journal's callback. `FreesOwnAllocations` says
whether clients free what they have just allocated, which the class handles and
no caller in minfs does. If they did, `FindSucceeds` would fail: `Free` of a
pending allocation makes the element available again and leaves `first_free_`
above it, against the comment at `allocator/allocator.h:201`. The run sets it to
FALSE. Of the theorems, those about the cursor and the search assume it FALSE; all
others hold for both. The layout of the bitmap on disk is left out.

`ElementPool` is what that amounts to for clients: elements are free, used,
claimed or quarantined, and what was promised is there. It has no bitmap, no
cursor and no counts to be kept in step.

### Transactions

`op` is the dispatcher's program counter: the stages an operation goes through
in `BeginTransaction`, `ContinueTransaction`, the flush
(`File::AllocateAndCommitData`), `CommitTransaction`, `~Transaction`, `Sync` and
`BlockingJournalSync`. Between two stages the journal's threads may act, which
is what the model is about; the transaction lock is held throughout because
there is one dispatcher. The allocator is an instance of `Allocator`, of which
every stage takes one action. A file is a set of numbered blocks with a version
counter; `content` is what the disk's blocks hold, `durable` what a replay would
yield. The journal is modelled from its use: data of all entries in any order,
an entry after its own data and after older entries, then its callback.

### DirtyCache

The same file seen from within: partial blocks, sizes, indirect blocks, writes
that fail half way, closing, unlinking and re-opening. One action per call.
`Transactions` has shown what a flush does to the disk, so a flush is one
function here. The volume is a number of available blocks and a number kept by
the journal. An assertion that fails stops the model, as it stops the program.

### Namespace

One step per vnode operation, since none is interrupted. `vol` is the state in
memory, `sync` the inodes the operation has synced; `Commit` hands exactly these
to the journal, so that a forgotten `InodeSync` shows. `disk` is what a replay
yields. Directory contents travel whole with each entry, since minfs writes them
as metadata in the same transaction.

### DirentRecords

The file of one directory as records by offset, of lengths in units of the
alignment. Records left behind inside others stay in no one's reach, as bytes
would. One step per directory operation or per call of `Readdir`; a listing runs
through several calls while others change the directory.

### VnodeMapper

What `DirtyCache` takes as a function: one file's pointers in the inode and in its
indirect blocks, in memory (`vnode.ptr`) and as the transactions leave them on the
device (`vnode.stored`), which indirect blocks have been read, and `VnodeIterator`
with its levels of views. One step is one operation of a client (`BlocksSwap`,
`BlockGetWritable`, `BlocksShrink`, `InitVmo`), with every turn of its loop:
look-up, change, advance, flush, the allocation and release of indirect blocks on
the way. The history variable `map` is what these operations mean to a client. A
freed block reads as `Foreign`, and a block of the indirect file that is read
again after it was written is recorded, since the device may be behind. A failed
assertion is recorded too and ends the run of the program.
`VnodeIndirectMapper::MapForWrite` would allocate a block that is missing when it is
flushed; `FlushLevel` has always done so before, and it counts as a failed
assertion if not.

### VnodeCache

Objects (`vn`) with a count of references and of connections, and `vnode_hash_`
(`hash`), which refers to nobody. The dispatcher's calls are one step each, except
where it lets go of `hash_lock_` between: a lookup that finds nothing
(`VnodeLookup`) and the creation of the vnode (`Recreate`). The journal's thread
completes the oldest transaction (`Complete`), then drops its pins one by one
(`DropPin`); the last reference's going and `RecycleNode`'s taking the vnode out of
the hash are two steps. `JournalFails` may come at any time. The data of a file
is the version it was last written in: `latest` what its users wrote, `disk` what a
vnode made anew would read. `Sync` holds references to every vnode while it flushes.

### Fsck

A step is one call of `CheckInode`, of a pass, or of the list's loop. The mutual
recursion of `CheckInode` and `CheckDirectory` is the sequence `todo` of calls still
to be made; the first pass over a directory (`CD_DUMP`) makes all its own checks
before the first call, so the order is the code's. Before it starts, fields
of inodes, records, block numbers, bitmaps and superblock are given other values.
`Sound` says what a volume should be from sets of references alone, without the
walk and its order, and the verdict is compared with it.

`Sound` leaves to the code what the code leaves open, found by comparing the two:
an inode that is both named and on the list of unlinked inodes is overlooked, when
its counts add up (the list's visit resets its link count); a name may
appear twice in a directory; a record's type is not compared with the inode's; the
list pointers of inodes that are linked are not looked at.

### Layout and Volume

`Layout` is arithmetic on the format's own numbers: `GetRequiredBlockCount`, the limits
of a transaction, the journal they call for, the parts of a plain device and
of a partition, and what a mount asks of a superblock. `Mkfs(device)` is the
superblock it writes, or `Refused`.

`Volume` composes it with the life of a device. `phase` follows `Minfs::Create`:
the superblock is read and if need be repaired, the journal replayed, the superblock read again,
slices compared, the clean flag taken away, the unlinked list purged; then
operations, and the way down. `disk` has the two superblocks and the inodes in their
places, `entries` what the journal would replay, `written` how many of those have
reached their places. A crash loses a suffix of the entries and leaves the one being
written in any part, and a superblock that is being written may be torn
(`MaxDamage` in all). Slices of the volume change at once.
A file has one block, so that inodes stand for both bitmaps.

## 3. The runs

| run | checks | what it shows |
|---|---|---|
| `allocator` | `TypeOK` `NoElementTwice` `AccountingExact` `FirstFreeIsAccurate` `FindSucceeds` `ImplementsPool` | two reservations, a pool of three elements that grows to five: no element has two owners, the counts are exact, the cursor passes nothing and a promise can always be kept |
| `transactions` | `TypeOK` `RecoveredDataIntact` `RecoveredMetadataConsistent` `SyncedSurvives` | whatever the journal's order, power may fail at any point |
| `transactions_progress` | `NoSpaceOnlyWhenFull` `ContinueHasSpace` `NoRollback` `OperationsEnd` `FreedBlocksReturn` | an operation is refused only when nothing freed is kept back; nobody waits for ever, and no block is withheld for ever |
| `dirty_cache` | `AssertionsHold` `CleanIsStored` `BlocksAccountedFor` | reservations suffice; a clean file has nothing to store; no block is lost |
| `dirty_cache_failed_write` | `NeverFoundDirty` (violated) | finding 1 |
| `namespace` | `TreeSound` `UnlinkedListSound` `KeptExactlyWhileOpen` `MemoryIsCommitted` | tree, counts and list are what fsck wants, in memory and after every crash |
| `dirent_records` | `RecordsTile` `NamesAreFound` `ListingIsComplete` `NothingFails` | records tile the file whatever was split and merged; listings miss nothing |
| `vnode_mapper` | `LookupIsMap` `StoredIsMap` `MapperAssertionsHold` `NeverReadsBack` | pointers on three levels agree with what was done; no indirect block missing, left over, unflushed or read back |
| `vnode_cache` | `OneVnodePerInode` `HashIsSound` `ReadsCurrent` | an inode never has two vnodes, however a lookup, a death and a creation fall; a vnode made anew reads what was last written |
| `fsck` | `VerdictIsSound` `FsckEnds` | fsck accepts a volume exactly when it is sound, and it ends |
| `volume` | `NeverRefused` `RegionsDisjoint` `SuperblockMatches` `CleanIsComplete` `PurgesUnlinkedOnly` | a volume can always be mounted again, and what its superblock says is so |
| `volume_repair` | `NeverRefused` (violated) | finding 2 |

Every property of a passing run has a faulty variant of a definition beside it
(named under `mutants` in `PROJECT.json`) which makes TLC find it violated.

### Bounds, and why they are enough

* Allocator: two reservations are the dispatcher and the journal's callback, or
  two transactions of which one is in the journal. Element 0 is taken, two are
  free and one slice of two may be added, so that searches wrap between freed,
  claimed and quarantined elements and extension happens while both hold some.
* Transactions: two block slots, of one file each or both of one file; four
  blocks, so that the second write of a file already runs out of space until the
  journal gives something back, and the retry and the failure after it happen;
  two versions, so that overwritten and removed data is told from new; one
  crash. The five reservations are never all in use: a `Begin` without a free one would have
  to wait for ever, and `OperationsEnd` of the run for progress would fail. The run for progress has no crash, since a crash
  ends every wait.
* Dirty cache: four blocks of two bytes, one direct, the others two to an
  indirect block: writes inside a block, across a boundary, across an indirect
  block's boundary and beyond the end. Seven blocks hold the file with its
  indirect blocks and not a second copy of it, so that waiting for space and
  running out of it happen.
* Namespace: root and three inodes, two names in each directory, which suffices
  for a directory inside another, a replaced target, a hard link, and a list of
  three unlinked inodes with a head, a middle and a tail; one entry under way
  and two crashes, so that the purge is itself interrupted.
* Records: three names of different lengths in a directory of twenty units,
  which is full with all three in some orders and not in others; blocks of four
  units, which records straddle; listings of one or two entries a call.
* Mapper: one pointer of each kind and two to an indirect block make seven blocks
  and four indirect blocks, so that an iterator crosses every boundary between
  levels and moves between two leaves below one doubly indirect block. Swaps of up
  to three blocks (`MaxCount`) reach over two boundaries; one block may lie in
  another area than the others (`MaxMoved`), which breaks runs anywhere.
* Vnode cache: two inodes and four objects: one in use, one that dies on the
  journal's thread, one of an earlier life of the inode still pinned, and one
  about to be made. Three transactions under way, and three changes of a file's data,
  after which its last write is still in the journal while an older one is pinned.
* Fsck: four inodes and eight blocks, three volumes that between them have nested
  directories, a second name, holes, every kind of pointer, and a list of two; any two
  fields damaged, so that one damage may hide another (a second owner of a block
  and its count; a list and its back link).
* Volume: plain devices at the sizes where a decision of `Mkfs` turns (too small,
  just large enough for the smallest and for the recommended journal, and where the
  bitmap gets another eight blocks), partitions with slices of 2 and of 32 blocks.
  Two inodes fill the first data slice and need the second; one superblock torn or gone
  bad; three entries in the journal, so that what a mount, a use and an unmount wrote
  can be replayed together and the replay interrupted.

`dirty_cache`, its variant and `vnode_cache` do not check deadlock: a failed assertion
stops the program, which is a state without a successor. In `dirty_cache`
`AssertionsHold` says that no such state is reached unless a write has failed; in
`vnode_cache` it is the assertion of `Minfs::Sync` (`minfs.cc:716`) that every dirty
vnode could be flushed, which the journal's error state refutes. All other runs
check it.

The fault model of `Volume`, and what it leaves out:

* `CrashesInRepair = FALSE` keeps a crash away from the time between the repair of a
  superblock and the replay of its entry; finding 2 is what happens there. The two
  writes of the repair are one step.
* `CorruptsStale = FALSE`: the primary goes bad only while the backup's list and
  slices are those of the primary. Otherwise `PurgesUnlinkedOnly` fails: the
  flag update of a mount writes the backup before `PurgeUnlinked` empties the list; after
  a sync, an unclean end and the loss of the primary, the backup still names an inode that
  is in use by then, and the next mount purges it (the assertion at
  `minfs.cc:854`). The code promises nothing for such a fault.
* A torn superblock is known by its checksum; a torn inode block is not modelled,
  since the journal writes it again.
* Repair is on, as it is by default (`mount.h:32`). Slices have more than one block.
* A plain device of exactly 409 blocks is refused, though 408 and 410 are not: with
  `>=` at `minfs.cc:1447` the recommended journal is kept although it leaves one data
  block, and the root directory needs the second. `Mkfs` fails on the write, and
  `volume` only begins with what `Mkfs` accepts.

### Fairness

`transactions_progress` assumes: the dispatcher carries on with an operation it
has begun (weak fairness of `Work`); the journal writes what it has been asked to
write and nothing else (`WriteDemanded`: an entry nobody asked for may stay in
memory for ever); it calls back when it has done so (`SyncDone`); and the
delayed task runs. The last is strong fairness of `TimerExpires`, because between
operations the dispatcher is idle only now and then: its loop takes posted tasks
in the order of their deadlines, so client calls cannot keep a task that is due
from running. No client is assumed to call anything.

`fsck` assumes that the checker, once called, goes on (weak fairness of `Check`): it is
one thread that waits for nobody.

## 4. What is proved

Every safety property of `Allocator`, `Transactions`, `DirtyCache`, `Namespace`,
`DirentRecords`, `VnodeCache` and `Volume` that a run checks is a theorem of the specification, for
every value of the constants its assumption allows. Each inductive invariant was
checked by TLC on the run's instance before it was proved. The proofs use nothing but
the assumptions on the constants and, where a theorem says so, a hypothesis about them.

### Allocator (`AllocatorProofs`)

From `AllocatorAssumption`: numbers are natural, the pool does not begin larger than it
may become, and there are finitely many reservations. It also says that a pool that can
grow is not asked for more than a slice at once: `Reserve` extends by one slice per
call whatever the count (the TODO at `allocator/allocator_common.cc`), so the
code needs as much.

* `TypeCorrect` (`TypeOK`) says more than types: the cursor and all bits stay inside
  the bitmap, and a reservation that is being destroyed holds nothing. It is
  inductive as it stands. The work is in the search: what `FindLocked` chooses is
  an allocatable element (`FindLockedIsLeast`, from `LeastExists`).
* `NeverAllocatedTwice` (`NoElementTwice`) is inductive relative to `TypeOK`. Each
  operation that takes bits away is covered by `FewerBits`; `Allocate`, `Free` and
  `Commit` have a lemma each. `Commit` is where bits change role: allocations enter
  the bitmap at the same step in which deallocations leave it and become pending.
* `CountsAreExact` (`AccountingExact`). The invariant is `CountsInv`: the counts, and that no
  reservation was promised more than the largest pool (`HeldFits`), without which
  a sum over reservations need not be finite. What is reserved is counted as pairs of a reservation
  and an element or a promise, so that an operation on one reservation changes one
  part of a disjoint union.
* `CursorPassesNothing` and `SearchSucceeds` assume `~FreesOwnAllocations`. The second
  needs no invariant of its own: the counts say that a free element exists
  (`PromisesAreBacked`), the cursor that the search does not begin behind it.
* `AllocatorImplementsPool`: each action maps to an action of `ElementPool` or to a stutter,
  under `TypeOK`, `NoElementTwice` and `CountsInv`. Only `Backed`, which says that there are as many unclaimed
  elements as promises, is needed of the counts.

### Transactions (`TransactionsProofs`, `TransactionsRecovery`)

From `TransactionsAssumption`: slots are numbers, slots and reservations finitely many.

* `ReservationsAreOwned`: `Invariants` has the allocator's invariants for the instance
  inside `Transactions` and says who owns what. A reservation is the operation's, a
  file's cached one, or a journal entry's; only the operation and what it has
  committed have blocks; what a committed transaction freed is kept by exactly one
  entry. This is what `PendingDeallocations` in the journal's callback is for, and all that
  follows rests on it.
* `CommittedDataSurvives`, `RecoveredVolumeIsSound`, `SyncedDataSurvives`, `DiskNeverGoesBack`.
  None is inductive: a property of the durable state says nothing about what the
  next entry will make of it. The invariant (`RecoveryInv`) speaks of the history `h` of
  disks from now to the last entry under way: each is a sound volume, no block of any is handed
  out while a replay could still reach it (`NothingReused`), what is still to be
  written belongs to its entry alone (`WritesAreFor`), the data is there or on its way
  before its entry (`DataIsThere`), and the last disk is what the memory is ahead of.
  `DiskNeverGoesBack` is an action property, from the order of versions along `h`.
* `TypesHold`, `RefusedOnlyWhenFull`, `ContinuesWithSpace`. `SpaceOrder` says what the stages
  of `BeginTransaction` have seen and may rely on: a second attempt finds the journal
  empty and nothing enters it meanwhile; a version has room because the operation
  that changes it looked before it began, and nobody else changes it in between.

### DirtyCache (`DirtyCacheProofs`)

From `DirtyCacheAssumption`: sizes are positive, nothing else. `CacheInv` adds to the three
properties that the pending blocks lie below the size, that what is unsaved is pending, that a
block's indirect blocks exist as long as it does, and that a vnode which is not dirty, or not open,
has nothing pending. Calls are chains of functions on one record; every function has a
lemma about the fields it changes, and `RunKeeps` is the only place where a call
meets the state. The estimate of `GetRequiredBlockCountForDirtyCache` covers every flush
because a write adds to what a flush needs no more than its blocks that are not pending and the indirect blocks
of all of its blocks (`WriteKeeps`); a truncation gets by with the one block it reserves because the
block it writes zeros into is on disk, and so are the indirect blocks that lead to it (`TailIs`). After
writes that failed, only `Accounted` is left, and that is what `EveryBlockHasAPlace` needs.

### Namespace (`NamespaceProofs`)

From `NamespaceAssumption`: there are a root and finitely many names, and a file may be open
at least once, since `Create` returns it open. The numbers of inodes, entries and crashes are any.

`Inv` has three parts.

* `History`: a sequence `h` of volumes from the disk's to memory's, one for each entry of the
  journal, each made from the one before by its entry (`ReplayedIs` says that this is the
  replay the property speaks of), and every one of them sound. A crash makes any of them
  the volume in memory, so an invariant of `vol` alone is not inductive.
* Sound is a `Tree` and a `List`. `TreeSound` and `UnlinkedListSound` walk up and along; no step can be
  reasoned about that way without induction on the walk, so the invariant has witnesses
  instead: a depth for each directory, smaller than its children's (`Deepens`), and a rank for each inode
  of the list, smaller than the next one's (`Ranks`). With the parent and the next in the set, these
  say the same in finite sets, and `GoodIsSound` leads back from them to
  the walks. A `Rename` of a directory is the step that needs thought: what is moved takes what lies below
  with it, so all depths change, and new ones exist because the new parent is not among those
  moved (`CheckNotSubdirectory`, whose walk upwards `Above` models).
* `OpenInv`: what is open is allocated, and outside of a mount what is unlinked is open.

Each operation is a chain of functions on a volume. A step is covered by what it does to the names
(`NameAdded`, `NameGone`, a move) and to the list (`Appended`, a removal, `SameChain`), so that `Rename`, which may
unlink its target and move at once, is the sum of lemmas that others use too. `Synced` says that
whatever an operation changed is in `sync` when it commits, which is
`NothingLeftUncommitted`.

### DirentRecords (`DirentRecordsProofs`)

From `DirentRecordsAssumption`: names take some room and are none of `free`, `.` and `..`, and
the two records a directory begins with fit. Lengths, header, block, directory and the
size of a call are any.

* The invariant has a set of offsets in place of the walk (`Tiles(d, V)`): each record of the set is
  valid, the one behind it is in the set, and none lies in between. That the walk
  visits exactly this set (`VisitedIs`) is shown by the least, or the greatest, offset where it would not, and the
  same way the recursive functions of the walks are shown to exist (`VisitedFromIs` and its like); no
  induction theorem with a predicate as its parameter is needed.
* What is in a directory is a set of pairs of an offset and a name (`Entries`). Whatever an operation
  splits, merges and cuts off, it adds one pair (`AppendIs`) or removes one (`UnlinkIs`), and
  leaves a set that tiles. Leftovers inside other records stay in the file and out of the set.
* `ListInv`: of the names that stay, those before the cookie's offset have been
  listed and no others. The offset may have ceased to be a record's; `RecoveredIs` says that the
  listing resumes at the first record at or behind it, and so passes no pair and repeats none, since what
  stays does not move.
* `NoOperationFails` needs that a new record makes the file longer by no more than its own size
  (`IsAdded`), from which the estimate covers the blocks whatever their size (`ReservedSuffice`).

### VnodeCache (`VnodeCacheProofs`)

From `VnodeCacheAssumption`. `RefsInv` counts the references of each vnode by who holds them
(`RefsAreHeld`): connections, the dispatcher, `Sync`, each transaction under way, and the
journal's thread. `OneVnode` and `HashLeadsToVnodes` follow, since whoever is
about to use a vnode is one of these. `OpenFilesAreCurrent` needs `DataIsKept`: of the
transactions that write an inode's data the last one counts, and as long as it is on its way
the vnode that has the data is pinned by it.

### Volume (`VolumeProofs`)

From `VolumeAssumption`: inode numbers are the format's, the devices' numbers are natural, a
slice is larger than a block. Four of the five theorems also assume `SlicesAreSmall`: the areas
of a partition are 65536 blocks apart (`format.h:88`), and with slices of 32768 blocks the
journal would reach into the data, which `Mkfs` does not look at and the next mount refuses; so a
slice has at most 16384 blocks (128 MiB). No theorem depends on the number of entries in the
journal.

* First the arithmetic: what `Mkfs` makes of any device it accepts is `Laid`
  (`PlainIsLaid`, `FvmIsLaid`): bitmaps cover what they describe, the journal has room for the largest
  transaction, and no area reaches into the next. An extension keeps that, if the bitmap
  has room (`ExtendedIsLaid`), and so does every update of counts, list or flag
  (`UpdatedIsLaid`), since none touches an area.
* `JournalInv` says what of the journal is in its place: the primary and the inodes are those
  of the last entry written, and memory is one with the last entry.
* `CleanVolumeIsComplete` (`CleanIsComplete`), with no hypothesis. `CleanInv` follows the flag
  through a stop, a crash in it, the replay, and the start that takes it away: only the last
  entry can be clean, and nothing is clean while the volume is in use. Stated the
  obvious way, that a clean volume has nothing to replay but what is already there, it is
  false. With an entry for the start, one for a use and one for the stop under way, a
  crash may put the last superblock in its place and leave older inodes; so may
  a crash in the replay. It does no harm, since the journal is replayed before
  anybody looks at the flag, and the property says so: what is left to replay ends clean.
* `PartsStayApart` (`RegionsDisjoint`). `SlicesInv`: every superblock anywhere is `Laid`, no later
  one has fewer slices than an earlier, none has more than the volume manager gave, and
  the one in memory has just as many. The last needs `CheckSlices` to come
  after the replay.
* `SuperblockIsExact` (`SuperblockMatches`) and `OnlyUnlinkedArePurged` (`PurgesUnlinkedOnly`)
  assume `~CorruptsStale` (section 3). `SoundInv`: each entry's superblock is sound for the
  inodes of the same entry, the disk's is whenever nothing in the journal is newer
  (`Settled`), and then the backup, with its counts made anew, would do as well.
  Sound means exact counts, room for them, and an unlinked list that is one path from the head through
  all unlinked inodes and no other (`ListIs`; `UnlinkedIs` and `ClosedIs` for its end and its middle).
* `MountIsNeverRefused` (`NeverRefused`) assumes `~CorruptsStale`, `~CrashesInRepair` and at most
  one damaged superblock. `DamageInv`: while damage may still come both superblocks pass
  `CheckSuperblock`; afterwards the one that is left does. After a crash the primary may be newer
  than the inodes beside it, so its counts are wrong, but they are the counts of some
  sound entry and in range, which is all that `CheckSuperblock` looks at before the replay.

### Only model-checked

* Liveness (`OperationsEnd`, `FreedBlocksReturn`, `FsckEnds`): it rests on fairness and `ENABLED`,
  which the provers do not support.
* `Fsck`: its verdict compares a walk over a damaged volume, where nothing may be assumed of
  what is read, with `Sound`. A proof would follow every order of visits in which one damage
  hides another.
* `VnodeMapper`: nothing known puts it out of reach, but it is not proved. Its reference, the
  contents of a file as one map, is in the model; an inductive invariant would tie every
  level, in memory and stored, to one tree of pointers. Its operations are loops over an
  iterator whose levels are flushed, dropped and taken over at every step, so each needs an
  invariant of its own loop, and the places on the levels are quotients by a constant, which
  the provers settle only with lemmas for each product.

## 5. Findings

1. *A write that fails leaves a file that is not dirty with blocks pending*
   (`dirty_cache_failed_write`). `File::Write` marks blocks pending, then copies the
   data; if the copy fails it returns without the transaction, and destroying the
   vnode fails the assertion at `file_target.cc:28`.
2. *A repair that is interrupted makes a volume that cannot be mounted*
   (`volume_repair`). Power fails while the entry of an extension is being written in
   place: the primary is torn, the backup has the old `block_count`, the bitmap has a
   bit beyond it. `RepairSuperblock` counts the bits on disk before the journal is replayed
   and writes `alloc_block_count > block_count` over both superblocks. If power fails
   again before the replay has mended the primary, `CheckSuperblock` (`minfs.cc:467`)
   accepts neither. Without that second failure the replay restores everything, which
   is what `volume` shows.

## 6. What is not modelled, and the plan

1. Proofs: the invariants of `VnodeMapper`, first those of one level, and that `Fsck` accepts
   what is sound.
2. `LazyReader`: reads of several blocks at once, and the growth of the buffers; the
   failure to read an indirect block in the middle of an iteration.
3. The reservations in the journal's error state, and operations that fail after they
   have changed memory (`Truncate`, `Rename`). `VnodeCache` has what that state
   does to vnodes.
4. `Fsck` after each crash of `Namespace`: today `TreeSound` and `UnlinkedListSound` state
   what fsck asks, and `VerdictIsSound` that it asks for no less.
5. A `Mkfs` that is interrupted, the slices it takes back then (`FreeSlices` leaves those of
   the journal), the revision of the format, read-only mounts.

Left out for good: the host build (no journal, no cache, one thread), pure I/O
(`bcache`), the service and runner, metrics and the disk inspector.
