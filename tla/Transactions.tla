----------------------------- MODULE Transactions ------------------------------
(***************************************************************************)
(* What a minfs transaction does to the disk.  Files keep their data in     *)
(* memory (the dirty cache); a flush allocates new blocks for the dirty     *)
(* ones, frees those they replace, and hands the journal one entry of       *)
(* metadata together with the data to be written first.  A data block is    *)
(* written outside the journal: nothing orders it against other entries.    *)
(*                                                                         *)
(* Two parties act.  The dispatcher runs one vnode operation at a time:     *)
(* write, truncate, unlink of a closed file, sync, and the task that syncs  *)
(* the journal in the background; op says where it is.  The journal (which  *)
(* is not in this repository, and is modelled by how it is used) writes     *)
(* data in any order, entries in the order of their commit, each after its  *)
(* data, then runs the entry's commit callback, which drops the blocks the  *)
(* transaction freed.  A crash leaves what is on disk.                      *)
(***************************************************************************)
EXTENDS Integers, Sequences, FiniteSets

CONSTANTS
  File,
  Slot,        \* file blocks, numbered; every file has its own
  FileOf,      \* [Slot -> File]
  Reservation, \* bound: block reservations in existence at a time; enough of them that
               \* a transaction always finds one
  Blocks,      \* data blocks of the volume, 0 among them, which is never allocated
  DirtyLimit,  \* kDirtyBlocksPerFile
  MaxVersion,  \* bound: times a slot changes
  MaxCrashes   \* bound: crashes

None == "none"

ASSUME TransactionsAssumption ==
  /\ Slot \subseteq Nat /\ IsFiniteSet(Slot)
  /\ FileOf \in [Slot -> File]
  /\ None \notin Reservation /\ IsFiniteSet(Reservation)
  /\ Blocks \in Nat \ {0} /\ DirtyLimit \in Nat \ {0}
  /\ MaxVersion \in Nat /\ MaxCrashes \in Nat

VARIABLES
  total, used, map, reserved, firstFree, phase, held, alloc, dealloc, \* the allocator
  ver,       \* ver[s]: version of slot s in memory, counted over writes and removals
  ptr,       \* ptr[s]: block of slot s in the vnode's inode, 0 for none
  pending,   \* slots of allocation_state_: written, not yet allocated
  cached,    \* cached[f]: reservation of the file's cached_transaction_, or None
  op,        \* what the dispatcher is doing
  entries,   \* journal entries on their way to disk, oldest first
  demanded,  \* number of entries a Sync asked the journal to write
  timer,     \* journal_sync_task_ is pending
  content,   \* content[b]: the slot and version in block b of the disk
  durable,   \* inodes, bitmap and superblock that a replay of the journal yields
  sync,      \* a client's sync waiting for the journal
  synced,    \* synced[s]: version of slot s a completed sync vouches for
  crashes

allocVars == <<total, used, map, reserved, firstFree, phase, held, alloc, dealloc>>
memoryVars == <<ver, ptr, pending, cached>>
journalVars == <<entries, demanded, timer>>
diskVars == <<content, durable>>
clientVars == <<sync, synced>>
vars == <<allocVars, memoryVars, op, journalVars, diskVars, clientVars, crashes>>

Allocator == INSTANCE Allocator WITH
  InitAllocated <- {0}, InitTotal <- Blocks, SliceElements <- 1, MaxTotal <- Blocks,
  UsingFvm <- FALSE, MaxRequest <- Blocks, FreesOwnAllocations <- FALSE

SlotsOf(f) == {s \in Slot : FileOf[s] = f}
Dirty(f) == pending \intersect SlotsOf(f)
Nothing == [slot |-> 0, ver |-> 0]  \* a block nobody has written

(***************************************************************************)
(* stage is the dispatcher's program counter and after where it goes when a *)
(* transaction is over.  file, slots and need are the operation's; txn is   *)
(* its reservation, data what it enqueued, retried whether it has failed to *)
(* reserve once, wait the journal entries a blocking sync waits for, client *)
(* whether a sync was asked for by a client.                                *)
(***************************************************************************)
Idle == [stage |-> "idle", after |-> "idle", file |-> None, slots |-> {}, need |-> 0,
         txn |-> None, data |-> {}, retried |-> FALSE, wait |-> 0, client |-> FALSE]

NoSync == [wait |-> -1, want |-> [s \in Slot |-> 0]]

Init ==
  /\ Allocator!Init
  /\ ver = [s \in Slot |-> 0]
  /\ ptr = [s \in Slot |-> 0]
  /\ pending = {}
  /\ cached = [f \in File |-> None]
  /\ op = Idle
  /\ entries = <<>> /\ demanded = 0 /\ timer = FALSE
  /\ content = [b \in 0..(Blocks - 1) |-> Nothing]
  /\ durable = [block |-> [s \in Slot |-> 0], ver |-> [s \in Slot |-> 0], map |-> {0}, used |-> 1]
  /\ sync = NoSync /\ synced = [s \in Slot |-> 0]
  /\ crashes = 0

(***************************************************************************)
(* Operations begin.                                                       *)
(***************************************************************************)

Continue(stage) == op' = [op EXCEPT !.stage = stage]

\* File::Write, up to the point where it asks for a transaction: the blocks it
\* needs are those not yet pending; too many pending ones, or too few blocks,
\* make it flush the file first.
NeededFor(S) == Cardinality(S \ pending)

ShouldFlushIgnoringSpace(f, need) == Cardinality(Dirty(f)) >= DirtyLimit

ShouldFlush(f, need) ==
  Cardinality(Dirty(f)) >= DirtyLimit \/ Allocator!Available < need

Write(f, S) ==
  /\ op.stage = "idle"
  /\ S \subseteq SlotsOf(f) /\ S # {}
  /\ \A s \in S : ver[s] < MaxVersion
  /\ LET flush == ShouldFlush(f, NeededFor(S)) /\ cached[f] # None
         next == IF cached[f] = None \/ flush THEN "begin" ELSE "continue"
     IN op' = [Idle EXCEPT !.file = f, !.slots = S,
                 !.need = IF flush THEN Cardinality(S) ELSE NeededFor(S),
                 !.stage = IF flush THEN "flush" ELSE next, !.after = next]
  /\ UNCHANGED <<allocVars, memoryVars, journalVars, diskVars, clientVars, crashes>>

\* File::Truncate to nothing: the dirty blocks are flushed, then one block is
\* reserved whether it is needed or not.
Truncate(f) ==
  /\ op.stage = "idle"
  /\ \A s \in SlotsOf(f) : ver[s] < MaxVersion
  /\ \E s \in SlotsOf(f) : ptr[s] # 0 \/ s \in pending
  /\ op' = [Idle EXCEPT !.file = f, !.need = 1, !.after = "begin",
              !.stage = IF cached[f] # None THEN "flush" ELSE "begin"]
  /\ UNCHANGED <<allocVars, memoryVars, journalVars, diskVars, clientVars, crashes>>

\* Directory::Unlink of the last link of a closed file, which frees its blocks
\* in a transaction that reserves none.
Remove(f) ==
  /\ op.stage = "idle"
  /\ cached[f] = None
  /\ \A s \in SlotsOf(f) : ver[s] < MaxVersion
  /\ \E s \in SlotsOf(f) : ptr[s] # 0
  /\ op' = [Idle EXCEPT !.file = f, !.stage = "begin"]
  /\ UNCHANGED <<allocVars, memoryVars, journalVars, diskVars, clientVars, crashes>>

\* Minfs::Sync for a client, and from journal_sync_task_.
StartSync ==
  /\ op.stage = "idle"
  /\ sync = NoSync
  /\ op' = [Idle EXCEPT !.stage = "sync", !.client = TRUE]
  /\ UNCHANGED <<allocVars, memoryVars, journalVars, diskVars, clientVars, crashes>>

TimerExpires ==
  /\ op.stage = "idle"
  /\ timer
  /\ timer' = FALSE
  /\ op' = [Idle EXCEPT !.stage = "sync"]
  /\ UNCHANGED <<allocVars, memoryVars, entries, demanded, diskVars, clientVars, crashes>>

(***************************************************************************)
(* Reservations.  BeginTransaction makes a new transaction; out of space,   *)
(* it destroys it, lets the journal write all it has, and tries once more.  *)
(* ContinueTransaction extends the cached reservation.  It has the same     *)
(* retry, which is not modelled because no write gets there: ShouldFlush    *)
(* has looked before, and ContinueHasSpace says that what it saw holds.     *)
(***************************************************************************)

NewReservation == CHOOSE r \in Reservation : phase[r] = "none"

Begin ==
  /\ op.stage = "begin"
  /\ \E r \in Reservation : phase[r] = "none"
  /\ Allocator!Construct(NewReservation)
  /\ op' = [op EXCEPT !.txn = NewReservation, !.after = "idle",
              !.stage = IF op.need = 0 THEN "release" ELSE "reserve"]
  /\ UNCHANGED <<memoryVars, journalVars, diskVars, clientVars, crashes>>

Reserved ==
  /\ op.stage = "reserve"
  /\ Allocator!Reserve(op.txn, op.need)
  /\ Continue(IF op.slots = {} THEN "release" ELSE "write")
  /\ UNCHANGED <<memoryVars, journalVars, diskVars, clientVars, crashes>>

ReserveFails ==
  /\ op.stage = "reserve"
  /\ Allocator!Available < op.need
  /\ Continue("abandon")
  /\ UNCHANGED <<allocVars, memoryVars, journalVars, diskVars, clientVars, crashes>>

\* The transaction of the failed attempt is destroyed ...
Abandon ==
  /\ op.stage = "abandon"
  /\ Allocator!Abort(op.txn)
  /\ Continue("abandoned")
  /\ UNCHANGED <<memoryVars, journalVars, diskVars, clientVars, crashes>>

\* ... and the first time BlockingJournalSync begins, the second time the
\* operation fails with ZX_ERR_NO_SPACE.
BlockingSyncOf(n) ==
  op' = [op EXCEPT !.stage = "wait", !.after = "begin", !.txn = None, !.retried = TRUE,
           !.wait = n]

RetryAtOnce == BlockingSyncOf(0) /\ UNCHANGED demanded
WaitWithoutAsking == BlockingSyncOf(Len(entries)) /\ UNCHANGED demanded
BlockingJournalSync == BlockingSyncOf(Len(entries)) /\ demanded' = Len(entries)

Abandoned ==
  /\ op.stage = "abandoned"
  /\ Allocator!DropAllocations(op.txn)
  /\ IF op.retried THEN op' = Idle /\ UNCHANGED demanded ELSE BlockingJournalSync
  /\ UNCHANGED <<memoryVars, entries, timer, diskVars, clientVars, crashes>>

\* The journal has written what it had when the wait began.
Retry ==
  /\ op.stage = "wait"
  /\ op.wait = 0
  /\ Continue(op.after)
  /\ UNCHANGED <<allocVars, memoryVars, journalVars, diskVars, clientVars, crashes>>

\* ContinueTransaction for a write: cached_transaction_ is moved out.
TakeCached ==
  /\ op.stage = "continue"
  /\ cached[op.file] # None
  /\ cached' = [cached EXCEPT ![op.file] = None]
  /\ op' = [op EXCEPT !.txn = cached[op.file]]
  /\ UNCHANGED <<allocVars, ver, ptr, pending, journalVars, diskVars, clientVars, crashes>>

Extended ==
  /\ op.stage = "continue"
  /\ op.txn # None
  /\ Allocator!Reserve(op.txn, op.need)
  /\ Continue("write")
  /\ UNCHANGED <<memoryVars, journalVars, diskVars, clientVars, crashes>>

(***************************************************************************)
(* Work.                                                                   *)
(***************************************************************************)

\* The data goes to the vnode's memory and the reservation into the cache; the
\* file is flushed at once when that takes it to its limit.
WriteToCache ==
  /\ op.stage = "write"
  /\ ver' = [s \in Slot |-> IF s \in op.slots THEN ver[s] + 1 ELSE ver[s]]
  /\ pending' = pending \union op.slots
  /\ cached' = [cached EXCEPT ![op.file] = op.txn]
  /\ op' = IF Cardinality((pending \union op.slots) \intersect SlotsOf(op.file)) >= DirtyLimit
           THEN [Idle EXCEPT !.file = op.file, !.stage = "flush"]
           ELSE Idle
  /\ UNCHANGED <<allocVars, ptr, journalVars, diskVars, clientVars, crashes>>

\* BlocksShrink: one block of the file is freed.
ReleaseBlock(s) ==
  /\ op.stage = "release"
  /\ s \in SlotsOf(op.file)
  /\ ptr[s] # 0
  /\ Allocator!Free(op.txn, ptr[s])
  /\ ptr' = [ptr EXCEPT ![s] = 0]
  /\ ver' = [ver EXCEPT ![s] = @ + 1]
  /\ UNCHANGED <<pending, cached, op, journalVars, diskVars, clientVars, crashes>>

\* FlushCachedWrites: the cached transaction continues, with nothing to reserve.
Flush ==
  /\ op.stage = "flush"
  /\ op' = [op EXCEPT !.stage = "swap", !.txn = cached[op.file]]
  /\ cached' = [cached EXCEPT ![op.file] = None]
  /\ UNCHANGED <<allocVars, ver, ptr, pending, journalVars, diskVars, clientVars, crashes>>

\* BlocksSwap, for the pending blocks in their order: the old block is freed ...
NextPending == CHOOSE s \in Dirty(op.file) : \A t \in Dirty(op.file) : s <= t

SwapOut ==
  /\ op.stage = "swap"
  /\ Dirty(op.file) # {}
  /\ ptr[NextPending] # 0
  /\ Allocator!Free(op.txn, ptr[NextPending])
  /\ ptr' = [ptr EXCEPT ![NextPending] = 0]
  /\ UNCHANGED <<ver, pending, cached, op, journalVars, diskVars, clientVars, crashes>>

\* ... a new one is allocated, and the data to be written there enqueued.
SwapIn ==
  /\ op.stage = "swap"
  /\ Dirty(op.file) # {}
  /\ ptr[NextPending] = 0
  /\ Allocator!Allocate(op.txn)
  /\ LET b == Allocator!FindLocked IN
       /\ ptr' = [ptr EXCEPT ![NextPending] = b]
       /\ op' = [op EXCEPT !.data = @ \union
                   {[block |-> b, slot |-> NextPending, ver |-> ver[NextPending]]}]
  /\ pending' = pending \ {NextPending}
  /\ UNCHANGED <<ver, cached, journalVars, diskVars, clientVars, crashes>>

\* CommitTransaction: bitmap, superblock and inode as the commit leaves them go
\* to the journal, with the data to be written before them; the entry keeps the
\* blocks freed.  The background sync is posted unless it already is.
EntryWithOldBitmap(bits, count) ==
  [txn |-> op.txn, frees |-> dealloc[op.txn] # {}, data |-> op.data, written |-> FALSE,
   block |-> [s \in SlotsOf(op.file) |-> ptr[s]],
   ver |-> [s \in SlotsOf(op.file) |-> ver[s]],
   map |-> map, used |-> count]

Entry(bits, count) ==
  [txn |-> op.txn, frees |-> dealloc[op.txn] # {}, data |-> op.data, written |-> FALSE,
   block |-> [s \in SlotsOf(op.file) |-> ptr[s]],
   ver |-> [s \in SlotsOf(op.file) |-> ver[s]],
   map |-> bits, used |-> count]

ScheduleFirst(e) == entries' = <<e>> \o entries
Schedule(e) == entries' = Append(entries, e)

PostNothing == UNCHANGED timer
PostSyncTask == timer' = TRUE

CommitTransaction ==
  /\ \/ op.stage = "swap" /\ Dirty(op.file) = {}
     \/ op.stage = "release" /\ \A s \in SlotsOf(op.file) : ptr[s] = 0
  /\ Allocator!Commit(op.txn)
  /\ Schedule(Entry(map', used'))
  /\ PostSyncTask
  /\ Continue("close")
  /\ UNCHANGED <<memoryVars, demanded, diskVars, clientVars, crashes>>

\* ~Transaction: what is still reserved is given back, the reservation destroyed.
CancelRest ==
  /\ op.stage = "close"
  /\ Allocator!Cancel(op.txn)
  /\ UNCHANGED <<memoryVars, op, journalVars, diskVars, clientVars, crashes>>

Close ==
  /\ op.stage = "close"
  /\ Allocator!DestroyCommitted(op.txn)
  /\ op' = IF op.after = "idle" THEN Idle
           ELSE [op EXCEPT !.stage = op.after, !.txn = None, !.data = {}]
  /\ UNCHANGED <<memoryVars, journalVars, diskVars, clientVars, crashes>>

\* Minfs::Sync: every dirty vnode is flushed ...
SyncFile(f) ==
  /\ op.stage = "sync"
  /\ cached[f] # None
  /\ op' = [op EXCEPT !.stage = "flush", !.file = f, !.after = "sync"]
  /\ UNCHANGED <<allocVars, memoryVars, journalVars, diskVars, clientVars, crashes>>

\* ... then the journal is told to write what it has; a client is answered when
\* it has done so.
FlushNotNeeded(f) == TRUE
Flushed(f) == cached[f] = None

EnqueueCallback ==
  /\ op.stage = "sync"
  /\ \A f \in File : Flushed(f)
  /\ demanded' = Len(entries)
  /\ sync' = IF op.client THEN [wait |-> Len(entries), want |-> ver] ELSE sync
  /\ op' = Idle
  /\ UNCHANGED <<allocVars, memoryVars, entries, timer, diskVars, synced, crashes>>

(***************************************************************************)
(* The journal.                                                            *)
(***************************************************************************)

\* Data writes of all entries are under way at once.
DataWritten(i) ==
  /\ i \in DOMAIN entries
  /\ \E d \in entries[i].data :
       /\ content' = [content EXCEPT ![d.block] = [slot |-> d.slot, ver |-> d.ver]]
       /\ entries' = [entries EXCEPT ![i].data = @ \ {d}]
  /\ UNCHANGED <<allocVars, memoryVars, op, demanded, timer, durable, clientVars, crashes>>

\* The oldest entry is in the journal on disk: from now on a replay applies it.
\* The journal may do so when asked to or when it runs out of room.
Apply(e) ==
  [block |-> [s \in Slot |-> IF s \in DOMAIN e.block THEN e.block[s] ELSE durable.block[s]],
   ver |-> [s \in Slot |-> IF s \in DOMAIN e.ver THEN e.ver[s] ELSE durable.ver[s]],
   map |-> e.map, used |-> e.used]

EntryWritten ==
  /\ entries # <<>>
  /\ ~Head(entries).written
  /\ Head(entries).data = {}
  /\ durable' = Apply(Head(entries))
  /\ entries' = [entries EXCEPT ![1].written = TRUE]
  /\ UNCHANGED <<allocVars, memoryVars, op, demanded, timer, content, clientVars, crashes>>

\* Its commit callback runs: the blocks it freed are available again.
DecrementAlways(n) == n - 1
Decrement(n) == IF n > 0 THEN n - 1 ELSE n

EntryDone ==
  /\ entries # <<>>
  /\ Head(entries).written
  /\ IF Head(entries).frees THEN Allocator!ReleaseDeallocations(Head(entries).txn)
                            ELSE UNCHANGED allocVars
  /\ entries' = Tail(entries)
  /\ demanded' = Decrement(demanded)
  /\ op' = [op EXCEPT !.wait = Decrement(@)]
  /\ sync' = [sync EXCEPT !.wait = Decrement(@)]
  /\ UNCHANGED <<memoryVars, timer, diskVars, synced, crashes>>

\* The sync callback runs on the journal's thread.
SyncDone ==
  /\ sync.wait = 0
  /\ synced' = sync.want
  /\ sync' = NoSync
  /\ UNCHANGED <<allocVars, memoryVars, op, journalVars, diskVars, crashes>>

(***************************************************************************)
(* Power is lost; the volume is mounted again and its journal replayed.     *)
(***************************************************************************)
Crash ==
  /\ crashes < MaxCrashes
  /\ crashes' = crashes + 1
  /\ total' = Blocks
  /\ map' = durable.map
  /\ used' = durable.used
  /\ reserved' = 0
  /\ firstFree' = 0
  /\ phase' = [r \in Reservation |-> "none"]
  /\ held' = [r \in Reservation |-> 0]
  /\ alloc' = [r \in Reservation |-> {}]
  /\ dealloc' = [r \in Reservation |-> {}]
  /\ ver' = durable.ver
  /\ ptr' = durable.block
  /\ pending' = {}
  /\ cached' = [f \in File |-> None]
  /\ op' = Idle
  /\ entries' = <<>>
  /\ demanded' = 0
  /\ timer' = FALSE
  /\ sync' = NoSync
  /\ UNCHANGED <<diskVars, synced>>

\* The dispatcher carries on with the operation it has begun.
Work ==
  \/ Begin \/ Reserved \/ ReserveFails \/ Abandon \/ Abandoned \/ Retry
  \/ TakeCached \/ Extended
  \/ WriteToCache \/ Flush \/ SwapOut \/ SwapIn
  \/ \E s \in Slot : ReleaseBlock(s)
  \/ CommitTransaction \/ CancelRest \/ Close
  \/ \E f \in File : SyncFile(f)
  \/ EnqueueCallback

Next ==
  \/ \E f \in File : Truncate(f) \/ Remove(f) \/ \E S \in SUBSET SlotsOf(f) : Write(f, S)
  \/ StartSync \/ TimerExpires
  \/ Work
  \/ \E i \in DOMAIN entries : DataWritten(i)
  \/ EntryWritten \/ EntryDone \/ SyncDone
  \/ Crash

\* What the journal does for those who asked it to write.
WriteDemanded == demanded > 0 /\ (DataWritten(1) \/ EntryWritten \/ EntryDone)

Fairness ==
  /\ WF_vars(Work) /\ SF_vars(TimerExpires) /\ WF_vars(WriteDemanded) /\ WF_vars(SyncDone)

Spec == Init /\ [][Next]_vars
FairSpec == Spec /\ Fairness

(***************************************************************************)
(* Safety.                                                                 *)
(***************************************************************************)

Stage == {"idle", "flush", "begin", "reserve", "abandon", "abandoned", "wait", "continue",
          "write", "release", "swap", "close", "sync"}

TypeOK ==
  /\ ver \in [Slot -> 0..MaxVersion]
  /\ ptr \in [Slot -> 0..(Blocks - 1)]
  /\ pending \subseteq Slot
  /\ cached \in [File -> Reservation \union {None}]
  /\ op.stage \in Stage
  /\ demanded \in 0..Len(entries) /\ op.wait \in 0..Len(entries) /\ sync.wait \in -1..Len(entries)
  /\ timer \in BOOLEAN
  /\ crashes \in 0..MaxCrashes

\* Whenever power is lost, every block an inode points to holds the data that
\* was committed with that inode: no later transaction, committed or not, has
\* written over it, and the data was there before the inode (minfs.cc:648-652).
RecoveredDataIntact ==
  \A s \in Slot : durable.block[s] # 0 =>
    content[durable.block[s]] = [slot |-> s, ver |-> durable.ver[s]]

\* What a replay yields is a sound volume, as fsck checks it: the bitmap shows
\* exactly the blocks of the inodes, no block has two owners, and the count in
\* the superblock is right.
RecoveredMetadataConsistent ==
  /\ durable.map = {0} \union {durable.block[s] : s \in Slot}
  /\ \A s, t \in Slot : s # t /\ durable.block[s] # 0 => durable.block[s] # durable.block[t]
  /\ durable.used = Cardinality(durable.map)

\* A write that a completed sync covered survives every crash.
SyncedSurvives == \A s \in Slot : durable.ver[s] >= synced[s]

\* An operation fails for lack of space only when no freed block is being kept
\* back: the second attempt comes after all the freed blocks have.
NoSpaceOnlyWhenFull ==
  op.stage = "abandoned" /\ op.retried =>
    \A r \in Reservation : Allocator!Committed(r) => dealloc[r] = {}

\* A write to a dirty file never runs out of space after it has decided not to
\* flush the file first (file_target.cc:188-199): it need not wait for the
\* journal with the file's pending blocks in hand.
ContinueHasSpace == op.stage = "continue" => Allocator!Available >= op.need

\* What the disk holds of a slot is never replaced by something older.
NoRollback == [][\A s \in Slot : durable'.ver[s] >= durable.ver[s]]_vars

(***************************************************************************)
(* Liveness.                                                               *)
(***************************************************************************)

\* Every operation ends, the waits for the journal included.
OperationsEnd == op.stage # "idle" ~> op.stage = "idle"

\* Blocks that were freed become available without anybody asking for a sync.
FreedBlocksReturn ==
  \A r \in Reservation :
    Allocator!Committed(r) /\ dealloc[r] # {} ~> dealloc[r] = {} \/ ~Allocator!Committed(r)

================================================================================
