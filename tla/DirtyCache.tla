------------------------------ MODULE DirtyCache -------------------------------
(***************************************************************************)
(* The dirty cache of one file.  A write leaves its data in the vnode's     *)
(* memory, marks the blocks pending and keeps the reservation they will     *)
(* need in cached_transaction_; the file is dirty as long as that is set.   *)
(* Flushing turns the reservation into blocks, the data's and the indirect  *)
(* blocks that point to them.  The cache is correct if what is reserved     *)
(* always suffices for what is pending, and if a file that is not dirty has *)
(* nothing left to store: Sync and Close look at nothing else.              *)
(*                                                                         *)
(* One step is one call on the dispatcher, which no other interrupts.  A    *)
(* write to the vnode's memory may fail or stop at a block's boundary.  A   *)
(* failed assertion stops the program: failed holds it, and nothing else    *)
(* changes.                                                                 *)
(***************************************************************************)
EXTENDS Integers, FiniteSets

CONSTANTS
  BlockSize, MaxFileSize,
  Direct, PerIndirect, \* file blocks below Direct need no indirect block; an indirect block
                       \* serves PerIndirect of the others
  DirtyLimit,          \* kDirtyBlocksPerFile
  TotalBlocks          \* blocks of the volume

ASSUME DirtyCacheAssumption ==
  /\ BlockSize \in Nat \ {0} /\ MaxFileSize \in Nat \ {0} /\ Direct \in Nat
  /\ PerIndirect \in Nat \ {0} /\ DirtyLimit \in Nat \ {0} /\ TotalBlocks \in Nat

VARIABLES
  file,       \* the vnode and the space it draws on, see New
  vnode,      \* "open", "closed", or "none" when it is not in memory
  linked,     \* the file has a name
  writeFailed \* history: a write has failed or stopped short

vars == <<file, vnode, linked, writeFailed>>

RoundUp(off) == ((off + BlockSize - 1) \div BlockSize) * BlockSize
BlocksOf(off, len) == {b \in 0..(MaxFileSize \div BlockSize) :
                         off \div BlockSize <= b /\ b * BlockSize < off + len}
IndirectsOf(B) == {(b - Direct) \div PerIndirect : b \in {c \in B : c >= Direct}}

New ==
  [pending |-> {}, new |-> 0,     \* allocation_state_: the blocks, how many are new to the file
   backed |-> {}, indirect |-> {}, \* file blocks and indirect blocks that exist on disk
   nodeSize |-> 0, inodeSize |-> 0,
   dirty |-> FALSE, reserved |-> 0, \* cached_transaction_
   unsaved |-> {},                 \* blocks whose data is newer than what was committed
   free |-> TotalBlocks,           \* blocks available in the allocator
   kept |-> 0,                     \* blocks freed, until the journal has written the entry
   failed |-> {}]

Init == file = New /\ vnode = "open" /\ linked = TRUE /\ writeFailed = FALSE

Asserted(f, what, holds) ==
  IF holds \/ f.failed # {} THEN f ELSE [f EXCEPT !.failed = {what}]

\* What a call that has computed f leaves.
Ran(f) == IF f.failed = {} THEN f ELSE [file EXCEPT !.failed = f.failed]

(***************************************************************************)
(* Reservations.                                                           *)
(***************************************************************************)
GetRequiredBlockCount(B) == Cardinality(B) + Cardinality(IndirectsOf(B))

RequiredWithoutIndirects(f, B) == Cardinality(B \ f.pending)

RequiredForDirtyCache(f, B) ==
  IF B \subseteq f.pending THEN 0
  ELSE GetRequiredBlockCount(B) - Cardinality(B \intersect f.pending)

\* BeginTransaction and ContinueTransaction, which let the journal write all it
\* has before they give up.
MayReserve(f, n) == f.free + f.kept >= n
Reserved(f, n) ==
  LET g == IF f.free >= n THEN f ELSE [f EXCEPT !.free = @ + f.kept, !.kept = 0]
  IN [g EXCEPT !.free = @ - n, !.reserved = @ + n]

\* The transaction is destroyed and with it the reservation.
Forgotten(f) == [f EXCEPT !.reserved = 0, !.dirty = FALSE]
Cancelled(f) == [f EXCEPT !.free = @ + f.reserved, !.reserved = 0, !.dirty = FALSE]

(***************************************************************************)
(* Flushing.                                                               *)
(***************************************************************************)
NewIndirects(f) == IndirectsOf(f.pending) \ f.indirect
BlocksToAllocate(f) == Cardinality(f.pending) + Cardinality(NewIndirects(f))

AllocateAndCommitData(f) ==
  LET g == Asserted(Asserted(f,
             "reserved_ > 0", BlocksToAllocate(f) <= f.reserved),
             "beyond the allowed nodesize",
             \A b \in f.pending : (b + 1) * BlockSize <= RoundUp(f.nodeSize))
  IN Cancelled([g EXCEPT !.reserved = @ - BlocksToAllocate(f),
                         !.kept = @ + Cardinality(f.pending \intersect f.backed),
                         !.backed = @ \union f.pending,
                         !.indirect = @ \union NewIndirects(f),
                         !.pending = {}, !.new = 0,
                         !.inodeSize = f.nodeSize,
                         !.unsaved = @ \ f.pending])

FlushCachedWrites(f) == IF f.dirty THEN AllocateAndCommitData(f) ELSE f

ShouldFlush(f, n) == Cardinality(f.pending) >= DirtyLimit \/ f.free < n

MayWrite == vnode = "open" /\ file.failed = {}

(***************************************************************************)
(* Write: the blocks are marked pending, the data is copied to memory as    *)
(* far as that succeeds, the size updated and the reservation cached.  When *)
(* nothing could be copied the error is returned at once.                   *)
(***************************************************************************)
Marked(f, B) == [f EXCEPT !.new = @ + Cardinality(B \ (f.pending \union f.backed)),
                          !.pending = @ \union B]

Copied(f, off, done) ==
  [f EXCEPT !.unsaved = @ \union BlocksOf(off, done),
            !.nodeSize = IF off + done > @ THEN off + done ELSE @]

Cached(f) == LET g == [f EXCEPT !.inodeSize = f.nodeSize, !.dirty = TRUE]
             IN IF ShouldFlush(g, 0) THEN AllocateAndCommitData(g) ELSE g

\* How much of the data may have been copied when it ends.
Ends(off, len) == {d \in 0..len : d = 0 \/ d = len \/ (off + d) % BlockSize = 0}

Write(off, len, done) ==
  /\ MayWrite
  /\ LET B == BlocksOf(off, len)
         f == IF ShouldFlush(file, RequiredForDirtyCache(file, B))
              THEN FlushCachedWrites(file) ELSE file
         n == RequiredForDirtyCache(f, B)
         g == Marked(Reserved(f, n), B)
     IN IF ~MayReserve(f, n)
        THEN file' = Ran(f) /\ UNCHANGED writeFailed
        ELSE /\ file' = Ran(IF done = 0 THEN Cancelled(g) ELSE Cached(Copied(g, off, done)))
             /\ writeFailed' = (writeFailed \/ done < len)
  /\ UNCHANGED <<vnode, linked>>

(***************************************************************************)
(* Truncate flushes, reserves one block, drops whole blocks, writes zeros   *)
(* into the rest of the last one, and commits.  An indirect block none of   *)
(* whose blocks is left goes too.                                           *)
(***************************************************************************)
Shrunk(f, start) ==
  LET gone == {b \in f.backed : b >= start}
      goneIndirect == {i \in f.indirect : i \notin IndirectsOf(f.backed \ gone)}
  IN [f EXCEPT !.backed = @ \ gone,
               !.indirect = @ \ goneIndirect,
               !.kept = @ + Cardinality(gone) + Cardinality(goneIndirect),
               !.pending = @ \ gone,
               !.unsaved = {b \in @ : b < start}]

TailZeroed(f, b) ==
  IF b \in f.backed \union f.pending
  THEN [Marked(f, {b}) EXCEPT !.unsaved = @ \union {b}] ELSE f

TruncateInternal(f, len) ==
  LET start == RoundUp(len) \div BlockSize
      g == Shrunk(f, start)
      h == IF len % BlockSize = 0 THEN g ELSE TailZeroed(g, len \div BlockSize)
  IN IF len < f.nodeSize THEN [h EXCEPT !.nodeSize = len] ELSE [f EXCEPT !.nodeSize = len]

NotFlushedFirst(f) == f
FlushedFirst(f) == FlushCachedWrites(f)

Truncate(len) ==
  /\ MayWrite
  /\ len <= MaxFileSize
  /\ LET f == FlushedFirst(file) IN
       file' = Ran(IF MayReserve(f, 1)
                   THEN AllocateAndCommitData(TruncateInternal(Reserved(f, 1), len))
                   ELSE f)
  /\ UNCHANGED <<vnode, linked, writeFailed>>

(***************************************************************************)
(* Minfs::Sync flushes the vnodes that are dirty and not purged.  The        *)
(* journal, which has written an entry, gives back the blocks it freed.     *)
(***************************************************************************)
Sync ==
  /\ vnode = "open" \/ (vnode = "closed" /\ linked)
  /\ file.dirty /\ file.failed = {}
  /\ file' = Ran(FlushCachedWrites(file))
  /\ UNCHANGED <<vnode, linked, writeFailed>>

EntryDone ==
  /\ file.kept > 0 /\ file.failed = {}
  /\ file' = [file EXCEPT !.free = @ + file.kept, !.kept = 0]
  /\ UNCHANGED <<vnode, linked, writeFailed>>

(***************************************************************************)
(* Closing, unlinking and destroying the vnode.  The unlinked vnode that is *)
(* closed drops its pending blocks, as far as its size reaches, and is      *)
(* purged: InoFree resets what is pending and frees the blocks.  The        *)
(* reservation stays with the vnode until it is destroyed.                  *)
(***************************************************************************)
DropCachedWrites(f) ==
  LET dropped == {b \in f.pending : b * BlockSize < f.nodeSize}
  IN Asserted([f EXCEPT !.pending = @ \ dropped, !.new = @ - Cardinality(dropped \ f.backed)],
       "GetTotalPending() == 0", f.pending \subseteq dropped)

Purge(f) ==
  LET g == [DropCachedWrites(f) EXCEPT !.pending = {}, !.new = 0, !.nodeSize = f.inodeSize]
  IN [Shrunk(g, 0) EXCEPT !.unsaved = {}]

ClosedWithoutFlush(f) == IF linked THEN f ELSE Purge(f)
Closed(f) == IF linked THEN FlushCachedWrites(f) ELSE Purge(f)

Close ==
  /\ MayWrite
  /\ vnode' = "closed"
  /\ file' = Ran(Closed(file))
  /\ UNCHANGED <<linked, writeFailed>>

Unlink ==
  /\ linked /\ file.failed = {}
  /\ linked' = FALSE
  /\ file' = IF vnode = "open" THEN file ELSE Ran(Purge(file))
  /\ UNCHANGED <<vnode, writeFailed>>

\* ~File.
Destroy ==
  /\ vnode = "closed" /\ file.failed = {}
  /\ vnode' = "none"
  /\ file' = Ran(Asserted(Asserted(Cancelled(file),
                 "File was found dirty", file.pending = {}),
                 "pending updates to the inode size", file.nodeSize = file.inodeSize))
  /\ UNCHANGED <<linked, writeFailed>>

Open ==
  /\ linked /\ vnode # "open" /\ file.failed = {}
  /\ vnode' = "open"
  /\ UNCHANGED <<file, linked, writeFailed>>

\* Another file is made.
Create ==
  /\ ~linked /\ vnode = "none" /\ file.failed = {}
  /\ linked' = TRUE /\ vnode' = "open"
  /\ file' = [file EXCEPT !.nodeSize = 0, !.inodeSize = 0]
  /\ UNCHANGED writeFailed

Next ==
  \/ \E off \in 0..(MaxFileSize - 1) : \E len \in 1..(MaxFileSize - off) :
       \E done \in Ends(off, len) : Write(off, len, done)
  \/ \E len \in 0..MaxFileSize : Truncate(len)
  \/ Sync \/ EntryDone
  \/ Close \/ Unlink \/ Destroy \/ Open \/ Create

Spec == Init /\ [][Next]_vars

(***************************************************************************)
(* Properties.                                                             *)
(***************************************************************************)
FileBlock == BlocksOf(0, MaxFileSize)

TypeOK ==
  /\ file.pending \subseteq FileBlock /\ file.backed \subseteq FileBlock
  /\ file.indirect \subseteq IndirectsOf(FileBlock) /\ file.unsaved \subseteq FileBlock
  /\ {file.new, file.reserved, file.free, file.kept} \subseteq Nat
  /\ {file.nodeSize, file.inodeSize} \subseteq 0..MaxFileSize
  /\ {file.dirty, linked, writeFailed} \subseteq BOOLEAN
  /\ vnode \in {"open", "closed", "none"}

\* Every count stays in its range, and as long as no write has failed no assertion of
\* the cache fails: what is
\* reserved suffices for the data and the indirect blocks (allocator_reservation.cc:38),
\* no pending block lies beyond the size (file.cc:116) and a vnode that goes away
\* has nothing pending (file_target.cc:28, 142).
AssertionsHold == TypeOK /\ (~writeFailed => file.failed = {})

\* A file that is not dirty, or that has a name and nobody has open, has nothing
\* left to store, or Sync and Close would lose data they vouch for
\* (minfs_target.cc:34, vnode.cc:371).
CleanIsStored ==
  ~writeFailed /\ (~file.dirty \/ (linked /\ vnode # "open")) => file.unsaved = {}

\* Every block of the volume is available, kept by the journal, reserved or the
\* file's, also after writes have failed; and new_blocks_, which the file's block
\* count is made of, counts the pending blocks that are new (vnode_allocation.h:66-72).
BlocksAccountedFor ==
  file.failed = {} =>
    /\ file.free + file.kept + file.reserved + Cardinality(file.backed)
         + Cardinality(file.indirect) = TotalBlocks
    /\ file.new = Cardinality(file.pending \ file.backed)

\* What the destructor asserts (file_target.cc:28-29): "File was found dirty".
NeverFoundDirty == "File was found dirty" \notin file.failed

================================================================================
