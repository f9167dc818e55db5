------------------------------ MODULE VnodeMapper ------------------------------
(***************************************************************************)
(* From the blocks of a file to blocks of the device.  The first pointers    *)
(* are in the inode; the others in indirect blocks, which have a place each  *)
(* in the "indirect file": the leaves of the inode's indirect pointers, the  *)
(* doubly indirect blocks, and the leaves of these.  The indirect file is a  *)
(* buffer in memory whose blocks are read when they are first needed.  An    *)
(* iterator holds a view of the pointers on each of up to three levels,      *)
(* changes them in memory, and as it moves on writes the indirect blocks it  *)
(* leaves, allocating those that are missing and freeing those that are      *)
(* empty.                                                                   *)
(*                                                                         *)
(* One step is one operation of a client, from the first look-up of its      *)
(* iterator to the last flush: nothing else uses the vnode in between.       *)
(* Device blocks are abstracted: an indirect block is there or not, and the   *)
(* data blocks of a file lie in a few areas of the device, neighbours next    *)
(* to each other if they are in the same one.                               *)
(***************************************************************************)
EXTENDS Integers, Sequences, FiniteSets, TLC

CONSTANTS
  Direct, Indirect, DoublyIndirect, \* pointers in the inode
  PerIndirect,                      \* pointers in an indirect block
  Areas,                            \* where data blocks are, far enough from each other
  MaxMoved,                         \* bound on the blocks outside of the first area
  MaxCount                          \* bound on the blocks of one BlocksSwap

ASSUME VnodeMapperAssumption ==
  /\ Direct \in Nat \ {0} /\ Indirect \in Nat /\ DoublyIndirect \in Nat
  /\ PerIndirect \in Nat \ {0}
  /\ Areas \subseteq Nat \ {0} /\ MaxCount \in Nat /\ MaxMoved \in Nat

VARIABLES
  vnode,   \* the pointers in memory and on the device, see New
  map      \* history: what the clients have made of the file, [FileBlock -> Nat]

vars == <<vnode, map>>

Max2(a, b) == IF a > b THEN a ELSE b
Min2(a, b) == IF a < b THEN a ELSE b

IndirectFileStartBlock == Direct
DoubleIndirectFileStartBlock == Direct + PerIndirect * Indirect
MaxBlocks == DoubleIndirectFileStartBlock + PerIndirect * PerIndirect * DoublyIndirect
FileBlock == 0..(MaxBlocks - 1)

\* The indirect file: pointers start at these places for the doubly indirect blocks
\* and for their leaves.
DoubleIndirectViewStart == Indirect * PerIndirect
DoubleIndirectLeafViewStart == DoubleIndirectViewStart + DoublyIndirect * PerIndirect
IndirectBlock == 0..(Indirect + DoublyIndirect + DoublyIndirect * PerIndirect - 1)

BlockOf(place) == place \div PerIndirect
PointersOf(k) == (k * PerIndirect)..(k * PerIndirect + PerIndirect - 1)

Foreign == -1  \* found in a block that is not, or no longer, the file's

Zeros(n) == [p \in 0..(n - 1) |-> 0]
NewPointers ==
  [dnum |-> Zeros(Direct), inum |-> Zeros(Indirect), dinum |-> Zeros(DoublyIndirect),
   file |-> Zeros(DoubleIndirectLeafViewStart + DoublyIndirect * PerIndirect * PerIndirect),
   block_count |-> 0]

New ==
  [ptr |-> NewPointers,     \* in memory
   stored |-> [NewPointers EXCEPT !.file = [p \in DOMAIN @ |-> Foreign]],
                            \* as the transactions leave the device
   loaded |-> {},           \* blocks of the indirect file that have been read
   written |-> {},          \* history: those written since the vnode was made
   reserved |-> 0,          \* what is left of the operation's reservation
   failed |-> {}]

Init == vnode = New /\ map = [b \in FileBlock |-> 0]

Fails(v, what) == [v EXCEPT !.failed = @ \union {what}]

(***************************************************************************)
(* The indirect file.                                                      *)
(***************************************************************************)
\* Where the pointer to a block of the indirect file is.
ParentOf(k) ==
  IF k < Indirect THEN [bank |-> "inum", place |-> k]
  ELSE IF k < Indirect + DoublyIndirect THEN [bank |-> "dinum", place |-> k - Indirect]
  ELSE [bank |-> "file", place |-> k - (Indirect + DoublyIndirect) + DoubleIndirectViewStart]

ParentPointer(v, k) == v.ptr[ParentOf(k).bank][ParentOf(k).place]

\* A block that is not there reads as zeros.
ReadBlock(v, k) ==
  LET mapped == ParentPointer(v, k) # 0
  IN [v EXCEPT !.ptr.file = [p \in PointersOf(k) |-> IF mapped THEN v.stored.file[p] ELSE 0] @@ @,
               !.loaded = @ \union {k},
               !.failed = IF mapped /\ k \in v.written THEN @ \union {"read back"} ELSE @]

\* LazyBuffer::GetView: to read a leaf, the block that points to it is read first.
ParentLoaded(v, k) ==
  LET parent == BlockOf(ParentOf(k).place)
  IN IF ParentOf(k).bank = "file" /\ parent \notin v.loaded THEN ReadBlock(v, parent) ELSE v

Loaded(v, k) == IF k \in v.loaded THEN v ELSE ReadBlock(ParentLoaded(v, k), k)

\* Flushers.  The mapper would allocate a block that is missing; FlushLevel has seen to it.
InodeSync(v) ==
  [v EXCEPT !.stored.dnum = v.ptr.dnum, !.stored.inum = v.ptr.inum, !.stored.dinum = v.ptr.dinum,
            !.stored.block_count = v.ptr.block_count]

FlushIndirect(v, k) ==
  [v EXCEPT !.stored.file = [p \in PointersOf(k) |-> v.ptr.file[p]] @@ @,
            !.written = @ \union {k},
            !.failed = IF ParentPointer(v, k) # 0 THEN @ ELSE @ \union {"flushed without a block"}]

BlockNew(v) ==
  IF v.reserved = 0 THEN Fails(v, "reserved_ > 0") ELSE [v EXCEPT !.reserved = @ - 1]
AllocateIndirect(v) == [BlockNew(v) EXCEPT !.ptr.block_count = @ + 1]
DeleteBlock(v) == [v EXCEPT !.ptr.block_count = @ - 1]

\* Others may use a block that was freed.
Overwritten(v, level) ==
  [v EXCEPT !.stored.file = [p \in PointersOf(BlockOf(level.start)) |-> Foreign] @@ @]

ShrunkTooFar(v, blocks) == [v EXCEPT !.loaded = {k \in @ : k + 1 < blocks}]
Shrunk(v, blocks) == [v EXCEPT !.loaded = {k \in @ : k < blocks}]

(***************************************************************************)
(* Levels of the iterator, the one with the data blocks first.  A level is   *)
(* sparse, without a view, as long as the pointer above it is zero.          *)
(***************************************************************************)
IndirectLevel(place) ==
  [bank |-> "file", start |-> PerIndirect * BlockOf(place), index |-> place % PerIndirect,
   valid |-> FALSE, dirty |-> FALSE]
InodeLevel(bank, place) == [bank |-> bank, start |-> 0, index |-> place, valid |-> FALSE, dirty |-> FALSE]

LevelsFor(b) ==
  LET r == b - IndirectFileStartBlock
      s == b - DoubleIndirectFileStartBlock
  IN IF b < IndirectFileStartBlock THEN <<InodeLevel("dnum", b)>>
     ELSE IF b < DoubleIndirectFileStartBlock
     THEN <<IndirectLevel(r), InodeLevel("inum", r \div PerIndirect)>>
     ELSE IF b < MaxBlocks
     THEN <<IndirectLevel(s + DoubleIndirectLeafViewStart),
            IndirectLevel(s \div PerIndirect + DoubleIndirectViewStart),
            InodeLevel("dinum", s \div (PerIndirect * PerIndirect))>>
     ELSE <<>>

CountOf(level) ==
  CASE level.bank = "dnum" -> Direct [] level.bank = "inum" -> Indirect
    [] level.bank = "dinum" -> DoublyIndirect [] level.bank = "file" -> PerIndirect

Pointer(v, level, index) == IF level.valid THEN v.ptr[level.bank][level.start + index] ELSE 0
BlkOf(v, level) == Pointer(v, level, level.index)
Blk(v, i) == IF i.levels = <<>> THEN 0 ELSE BlkOf(v, i.levels[1])

ViewLoaded(v, level) == IF level.bank = "file" THEN Loaded(v, BlockOf(level.start)) ELSE v

\* VnodeIterator::Init, from the top level down.
Opened(above, level) ==
  IF BlkOf(above.v, above.level) = 0 THEN [v |-> above.v, level |-> level]
  ELSE [v |-> ViewLoaded(above.v, level), level |-> [level EXCEPT !.valid = TRUE]]

IteratorOf(v, b, levels) ==
  LET n == Len(levels)
      open[l \in 1..n] ==
        IF l = n THEN [v |-> v, level |-> [levels[l] EXCEPT !.valid = TRUE]]
        ELSE Opened(open[l + 1], levels[l])
      result(o) ==
        [v |-> IF n = 0 THEN v ELSE o[1].v,
         it |-> [block |-> b, contiguous |-> 0, levels |-> SubSeq([l \in 1..n |-> o[l].level], 1, n)]]
  IN result(open)

InitIterator(v, b) == IteratorOf(v, b, LevelsFor(b))

\* In the following, s is a vnode with an iterator.
PointerSet(v, i, l, blk) ==
  LET level == i.levels[l]
  IN [v |-> [v EXCEPT !.ptr[level.bank] = (level.start + level.index :> blk) @@ @],
      it |-> [i EXCEPT !.levels[l].valid = TRUE, !.levels[l].dirty = TRUE]]

SetBlk(s, l, blk) ==
  LET level == s.it.levels[l] IN
  IF ~level.valid /\ blk = 0 THEN s
  ELSE PointerSet(IF level.valid THEN s.v ELSE ViewLoaded(s.v, level), s.it, l, blk)

FlushView(s, l) ==
  LET level == s.it.levels[l] IN
  IF ~level.dirty THEN s
  ELSE [v |-> IF level.bank = "file" THEN FlushIndirect(s.v, BlockOf(level.start)) ELSE InodeSync(s.v),
        it |-> [s.it EXCEPT !.levels[l].dirty = FALSE]]

IsEmptyAtIndex(v, level) == BlkOf(v, level) = 0
IsEmpty(v, level) ==
  BlkOf(v, level) = 0 /\ \A x \in 0..(PerIndirect - 1) : Pointer(v, level, x) = 0

\* The block of a level has become empty ...
Deallocated(s, l) ==
  LET level == s.it.levels[l]
      v == IF level.valid THEN s.v ELSE Fails(s.v, "view.count() == kMinfsDirectPerIndirect")
  IN SetBlk([v |-> Overwritten(DeleteBlock(v), level), it |-> [s.it EXCEPT !.levels[l].dirty = FALSE]],
            l + 1, 0)

\* ... or is needed.
Allocated(s, l) == SetBlk([s EXCEPT !.v = AllocateIndirect(@)], l + 1, 1)

FlushLevel(s, l) ==
  LET level == s.it.levels[l]
      hasParent == l < Len(s.it.levels)
      parent == BlkOf(s.v, s.it.levels[l + 1])
  IN IF hasParent /\ parent # 0 /\ IsEmpty(s.v, level) THEN Deallocated(s, l)
     ELSE FlushView(IF hasParent /\ parent = 0 /\ level.dirty THEN Allocated(s, l) ELSE s, l)

FlushLevels(s, L) ==
  LET flushed[l \in 0..Len(s.it.levels)] ==
        IF l = 0 THEN s ELSE IF l \in L THEN FlushLevel(flushed[l - 1], l) ELSE flushed[l - 1]
  IN flushed[Len(s.it.levels)]

Flush(s) == FlushLevels(s, DOMAIN s.it.levels)

\* A view that is dropped must be clean.
Dropped(s, L) ==
  IF \E l \in L : s.it.levels[l].dirty THEN Fails(s.v, "Flush not called on dirty buffer") ELSE s.v

(***************************************************************************)
(* Runs of blocks: all missing, or one after the other on the device.       *)
(***************************************************************************)
IsRun(a, from, count) ==
  IF a[from] = 0 THEN \A x \in 0..(count - 1) : a[from + x] = 0
  ELSE \A x \in 0..(count - 1) : a[from + x] = a[from] + x

Coalesce(a, from, max) ==
  CHOOSE c \in 1..max : IsRun(a, from, c) /\ (c < max => ~IsRun(a, from, c + 1))

PowerOf[n \in Nat] == IF n = 0 THEN 1 ELSE PerIndirect * PowerOf[n - 1]

\* A run of missing blocks goes on in the level above, behind the pointer that leads here.
SearchAgain(level, l) == level.index
SearchFrom(level, l) == IF l = 1 THEN level.index ELSE level.index + 1

ComputeContiguousBlockCount(v, i) ==
  LET n == Len(i.levels)
      missing[l \in 1..n] ==
        LET level == i.levels[l]
            index == SearchFrom(level, l)
            left == CountOf(level) - index
            above == IF l = n THEN 0 ELSE missing[l + 1]
            count == Coalesce(v.ptr[level.bank], level.start + index, left)
        IN CASE left = 0 \/ ~level.valid -> left * PowerOf[l - 1] + above
             [] left > 0 /\ level.valid /\ Pointer(v, level, index) # 0 -> 0
             [] left > 0 /\ level.valid /\ Pointer(v, level, index) = 0 ->
                  count * PowerOf[l - 1] + (IF count < left THEN 0 ELSE above)
  IN IF n = 0 THEN 0
     ELSE IF Blk(v, i) = 0 THEN missing[1]
     ELSE Coalesce(v.ptr[i.levels[1].bank], i.levels[1].start + i.levels[1].index,
                   CountOf(i.levels[1]) - i.levels[1].index)

GetContiguousBlockCount(v, i) ==
  IF i.levels = <<>> \/ i.contiguous # 0 THEN i ELSE [i EXCEPT !.contiguous = ComputeContiguousBlockCount(v, i)]

(***************************************************************************)
(* Advance.  Levels whose range stays keep their view and what is unwritten *)
(* in it; the others are flushed.                                          *)
(***************************************************************************)
SameRange(a, b) == a.bank = b.bank /\ a.start = b.start

Kept(i, next) ==
  {l \in DOMAIN i.levels :
     Len(next.levels) = Len(i.levels) /\ SameRange(i.levels[l], next.levels[l])}

\* The iterator next takes over the views on levels L from that of s.
TakeOver(s, next, L) ==
  [v |-> Dropped(s, DOMAIN s.it.levels \ L),
   it |-> [next EXCEPT !.levels = SubSeq(
             [l \in DOMAIN @ |->
                IF l \in L THEN [@[l] EXCEPT !.valid = s.it.levels[l].valid, !.dirty = s.it.levels[l].dirty]
                ELSE @[l]], 1, Len(@))]]

Replaced(i, next) ==
  LET kept == Kept(i, next.it)
  IN TakeOver(FlushLevels([v |-> next.v, it |-> i], DOMAIN i.levels \ kept), next.it, kept)

Advance(s, count) ==
  LET i == s.it
  IN IF i.levels # <<>> /\ i.levels[1].index + count < CountOf(i.levels[1])
     THEN [s EXCEPT !.it.levels[1].index = @ + count, !.it.block = @ + count,
                    !.it.contiguous = IF count >= @ THEN 0 ELSE @ - count]
     ELSE Replaced(i, InitIterator(s.v, i.block + count))

\* The blocks a write needs at most, leaves and doubly indirect blocks included.
RequiredWithoutDoublyIndirect(start, count) ==
  LET last == start + count - 1
      firstIndirect == (Max2(start, Direct) - Direct) \div PerIndirect
      lastIndirect == (last - Direct) \div PerIndirect
  IN count + (IF last < Direct THEN 0 ELSE lastIndirect - firstIndirect + 1)

GetRequiredBlockCount(start, count) ==
  LET last == start + count - 1
      firstIndirect == (Max2(start, Direct) - Direct) \div PerIndirect
      lastIndirect == (last - Direct) \div PerIndirect
      firstDoubly == (Max2(firstIndirect, Indirect) - Indirect) \div PerIndirect
      lastDoubly == (lastIndirect - Indirect) \div PerIndirect
  IN count + (IF last < Direct THEN 0 ELSE lastIndirect - firstIndirect + 1)
           + (IF last < Direct \/ lastIndirect < Indirect THEN 0 ELSE lastDoubly - firstDoubly + 1)

(***************************************************************************)
(* The clients.                                                            *)
(***************************************************************************)
Iterator(start, reserved) == InitIterator([vnode EXCEPT !.reserved = reserved], start)

Working == vnode.failed = {}

\* Bounds the number of blocks in areas other than the first.
Moved == {b \in FileBlock : map'[b] # 0 /\ \E area \in Areas : area + b < map'[b]}

\* The operation ends: the iterator goes and the inode is synced.
Ended(s) == Dropped(s, DOMAIN s.it.levels)
Finish(s) == vnode' = [InodeSync(Ended(s)) EXCEPT !.reserved = 0]

\* The current block is given another device block.
Acquired(s, area) ==
  LET isNew == Blk(s.v, s.it) = 0
  IN SetBlk([s EXCEPT !.v = [BlockNew(@) EXCEPT !.ptr.block_count = IF isNew THEN @ + 1 ELSE @]],
            1, area + s.it.block)

\* File::BlocksSwap gives every block a new one, which is in another place than the old.
BlocksSwap(start, count, area) ==
  LET swapped[n \in 0..count] ==
        IF n = 0 THEN Iterator(start, GetRequiredBlockCount(start, count))
        ELSE Advance(Acquired(swapped[n - 1], area), 1)
      swaps == start..(start + count - 1)
  IN /\ Working
     /\ map' = [b \in FileBlock |-> IF b \in swaps THEN area + b ELSE map[b]]
     /\ Cardinality(Moved) <= MaxMoved
     /\ Finish(Flush(swapped[count]))

\* A directory's BlockGetWritable gives a missing one.
BlockGetWritable(n, area) ==
  /\ Working
  /\ Blk(Iterator(n, 0).v, Iterator(n, 0).it) = 0
  /\ map' = [map EXCEPT ![n] = area + n]
  /\ Cardinality(Moved) <= MaxMoved
  /\ Finish(Flush(Acquired(Iterator(n, GetRequiredBlockCount(n, 1)), area)))

\* BlocksShrink frees what is there, skips what is not, and cuts the indirect file.
BlocksKept(start) ==
  LET pointers == IF start <= IndirectFileStartBlock THEN 0
                  ELSE IF start <= DoubleIndirectFileStartBlock THEN start - IndirectFileStartBlock
                  ELSE start - DoubleIndirectFileStartBlock + (Indirect + DoublyIndirect) * PerIndirect
  IN (pointers + PerIndirect - 1) \div PerIndirect

\* The rest of the run is skipped, as far as block end.
Skip(s, i, end) == Advance([s EXCEPT !.it = i], Min2(i.contiguous, end - i.block))
SkipRun(s, end) ==
  IF s.it.block = end THEN s ELSE Skip(s, GetContiguousBlockCount(s.v, s.it), end)

FreeOrSkip(s) ==
  IF Blk(s.v, s.it) = 0 THEN SkipRun(s, MaxBlocks)
  ELSE Advance(SetBlk([s EXCEPT !.v = DeleteBlock(@)], 1, 0), 1)

CutTo(s, blocks) == [s EXCEPT !.v = Shrunk(@, blocks)]

BlocksShrink(start) ==
  LET shrunk[n \in 0..(MaxBlocks - start)] ==
        IF n = 0 THEN Iterator(start, 0) ELSE FreeOrSkip(shrunk[n - 1])
  IN /\ Working
     /\ map' = [b \in FileBlock |-> IF b >= start THEN 0 ELSE map[b]]
     /\ Finish(CutTo(Flush(shrunk[MaxBlocks - start]), BlocksKept(start)))

\* InitVmo looks all runs up, without a transaction.
InitVmo(count) ==
  LET read[n \in 0..count] ==
        IF n = 0 THEN Iterator(0, 0) ELSE SkipRun(read[n - 1], count)
  IN Working /\ vnode' = Ended(read[count]) /\ UNCHANGED map

\* The vnode goes and comes back from the device, once all it wrote is there.
Recreate ==
  /\ Working
  /\ vnode' = [New EXCEPT !.stored = vnode.stored,
                          !.ptr = [vnode.stored EXCEPT !.file = NewPointers.file]]
  /\ UNCHANGED map

Next ==
  \/ \E start \in FileBlock, area \in Areas :
       \E count \in 1..Min2(MaxCount, MaxBlocks - start) : BlocksSwap(start, count, area)
  \/ \E n \in FileBlock, area \in Areas : BlockGetWritable(n, area)
  \/ \E start \in FileBlock : BlocksShrink(start)
  \/ \E count \in 1..MaxBlocks : InitVmo(count)
  \/ Recreate

Spec == Init /\ [][Next]_vars

(***************************************************************************)
(* Properties.                                                             *)
(***************************************************************************)
\* The indirect blocks that blocks B of a file need.
Needed(B) ==
  {(b - IndirectFileStartBlock) \div PerIndirect :
     b \in {c \in B : IndirectFileStartBlock <= c /\ c < DoubleIndirectFileStartBlock}}
  \union UNION {LET r == b - DoubleIndirectFileStartBlock
               IN {Indirect + r \div (PerIndirect * PerIndirect), Indirect + DoublyIndirect + r \div PerIndirect} :
               b \in {c \in B : c >= DoubleIndirectFileStartBlock}}

Mapped == {b \in FileBlock : map[b] # 0}

\* A lookup finds for every block what the clients have put there, and the run it
\* returns is one (vnode_mapper.cc:253-266, 388-427).
LookupIsMap ==
  Working => \A b \in FileBlock :
    LET s == InitIterator(vnode, b)
        count == ComputeContiguousBlockCount(s.v, s.it)
    IN /\ Blk(s.v, s.it) = map[b]
       /\ count \in 1..(MaxBlocks - b)
       /\ IsRun(map, b, count)

\* On the device, too, and with no indirect block missing and none kept that is
\* empty; the inode's count is what fsck counts.
StoredIsMap ==
  Working =>
    LET P == vnode.stored
        there(k) == P[ParentOf(k).bank][ParentOf(k).place] \notin {0, Foreign}
    IN /\ \A b \in FileBlock :
            LET level == LevelsFor(b)[1] IN
            IF b < IndirectFileStartBlock THEN P.dnum[b] = map[b]
            ELSE there(BlockOf(level.start)) => P.file[level.start + level.index] = map[b]
       /\ \A k \in IndirectBlock : there(k) <=> k \in Needed(Mapped)
       /\ P.block_count = Cardinality(Mapped) + Cardinality(Needed(Mapped))

\* No assertion fails: no view is dropped that has something to write
\* (buffer_view.cc:9, 12), none is missing where one is needed, and what was
\* reserved suffices (allocator_reservation.cc:38).
MapperAssertionsHold == vnode.failed \subseteq {"read back"}

\* An indirect block that this vnode has written is never read from the device
\* again: the journal may not have written it there yet.
NeverReadsBack == "read back" \notin vnode.failed

================================================================================
