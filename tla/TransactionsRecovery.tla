-------------------------- MODULE TransactionsRecovery --------------------------
(***************************************************************************)
(* Why a crash loses nothing that was committed.  The argument follows the  *)
(* disk through the journal: h[0] is the disk as a replay would leave it    *)
(* now, and h[k] as it will be once the first k entries are written.  The   *)
(* invariant says of all these disks what the properties say of the first,  *)
(* ties the last one to the memory the operations work on, and keeps the    *)
(* blocks of each out of the allocator's reach until it is past.  The last  *)
(* part is about space: when a transaction waits for it, and when an        *)
(* operation is refused.                                                    *)
(***************************************************************************)
EXTENDS TransactionsProofs

HistoryOf(h) ==
  /\ h \in [0..Len(entries) -> DiskState]
  /\ h[0] = durable
  /\ \A i \in 1..Len(entries) : h[i] = After(h[i - 1], entries[i])
  /\ \A i \in 1..Len(entries) : entries[i].written =>
       i = 1 /\ entries[i].data = {} /\ h[1] = h[0]

\* What a replay yields is a sound volume.
Sound(d) ==
  /\ d.map = {0} \union {d.block[s] : s \in Slot}
  /\ \A s, t \in Slot : s # t /\ d.block[s] # 0 => d.block[s] # d.block[t]
  /\ d.used = Cardinality(d.map)

SoundThroughout(h) == \A k \in 0..Len(entries) : Sound(h[k])

\* A block of the disk after k entries is not handed out: it is in use, or a later
\* entry frees it and still keeps it.
OutOfReach(b, k) ==
  \/ b \in map
  \/ \E m \in (k + 1)..Len(entries) : entries[m].frees /\ b \in dealloc[entries[m].txn]

NothingReused(h) ==
  \A k \in 0..Len(entries), s \in Slot : h[k].block[s] # 0 => OutOfReach(h[k].block[s], k)

\* A block still to be written is for a slot of its entry, and no disk has it that a
\* replay could yield before that entry, or for anything else.
WritesAreFor(h) ==
  \A j \in 1..Len(entries) : \A d \in entries[j].data :
    /\ h[j].block[d.slot] = d.block
    /\ \A k \in 0..Len(entries), s \in Slot :
         h[k].block[s] = d.block => k >= j /\ s = d.slot /\ h[k].ver[s] = d.ver

\* The data of a block is in it, or is to be written before the entry that needs it.
DataOf(d, s) == [block |-> d.block[s], slot |-> s, ver |-> d.ver[s]]

DataIsThere(h) ==
  \A k \in 0..Len(entries), s \in Slot : h[k].block[s] # 0 =>
    \/ content[h[k].block[s]] = [slot |-> s, ver |-> h[k].ver[s]]
    \/ \E j \in 1..k : DataOf(h[k], s) \in entries[j].data

\* The memory is ahead of the last of these disks by the pending blocks, and by what the
\* operation under way has done to its file.
Touched(s) == op.stage \in Using /\ FileOf[s] = op.file

InMemoryOf(s, d) ==
  /\ ver[s] >= d.ver[s]
  /\ ~Touched(s) => ptr[s] = d.block[s] /\ (s \notin pending => ver[s] = d.ver[s])
  /\ s \in pending => ptr[s] \in {0, d.block[s]}
  /\ s \notin pending /\ ptr[s] # 0 =>
       \/ ptr[s] = d.block[s] /\ ver[s] = d.ver[s]
       \/ op.stage = "swap" /\ [block |-> ptr[s], slot |-> s, ver |-> ver[s]] \in op.data

MemoryFollows(d) == d.map = map /\ d.used = used /\ \A s \in Slot : InMemoryOf(s, d)

\* The blocks of the inodes in memory are those that a commit would leave in the bitmap.
PointersAreClaimed ==
  /\ \A s, t \in Slot : s # t /\ ptr[s] # 0 => ptr[s] # ptr[t]
  /\ op.stage \in Using =>
       {0} \union {ptr[s] : s \in Slot} = (map \ dealloc[op.txn]) \union alloc[op.txn]
  /\ op.stage = "swap" => \A d \in op.data :
       /\ d.block \in alloc[op.txn] /\ d.block = ptr[d.slot] /\ d.ver = ver[d.slot]
       /\ FileOf[d.slot] = op.file /\ d.slot \notin pending

\* Versions only grow, and a sync waits for entries that have what it vouches for.
VersionsGrow(h) ==
  /\ \A k \in 1..Len(entries), s \in Slot : h[k].ver[s] >= h[k - 1].ver[s]
  /\ sync.wait >= 0 => sync.wait <= Len(entries)
                       /\ \A s \in Slot : sync.want[s] <= h[sync.wait].ver[s]
  /\ \A s \in Slot : synced[s] <= durable.ver[s]

\* All but what the syncs are about.
DiskInv(h) ==
  /\ HistoryOf(h) /\ SoundThroughout(h) /\ NothingReused(h) /\ WritesAreFor(h) /\ DataIsThere(h)
  /\ MemoryFollows(h[Len(entries)]) /\ PointersAreClaimed

RecoveryInv == \E h : DiskInv(h) /\ VersionsGrow(h)

LEMMA HistoryTypes ==
  ASSUME NEW h, HistoryOf(h), Types
  PROVE  /\ Len(entries) \in Nat /\ 0 \in 0..Len(entries) /\ Len(entries) \in 0..Len(entries)
         /\ \A k \in 0..Len(entries), s \in Slot :
              /\ h[k] \in DiskState /\ h[k].block[s] \in Block /\ h[k].ver[s] \in Nat
<1>1. Len(entries) \in Nat
  BY EntryTypes
<1>2. \A k \in 0..Len(entries) : h[k] \in DiskState
  BY DEF HistoryOf
<1>. QED
  BY <1>1, <1>2 DEF DiskState

LEMMA FreedAreCommitted ==
  ASSUME Invariants, NEW i \in 1..Len(entries), entries[i].frees
  PROVE  /\ entries[i].txn \in Reservation /\ A!Committed(entries[i].txn)
         /\ entries[i].txn # op.txn \/ op.stage = "close"
<1>1. entries[i].txn \in Reservation
  BY EntryTypes DEF Invariants, OwnersInv, JournalEntry
<1>2. A!Committed(entries[i].txn)
  BY DEF Invariants, OwnersInv, EntriesKeepBlocks, Keeps
<1>3. op.stage # "close" => phase[op.txn] \notin {"committed", "journal"} \/ op.txn = None
  BY DEF Invariants, OwnersInv, OperationOwns, PhaseAt
<1>. QED
  BY <1>1, <1>2, <1>3, TransactionsAssumption DEF A!Committed

(***************************************************************************)
(* Steps that leave disk, journal and bitmap alone.                         *)
(***************************************************************************)

LEMMA SameHistory ==
  ASSUME NEW h, DiskInv(h), Invariants, UNCHANGED <<entries, durable, content, map>>,
         \A i \in 1..Len(entries) : entries[i].frees =>
           dealloc'[entries[i].txn] = dealloc[entries[i].txn]
  PROVE  /\ HistoryOf(h)' /\ SoundThroughout(h)' /\ NothingReused(h)' /\ WritesAreFor(h)'
         /\ DataIsThere(h)'
<1>1. HistoryOf(h)' /\ SoundThroughout(h)'
  BY DEF DiskInv, HistoryOf, SoundThroughout
<1>2. NothingReused(h)'
  <2>. PICK n \in Nat : n = Len(entries)
    BY EntryTypes DEF Invariants, OwnersInv
  <2>1. \A b : \A k \in 0..n : OutOfReach(b, k) => OutOfReach(b, k)'
    <3>. SUFFICES ASSUME NEW b, NEW k \in 0..n, OutOfReach(b, k), b \notin map
                  PROVE  \E m \in (k + 1)..n : entries[m].frees /\ b \in dealloc'[entries[m].txn]
      BY DEF OutOfReach
    <3>1. PICK m \in (k + 1)..n : entries[m].frees /\ b \in dealloc[entries[m].txn]
      BY DEF OutOfReach
    <3>2. m \in 1..n
      OBVIOUS
    <3>. QED
      BY <3>1, <3>2
  <2>. QED
    BY <2>1 DEF DiskInv, NothingReused
<1>3. WritesAreFor(h)' /\ DataIsThere(h)'
  BY DEF DiskInv, WritesAreFor, DataIsThere
<1>. QED
  BY <1>1, <1>2, <1>3

\* Steps of an operation that is not at work on the blocks.
LEMMA CalmStep ==
  ASSUME NEW h, DiskInv(h), Invariants, Types', op.stage \notin Using,
         UNCHANGED <<entries, durable, content, map, used, ptr>>,
         pending \subseteq pending',
         \A s \in Slot : ver'[s] >= ver[s] /\ (s \notin pending' => ver'[s] = ver[s]),
         \A r \in Reservation : A!Committed(r) => dealloc'[r] = dealloc[r],
         op'.stage \in Using =>
           op'.data = {} /\ alloc'[op'.txn] = {} /\ dealloc'[op'.txn] = {}
  PROVE  DiskInv(h)'
<1>. PICK n \in Nat : n = Len(entries)
  BY EntryTypes DEF Invariants, OwnersInv
<1>. PICK last : last = h[n]
  OBVIOUS
<1>1. /\ HistoryOf(h)' /\ SoundThroughout(h)' /\ NothingReused(h)' /\ WritesAreFor(h)'
      /\ DataIsThere(h)'
  <2>1. \A i \in 1..Len(entries) : entries[i].frees =>
          dealloc'[entries[i].txn] = dealloc[entries[i].txn]
    BY FreedAreCommitted
  <2>. QED
    BY <2>1, SameHistory
<1>2. \A s \in Slot : /\ ver[s] \in Nat /\ ver'[s] \in Nat /\ last.ver[s] \in Nat
                      /\ ver[s] >= last.ver[s] /\ ptr[s] = last.block[s]
                      /\ (s \notin pending => ver[s] = last.ver[s])
  <2>1. \A s \in Slot : InMemoryOf(s, last) /\ ~Touched(s)
    BY DEF DiskInv, MemoryFollows, Touched
  <2>2. \A s \in Slot : ver[s] \in Nat /\ ver'[s] \in Nat /\ last.ver[s] \in Nat
    BY HistoryTypes DEF DiskInv, Invariants, OwnersInv, Types
  <2>. QED
    BY <2>1, <2>2 DEF InMemoryOf
<1>3. last.map = map /\ last.used = used
  BY DEF DiskInv, MemoryFollows
<1>4. MemoryFollows(h[n])'
  <2>1. \A s \in Slot : InMemoryOf(s, last)'
    BY <1>2 DEF InMemoryOf
  <2>. QED
    BY <1>3, <2>1 DEF MemoryFollows
<1>5. PointersAreClaimed'
  <2>1. Sound(last)
    BY HistoryTypes DEF DiskInv, SoundThroughout, Invariants, OwnersInv
  <2>2. \A s, t \in Slot : s # t /\ ptr[s] # 0 => ptr[s] # ptr[t]
    BY <1>2, <2>1 DEF Sound
  <2>3. {0} \union {ptr[s] : s \in Slot} = map
    BY <1>2, <1>3, <2>1 DEF Sound
  <2>. QED
    BY <2>2, <2>3 DEF PointersAreClaimed, Using
<1>. QED
  BY <1>1, <1>4, <1>5 DEF DiskInv

\* A reservation that is nobody's at work has no blocks.
LEMMA UntouchedIsEmpty ==
  ASSUME Invariants, NEW r \in Reservation, phase[r] \in {"none", "open"},
         r # op.txn \/ op.stage \notin Using
  PROVE  alloc[r] = {} /\ dealloc[r] = {}
BY DEF Invariants, OwnersInv, BlocksAreOwned, A!Committed

LEMMA CalmSteps ==
  ASSUME NEW h, DiskInv(h), Invariants, [Next]_vars, Types', op.stage \notin Using,
         \/ Begin \/ Reserved \/ Extended \/ Abandon \/ Abandoned \/ Flush \/ WriteToCache
         \/ CancelRest \/ Close
         \/ (UNCHANGED <<allocVars, memoryVars, entries, diskVars>> /\ op'.stage \notin Using)
         \/ TakeCached
  PROVE  DiskInv(h)'
<1>1. op.txn # None => op.txn \in Reservation
  BY OperationType DEF Operation
<1>2. op.stage \in {"reserve", "abandon", "abandoned", "write", "close"} =>
        op.txn \in Reservation /\ phase[op.txn] = PhaseAt(op.stage)
  BY <1>1 DEF Invariants, OwnersInv, OperationOwns
<1>3. op.stage \notin {"swap", "close"} => op.data = {}
  BY DEF Invariants, OwnersInv, OperationIsInOrder
<1>4. ver \in [Slot -> Nat] /\ op \in Operation
  BY OperationType DEF Invariants, OwnersInv, Types
<1>5. CASE Begin
  <2>. PICK r \in Reservation : r = NewReservation /\ phase[r] = "none"
    BY <1>5, Zenon DEF Begin, NewReservation
  <2>1. A!Construct(r) /\ op.stage = "begin"
    BY <1>5, SameOperations DEF Begin
  <2>2. op'.txn = r /\ op'.data = {}
    <3>1. \A stage : LET p == [op EXCEPT !.txn = r, !.after = "idle", !.stage = stage]
                     IN  p.txn = r /\ p.data = op.data
      BY <1>4 DEF Operation
    <3>. QED
      BY <1>3, <1>5, <2>1, <3>1 DEF Begin
  <2>3. alloc[r] = {} /\ dealloc[r] = {}
    BY <1>5, <2>1, UntouchedIsEmpty
  <2>4. UNCHANGED <<entries, durable, content, map, used, ptr, alloc, dealloc, ver, pending>>
    BY <1>5, <2>1 DEF Begin, A!Construct, memoryVars, journalVars, diskVars
  <2>. QED
    BY <1>4, <2>2, <2>3, <2>4, CalmStep
<1>6. CASE Reserved \/ Extended
  <2>1. A!Reserve(op.txn, op.need) /\ op.stage \in {"reserve", "continue"} /\ op.txn # None
    BY <1>2, <1>6, SameOperations, TransactionsAssumption DEF Reserved, Extended
  <2>2. op'.txn = op.txn /\ op'.data = {}
    <3>1. \A stage : LET p == [op EXCEPT !.stage = stage]
                     IN  p.txn = op.txn /\ p.data = op.data
      BY <1>4 DEF Operation
    <3>. QED
      BY <1>3, <1>6, <2>1, <3>1 DEF Reserved, Extended, Continue
  <2>3. alloc[op.txn] = {} /\ dealloc[op.txn] = {}
    BY <1>1, <2>1, UntouchedIsEmpty DEF A!Reserve
  <2>4. UNCHANGED <<entries, durable, content, map, used, ptr, alloc, dealloc, ver, pending>>
    BY <1>6, <2>1 DEF Reserved, Extended, A!Reserve, memoryVars, journalVars, diskVars
  <2>. QED
    BY <1>4, <2>2, <2>3, <2>4, CalmStep
<1>7. CASE Abandon \/ Abandoned \/ CancelRest \/ Close
  <2>1. /\ op.txn \in Reservation /\ phase[op.txn] = PhaseAt(op.stage)
        /\ \/ A!Abort(op.txn) /\ op.stage = "abandon"
           \/ A!DropAllocations(op.txn) \/ A!Cancel(op.txn) \/ A!DestroyCommitted(op.txn)
    BY <1>2, <1>7, SameOperations DEF Abandon, Abandoned, CancelRest, Close
  <2>2. /\ UNCHANGED <<map, used>>
        /\ \A r \in Reservation : A!Committed(r) => dealloc'[r] = dealloc[r]
    <3>1. CASE A!Abort(op.txn) /\ op.stage = "abandon"
      <4>1. /\ \A r \in Reservation : r # op.txn => dealloc'[r] = dealloc[r]
            /\ ~A!Committed(op.txn) /\ UNCHANGED <<map, used>>
        BY <2>1, <3>1, SpaceTypes DEF A!Abort, A!Committed, Invariants
      <4>. QED
        BY <4>1
    <3>2. CASE A!DropAllocations(op.txn) \/ A!Cancel(op.txn) \/ A!DestroyCommitted(op.txn)
      BY <3>2 DEF A!DropAllocations, A!Cancel, A!DestroyCommitted
    <3>. QED
      BY <2>1, <3>1, <3>2
  <2>3. op'.stage \notin Using
    <3>1. CASE Abandon
      <4>1. op'.stage = "abandoned"
        BY <1>4, <3>1 DEF Abandon, Continue, Operation
      <4>. QED
        BY <4>1 DEF Using
    <3>2. CASE Abandoned
      <4>1. op' = Idle \/ \E n : op' = [op EXCEPT !.stage = "wait", !.after = "begin",
                                          !.txn = None, !.retried = TRUE, !.wait = n]
        BY <3>2 DEF Abandoned, BlockingJournalSync, BlockingSyncOf
      <4>2. op'.stage \in {"idle", "wait"}
        BY <1>4, <4>1, IdleOperation DEF Operation
      <4>. QED
        BY <4>2 DEF Using
    <3>3. CASE CancelRest
      BY <3>3 DEF CancelRest
    <3>4. CASE Close
      <4>1. op.after \in {"idle", "begin", "continue", "sync"}
        BY <1>4 DEF Operation
      <4>2. op'.stage = op.after
        <5>1. CASE op.after = "idle"
          BY <3>4, <5>1, IdleOperation DEF Close
        <5>2. CASE op.after # "idle"
          <6>1. \A after : LET p == [op EXCEPT !.stage = after, !.txn = None, !.data = {}]
                           IN  p.stage = after
            BY <1>4 DEF Operation
          <6>. QED
            BY <3>4, <5>2, <6>1 DEF Close
        <5>. QED
          BY <5>1, <5>2
      <4>. QED
        BY <4>1, <4>2 DEF Using
    <3>. QED
      BY <1>7, <3>1, <3>2, <3>3, <3>4
  <2>4. UNCHANGED <<entries, durable, content, ptr, ver, pending>>
    BY <1>7 DEF Abandon, Abandoned, CancelRest, Close, memoryVars, journalVars, diskVars
  <2>. QED
    BY <1>4, <2>2, <2>3, <2>4, CalmStep
<1>8. CASE Flush
  <2>. PICK r : r = cached[op.file]
    OBVIOUS
  <2>1. /\ r \in Reservation /\ phase[r] = "open" /\ r # op.txn
        /\ UNCHANGED <<entries, durable, content, map, used, ptr, alloc, dealloc, ver, pending>>
        /\ op' = [op EXCEPT !.stage = "swap", !.txn = r] /\ op.stage = "flush"
    BY <1>8 DEF Flush, Invariants, OwnersInv, OperationOwns, CachedAreOpen, Types, allocVars,
       journalVars, diskVars
  <2>2. op'.txn = r /\ op'.data = {}
    <3>1. LET p == [op EXCEPT !.stage = "swap", !.txn = r] IN p.txn = r /\ p.data = op.data
      BY <1>4 DEF Operation
    <3>. QED
      BY <1>3, <2>1, <3>1
  <2>3. alloc[r] = {} /\ dealloc[r] = {}
    BY <2>1, UntouchedIsEmpty
  <2>. QED
    BY <1>4, <2>1, <2>2, <2>3, CalmStep
<1>9. CASE WriteToCache
  <2>1. /\ ver' = [s \in Slot |-> IF s \in op.slots THEN ver[s] + 1 ELSE ver[s]]
        /\ pending' = pending \union op.slots
        /\ UNCHANGED <<entries, durable, content, map, used, ptr, dealloc>>
    BY <1>9 DEF WriteToCache, allocVars, journalVars, diskVars
  <2>2. op'.stage \notin Using
    <3>1. op' = Idle \/ op' = [Idle EXCEPT !.file = op.file, !.stage = "flush"]
      BY <1>9 DEF WriteToCache
    <3>2. \A f : LET p == [Idle EXCEPT !.file = f, !.stage = "flush"] IN p.stage = "flush"
      BY DEF Idle
    <3>3. op'.stage \in {"idle", "flush"}
      BY <3>1, <3>2, IdleOperation
    <3>. QED
      BY <3>3 DEF Using
  <2>. QED
    BY <1>4, <2>1, <2>2, CalmStep
<1>10. CASE UNCHANGED <<allocVars, memoryVars, entries, diskVars>> /\ op'.stage \notin Using
  <2>1. UNCHANGED <<entries, durable, content, map, used, ptr, dealloc, ver, pending>>
    BY <1>10 DEF allocVars, memoryVars, diskVars
  <2>. QED
    BY <1>4, <1>10, <2>1, CalmStep
<1>11. CASE TakeCached
  <2>1. UNCHANGED <<entries, durable, content, map, used, ptr, dealloc, ver, pending>>
    BY <1>11 DEF TakeCached, allocVars, journalVars, diskVars
  <2>2. op'.stage \notin Using
    <3>1. \A r : LET p == [op EXCEPT !.txn = r] IN p.stage = op.stage
      BY <1>4 DEF Operation
    <3>. QED
      BY <1>11, <3>1 DEF TakeCached
  <2>. QED
    BY <1>4, <2>1, <2>2, CalmStep
<1>. QED
  BY <1>5, <1>6, <1>7, <1>8, <1>9, <1>10, <1>11

(***************************************************************************)
(* The operation works on its file's blocks.                                *)
(***************************************************************************)

LEMMA MemoryTypes ==
  ASSUME NEW h, DiskInv(h), Invariants
  PROVE  \A s \in Slot : /\ ver[s] \in Nat /\ ptr[s] \in Block /\ FileOf[s] \in File
                         /\ h[Len(entries)].ver[s] \in Nat
                         /\ InMemoryOf(s, h[Len(entries)])
<1>1. \A s \in Slot : h[Len(entries)].ver[s] \in Nat
  BY HistoryTypes DEF DiskInv, Invariants, OwnersInv
<1>2. \A s \in Slot : InMemoryOf(s, h[Len(entries)])
  BY DEF DiskInv, MemoryFollows
<1>. QED
  BY <1>1, <1>2, TransactionsAssumption DEF Invariants, OwnersInv, Types

LEMMA OperationHas ==
  ASSUME Invariants, op.stage \in Using
  PROVE  op.txn \in Reservation /\ phase[op.txn] = "open" /\ op.file \in File
         /\ alloc[op.txn] \intersect map = {} /\ dealloc[op.txn] \subseteq map
<1>1. op.txn \in Reservation /\ phase[op.txn] = "open" /\ op.file \in File
  BY OperationType DEF Operation, Invariants, OwnersInv, OperationOwns, PhaseAt, Using
<1>. QED
  BY <1>1, OutOfTwoReasons DEF A!Committed, Invariants

\* One of the file's blocks is freed.
LEMMA BlockFreed ==
  ASSUME NEW h, DiskInv(h), Invariants, Types', op.stage \in Using, NEW s \in Slot,
         FileOf[s] = op.file, ptr[s] # 0, op.stage = "swap" => s \in pending,
         A!Free(op.txn, ptr[s]), ptr' = [ptr EXCEPT ![s] = 0],
         ver' = ver \/ ver' = [ver EXCEPT ![s] = @ + 1],
         UNCHANGED <<op, pending, entries, durable, content>>
  PROVE  DiskInv(h)'
<1>. PICK n \in Nat : n = Len(entries)
  BY EntryTypes DEF Invariants, OwnersInv
<1>. PICK last : last = h[n]
  OBVIOUS
<1>. PICK r \in Reservation : r = op.txn
  BY OperationHas
<1>. PICK b : b = ptr[s]
  OBVIOUS
<1>1. /\ UNCHANGED <<map, used, alloc>> /\ dealloc'[r] = dealloc[r] \union {b} /\ b \in map
      /\ \A q \in Reservation : q # r => dealloc'[q] = dealloc[q]
  BY FreeEffect DEF Invariants
<1>2. /\ \A t \in Slot : /\ ver[t] \in Nat /\ ptr[t] \in Block
                         /\ last.ver[t] \in Nat /\ InMemoryOf(t, last)
      /\ ptr'[s] = 0 /\ (\A t \in Slot : t # s => ptr'[t] = ptr[t])
      /\ (\A t \in Slot : t # s => ver'[t] = ver[t]) /\ ver'[s] >= ver[s]
  <2>1. \A t \in Slot : ver[t] \in Nat /\ ptr[t] \in Block /\ last.ver[t] \in Nat
                        /\ InMemoryOf(t, last)
    BY MemoryTypes
  <2>2. ptr \in [Slot -> Block] /\ ver \in [Slot -> Nat]
    BY DEF Invariants, OwnersInv, Types
  <2>3. ver'[s] >= ver[s] /\ \A t \in Slot : t # s => ver'[t] = ver[t]
    BY <2>1, <2>2
  <2>. QED
    BY <2>1, <2>2, <2>3
<1>3. /\ HistoryOf(h)' /\ SoundThroughout(h)' /\ NothingReused(h)' /\ WritesAreFor(h)'
      /\ DataIsThere(h)'
  <2>1. \A i \in 1..Len(entries) : entries[i].frees =>
          dealloc'[entries[i].txn] = dealloc[entries[i].txn]
    BY <1>1, FreedAreCommitted DEF Using
  <2>. QED
    BY <1>1, <2>1, SameHistory
<1>4. MemoryFollows(h[n])'
  <2>1. \A t \in Slot : t # s => InMemoryOf(t, last)'
    BY <1>2 DEF InMemoryOf, Touched
  <2>2. InMemoryOf(s, last)'
    <3>1. ver[s] >= last.ver[s] /\ last.ver[s] \in Nat /\ ver[s] \in Nat /\ ver'[s] >= ver[s]
      BY <1>2 DEF InMemoryOf
    <3>2. ver'[s] \in Nat
      BY DEF Types
    <3>3. ver'[s] >= last.ver[s]
      BY <3>1, <3>2
    <3>. QED
      BY <1>2, <3>3 DEF InMemoryOf, Touched
  <2>. QED
    BY <1>1, <2>1, <2>2 DEF DiskInv, MemoryFollows
<1>5. PointersAreClaimed'
  <2>1. /\ \A u, t \in Slot : u # t /\ ptr[u] # 0 => ptr[u] # ptr[t]
        /\ {0} \union {ptr[t] : t \in Slot} = (map \ dealloc[r]) \union alloc[r]
        /\ op.stage = "swap" => \A d \in op.data :
             /\ d.block \in alloc[r] /\ d.block = ptr[d.slot] /\ d.ver = ver[d.slot]
             /\ FileOf[d.slot] = op.file /\ d.slot \notin pending
    BY DEF DiskInv, PointersAreClaimed
  <2>2. \A u, t \in Slot : u # t /\ ptr'[u] # 0 => ptr'[u] # ptr'[t]
    BY <1>2, <2>1
  <2>3. {0} \union {ptr'[t] : t \in Slot} = ({0} \union {ptr[t] : t \in Slot}) \ {b}
    BY <1>2, <2>1
  <2>4. {0} \union {ptr'[t] : t \in Slot} = (map \ dealloc'[r]) \union alloc[r]
    <3>1. b \notin alloc[r]
      BY <1>1, OperationHas
    <3>. QED
      BY <1>1, <2>1, <2>3, <3>1
  <2>5. op.stage = "swap" => \A d \in op.data :
          d.slot \in Slot /\ d.slot # s /\ ptr'[d.slot] = ptr[d.slot] /\ ver'[d.slot] = ver[d.slot]
    <3>1. \A d \in op.data : d.slot \in Slot
      BY OperationType DEF Operation, Data
    <3>. QED
      BY <1>2, <2>1, <3>1
  <2>. QED
    BY <1>1, <2>1, <2>2, <2>4, <2>5 DEF PointersAreClaimed
<1>. QED
  BY <1>3, <1>4, <1>5 DEF DiskInv

LEMMA ReleaseBlockDisk ==
  ASSUME NEW h, DiskInv(h), Invariants, Types', NEW s \in Slot, ReleaseBlock(s)
  PROVE  DiskInv(h)'
<1>1. /\ op.stage = "release" /\ FileOf[s] = op.file /\ ptr[s] # 0
      /\ A!Free(op.txn, ptr[s]) /\ ptr' = [ptr EXCEPT ![s] = 0]
      /\ ver' = [ver EXCEPT ![s] = @ + 1]
      /\ UNCHANGED <<op, pending, entries, durable, content>>
  BY SameOperations DEF ReleaseBlock, SlotsOf, journalVars, diskVars
<1>. QED
  BY <1>1, BlockFreed DEF Using

LEMMA SwapOutDisk ==
  ASSUME NEW h, DiskInv(h), Invariants, Types', SwapOut
  PROVE  DiskInv(h)'
<1>. PICK s : s = NextPending
  OBVIOUS
<1>1. /\ op.stage = "swap" /\ ptr[s] # 0 /\ A!Free(op.txn, ptr[s])
      /\ ptr' = [ptr EXCEPT ![s] = 0] /\ ver' = ver
      /\ UNCHANGED <<op, pending, entries, durable, content>>
  BY SameOperations DEF SwapOut, journalVars, diskVars
<1>2. s \in Slot /\ s \in pending /\ FileOf[s] = op.file
  BY NextPendingIsDirty DEF SwapOut, Invariants, OwnersInv, Dirty, SlotsOf
<1>. QED
  BY <1>1, <1>2, BlockFreed DEF Using

LEMMA SwapInDisk ==
  ASSUME NEW h, DiskInv(h), Invariants, Types', SwapIn
  PROVE  DiskInv(h)'
<1>. PICK n \in Nat : n = Len(entries)
  BY EntryTypes DEF Invariants, OwnersInv
<1>. PICK last : last = h[n]
  OBVIOUS
<1>. PICK s : s = NextPending
  OBVIOUS
<1>. PICK b : b = A!FindLocked
  OBVIOUS
<1>. PICK e : e = [block |-> b, slot |-> s, ver |-> ver[s]]
  OBVIOUS
<1>1. /\ op.stage = "swap" /\ op.txn \in Reservation /\ ptr[s] = 0
      /\ s \in Slot /\ s \in pending /\ FileOf[s] = op.file
      /\ A!Allocate(op.txn) /\ b \in Block \ {0} /\ e \in Data
      /\ ptr' = [ptr EXCEPT ![s] = b]
      /\ pending' = pending \ {s}
      /\ op'.data = op.data \union {e}
      /\ op'.stage = "swap" /\ op'.txn = op.txn /\ op'.file = op.file
      /\ UNCHANGED <<ver, entries, durable, content>>
  BY SwapInEffect DEF journalVars, diskVars
<1>. PICK r \in Reservation : r = op.txn
  BY <1>1
<1>2. /\ UNCHANGED <<map, used, dealloc>> /\ alloc'[r] = alloc[r] \union {b}
      /\ b \notin map /\ b \notin alloc[r]
  BY <1>1, AllocateEffect DEF Invariants, A!Committed
<1>3. /\ \A t \in Slot : InMemoryOf(t, last)
      /\ ptr'[s] = b /\ (\A t \in Slot : t # s => ptr'[t] = ptr[t])
  <2>1. ptr \in [Slot -> Block]
    BY DEF Invariants, OwnersInv, Types
  <2>. QED
    BY <1>1, <2>1, MemoryTypes
<1>4. /\ HistoryOf(h)' /\ SoundThroughout(h)' /\ NothingReused(h)' /\ WritesAreFor(h)'
      /\ DataIsThere(h)'
  BY <1>1, <1>2, SameHistory
<1>5. MemoryFollows(h[n])'
  <2>1. \A t \in Slot : t # s => InMemoryOf(t, last)'
    BY <1>1, <1>3 DEF InMemoryOf, Touched
  <2>2. InMemoryOf(s, last)'
    BY <1>1, <1>3 DEF InMemoryOf, Touched, Using
  <2>. QED
    BY <1>1, <1>2, <2>1, <2>2 DEF DiskInv, MemoryFollows
<1>6. PointersAreClaimed'
  <2>1. /\ \A u, t \in Slot : u # t /\ ptr[u] # 0 => ptr[u] # ptr[t]
        /\ {0} \union {ptr[t] : t \in Slot} = (map \ dealloc[r]) \union alloc[r]
        /\ \A d \in op.data :
             /\ d.block \in alloc[r] /\ d.block = ptr[d.slot] /\ d.ver = ver[d.slot]
             /\ FileOf[d.slot] = op.file /\ d.slot \notin pending
    BY <1>1 DEF DiskInv, PointersAreClaimed, Using
  <2>2. \A t \in Slot : ptr[t] # b
    BY <1>2, <2>1
  <2>3. \A u, t \in Slot : u # t /\ ptr'[u] # 0 => ptr'[u] # ptr'[t]
    BY <1>3, <2>1, <2>2
  <2>4. {0} \union {ptr'[t] : t \in Slot} = ({0} \union {ptr[t] : t \in Slot}) \union {b}
    BY <1>1, <1>3
  <2>5. {0} \union {ptr'[t] : t \in Slot} = (map \ dealloc[r]) \union alloc'[r]
    BY <1>2, <2>1, <2>4
  <2>6. \A d \in op.data : d.slot \in Slot /\ d.slot # s /\ ptr'[d.slot] = ptr[d.slot]
    <3>1. \A d \in op.data : d.slot \in Slot
      BY OperationType DEF Operation, Data
    <3>. QED
      BY <1>1, <1>3, <2>1, <3>1
  <2>7. e.block = b /\ e.slot = s /\ e.ver = ver[s]
    OBVIOUS
  <2>. QED
    BY <1>1, <1>2, <1>3, <2>1, <2>3, <2>5, <2>6, <2>7 DEF PointersAreClaimed
<1>. QED
  BY <1>1, <1>4, <1>5, <1>6 DEF DiskInv

(***************************************************************************)
(* A transaction commits.                                                   *)
(***************************************************************************)

LEMMA BlocksAreFinite ==
  ASSUME NEW S \in SUBSET Block PROVE IsFiniteSet(S) /\ Cardinality(S) \in Nat
<1>1. IsFiniteSet(Block)
  <2>1. 0 \in Int /\ Blocks - 1 \in Int
    BY TransactionsAssumption
  <2>. QED
    BY <2>1, FS_Interval DEF Block
<1>. QED
  BY <1>1, FS_Subset, FS_CardinalityType

LEMMA ChangedCardinality ==
  ASSUME NEW S \in SUBSET Block, NEW D \in SUBSET Block, NEW T \in SUBSET Block,
         D \subseteq S, T \intersect S = {}
  PROVE  Cardinality((S \ D) \union T) = Cardinality(S) + Cardinality(T) - Cardinality(D)
<1>1. /\ IsFiniteSet(S) /\ IsFiniteSet(D) /\ IsFiniteSet(T) /\ IsFiniteSet(S \ D)
      /\ Cardinality(S) \in Nat /\ Cardinality(D) \in Nat /\ Cardinality(T) \in Nat
      /\ Cardinality(S \ D) \in Nat
  BY BlocksAreFinite
<1>2. Cardinality(S \ D) = Cardinality(S) - Cardinality(D)
  <2>1. S \intersect D = D
    OBVIOUS
  <2>. QED
    BY <1>1, <2>1, FS_Difference
<1>3. Cardinality((S \ D) \union T) = Cardinality(S \ D) + Cardinality(T)
  <2>1. (S \ D) \intersect T = {}
    OBVIOUS
  <2>. QED
    BY <1>1, <2>1, FS_Union, FS_EmptySet
<1>. QED
  BY <1>1, <1>2, <1>3

\* The file's blocks as the operation leaves them: old ones with what the last disk has in
\* them, or new ones whose data it enqueues.
LEMMA CommittedBlocks ==
  ASSUME NEW h, DiskInv(h), Invariants, CommitTransaction, NEW s \in Slot
  PROVE  /\ ptr[s] # 0 =>
              \/ /\ ptr[s] = h[Len(entries)].block[s] /\ ver[s] = h[Len(entries)].ver[s]
                 /\ s \notin pending
              \/ s \in pending /\ FileOf[s] # op.file /\ ptr[s] = h[Len(entries)].block[s]
              \/ /\ op.stage = "swap" /\ [block |-> ptr[s], slot |-> s, ver |-> ver[s]] \in op.data
                 /\ FileOf[s] = op.file /\ ptr[s] \in alloc[op.txn]
         /\ FileOf[s] # op.file => /\ ptr[s] = h[Len(entries)].block[s]
                                   /\ s \notin pending => ver[s] = h[Len(entries)].ver[s]
         /\ ver[s] >= h[Len(entries)].ver[s]
         /\ op.stage = "swap" /\ FileOf[s] = op.file => s \notin pending
<1>. PICK last : last = h[Len(entries)]
  OBVIOUS
<1>1. InMemoryOf(s, last)
  BY MemoryTypes
<1>2. op.stage = "swap" /\ FileOf[s] = op.file => s \notin pending
  BY CommitEffect DEF Dirty, SlotsOf
<1>3. op.stage \in Using /\ (op.stage = "release" /\ FileOf[s] = op.file => ptr[s] = 0)
  BY CommitEffect DEF SlotsOf
<1>4. op.stage = "swap" => \A d \in op.data : d.block \in alloc[op.txn] /\ FileOf[d.slot] = op.file
  BY DEF DiskInv, PointersAreClaimed
<1>5. op.stage = "swap" /\ [block |-> ptr[s], slot |-> s, ver |-> ver[s]] \in op.data =>
        FileOf[s] = op.file /\ ptr[s] \in alloc[op.txn]
  BY <1>4
<1>6. FileOf[s] # op.file => ptr[s] = last.block[s] /\ (s \notin pending => ver[s] = last.ver[s])
  BY <1>1 DEF InMemoryOf, Touched
<1>7. ptr[s] # 0 /\ s \notin pending =>
        \/ ptr[s] = last.block[s] /\ ver[s] = last.ver[s]
        \/ op.stage = "swap" /\ [block |-> ptr[s], slot |-> s, ver |-> ver[s]] \in op.data
  BY <1>1 DEF InMemoryOf
<1>8. ver[s] >= last.ver[s]
  BY <1>1 DEF InMemoryOf
<1>9. ptr[s] # 0 /\ s \in pending => FileOf[s] # op.file
  BY <1>2, <1>3 DEF Using
<1>. QED
  BY <1>2, <1>5, <1>6, <1>7, <1>8, <1>9

\* The disk after the new entry is the memory, and its data is enqueued with the entry.
Extends(g, h, n, r) ==
  /\ n \in Nat /\ Len(entries') = n + 1 /\ r \in Reservation
  /\ \A i \in 1..n : entries'[i] = entries[i]
  /\ g \in [0..(n + 1) -> DiskState] /\ \A k \in 0..n : g[k] = h[k]
  /\ g[n + 1] = After(h[n], entries'[n + 1]) /\ entries'[n + 1] \in JournalEntry
  /\ entries'[n + 1].txn = r /\ (entries'[n + 1].frees <=> dealloc[r] # {})
  /\ entries'[n + 1].data = op.data /\ ~entries'[n + 1].written
  /\ g[n + 1].map = map' /\ g[n + 1].used = used'
  /\ map' = (map \ dealloc[r]) \union alloc[r]
  /\ used' = used + Cardinality(alloc[r]) - Cardinality(dealloc[r])
  /\ {0} \union {ptr[s] : s \in Slot} = map'
  /\ \A s \in Slot : /\ g[n + 1].block[s] = ptr[s]
                     /\ FileOf[s] = op.file => g[n + 1].ver[s] = ver[s]
                     /\ FileOf[s] # op.file => g[n + 1].ver[s] = h[n].ver[s]
  /\ op'.stage = "close" /\ dealloc' = dealloc
  /\ UNCHANGED <<memoryVars, diskVars, clientVars>>

LEMMA CommitHistory ==
  ASSUME NEW h, DiskInv(h), Invariants, CommitTransaction,
         NEW n, n = Len(entries), NEW last, last = h[n], NEW r, r = op.txn
  PROVE  \E g : Extends(g, h, n, r)
<1>. n \in Nat
  BY EntryTypes DEF Invariants, OwnersInv
<1>. PICK e : e = Entry(map', used')
  OBVIOUS
<1>1. /\ r \in Reservation /\ op.stage \in Using
      /\ map' = (map \ dealloc[r]) \union alloc[r]
      /\ used' = used + Cardinality(alloc[r]) - Cardinality(dealloc[r])
      /\ entries' = Append(entries, e) /\ e \in JournalEntry
      /\ e.txn = r /\ (e.frees <=> dealloc[r] # {}) /\ e.data = op.data
      /\ e.block = [s \in SlotsOf(op.file) |-> ptr[s]]
      /\ e.ver = [s \in SlotsOf(op.file) |-> ver[s]]
      /\ e.map = map' /\ e.used = used' /\ ~e.written
      /\ op'.stage = "close" /\ dealloc' = dealloc
      /\ UNCHANGED <<memoryVars, diskVars, clientVars>>
  BY CommitEffect
<1>2. /\ Len(entries') = n + 1 /\ entries'[n + 1] = e
      /\ \A i \in 1..n : entries'[i] = entries[i]
  <2>1. entries \in Seq(JournalEntry)
    BY DEF Invariants, OwnersInv, Types
  <2>2. /\ Len(Append(entries, e)) = Len(entries) + 1
        /\ \A i \in 1..Len(entries) : Append(entries, e)[i] = entries[i]
        /\ Append(entries, e)[Len(entries) + 1] = e
    BY <1>1, <2>1, AppendedSequence
  <2>. QED
    BY <1>1, <2>2
<1>. PICK new : new = After(last, e)
  OBVIOUS
<1>3. last \in DiskState /\ new \in DiskState
  <2>1. last \in DiskState
    BY DEF DiskInv, HistoryOf
  <2>. QED
    BY <1>1, <2>1, AfterType
<1>4. new.map = map' /\ new.used = used'
  BY <1>1 DEF After
<1>5. \A s \in Slot : /\ new.block[s] = (IF FileOf[s] = op.file THEN ptr[s] ELSE last.block[s])
                      /\ new.ver[s] = (IF FileOf[s] = op.file THEN ver[s] ELSE last.ver[s])
  BY <1>1 DEF After, SlotsOf
<1>6. \A s \in Slot : new.block[s] = ptr[s]
  <2>1. \A s \in Slot : FileOf[s] # op.file => ptr[s] = last.block[s]
    BY CommittedBlocks
  <2>. QED
    BY <1>5, <2>1
<1>7. {0} \union {ptr[s] : s \in Slot} = map'
  BY <1>1 DEF DiskInv, PointersAreClaimed
<1>. PICK g : g = [k \in 0..(n + 1) |-> IF k = n + 1 THEN new ELSE h[k]]
  OBVIOUS
<1>8. /\ g \in [0..(n + 1) -> DiskState] /\ (\A k \in 0..n : g[k] = h[k]) /\ g[n + 1] = new
  <2>1. \A k \in 0..(n + 1) : k = n + 1 \/ k \in 0..n
    OBVIOUS
  <2>2. \A k \in 0..n : h[k] \in DiskState /\ k \in 0..(n + 1) /\ k # n + 1
    BY DEF DiskInv, HistoryOf
  <2>. QED
    BY <1>3, <2>1, <2>2
<1>9. \A s \in Slot : /\ g[n + 1].block[s] = ptr[s]
                      /\ FileOf[s] = op.file => g[n + 1].ver[s] = ver[s]
                      /\ FileOf[s] # op.file => g[n + 1].ver[s] = last.ver[s]
  BY <1>5, <1>6, <1>8
<1>10. g[n + 1] = After(last, entries'[n + 1])
  BY <1>2, <1>8
<1>11. g[n + 1].map = map' /\ g[n + 1].used = used'
  BY <1>4, <1>8
<1>12. /\ entries'[n + 1].txn = r /\ entries'[n + 1].data = op.data /\ ~entries'[n + 1].written
       /\ entries'[n + 1] \in JournalEntry
  BY <1>1, <1>2
<1>13. entries'[n + 1].frees <=> dealloc[r] # {}
  BY <1>1, <1>2
<1>14. Extends(g, h, n, r)
  <2>1. n \in Nat /\ Len(entries') = n + 1 /\ r \in Reservation
        /\ \A i \in 1..n : entries'[i] = entries[i]
    BY <1>1, <1>2
  <2>2. g \in [0..(n + 1) -> DiskState] /\ \A k \in 0..n : g[k] = h[k]
    BY <1>8
  <2>3. g[n + 1] = After(h[n], entries'[n + 1]) /\ entries'[n + 1] \in JournalEntry
    BY <1>10, <1>12
  <2>4. /\ entries'[n + 1].txn = r /\ (entries'[n + 1].frees <=> dealloc[r] # {})
        /\ entries'[n + 1].data = op.data /\ ~entries'[n + 1].written
    BY <1>12, <1>13
  <2>5. /\ g[n + 1].map = map' /\ g[n + 1].used = used'
        /\ map' = (map \ dealloc[r]) \union alloc[r]
        /\ used' = used + Cardinality(alloc[r]) - Cardinality(dealloc[r])
        /\ {0} \union {ptr[s] : s \in Slot} = map'
    BY <1>1, <1>7, <1>11
  <2>6. \A s \in Slot : /\ g[n + 1].block[s] = ptr[s]
                        /\ FileOf[s] = op.file => g[n + 1].ver[s] = ver[s]
                        /\ FileOf[s] # op.file => g[n + 1].ver[s] = h[n].ver[s]
    BY <1>9
  <2>7. op'.stage = "close" /\ dealloc' = dealloc /\ UNCHANGED <<memoryVars, diskVars, clientVars>>
    BY <1>1
  <2>. QED
    BY <2>1, <2>2, <2>3, <2>4, <2>5, <2>6, <2>7, Zenon DEF Extends
<1>. QED
  BY <1>14

LEMMA CommitRecovery ==
  ASSUME NEW h, DiskInv(h), VersionsGrow(h), Invariants, Types', CommitTransaction
  PROVE  \E g : DiskInv(g)' /\ VersionsGrow(g)'
<1>. PICK n \in Nat : n = Len(entries)
  BY EntryTypes DEF Invariants, OwnersInv
<1>. PICK last : last = h[n]
  OBVIOUS
<1>. PICK r \in Reservation : r = op.txn
  BY CommitEffect
<1>. PICK e : e = entries'[n + 1]
  OBVIOUS
<1>1. PICK g :
        /\ Len(entries') = n + 1 /\ \A i \in 1..n : entries'[i] = entries[i]
        /\ g \in [0..(n + 1) -> DiskState] /\ \A k \in 0..n : g[k] = h[k]
        /\ g[n + 1] = After(last, e) /\ e = entries'[n + 1] /\ e \in JournalEntry
        /\ e.txn = r /\ (e.frees <=> dealloc[r] # {}) /\ e.data = op.data /\ ~e.written
        /\ g[n + 1].map = map' /\ g[n + 1].used = used'
        /\ map' = (map \ dealloc[r]) \union alloc[r]
        /\ used' = used + Cardinality(alloc[r]) - Cardinality(dealloc[r])
        /\ {0} \union {ptr[s] : s \in Slot} = map'
        /\ \A s \in Slot : /\ g[n + 1].block[s] = ptr[s]
                           /\ FileOf[s] = op.file => g[n + 1].ver[s] = ver[s]
                           /\ FileOf[s] # op.file => g[n + 1].ver[s] = last.ver[s]
        /\ op'.stage = "close" /\ dealloc' = dealloc
        /\ UNCHANGED <<memoryVars, diskVars, clientVars>>
  <2>1. PICK g : Extends(g, h, n, r)
    BY CommitHistory
  <2>. QED
    BY <2>1 DEF Extends
<1>2. /\ \A k \in 0..(n + 1) : k \in 0..n \/ k = n + 1
      /\ \A k \in 1..(n + 1) : k \in 1..n \/ k = n + 1
      /\ \A k \in 1..n : k \in 0..n /\ k - 1 \in 0..n /\ k <= n
      /\ n \in 0..n /\ 0 \in 0..n /\ n + 1 \in 0..(n + 1) /\ n + 1 \in 1..(n + 1)
      /\ (n + 1) - 1 = n
  OBVIOUS
<1>3. UNCHANGED <<ver, ptr, pending, content, durable, sync, synced>>
  BY <1>1 DEF memoryVars, diskVars, clientVars
<1>4. /\ HistoryOf(h) /\ SoundThroughout(h) /\ NothingReused(h) /\ WritesAreFor(h)
      /\ DataIsThere(h) /\ MemoryFollows(last) /\ PointersAreClaimed
  BY DEF DiskInv
<1>5. HistoryOf(g)'
  <2>1. g[0] = durable'
    BY <1>1, <1>2, <1>3, <1>4 DEF HistoryOf
  <2>2. \A i \in 1..(n + 1) : g[i] = After(g[i - 1], entries'[i])
    <3>1. \A i \in 1..n : g[i] = After(g[i - 1], entries'[i])
      BY <1>1, <1>2, <1>4 DEF HistoryOf
    <3>. QED
      BY <1>1, <1>2, <3>1
  <2>3. \A i \in 1..(n + 1) : entries'[i].written => i = 1 /\ entries'[i].data = {} /\ g[1] = g[0]
    <3>1. \A i \in 1..n : entries'[i].written => i = 1 /\ entries'[i].data = {} /\ g[1] = g[0]
      BY <1>1, <1>2, <1>4 DEF HistoryOf
    <3>. QED
      BY <1>1, <1>2, <3>1
  <2>. QED
    BY <1>1, <2>1, <2>2, <2>3 DEF HistoryOf
<1>6. SoundThroughout(g)'
  <2>1. \A s, t \in Slot : s # t /\ ptr[s] # 0 => ptr[s] # ptr[t]
    BY <1>4 DEF PointersAreClaimed
  <2>2. used' = Cardinality(map')
    <3>1. /\ map \in SUBSET Block /\ dealloc[r] \in SUBSET Block /\ alloc[r] \in SUBSET Block
          /\ dealloc[r] \subseteq map /\ alloc[r] \intersect map = {}
      <4>1. op.stage \in Using
        BY CommitEffect
      <4>. QED
        BY <4>1, OperationHas, SpaceTypes DEF Invariants
    <3>2. used = Cardinality(map)
      BY <1>2, <1>4 DEF SoundThroughout, Sound, MemoryFollows
    <3>3. Cardinality(map') = Cardinality(map) + Cardinality(alloc[r]) - Cardinality(dealloc[r])
      <4>1. Cardinality((map \ dealloc[r]) \union alloc[r])
              = Cardinality(map) + Cardinality(alloc[r]) - Cardinality(dealloc[r])
        BY <3>1, ChangedCardinality
      <4>. QED
        BY <1>1, <4>1
    <3>. QED
      BY <1>1, <3>2, <3>3
  <2>3. Sound(g[n + 1])
    <3>1. {g[n + 1].block[s] : s \in Slot} = {ptr[s] : s \in Slot}
      BY <1>1
    <3>. QED
      BY <1>1, <2>1, <2>2, <3>1 DEF Sound
  <2>4. \A k \in 0..(n + 1) : Sound(g[k])
    BY <1>1, <1>2, <1>4, <2>3 DEF SoundThroughout
  <2>. QED
    BY <1>1, <2>4 DEF SoundThroughout
<1>7. NothingReused(g)'
  <2>1. ASSUME NEW k \in 0..n, NEW s \in Slot, g[k].block[s] # 0
        PROVE  \/ g[k].block[s] \in map'
               \/ \E m \in (k + 1)..(n + 1) :
                    entries'[m].frees /\ g[k].block[s] \in dealloc[entries'[m].txn]
    <3>. PICK b : b = h[k].block[s]
      OBVIOUS
    <3>1. g[k].block[s] = b /\ OutOfReach(b, k)
      BY <1>1, <1>4, <2>1 DEF NothingReused
    <3>2. CASE b \in map
      <4>1. CASE b \in dealloc[r]
        <5>1. n + 1 \in (k + 1)..(n + 1)
          OBVIOUS
        <5>. QED
          BY <1>1, <3>1, <4>1, <5>1
      <4>2. CASE b \notin dealloc[r]
        BY <1>1, <3>1, <3>2, <4>2
      <4>. QED
        BY <4>1, <4>2
    <3>3. CASE b \notin map
      <4>1. PICK m \in (k + 1)..n : entries[m].frees /\ b \in dealloc[entries[m].txn]
        BY <3>1, <3>3 DEF OutOfReach
      <4>2. m \in (k + 1)..(n + 1) /\ m \in 1..n
        OBVIOUS
      <4>. QED
        BY <1>1, <3>1, <4>1, <4>2
    <3>. QED
      BY <3>2, <3>3
  <2>2. \A s \in Slot : g[n + 1].block[s] \in map'
    BY <1>1
  <2>. QED
    BY <1>1, <1>2, <2>1, <2>2 DEF NothingReused, OutOfReach
<1>8. \A k \in 0..n, s \in Slot : h[k].block[s] # 0 => h[k].block[s] \notin alloc[r]
  <2>. SUFFICES ASSUME NEW k \in 0..n, NEW s \in Slot, h[k].block[s] # 0,
                       h[k].block[s] \in alloc[r]
                PROVE  FALSE
    OBVIOUS
  <2>1. OutOfReach(h[k].block[s], k)
    BY <1>4 DEF NothingReused
  <2>2. ~A!Committed(r) /\ alloc[r] \intersect map = {}
    <3>1. op.stage \in Using
      BY CommitEffect
    <3>. QED
      BY <3>1, OperationHas DEF A!Committed
  <2>3. PICK m \in (k + 1)..n : entries[m].frees /\ h[k].block[s] \in dealloc[entries[m].txn]
    BY <2>1, <2>2 DEF OutOfReach
  <2>4. entries[m].txn \in Reservation /\ A!Committed(entries[m].txn)
    BY <2>3, FreedAreCommitted
  <2>. QED
    BY <2>2, <2>3, <2>4, OutOfTwoReasons DEF Invariants
<1>9. WritesAreFor(g)'
  <2>1. ASSUME NEW j \in 1..n, NEW d \in entries[j].data
        PROVE  /\ g[j].block[d.slot] = d.block
               /\ \A k \in 0..(n + 1), s \in Slot :
                    g[k].block[s] = d.block => k >= j /\ s = d.slot /\ g[k].ver[s] = d.ver
    <3>1. /\ h[j].block[d.slot] = d.block
          /\ \A k \in 0..n, s \in Slot :
               h[k].block[s] = d.block => k >= j /\ s = d.slot /\ h[k].ver[s] = d.ver
      BY <1>4 DEF WritesAreFor
    <3>2. d.slot \in Slot /\ d.block \in Block \ {0}
      BY EntryTypes DEF JournalEntry, Data, Invariants, OwnersInv
    <3>3. d.block \notin alloc[r]
      BY <1>2, <1>8, <3>1, <3>2
    <3>4. ASSUME NEW s \in Slot, ptr[s] = d.block
          PROVE  n + 1 >= j /\ s = d.slot /\ g[n + 1].ver[s] = d.ver
      <4>1. ptr[s] # 0 /\ ptr[s] \notin alloc[r]
        BY <3>2, <3>3, <3>4
      <4>2. /\ ptr[s] = last.block[s]
            /\ FileOf[s] # op.file \/ ver[s] = last.ver[s]
        BY <4>1, CommittedBlocks
      <4>3. s = d.slot /\ last.ver[s] = d.ver
        BY <1>2, <3>1, <3>4, <4>2
      <4>. QED
        BY <1>1, <4>2, <4>3
    <3>. QED
      BY <1>1, <1>2, <3>1, <3>4
  <2>2. ASSUME NEW d \in op.data
        PROVE  /\ g[n + 1].block[d.slot] = d.block
               /\ \A k \in 0..(n + 1), s \in Slot :
                    g[k].block[s] = d.block => k >= n + 1 /\ s = d.slot /\ g[k].ver[s] = d.ver
    <3>1. d.slot \in Slot /\ d.block \in Block \ {0}
      BY OperationType DEF Operation, Data
    <3>2. op.stage = "swap"
      BY CommitEffect DEF Using, Invariants, OwnersInv, OperationIsInOrder
    <3>3. /\ d.block \in alloc[r] /\ d.block = ptr[d.slot] /\ d.ver = ver[d.slot]
          /\ FileOf[d.slot] = op.file
      BY <1>4, <3>2 DEF PointersAreClaimed
    <3>4. \A s \in Slot : ptr[s] = d.block => s = d.slot
      BY <1>4, <3>1, <3>3 DEF PointersAreClaimed
    <3>5. \A k \in 0..n, s \in Slot : g[k].block[s] # d.block
      BY <1>1, <1>8, <3>1, <3>3
    <3>. QED
      BY <1>1, <1>2, <3>1, <3>3, <3>4, <3>5
  <2>. QED
    BY <1>1, <1>2, <2>1, <2>2 DEF WritesAreFor
<1>10. DataIsThere(g)'
  <2>1. ASSUME NEW k \in 0..n, NEW s \in Slot, g[k].block[s] # 0
        PROVE  \/ content[g[k].block[s]] = [slot |-> s, ver |-> g[k].ver[s]]
               \/ \E j \in 1..k : DataOf(g[k], s) \in entries'[j].data
    <3>1. \/ content[h[k].block[s]] = [slot |-> s, ver |-> h[k].ver[s]]
          \/ \E j \in 1..k : DataOf(h[k], s) \in entries[j].data
      BY <1>1, <1>4, <2>1 DEF DataIsThere
    <3>2. \A j \in 1..k : j \in 1..n
      OBVIOUS
    <3>. QED
      BY <1>1, <3>1, <3>2
  <2>2. ASSUME NEW s \in Slot, ptr[s] # 0
        PROVE  \/ content[ptr[s]] = [slot |-> s, ver |-> g[n + 1].ver[s]]
               \/ \E j \in 1..(n + 1) : DataOf(g[n + 1], s) \in entries'[j].data
    <3>1. CASE /\ op.stage = "swap" /\ FileOf[s] = op.file
               /\ [block |-> ptr[s], slot |-> s, ver |-> ver[s]] \in op.data
      <4>1. DataOf(g[n + 1], s) = [block |-> ptr[s], slot |-> s, ver |-> ver[s]]
        BY <1>1, <3>1 DEF DataOf
      <4>. QED
        BY <1>1, <1>2, <3>1, <4>1
    <3>2. CASE ptr[s] = last.block[s] /\ (FileOf[s] # op.file \/ ver[s] = last.ver[s])
      <4>1. g[n + 1].block[s] = g[n].block[s] /\ g[n + 1].ver[s] = g[n].ver[s]
            /\ g[n].block[s] = ptr[s] /\ g[n].ver[s] = last.ver[s]
        BY <1>1, <1>2, <3>2
      <4>2. \/ content[ptr[s]] = [slot |-> s, ver |-> g[n + 1].ver[s]]
            \/ \E j \in 1..n : DataOf(g[n], s) \in entries'[j].data
        BY <1>2, <2>1, <2>2, <4>1
      <4>3. DataOf(g[n], s) = DataOf(g[n + 1], s)
        BY <4>1 DEF DataOf
      <4>. QED
        BY <1>2, <4>2, <4>3
    <3>. QED
      BY <2>2, <3>1, <3>2, CommittedBlocks
  <2>3. ASSUME NEW k \in 0..(n + 1), NEW s \in Slot, g[k].block[s] # 0
        PROVE  \/ content[g[k].block[s]] = [slot |-> s, ver |-> g[k].ver[s]]
               \/ \E j \in 1..k : DataOf(g[k], s) \in entries'[j].data
    <3>1. CASE k \in 0..n
      BY <2>1, <2>3, <3>1
    <3>2. CASE k = n + 1
      BY <1>1, <2>2, <2>3, <3>2
    <3>. QED
      BY <1>2, <3>1, <3>2
  <2>. QED
    BY <1>1, <1>3, <2>3 DEF DataIsThere
<1>11. MemoryFollows(g[n + 1])'
  <2>. SUFFICES ASSUME NEW s \in Slot PROVE InMemoryOf(s, g[n + 1])'
    BY <1>1 DEF MemoryFollows
  <2>1. /\ FileOf[s] # op.file => (s \notin pending => ver[s] = last.ver[s])
        /\ ver[s] >= last.ver[s]
    BY CommittedBlocks
  <2>2. ver[s] \in Nat
    BY MemoryTypes
  <2>. QED
    BY <1>1, <1>3, <2>1, <2>2 DEF InMemoryOf, Touched, Using
<1>12. PointersAreClaimed'
  BY <1>1, <1>3, <1>4 DEF PointersAreClaimed, Using
<1>13. VersionsGrow(g)'
  <2>1. \A s \in Slot : g[n + 1].ver[s] >= g[n].ver[s]
    <3>1. \A s \in Slot : ver[s] >= last.ver[s] /\ last.ver[s] \in Nat
      BY CommittedBlocks, MemoryTypes
    <3>. QED
      BY <1>1, <1>2, <3>1
  <2>2. \A k \in 1..(n + 1), s \in Slot : g[k].ver[s] >= g[k - 1].ver[s]
    <3>1. \A k \in 1..n, s \in Slot : g[k].ver[s] >= g[k - 1].ver[s]
      BY <1>1, <1>2 DEF VersionsGrow
    <3>. QED
      BY <1>2, <2>1, <3>1
  <2>3. sync.wait >= 0 => sync.wait <= n + 1
                          /\ \A s \in Slot : sync.want[s] <= g[sync.wait].ver[s]
    <3>1. sync.wait >= 0 => sync.wait \in 0..n
      BY DEF VersionsGrow, Invariants, OwnersInv, Types
    <3>. QED
      BY <1>1, <3>1 DEF VersionsGrow
  <2>. QED
    BY <1>1, <1>3, <2>2, <2>3 DEF VersionsGrow
<1>. QED
  BY <1>1, <1>5, <1>6, <1>7, <1>9, <1>10, <1>11, <1>12, <1>13 DEF DiskInv

(***************************************************************************)
(* The journal writes.                                                      *)
(***************************************************************************)

LEMMA DataWrittenRecovery ==
  ASSUME NEW h, DiskInv(h), VersionsGrow(h), Invariants, NEW i \in DOMAIN entries, DataWritten(i)
  PROVE  DiskInv(h)' /\ VersionsGrow(h)'
<1>. PICK n \in Nat : n = Len(entries)
  BY EntryTypes DEF Invariants, OwnersInv
<1>1. i \in 1..n /\ entries \in Seq(JournalEntry)
  BY DEF Invariants, OwnersInv, Types
<1>2. PICK d \in entries[i].data, e \in JournalEntry :
        /\ content' = [content EXCEPT ![d.block] = [slot |-> d.slot, ver |-> d.ver]]
        /\ entries' = [entries EXCEPT ![i] = e]
        /\ e.data = entries[i].data \ {d} /\ e.txn = entries[i].txn
        /\ e.block = entries[i].block /\ e.ver = entries[i].ver
        /\ e.map = entries[i].map /\ e.used = entries[i].used
        /\ (e.frees <=> entries[i].frees) /\ (e.written <=> entries[i].written)
  BY <1>1, DataWrittenEffect
<1>3. /\ Len(entries') = n /\ entries'[i] = e
      /\ \A j \in 1..n : j # i => entries'[j] = entries[j]
  BY <1>1, <1>2, ChangedSequence
<1>4. UNCHANGED <<used, map, alloc, dealloc, ver, ptr, pending, op, durable, sync, synced>>
  BY DEF DataWritten, allocVars, memoryVars, clientVars
<1>5. /\ \A j \in 1..n : entries'[j].txn = entries[j].txn
      /\ \A j \in 1..n : entries'[j].frees <=> entries[j].frees
      /\ \A j \in 1..n : entries'[j].written <=> entries[j].written
  BY <1>2, <1>3
<1>6. \A j \in 1..n : /\ entries'[j].data \subseteq entries[j].data
                      /\ \A x \in entries[j].data : x # d => x \in entries'[j].data
  BY <1>2, <1>3
<1>7. \A j \in 1..n : \A x : After(x, entries'[j]) = After(x, entries[j])
  BY <1>2, <1>3 DEF After
<1>8. d \in Data
  BY <1>1, EntryTypes DEF JournalEntry, Invariants, OwnersInv
<1>9. /\ HistoryOf(h) /\ SoundThroughout(h) /\ NothingReused(h) /\ WritesAreFor(h)
      /\ DataIsThere(h) /\ MemoryFollows(h[n]) /\ PointersAreClaimed
  BY DEF DiskInv
<1>10. HistoryOf(h)'
  <2>1. h \in [0..n -> DiskState] /\ h[0] = durable /\ \A j \in 1..n : h[j] = After(h[j - 1], entries[j])
    BY <1>9 DEF HistoryOf
  <2>2. \A j \in 1..n : entries[j].written => j = 1 /\ entries[j].data = {} /\ h[1] = h[0]
    BY <1>9 DEF HistoryOf
  <2>3. \A j \in 1..n : entries'[j].written => j = 1 /\ entries'[j].data = {} /\ h[1] = h[0]
    BY <1>5, <1>6, <2>2
  <2>. QED
    BY <1>3, <1>4, <1>7, <2>1, <2>3 DEF HistoryOf
<1>11. SoundThroughout(h)'
  BY <1>3, <1>9 DEF SoundThroughout
<1>12. NothingReused(h)'
  <2>1. \A b : \A k \in 0..n : OutOfReach(b, k) => OutOfReach(b, k)'
    <3>1. \A k \in 0..n : \A m \in (k + 1)..n : m \in 1..n
      OBVIOUS
    <3>. QED
      BY <1>3, <1>4, <1>5, <3>1 DEF OutOfReach
  <2>. QED
    BY <1>3, <1>9, <2>1 DEF NothingReused
<1>13. WritesAreFor(h)'
  BY <1>3, <1>6, <1>9 DEF WritesAreFor
<1>14. DataIsThere(h)'
  <2>. SUFFICES ASSUME NEW k \in 0..n, NEW s \in Slot, h[k].block[s] # 0
                PROVE  \/ content'[h[k].block[s]] = [slot |-> s, ver |-> h[k].ver[s]]
                       \/ \E j \in 1..k : DataOf(h[k], s) \in entries'[j].data
    BY <1>3 DEF DataIsThere
  <2>. PICK b : b = h[k].block[s]
    OBVIOUS
  <2>1. b \in Block
    BY <1>9, HistoryTypes DEF Invariants, OwnersInv
  <2>2. content \in [Block -> [slot : Nat, ver : Nat]]
    BY DEF Invariants, OwnersInv, Types
  <2>3. CASE b = d.block
    <3>1. s = d.slot /\ h[k].ver[s] = d.ver
      BY <1>1, <1>9, <2>3, ZenonT(40) DEF WritesAreFor
    <3>2. content'[b] = [slot |-> d.slot, ver |-> d.ver]
      BY <1>2, <2>1, <2>2, <2>3
    <3>. QED
      BY <3>1, <3>2
  <2>4. CASE b # d.block
    <3>1. content'[b] = content[b]
      BY <1>2, <2>1, <2>2, <2>4
    <3>2. DataOf(h[k], s) # d
      BY <2>4 DEF DataOf
    <3>3. \A j \in 1..k : j \in 1..n
      OBVIOUS
    <3>. QED
      BY <1>6, <1>9, <3>1, <3>2, <3>3 DEF DataIsThere
  <2>. QED
    BY <2>3, <2>4
<1>15. MemoryFollows(h[n])' /\ PointersAreClaimed'
  BY <1>4, <1>9 DEF MemoryFollows, InMemoryOf, Touched, PointersAreClaimed
<1>16. VersionsGrow(h)'
  BY <1>3, <1>4 DEF VersionsGrow
<1>. QED
  BY <1>3, <1>10, <1>11, <1>12, <1>13, <1>14, <1>15, <1>16 DEF DiskInv

\* Replaying an entry twice does what replaying it once does.
LEMMA ReplayedTwice ==
  ASSUME NEW d, NEW e PROVE After(After(d, e), e) = After(d, e)
<1>. PICK once : once = After(d, e)
  OBVIOUS
<1>1. \A s \in Slot : /\ s \in DOMAIN e.block => once.block[s] = e.block[s]
                      /\ s \in DOMAIN e.ver => once.ver[s] = e.ver[s]
                      /\ s \notin DOMAIN e.block => once.block[s] = d.block[s]
                      /\ s \notin DOMAIN e.ver => once.ver[s] = d.ver[s]
  BY DEF After
<1>2. [s \in Slot |-> IF s \in DOMAIN e.block THEN e.block[s] ELSE once.block[s]]
      = [s \in Slot |-> IF s \in DOMAIN e.block THEN e.block[s] ELSE d.block[s]]
  BY <1>1
<1>3. [s \in Slot |-> IF s \in DOMAIN e.ver THEN e.ver[s] ELSE once.ver[s]]
      = [s \in Slot |-> IF s \in DOMAIN e.ver THEN e.ver[s] ELSE d.ver[s]]
  BY <1>1
<1>. QED
  BY <1>2, <1>3 DEF After

\* The disk moves on to what it was to be after the first entry.
LEMMA EntryWrittenRecovery ==
  ASSUME NEW h, DiskInv(h), VersionsGrow(h), Invariants, Types', EntryWritten
  PROVE  \E g : DiskInv(g)' /\ VersionsGrow(g)'
<1>. PICK n \in Nat : n = Len(entries)
  BY EntryTypes DEF Invariants, OwnersInv
<1>1. PICK e \in JournalEntry :
        /\ n # 0 /\ ~entries[1].written /\ entries[1].data = {}
        /\ durable' = After(durable, entries[1]) /\ durable' \in DiskState
        /\ entries' = [entries EXCEPT ![1] = e]
        /\ e.data = {} /\ e.txn = entries[1].txn
        /\ e.block = entries[1].block /\ e.ver = entries[1].ver
        /\ e.map = entries[1].map /\ e.used = entries[1].used
        /\ (e.frees <=> entries[1].frees)
  BY EntryWrittenEffect
<1>2. /\ 1 \in 1..n /\ 1 \in 0..n /\ 0 \in 0..n /\ n \in 0..n /\ n # 0
      /\ \A k \in 1..n : k \in 0..n /\ k - 1 \in 0..n
      /\ \A k \in 0..n : k = 0 \/ k \in 1..n
  BY <1>1
<1>3. /\ Len(entries') = n /\ entries'[1] = e
      /\ \A j \in 1..n : j # 1 => entries'[j] = entries[j]
  <2>1. entries \in Seq(JournalEntry)
    BY DEF Invariants, OwnersInv, Types
  <2>. QED
    BY <1>1, <1>2, <2>1, ChangedSequence
<1>4. UNCHANGED <<used, map, alloc, dealloc, ver, ptr, pending, op, content, sync, synced>>
  BY DEF EntryWritten, allocVars, memoryVars, clientVars
<1>5. /\ \A j \in 1..n : entries'[j].txn = entries[j].txn
      /\ \A j \in 1..n : entries'[j].frees <=> entries[j].frees
      /\ \A j \in 1..n : entries'[j].data = entries[j].data
  BY <1>1, <1>3
<1>6. \A j \in 1..n : \A x : After(x, entries'[j]) = After(x, entries[j])
  BY <1>1, <1>3 DEF After
<1>7. /\ HistoryOf(h) /\ SoundThroughout(h) /\ NothingReused(h) /\ WritesAreFor(h)
      /\ DataIsThere(h) /\ MemoryFollows(h[n]) /\ PointersAreClaimed
  BY DEF DiskInv
<1>8. /\ h \in [0..n -> DiskState] /\ h[0] = durable
      /\ \A j \in 1..n : h[j] = After(h[j - 1], entries[j])
  BY <1>7 DEF HistoryOf
<1>9. durable' = h[1]
  <2>1. h[1] = After(h[1 - 1], entries[1])
    BY <1>2, <1>8
  <2>. QED
    BY <1>1, <1>8, <2>1
<1>. PICK g : g = [h EXCEPT ![0] = h[1]]
  OBVIOUS
<1>10. g \in [0..n -> DiskState] /\ g[0] = h[1] /\ \A k \in 1..n : g[k] = h[k]
  <2>1. h[1] \in DiskState
    BY <1>2, <1>8
  <2>. QED
    BY <1>2, <1>8, <2>1
<1>11. HistoryOf(g)'
  <2>1. \A j \in 1..n : g[j] = After(g[j - 1], entries'[j])
    <3>. SUFFICES ASSUME NEW j \in 1..n PROVE g[j] = After(g[j - 1], entries[j])
      BY <1>6
    <3>1. CASE j = 1
      <4>1. h[1] = After(h[0], entries[1]) /\ g[j - 1] = h[1] /\ g[j] = h[1]
        BY <1>2, <1>8, <1>10, <3>1
      <4>. QED
        BY <3>1, <4>1, ReplayedTwice
    <3>2. CASE j # 1
      <4>1. j - 1 \in 1..n
        BY <3>2
      <4>. QED
        BY <1>8, <1>10, <4>1
    <3>. QED
      BY <3>1, <3>2
  <2>2. \A j \in 1..n : j # 1 => ~entries'[j].written
    BY <1>3, <1>7 DEF HistoryOf
  <2>3. entries'[1].data = {} /\ g[1] = g[0]
    BY <1>1, <1>2, <1>3, <1>10
  <2>. QED
    BY <1>3, <1>9, <1>10, <2>1, <2>2, <2>3 DEF HistoryOf
<1>12. SoundThroughout(g)'
  BY <1>2, <1>3, <1>7, <1>10 DEF SoundThroughout
<1>13. NothingReused(g)'
  <2>1. \A b : \A k \in 0..n : OutOfReach(b, k) => OutOfReach(b, k)'
    <3>1. \A k \in 0..n : \A m \in (k + 1)..n : m \in 1..n
      OBVIOUS
    <3>. QED
      BY <1>3, <1>4, <1>5, <3>1 DEF OutOfReach
  <2>2. \A b : OutOfReach(b, 1) => OutOfReach(b, 0)
    BY DEF OutOfReach
  <2>. QED
    BY <1>2, <1>3, <1>7, <1>10, <2>1, <2>2 DEF NothingReused
<1>14. WritesAreFor(g)'
  <2>. SUFFICES ASSUME NEW j \in 1..n, NEW d \in entries[j].data
                PROVE  /\ g[j].block[d.slot] = d.block
                       /\ \A k \in 0..n, s \in Slot :
                            g[k].block[s] = d.block => k >= j /\ s = d.slot /\ g[k].ver[s] = d.ver
    BY <1>3, <1>5 DEF WritesAreFor
  <2>1. /\ h[j].block[d.slot] = d.block
        /\ \A k \in 0..n, s \in Slot :
             h[k].block[s] = d.block => k >= j /\ s = d.slot /\ h[k].ver[s] = d.ver
    BY <1>7 DEF WritesAreFor
  <2>2. j # 1
    BY <1>1
  <2>3. \A s \in Slot : h[1].block[s] # d.block
    BY <1>2, <2>1, <2>2
  <2>. QED
    BY <1>2, <1>10, <2>1, <2>3
<1>15. DataIsThere(g)'
  <2>1. ASSUME NEW k \in 1..n, NEW s \in Slot, h[k].block[s] # 0
        PROVE  \/ content[h[k].block[s]] = [slot |-> s, ver |-> h[k].ver[s]]
               \/ \E j \in 1..k : DataOf(h[k], s) \in entries'[j].data
    <3>1. \A j \in 1..k : j \in 1..n
      OBVIOUS
    <3>. QED
      BY <1>2, <1>5, <1>7, <2>1, <3>1 DEF DataIsThere
  <2>2. ASSUME NEW s \in Slot, h[1].block[s] # 0
        PROVE  content[h[1].block[s]] = [slot |-> s, ver |-> h[1].ver[s]]
    <3>1. \A j \in 1..1 : entries'[j].data = {}
      BY <1>1, <1>2, <1>5
    <3>. QED
      BY <1>2, <2>1, <2>2, <3>1
  <2>. QED
    BY <1>2, <1>3, <1>4, <1>10, <2>1, <2>2 DEF DataIsThere
<1>16. MemoryFollows(g[n])' /\ PointersAreClaimed'
  <2>1. g[n] = h[n]
    BY <1>2, <1>10
  <2>. QED
    BY <1>4, <1>7, <2>1 DEF MemoryFollows, InMemoryOf, Touched, PointersAreClaimed
<1>17. VersionsGrow(g)'
  <2>1. /\ \A k \in 1..n, s \in Slot : h[k].ver[s] >= h[k - 1].ver[s]
        /\ sync.wait >= 0 => sync.wait <= n /\ \A s \in Slot : sync.want[s] <= h[sync.wait].ver[s]
        /\ \A s \in Slot : synced[s] <= durable.ver[s]
    BY DEF VersionsGrow
  <2>2. \A k \in 0..n, s \in Slot : h[k].ver[s] \in Nat
    BY <1>7, HistoryTypes DEF Invariants, OwnersInv
  <2>3. \A s \in Slot : h[1].ver[s] >= h[0].ver[s]
    BY <1>2, <2>1
  <2>4. \A s \in Slot : synced[s] \in Nat /\ sync.want[s] \in Nat
    BY DEF Invariants, OwnersInv, Types
  <2>5. \A k \in 1..n, s \in Slot : g[k].ver[s] >= g[k - 1].ver[s]
    <3>1. \A k \in 1..n : k = 1 \/ k - 1 \in 1..n
      OBVIOUS
    <3>2. \A s \in Slot : g[1].ver[s] >= g[1 - 1].ver[s]
      BY <1>2, <1>10, <2>2
    <3>. QED
      BY <1>10, <2>1, <3>1, <3>2
  <2>6. sync.wait >= 0 => \A s \in Slot : sync.want[s] <= g[sync.wait].ver[s]
    <3>1. sync.wait \in Nat \union {-1}
      BY DEF Invariants, OwnersInv, Types
    <3>2. CASE sync.wait = 0
      BY <1>2, <1>10, <2>1, <2>2, <2>3, <2>4, <3>2
    <3>3. CASE sync.wait >= 0 /\ sync.wait # 0
      <4>1. sync.wait \in 1..n
        BY <2>1, <3>1, <3>3
      <4>. QED
        BY <1>10, <2>1, <4>1
    <3>. QED
      BY <3>2, <3>3
  <2>7. \A s \in Slot : synced[s] <= durable'.ver[s]
    BY <1>2, <1>8, <1>9, <2>1, <2>2, <2>3, <2>4
  <2>. QED
    BY <1>3, <1>4, <2>1, <2>5, <2>6, <2>7 DEF VersionsGrow
<1>. QED
  BY <1>3, <1>11, <1>12, <1>13, <1>14, <1>15, <1>16, <1>17 DEF DiskInv

\* The first entry is done with: what was the disk after it is what the disk is.
LEMMA EntryDoneRecovery ==
  ASSUME NEW h, DiskInv(h), VersionsGrow(h), Invariants, Types', EntryDone
  PROVE  \E g : DiskInv(g)' /\ VersionsGrow(g)'
<1>. PICK n \in Nat : n = Len(entries) - 1
  BY EntryDoneEffect
<1>1. /\ Len(entries) = n + 1 /\ Len(entries') = n
      /\ \A i \in 1..n : entries'[i] = entries[i + 1]
      /\ entries[1].written
      /\ map' = map /\ used' = used /\ alloc' = alloc
      /\ op'.stage = op.stage /\ op'.file = op.file /\ op'.txn = op.txn /\ op'.data = op.data
      /\ sync'.want = sync.want /\ sync'.wait = Decrement(sync.wait)
      /\ UNCHANGED <<memoryVars, diskVars, synced>>
  BY EntryDoneEffect
<1>2. /\ \A i \in 1..n : i + 1 \in 1..(n + 1) /\ i + 1 # 1 /\ i \in 0..n /\ i - 1 \in 0..n
                         /\ (i - 1) + 1 = i /\ (i + 1) - 1 = i
      /\ \A k \in 0..n : k + 1 \in 0..(n + 1) /\ k + 1 \in 1..(n + 1)
      /\ 0 \in 0..n /\ n \in 0..n /\ 0 + 1 = 1 /\ 1 \in 1..(n + 1) /\ 0 \in 0..(n + 1)
      /\ 1 \in 0..(n + 1) /\ n + 1 \in 0..(n + 1)
  OBVIOUS
<1>3. UNCHANGED <<ver, ptr, pending, content, durable>>
  BY <1>1 DEF memoryVars, diskVars
<1>4. /\ HistoryOf(h) /\ SoundThroughout(h) /\ NothingReused(h) /\ WritesAreFor(h)
      /\ DataIsThere(h) /\ MemoryFollows(h[n + 1]) /\ PointersAreClaimed
  BY <1>1 DEF DiskInv
<1>5. entries[1].data = {} /\ h[1] = h[0]
  BY <1>1, <1>2, <1>4 DEF HistoryOf
<1>6. \A i \in 2..(n + 1) : entries[i].frees => dealloc'[entries[i].txn] = dealloc[entries[i].txn]
  <2>. SUFFICES ASSUME NEW i \in 2..(n + 1), entries[i].frees
                PROVE  dealloc'[entries[i].txn] = dealloc[entries[i].txn]
    OBVIOUS
  <2>1. i \in 1..(n + 1) /\ i # 1
    OBVIOUS
  <2>2. entries[i].txn \in Reservation
    BY <1>1, <2>1, FreedAreCommitted
  <2>3. CASE entries[1].frees
    <3>1. entries[i].txn # entries[1].txn
      BY <1>1, <1>2, <2>1, <2>3 DEF Invariants, OwnersInv, EntriesKeepBlocks
    <3>. QED
      BY <2>2, <2>3, <3>1, EntryDoneEffect
  <2>4. CASE ~entries[1].frees
    BY <2>4, EntryDoneEffect
  <2>. QED
    BY <2>3, <2>4
<1>7. op.stage \in Using => dealloc'[op.txn] = dealloc[op.txn]
  <2>. SUFFICES ASSUME op.stage \in Using PROVE dealloc'[op.txn] = dealloc[op.txn]
    OBVIOUS
  <2>1. op.txn \in Reservation
    BY OperationHas
  <2>2. CASE entries[1].frees
    <3>1. entries[1].txn # op.txn
      BY <1>1, <1>2, <2>2, FreedAreCommitted DEF Using
    <3>. QED
      BY <2>1, <2>2, <3>1, EntryDoneEffect
  <2>3. CASE ~entries[1].frees
    BY <2>3, EntryDoneEffect
  <2>. QED
    BY <2>2, <2>3
<1>. PICK g : g = [k \in 0..n |-> h[k + 1]]
  OBVIOUS
<1>8. \A k \in 0..n : g[k] = h[k + 1]
  OBVIOUS
<1>9. HistoryOf(g)'
  <2>1. g \in [0..n -> DiskState]
    <3>1. \A k \in 0..n : h[k + 1] \in DiskState
      BY <1>1, <1>2, <1>4 DEF HistoryOf
    <3>. QED
      BY <3>1
  <2>2. g[0] = durable'
    BY <1>2, <1>3, <1>4, <1>5, <1>8 DEF HistoryOf
  <2>3. \A i \in 1..n : g[i] = After(g[i - 1], entries'[i])
    <3>. SUFFICES ASSUME NEW i \in 1..n PROVE g[i] = After(g[i - 1], entries'[i])
      OBVIOUS
    <3>1. h[i + 1] = After(h[(i + 1) - 1], entries[i + 1])
      BY <1>1, <1>2, <1>4 DEF HistoryOf
    <3>2. g[i] = h[i + 1] /\ g[i - 1] = h[i]
      <4>1. g[i] = h[i + 1]
        BY <1>2, <1>8
      <4>2. g[i - 1] = h[(i - 1) + 1]
        BY <1>2, <1>8
      <4>. QED
        BY <1>2, <4>1, <4>2
    <3>. QED
      BY <1>1, <1>2, <3>1, <3>2
  <2>4. \A i \in 1..n : ~entries'[i].written
    BY <1>1, <1>2, <1>4 DEF HistoryOf
  <2>. QED
    BY <1>1, <2>1, <2>2, <2>3, <2>4 DEF HistoryOf
<1>10. SoundThroughout(g)'
  BY <1>1, <1>2, <1>4, <1>8 DEF SoundThroughout
<1>11. NothingReused(g)'
  <2>. SUFFICES ASSUME NEW k \in 0..n, NEW s \in Slot, g[k].block[s] # 0,
                       g[k].block[s] \notin map
                PROVE  \E m \in (k + 1)..n :
                         entries'[m].frees /\ g[k].block[s] \in dealloc'[entries'[m].txn]
    BY <1>1 DEF NothingReused, OutOfReach
  <2>. PICK b : b = g[k].block[s]
    OBVIOUS
  <2>1. b = h[k + 1].block[s] /\ OutOfReach(b, k + 1)
    BY <1>1, <1>2, <1>4, <1>8 DEF NothingReused
  <2>2. PICK m \in ((k + 1) + 1)..(n + 1) : entries[m].frees /\ b \in dealloc[entries[m].txn]
    BY <1>1, <2>1 DEF OutOfReach
  <2>3. m \in 2..(n + 1) /\ m - 1 \in (k + 1)..n /\ m - 1 \in 1..n /\ (m - 1) + 1 = m
    OBVIOUS
  <2>4. entries'[m - 1] = entries[m]
    BY <1>1, <2>3
  <2>5. b \in dealloc'[entries[m].txn]
    BY <1>6, <2>2, <2>3
  <2>. QED
    BY <2>2, <2>3, <2>4, <2>5
<1>12. WritesAreFor(g)'
  <2>. Len(entries') = n
    BY <1>1
  <2>. SUFFICES ASSUME NEW j \in 1..n, NEW d \in entries'[j].data
                PROVE  /\ g[j].block[d.slot] = d.block
                       /\ \A k \in 0..n, s \in Slot :
                            g[k].block[s] = d.block => k >= j /\ s = d.slot /\ g[k].ver[s] = d.ver
    BY ZenonT(40) DEF WritesAreFor
  <2>1. d \in entries[j + 1].data
    BY <1>1
  <2>2. /\ h[j + 1].block[d.slot] = d.block
        /\ \A k \in 0..(n + 1), s \in Slot :
             h[k].block[s] = d.block => k >= j + 1 /\ s = d.slot /\ h[k].ver[s] = d.ver
    BY <1>1, <1>2, <1>4, <2>1 DEF WritesAreFor
  <2>3. ASSUME NEW k \in 0..n, NEW s \in Slot, g[k].block[s] = d.block
        PROVE  k >= j /\ s = d.slot /\ g[k].ver[s] = d.ver
    <3>1. k + 1 >= j + 1 /\ s = d.slot /\ h[k + 1].ver[s] = d.ver
      BY <1>2, <1>8, <2>2, <2>3
    <3>. QED
      BY <1>8, <3>1
  <2>. QED
    BY <1>2, <1>8, <2>2, <2>3
<1>13. DataIsThere(g)'
  <2>. SUFFICES ASSUME NEW k \in 0..n, NEW s \in Slot, g[k].block[s] # 0
                PROVE  \/ content[g[k].block[s]] = [slot |-> s, ver |-> g[k].ver[s]]
                       \/ \E j \in 1..k : DataOf(g[k], s) \in entries'[j].data
    BY <1>1, <1>3 DEF DataIsThere
  <2>1. g[k] = h[k + 1]
    BY <1>8
  <2>2. \/ content[g[k].block[s]] = [slot |-> s, ver |-> g[k].ver[s]]
        \/ \E j \in 1..(k + 1) : DataOf(g[k], s) \in entries[j].data
    BY <1>1, <1>2, <1>4, <2>1 DEF DataIsThere
  <2>3. ASSUME NEW j \in 1..(k + 1), DataOf(g[k], s) \in entries[j].data
        PROVE  \E i \in 1..k : DataOf(g[k], s) \in entries'[i].data
    <3>1. j # 1
      BY <1>5, <2>3
    <3>2. j - 1 \in 1..k /\ j - 1 \in 1..n /\ (j - 1) + 1 = j
      BY <3>1
    <3>3. entries'[j - 1] = entries[j]
      BY <1>1, <3>2
    <3>. QED
      BY <2>3, <3>2, <3>3
  <2>. QED
    BY <2>2, <2>3
<1>14. MemoryFollows(g[n])' /\ PointersAreClaimed'
  <2>1. g[n] = h[n + 1]
    BY <1>2, <1>8
  <2>2. MemoryFollows(g[n])'
    BY <1>1, <1>3, <1>4, <2>1 DEF MemoryFollows, InMemoryOf, Touched
  <2>. QED
    BY <1>1, <1>3, <1>4, <1>7, <2>2 DEF PointersAreClaimed
<1>15. VersionsGrow(g)'
  <2>1. /\ \A k \in 1..(n + 1), s \in Slot : h[k].ver[s] >= h[k - 1].ver[s]
        /\ sync.wait >= 0 => sync.wait <= n + 1
                             /\ \A s \in Slot : sync.want[s] <= h[sync.wait].ver[s]
        /\ \A s \in Slot : synced[s] <= durable.ver[s]
    BY <1>1 DEF VersionsGrow
  <2>2. \A k \in 1..n, s \in Slot : g[k].ver[s] >= g[k - 1].ver[s]
    <3>. SUFFICES ASSUME NEW k \in 1..n, NEW s \in Slot PROVE g[k].ver[s] >= g[k - 1].ver[s]
      OBVIOUS
    <3>1. h[k + 1].ver[s] >= h[(k + 1) - 1].ver[s]
      BY <1>2, <2>1
    <3>2. g[k] = h[k + 1]
      BY <1>2, <1>8
    <3>3. g[k - 1] = h[(k - 1) + 1]
      BY <1>2, <1>8
    <3>. QED
      BY <1>2, <3>1, <3>2, <3>3
  <2>3. sync'.wait >= 0 => sync'.wait <= n
                           /\ \A s \in Slot : sync.want[s] <= g[sync'.wait].ver[s]
    <3>. PICK w \in Nat \union {-1} : w = sync.wait
      BY DEF Invariants, OwnersInv, Types
    <3>1. CASE w = 0
      <4>1. sync'.wait = 0
        BY <1>1, <3>1 DEF Decrement
      <4>2. g[0] = h[0]
        BY <1>2, <1>5, <1>8
      <4>. QED
        BY <2>1, <3>1, <4>1, <4>2
    <3>2. CASE w \in Nat \ {0}
      <4>1. sync'.wait = w - 1 /\ w <= n + 1 /\ w - 1 \in 0..n /\ (w - 1) + 1 = w
        BY <1>1, <2>1, <3>2 DEF Decrement
      <4>2. g[w - 1] = h[w]
        BY <1>8, <4>1
      <4>. QED
        BY <2>1, <3>2, <4>1, <4>2
    <3>3. CASE w = -1
      <4>1. sync'.wait = -1
        BY <1>1, <3>3 DEF Decrement
      <4>. QED
        BY <4>1
    <3>. QED
      BY <3>1, <3>2, <3>3
  <2>. QED
    BY <1>1, <1>3, <2>1, <2>2, <2>3 DEF VersionsGrow
<1>. QED
  BY <1>1, <1>9, <1>10, <1>11, <1>12, <1>13, <1>14, <1>15 DEF DiskInv

\* After a crash there is nothing but the disk, as the replay of the journal yields it.
LEMMA CrashRecovery ==
  ASSUME NEW h, DiskInv(h), VersionsGrow(h), Invariants, Crash
  PROVE  \E g : DiskInv(g)' /\ VersionsGrow(g)'
<1>1. /\ map' = durable.map /\ used' = durable.used
      /\ ver' = durable.ver /\ ptr' = durable.block /\ pending' = {} /\ op' = Idle
      /\ entries' = <<>> /\ sync' = NoSync /\ content' = content /\ durable' = durable
      /\ synced' = synced
  BY DEF Crash, diskVars
<1>. PICK d \in DiskState : d = durable
  BY DEF Invariants, OwnersInv, Types
<1>. PICK g : g = [k \in {0} |-> d]
  OBVIOUS
<1>2. Len(entries') = 0 /\ 0..0 = {0} /\ g[0] = d /\ g \in [0..0 -> DiskState]
  <2>1. 0..0 = {0}
    OBVIOUS
  <2>. QED
    BY <1>1, <2>1
<1>3. 0 \in 0..Len(entries) /\ h[0] = d
  BY HistoryTypes DEF DiskInv, HistoryOf, Invariants, OwnersInv
<1>4. Sound(d)
  BY <1>3 DEF DiskInv, SoundThroughout
<1>5. \A s \in Slot : d.block[s] # 0 => content[d.block[s]] = [slot |-> s, ver |-> d.ver[s]]
  <2>1. ~\E j \in 1..0 : TRUE
    OBVIOUS
  <2>. QED
    BY <1>3, <2>1 DEF DiskInv, DataIsThere
<1>6. HistoryOf(g)'
  BY <1>1, <1>2 DEF HistoryOf
<1>7. SoundThroughout(g)'
  BY <1>2, <1>4 DEF SoundThroughout
<1>8. NothingReused(g)'
  BY <1>1, <1>2, <1>4 DEF NothingReused, OutOfReach, Sound
<1>9. WritesAreFor(g)'
  BY <1>2 DEF WritesAreFor
<1>10. DataIsThere(g)'
  BY <1>1, <1>2, <1>5 DEF DataIsThere
<1>11. MemoryFollows(g[0])'
  <2>1. \A s \in Slot : d.ver[s] \in Nat
    BY DEF DiskState
  <2>. QED
    BY <1>1, <1>2, <2>1, IdleOperation DEF MemoryFollows, InMemoryOf
<1>12. PointersAreClaimed'
  BY <1>1, <1>4, IdleOperation DEF PointersAreClaimed, Using, Sound
<1>13. VersionsGrow(g)'
  BY <1>1, <1>2 DEF VersionsGrow, NoSync
<1>. QED
  BY <1>2, <1>6, <1>7, <1>8, <1>9, <1>10, <1>11, <1>12, <1>13 DEF DiskInv

(***************************************************************************)
(* Syncs.                                                                   *)
(***************************************************************************)

\* When every file has been flushed, nothing is pending, and the last disk has it all.
LEMMA EnqueueCallbackVersions ==
  ASSUME NEW h, DiskInv(h), VersionsGrow(h), Invariants, EnqueueCallback
  PROVE  VersionsGrow(h)'
<1>. PICK n \in Nat : n = Len(entries)
  BY EntryTypes DEF Invariants, OwnersInv
<1>1. /\ op.stage = "sync" /\ \A f \in File : cached[f] = None
      /\ sync' = (IF op.client THEN [wait |-> n, want |-> ver] ELSE sync)
      /\ UNCHANGED <<entries, durable, synced>>
  BY DEF EnqueueCallback, Flushed, diskVars
<1>2. pending = {}
  <2>1. \A s \in pending : FileOf[s] \in File
    BY TransactionsAssumption DEF Invariants, OwnersInv, Types
  <2>. QED
    BY <1>1, <2>1 DEF Invariants, OwnersInv, PendingIsCached
<1>3. \A s \in Slot : ver[s] \in Nat /\ ver[s] = h[n].ver[s]
  BY <1>1, <1>2, MemoryTypes DEF InMemoryOf, Touched, Using
<1>4. n >= 0 /\ n <= n /\ \A s \in Slot : ver[s] <= h[n].ver[s]
  BY <1>3
<1>5. CASE op.client
  <2>1. sync'.wait = n /\ sync'.want = ver
    BY <1>1, <1>5
  <2>. QED
    BY <1>1, <1>4, <2>1 DEF VersionsGrow
<1>6. CASE ~op.client
  BY <1>1, <1>6 DEF VersionsGrow
<1>. QED
  BY <1>5, <1>6

LEMMA SyncDoneVersions ==
  ASSUME NEW h, DiskInv(h), VersionsGrow(h), Invariants, SyncDone
  PROVE  VersionsGrow(h)'
<1>1. /\ sync.wait = 0 /\ synced' = sync.want /\ sync' = NoSync
      /\ UNCHANGED <<entries, durable>>
  BY DEF SyncDone, journalVars, diskVars
<1>2. \A s \in Slot : synced'[s] <= durable'.ver[s]
  BY <1>1 DEF VersionsGrow, DiskInv, HistoryOf
<1>. QED
  BY <1>1, <1>2 DEF VersionsGrow, NoSync

LEMMA SameVersions ==
  ASSUME NEW h, VersionsGrow(h), UNCHANGED <<entries, durable, clientVars>>
  PROVE  VersionsGrow(h)'
BY DEF VersionsGrow, clientVars

(***************************************************************************)
(* Every step, and the theorems.                                            *)
(***************************************************************************)

\* The steps that write nothing and commit nothing go on with the same history.
LEMMA OperationRecovery ==
  ASSUME NEW h, DiskInv(h), VersionsGrow(h), Invariants, Types', [Next]_vars,
         \/ Begin \/ Reserved \/ ReserveFails \/ Abandon \/ Abandoned \/ Retry \/ TakeCached
         \/ Extended \/ WriteToCache \/ Flush \/ CancelRest \/ Close
         \/ \E f \in File : SyncFile(f) \/ Truncate(f) \/ Remove(f)
                            \/ \E S \in SUBSET SlotsOf(f) : Write(f, S)
         \/ StartSync \/ TimerExpires \/ EnqueueCallback \/ SyncDone
  PROVE  DiskInv(h)' /\ VersionsGrow(h)'
<1>1. CASE \/ Begin \/ Reserved \/ Extended \/ Abandon \/ Abandoned \/ Flush \/ WriteToCache
           \/ CancelRest \/ Close \/ TakeCached
  <2>1. op.stage \notin Using
    BY <1>1 DEF Begin, Reserved, Extended, Abandon, Abandoned, Flush, WriteToCache, CancelRest,
       Close, TakeCached, Using
  <2>2. UNCHANGED <<entries, durable, clientVars>>
    BY <1>1 DEF Begin, Reserved, Extended, Abandon, Abandoned, Flush, WriteToCache, CancelRest,
       Close, TakeCached, journalVars, diskVars
  <2>. QED
    BY <1>1, <2>1, <2>2, CalmSteps, SameVersions
<1>2. CASE \/ \E f \in File : SyncFile(f) \/ Truncate(f) \/ Remove(f)
                              \/ \E S \in SUBSET SlotsOf(f) : Write(f, S)
           \/ StartSync \/ TimerExpires \/ EnqueueCallback \/ ReserveFails \/ Retry
  <2>1. op.stage \in {"idle", "sync", "reserve", "wait"}
        /\ (op.stage = "wait" => op.after = "begin")
    BY <1>2 DEF SyncFile, Truncate, Remove, Write, StartSync, TimerExpires, EnqueueCallback,
       ReserveFails, Retry, Invariants, OwnersInv, OperationIsInOrder
  <2>2. UNCHANGED <<allocVars, memoryVars, entries, diskVars>>
    BY <1>2 DEF SyncFile, Truncate, Remove, Write, StartSync, TimerExpires, EnqueueCallback,
       ReserveFails, Retry, journalVars
  <2>3. op'.stage \notin Using
    <3>1. CASE \/ \E f \in File : Truncate(f) \/ Remove(f) \/ \E S \in SUBSET SlotsOf(f) : Write(f, S)
               \/ StartSync \/ TimerExpires \/ EnqueueCallback
      <4>1. ASSUME NEW f \in File, NEW S \in SUBSET SlotsOf(f), Write(f, S)
            PROVE  op'.stage \notin Using
        BY <4>1 DEF Write, Idle, Using
      <4>2. ASSUME NEW f \in File, Truncate(f) \/ Remove(f) PROVE op'.stage \notin Using
        BY <4>2 DEF Truncate, Remove, Idle, Using
      <4>3. CASE StartSync \/ TimerExpires \/ EnqueueCallback
        <5>1. CASE StartSync
          BY <5>1 DEF StartSync, Idle, Using
        <5>2. CASE TimerExpires
          BY <5>2 DEF TimerExpires, Idle, Using
        <5>3. CASE EnqueueCallback
          BY <5>3, IdleOperation DEF EnqueueCallback, Using
        <5>. QED
          BY <4>3, <5>1, <5>2, <5>3
      <4>. QED
        BY <3>1, <4>1, <4>2, <4>3
    <3>2. CASE ReserveFails \/ Retry \/ \E f \in File : SyncFile(f)
      <4>1. \/ op' = [op EXCEPT !.stage = "abandon"] \/ op' = [op EXCEPT !.stage = "begin"]
            \/ \E f \in File : op' = [op EXCEPT !.stage = "flush", !.file = f, !.after = "sync"]
        BY <2>1, <3>2 DEF ReserveFails, Retry, SyncFile, Continue
      <4>2. op \in Operation
        BY OperationType
      <4>3. op'.stage \in {"abandon", "begin", "flush"}
        BY <4>1, <4>2 DEF Operation
      <4>. QED
        BY <4>3 DEF Using
    <3>. QED
      BY <1>2, <3>1, <3>2
  <2>4. DiskInv(h)'
    BY <2>1, <2>2, <2>3, CalmSteps DEF Using
  <2>5. VersionsGrow(h)'
    <3>1. CASE EnqueueCallback
      BY <3>1, EnqueueCallbackVersions
    <3>2. CASE ~EnqueueCallback
      <4>1. UNCHANGED <<entries, durable, clientVars>>
        BY <1>2, <2>2, <3>2 DEF SyncFile, Truncate, Remove, Write, StartSync, TimerExpires,
           ReserveFails, Retry, diskVars
      <4>. QED
        BY <4>1, SameVersions
    <3>. QED
      BY <3>1, <3>2
  <2>. QED
    BY <2>4, <2>5
<1>3. CASE SyncDone
  <2>1. UNCHANGED <<allocVars, memoryVars, entries, diskVars, op>>
    BY <1>3 DEF SyncDone, journalVars
  <2>2. DiskInv(h)'
    <3>1. UNCHANGED <<entries, durable, content, map, used, alloc, dealloc, ptr, ver, pending>>
      BY <2>1 DEF allocVars, memoryVars, diskVars
    <3>2. /\ HistoryOf(h)' /\ SoundThroughout(h)' /\ NothingReused(h)' /\ WritesAreFor(h)'
          /\ DataIsThere(h)'
      BY <3>1, SameHistory
    <3>. QED
      BY <2>1, <3>1, <3>2
         DEF DiskInv, MemoryFollows, InMemoryOf, Touched, PointersAreClaimed
  <2>. QED
    BY <1>3, <2>2, SyncDoneVersions
<1>. QED
  BY <1>1, <1>2, <1>3

LEMMA NextRecovery == Invariants /\ RecoveryInv /\ [Next]_vars => RecoveryInv'
<1>. SUFFICES ASSUME Invariants, RecoveryInv, [Next]_vars PROVE RecoveryInv'
  OBVIOUS
<1>1. PICK h : DiskInv(h) /\ VersionsGrow(h)
  BY DEF RecoveryInv
<1>2. Types'
  BY NextInvariants DEF Invariants, OwnersInv
<1>. SUFFICES \E g : DiskInv(g)' /\ VersionsGrow(g)'
  BY DEF RecoveryInv
<1>3. CASE \/ Begin \/ Reserved \/ ReserveFails \/ Abandon \/ Abandoned \/ Retry \/ TakeCached
           \/ Extended \/ WriteToCache \/ Flush \/ CancelRest \/ Close
           \/ \E f \in File : SyncFile(f) \/ Truncate(f) \/ Remove(f)
                              \/ \E S \in SUBSET SlotsOf(f) : Write(f, S)
           \/ StartSync \/ TimerExpires \/ EnqueueCallback \/ SyncDone
  BY <1>1, <1>2, <1>3, OperationRecovery
<1>4. CASE SwapOut \/ SwapIn \/ \E s \in Slot : ReleaseBlock(s)
  <2>1. DiskInv(h)'
    BY <1>1, <1>2, <1>4, SwapOutDisk, SwapInDisk, ReleaseBlockDisk
  <2>2. UNCHANGED <<entries, durable, clientVars>>
    BY <1>4 DEF SwapOut, SwapIn, ReleaseBlock, journalVars, diskVars
  <2>. QED
    BY <1>1, <2>1, <2>2, SameVersions
<1>5. CASE CommitTransaction
  BY <1>1, <1>2, <1>5, CommitRecovery
<1>6. ASSUME NEW i \in DOMAIN entries, DataWritten(i) PROVE DiskInv(h)' /\ VersionsGrow(h)'
  BY <1>1, <1>6, DataWrittenRecovery
<1>7. CASE EntryWritten
  BY <1>1, <1>2, <1>7, EntryWrittenRecovery
<1>8. CASE EntryDone
  BY <1>1, <1>2, <1>8, EntryDoneRecovery
<1>9. CASE Crash
  BY <1>1, <1>9, CrashRecovery
<1>10. CASE UNCHANGED vars
  <2>1. UNCHANGED <<entries, durable, content, map, used, alloc, dealloc, ptr, ver, pending, op>>
        /\ UNCHANGED clientVars
    BY <1>10 DEF vars, allocVars, memoryVars, journalVars, diskVars
  <2>2. /\ HistoryOf(h)' /\ SoundThroughout(h)' /\ NothingReused(h)' /\ WritesAreFor(h)'
        /\ DataIsThere(h)'
    BY <1>1, <2>1, SameHistory
  <2>3. DiskInv(h)'
    BY <1>1, <2>1, <2>2
       DEF DiskInv, MemoryFollows, InMemoryOf, Touched, PointersAreClaimed
  <2>. QED
    BY <1>1, <2>1, <2>3, SameVersions
<1>. QED
  BY <1>3, <1>4, <1>5, <1>6, <1>7, <1>8, <1>9, <1>10 DEF Next, Work

LEMMA InitRecovery == Init => RecoveryInv
<1>. SUFFICES ASSUME Init PROVE RecoveryInv
  OBVIOUS
<1>1. Invariants
  BY InitInvariants
<1>2. /\ ver = [s \in Slot |-> 0] /\ ptr = [s \in Slot |-> 0] /\ pending = {} /\ op = Idle
      /\ entries = <<>> /\ sync = NoSync /\ synced = [s \in Slot |-> 0]
      /\ durable = [block |-> [s \in Slot |-> 0], ver |-> [s \in Slot |-> 0], map |-> {0},
                    used |-> 1]
      /\ map = {0} /\ used = 1
  <2>1. used = Allocator!Cardinality({0}) /\ map = {0}
    BY DEF Init, Allocator!Init
  <2>2. Cardinality({0}) = 1
    BY FS_Singleton
  <2>. QED
    BY <2>1, <2>2, SameSets DEF Init
<1>. PICK d \in DiskState : d = durable
  BY <1>1 DEF Invariants, OwnersInv, Types
<1>. PICK h : h = [k \in {0} |-> d]
  OBVIOUS
<1>3. Len(entries) = 0 /\ 0..0 = {0} /\ h[0] = d /\ h \in [0..0 -> DiskState]
  <2>1. 0..0 = {0}
    OBVIOUS
  <2>. QED
    BY <1>2, <2>1
<1>4. /\ \A s \in Slot : d.block[s] = 0 /\ d.ver[s] = 0
      /\ d.map = {0} /\ d.used = Cardinality({0})
  BY <1>2, FS_Singleton
<1>5. HistoryOf(h)
  BY <1>3 DEF HistoryOf
<1>6. SoundThroughout(h)
  BY <1>3, <1>4 DEF SoundThroughout, Sound
<1>7. NothingReused(h) /\ WritesAreFor(h) /\ DataIsThere(h)
  BY <1>3, <1>4 DEF NothingReused, WritesAreFor, DataIsThere
<1>8. MemoryFollows(h[0])
  BY <1>2, <1>3, <1>4, FS_Singleton DEF MemoryFollows, InMemoryOf
<1>9. PointersAreClaimed
  BY <1>2, IdleOperation DEF PointersAreClaimed, Using
<1>10. VersionsGrow(h)
  BY <1>2, <1>3 DEF VersionsGrow, NoSync
<1>. QED
  BY <1>3, <1>5, <1>6, <1>7, <1>8, <1>9, <1>10 DEF RecoveryInv, DiskInv

LEMMA RecoveryHolds == Spec => [](Invariants /\ RecoveryInv)
<1>1. Init => Invariants /\ RecoveryInv
  BY InitInvariants, InitRecovery
<1>2. (Invariants /\ RecoveryInv) /\ [Next]_vars => (Invariants /\ RecoveryInv)'
  BY NextInvariants, NextRecovery
<1>. QED
  BY <1>1, <1>2, PTL DEF Spec

\* Whenever power is lost, every block that a recovered inode points to holds the data that
\* was committed with it: the data was written first, and the allocator did not give the
\* block to anybody else while a replay could still yield that inode (minfs.cc:648-652).
THEOREM CommittedDataSurvives == Spec => []RecoveredDataIntact
<1>1. Invariants /\ RecoveryInv => RecoveredDataIntact
  <2>. SUFFICES ASSUME Invariants, RecoveryInv, NEW s \in Slot, durable.block[s] # 0
                PROVE  content[durable.block[s]] = [slot |-> s, ver |-> durable.ver[s]]
    BY DEF RecoveredDataIntact
  <2>1. PICK h : DiskInv(h)
    BY DEF RecoveryInv
  <2>2. 0 \in 0..Len(entries) /\ h[0] = durable
    BY <2>1, HistoryTypes DEF DiskInv, HistoryOf, Invariants, OwnersInv
  <2>3. ~\E j \in 1..0 : TRUE
    OBVIOUS
  <2>. QED
    BY <2>1, <2>2, <2>3 DEF DiskInv, DataIsThere
<1>. QED
  BY <1>1, RecoveryHolds, PTL

\* Whenever power is lost, the replay yields a sound volume: the bitmap shows exactly the
\* blocks of the inodes, no block has two owners, and the superblock's count is right. A
\* transaction reaches the disk whole (CommitTransaction), and the counts and bits it takes
\* with it are those of the inodes it and its predecessors wrote.
THEOREM RecoveredVolumeIsSound == Spec => []RecoveredMetadataConsistent
<1>1. Invariants /\ RecoveryInv => RecoveredMetadataConsistent
  <2>. SUFFICES ASSUME Invariants, RecoveryInv PROVE RecoveredMetadataConsistent
    OBVIOUS
  <2>1. PICK h : DiskInv(h)
    BY DEF RecoveryInv
  <2>2. 0 \in 0..Len(entries) /\ h[0] = durable
    BY <2>1, HistoryTypes DEF DiskInv, HistoryOf, Invariants, OwnersInv
  <2>. QED
    BY <2>1, <2>2 DEF DiskInv, SoundThroughout, Sound, RecoveredMetadataConsistent
<1>. QED
  BY <1>1, RecoveryHolds, PTL

\* What a client's sync has vouched for is on the disk and stays there: the sync flushed
\* every dirty file and its callback ran after all entries it found (Minfs::Sync).
THEOREM SyncedDataSurvives == Spec => []SyncedSurvives
<1>1. Invariants /\ RecoveryInv => SyncedSurvives
  <2>. SUFFICES ASSUME Invariants, RecoveryInv, NEW s \in Slot PROVE durable.ver[s] >= synced[s]
    BY DEF SyncedSurvives
  <2>1. synced[s] <= durable.ver[s]
    BY DEF RecoveryInv, VersionsGrow
  <2>2. synced[s] \in Nat /\ durable.ver[s] \in Nat
    BY DEF Invariants, OwnersInv, Types, DiskState
  <2>. QED
    BY <2>1, <2>2
<1>. QED
  BY <1>1, RecoveryHolds, PTL

\* What the disk holds of a file block is never replaced by something older: entries are
\* written in the order of their commit, and each has the newest version of its file.
THEOREM DiskNeverGoesBack == Spec => NoRollback
<1>1. Invariants /\ RecoveryInv /\ [Next]_vars =>
        [\A s \in Slot : durable'.ver[s] >= durable.ver[s]]_vars
  <2>. SUFFICES ASSUME Invariants, RecoveryInv, Next, NEW s \in Slot
                PROVE  durable'.ver[s] >= durable.ver[s]
    OBVIOUS
  <2>1. durable.ver[s] \in Nat
    BY DEF Invariants, OwnersInv, Types, DiskState
  <2>2. CASE EntryWritten
    <3>1. PICK h : DiskInv(h) /\ VersionsGrow(h)
      BY DEF RecoveryInv
    <3>2. Len(entries) \in Nat \ {0} /\ durable' = After(durable, entries[1])
      BY <2>2, EntryWrittenEffect
    <3>3. h[0] = durable /\ h[1] = After(h[1 - 1], entries[1]) /\ h[1].ver[s] >= h[1 - 1].ver[s]
      BY <3>1, <3>2 DEF DiskInv, HistoryOf, VersionsGrow
    <3>. QED
      BY <3>2, <3>3
  <2>3. CASE ~EntryWritten
    <3>1. durable' = durable
      BY <2>3 DEF Next, Work, Begin, Reserved, ReserveFails, Abandon, Abandoned, Retry, TakeCached,
         Extended, WriteToCache, Flush, SwapOut, SwapIn, ReleaseBlock, CommitTransaction,
         CancelRest, Close, SyncFile, EnqueueCallback, Truncate, Remove, Write, StartSync,
         TimerExpires, DataWritten, EntryDone, SyncDone, Crash, diskVars
    <3>. QED
      BY <2>1, <3>1
  <2>. QED
    BY <2>2, <2>3
<1>. QED
  BY <1>1, RecoveryHolds, PTL DEF Spec, NoRollback

(***************************************************************************)
(* When a transaction waits for space, and when an operation is refused:    *)
(* what the dispatcher has seen of the allocator and of the journal still   *)
(* holds by the time it acts on it.  With this come the bounds of           *)
(* Transactions' types, which rest on what an operation has checked before  *)
(* it began.                                                                *)
(***************************************************************************)

\* An operation that changes versions has seen that they may change.
Asking == {"begin", "reserve", "abandon", "abandoned"}

RoomToGrow ==
  /\ \A s \in op.slots : ver[s] < MaxVersion
  /\ op.slots # {} /\ op.stage \notin {"continue", "write"} => op.need # 0
  /\ op.slots = {} /\ (op.stage \in Asking \/ op.after = "begin") =>
       \A s \in SlotsOf(op.file) : ver[s] < MaxVersion
  /\ op.stage \in {"reserve", "release"} => op.after = "idle"
  /\ op.stage = "release" =>
       op.slots = {} /\ \A s \in SlotsOf(op.file) : ptr[s] # 0 => ver[s] < MaxVersion

VersionsBounded ==
  /\ \A s \in Slot : ver[s] <= MaxVersion /\ durable.ver[s] <= MaxVersion
  /\ \A i \in 1..Len(entries) : \A s \in DOMAIN entries[i].ver : entries[i].ver[s] <= MaxVersion

\* Nobody waits for entries that are not there.
WaitsBounded ==
  /\ demanded <= Len(entries) /\ op.wait <= Len(entries) /\ sync.wait <= Len(entries)
  /\ timer \in BOOLEAN /\ crashes \in 0..MaxCrashes

\* The second attempt comes when the journal has nothing left, and nothing is added meanwhile.
SecondAttempt ==
  /\ op.retried /\ op.after = "begin" => op.stage \in {"wait", "begin"}
  /\ op.retried /\ op.stage \in Asking => Len(entries) = 0

SpaceOrder ==
  RoomToGrow /\ VersionsBounded /\ WaitsBounded /\ SecondAttempt /\ ContinueHasSpace

LEMMA MovesTo ==
  ASSUME NEW o \in Operation, NEW stage \in Stage
  PROVE  LET p == [o EXCEPT !.stage = stage]
         IN  /\ p \in Operation /\ p.stage = stage /\ p.after = o.after /\ p.file = o.file
             /\ p.slots = o.slots /\ p.need = o.need /\ p.txn = o.txn /\ p.data = o.data
             /\ p.wait = o.wait /\ (p.retried <=> o.retried)
<1>1. LET p == [o EXCEPT !.stage = stage] IN p.retried <=> o.retried
  BY DEF Operation
<1>. QED
  BY <1>1, NextStage

LEMMA IdleIsFresh ==
  /\ Idle \in Operation /\ Idle.stage = "idle" /\ Idle.after = "idle" /\ Idle.slots = {}
  /\ Idle.wait = 0 /\ ~Idle.retried
BY DEF Idle, Operation, Stage

(***************************************************************************)
(* ContinueTransaction finds the space that Write has seen.                 *)
(***************************************************************************)

LEMMA PendingIsFinite == IsFiniteSet(A!PendingPairs) /\ Cardinality(A!PendingPairs) \in Nat
<1>1. A!Element = 0..(Blocks - 1) /\ IsFiniteSet(A!Element)
  BY TransactionsAssumption, FS_Interval DEF A!Element
<1>2. IsFiniteSet(Reservation \X A!Element)
  BY <1>1, TransactionsAssumption, FS_Product
<1>3. A!PendingPairs \subseteq Reservation \X A!Element
  BY DEF A!PendingPairs
<1>. QED
  BY <1>2, <1>3, FS_Subset, FS_CardinalityType

LEMMA AvailableIs ==
  Allocator!Available = (total - used) - (reserved + Cardinality(A!PendingPairs))
BY SameOperations, SameSets DEF A!Available, A!PendingCount

LEMMA AvailableType == SpaceInv => Allocator!Available \in Int
BY AvailableIs, PendingIsFinite DEF SpaceInv, A!TypeOK

LEMMA AvailableIsNext ==
  Allocator!Available' = (total' - used') - (reserved' + Cardinality(A!PendingPairs'))
<1>1. Allocator!PendingPairs' = A!PendingPairs'
  BY DEF Allocator!PendingPairs, A!PendingPairs, Allocator!ReservedBits, A!ReservedBits,
     Allocator!Committed, A!Committed, Allocator!Element, A!Element
<1>2. Allocator!Cardinality(Allocator!PendingPairs') = Cardinality(A!PendingPairs')
  BY <1>1, SameSets, Zenon
<1>. QED
  BY <1>2, Zenon DEF Allocator!Available, Allocator!PendingCount

LEMMA AvailableStays ==
  ASSUME UNCHANGED allocVars PROVE Allocator!Available' = Allocator!Available
BY DEF allocVars, Allocator!Available, Allocator!PendingCount, Allocator!PendingPairs,
   Allocator!ReservedBits, Allocator!Committed

\* The commit callback makes the freed blocks available.
LEMMA ReleaseAdds ==
  ASSUME SpaceInv, NEW r \in Reservation, A!ReleaseDeallocations(r)
  PROVE  Allocator!Available' >= Allocator!Available /\ Allocator!Available' \in Int
<1>1. /\ A!Committed(r) /\ dealloc' = [dealloc EXCEPT ![r] = {}]
      /\ phase' = [phase EXCEPT ![r] = IF @ = "journal" THEN "none" ELSE @]
      /\ UNCHANGED <<total, used, map, reserved, held, alloc>>
  BY DEF A!ReleaseDeallocations
<1>2. /\ dealloc'[r] = {} /\ phase'[r] \in {"none", "committed"}
      /\ phase'[r] = "none" => alloc[r] = {}
      /\ \A q \in Reservation : q # r => dealloc'[q] = dealloc[q] /\ phase'[q] = phase[q]
  BY <1>1 DEF SpaceInv, A!TypeOK, A!Committed
<1>3. \A q \in Reservation : A!ReservedBits(q)' \subseteq A!ReservedBits(q)
  BY <1>1, <1>2 DEF A!ReservedBits, A!Committed
<1>4. A!PendingPairs' \subseteq A!PendingPairs
  BY <1>3 DEF A!PendingPairs, A!Element
<1>5. Cardinality(A!PendingPairs') <= Cardinality(A!PendingPairs)
  BY <1>4, PendingIsFinite, FS_Subset
<1>6. IsFiniteSet(A!PendingPairs') /\ Cardinality(A!PendingPairs') \in Nat
  BY <1>4, PendingIsFinite, FS_Subset, FS_CardinalityType
<1>. QED
  BY <1>1, <1>5, <1>6, AvailableIsNext, AvailableIs, PendingIsFinite DEF SpaceInv, A!TypeOK

LEMMA WriteSeesSpace ==
  ASSUME Invariants, NEW f \in File, NEW S \in SUBSET SlotsOf(f), Write(f, S)
  PROVE  ContinueHasSpace'
<1>. DEFINE flush == ShouldFlush(f, NeededFor(S)) /\ cached[f] # None
            next == IF cached[f] = None \/ flush THEN "begin" ELSE "continue"
<1>. PICK need : need = IF flush THEN Cardinality(S) ELSE NeededFor(S)
  OBVIOUS
<1>. PICK stage : stage = IF flush THEN "flush" ELSE next
  OBVIOUS
<1>1. /\ op' = [Idle EXCEPT !.file = f, !.slots = S, !.need = need, !.stage = stage,
                            !.after = next]
      /\ UNCHANGED allocVars
  BY DEF Write
<1>2. op'.stage = stage /\ op'.need = need
  BY <1>1 DEF Idle
<1>3. CASE stage = "continue"
  <2>1. ~flush /\ cached[f] # None
    BY <1>3
  <2>2. ~(Allocator!Available < NeededFor(S)) /\ need = NeededFor(S)
    BY <2>1 DEF ShouldFlush
  <2>3. NeededFor(S) \in Nat
    BY SlotsAreFinite DEF NeededFor, SlotsOf
  <2>4. Allocator!Available \in Int
    BY AvailableType DEF Invariants
  <2>. QED
    BY <1>1, <1>2, <2>2, <2>3, <2>4, AvailableStays DEF ContinueHasSpace
<1>4. CASE stage # "continue"
  BY <1>2, <1>4 DEF ContinueHasSpace
<1>. QED
  BY <1>3, <1>4

LEMMA EntryDoneKeepsSpace ==
  ASSUME Invariants, ContinueHasSpace, EntryDone PROVE ContinueHasSpace'
<1>. SUFFICES ASSUME op'.stage = "continue" PROVE Allocator!Available' >= op'.need
  BY DEF ContinueHasSpace
<1>1. op'.stage = op.stage /\ op'.need = op.need /\ op.need \in Nat
  BY OperationType, EntryDoneEffect DEF EntryDone, Operation
<1>2. Allocator!Available >= op.need /\ Allocator!Available \in Int
  BY <1>1, AvailableType DEF ContinueHasSpace, Invariants
<1>3. Allocator!Available' >= Allocator!Available /\ Allocator!Available' \in Int
  <2>1. CASE UNCHANGED allocVars
    BY <2>1, <1>2, AvailableStays
  <2>2. CASE Head(entries).frees /\ Allocator!ReleaseDeallocations(Head(entries).txn)
    <3>1. Head(entries) = entries[1] /\ entries[1].txn \in Reservation
      BY EntryDoneEffect DEF JournalEntry
    <3>. QED
      BY <2>2, <3>1, SameOperations, ReleaseAdds DEF Invariants
  <2>. QED
    BY <2>1, <2>2 DEF EntryDone
<1>. QED
  BY <1>1, <1>2, <1>3

LEMMA NextContinue == Invariants /\ ContinueHasSpace /\ [Next]_vars => ContinueHasSpace'
<1>. SUFFICES ASSUME Invariants, ContinueHasSpace, [Next]_vars PROVE ContinueHasSpace'
  OBVIOUS
<1>0. op \in Operation /\ op.need \in Nat
  BY OperationType DEF Operation
<1>1. CASE (\E f \in File : Truncate(f) \/ Remove(f)) \/ StartSync \/ TimerExpires
  <2>1. op'.stage # "continue"
    BY <1>1 DEF Truncate, Remove, StartSync, TimerExpires, Idle
  <2>. QED
    BY <2>1 DEF ContinueHasSpace
<1>2. CASE Begin \/ Reserved \/ ReserveFails \/ Abandon \/ Abandoned \/ Extended
  <2>1. op'.stage \in {"idle", "reserve", "release", "write", "abandon", "abandoned", "wait"}
    <3>1. CASE Begin
      BY <1>0, <3>1 DEF Begin, Operation
    <3>2. CASE Reserved \/ ReserveFails \/ Abandon \/ Extended
      BY <1>0, <3>2 DEF Reserved, ReserveFails, Abandon, Extended, Continue, Operation
    <3>3. CASE Abandoned /\ op.retried
      BY <3>3 DEF Abandoned, Idle
    <3>4. CASE Abandoned /\ ~op.retried
      BY <1>0, <3>4 DEF Abandoned, BlockingJournalSync, BlockingSyncOf, Operation
    <3>. QED
      BY <1>2, <3>1, <3>2, <3>3, <3>4
  <2>. QED
    BY <2>1 DEF ContinueHasSpace
<1>3. CASE WriteToCache \/ Flush \/ CommitTransaction \/ EnqueueCallback \/ Crash
           \/ \E f \in File : SyncFile(f)
  <2>1. op'.stage \in {"idle", "flush", "swap", "close"}
    <3>1. CASE WriteToCache
      BY <3>1 DEF WriteToCache, Idle
    <3>2. CASE Flush \/ CommitTransaction
      BY <1>0, <3>2 DEF Flush, CommitTransaction, Continue, Operation
    <3>3. CASE EnqueueCallback \/ Crash
      BY <3>3 DEF EnqueueCallback, Crash, Idle
    <3>4. CASE \E f \in File : SyncFile(f)
      BY <1>0, <3>4 DEF SyncFile, Operation
    <3>. QED
      BY <1>3, <3>1, <3>2, <3>3, <3>4
  <2>. QED
    BY <2>1 DEF ContinueHasSpace
<1>4. CASE Retry \/ Close
  <2>1. op.stage \in {"wait", "close"} /\ op.after # "continue"
    BY <1>4 DEF Retry, Close, Invariants, OwnersInv, OperationIsInOrder
  <2>2. op'.stage \in {"idle", op.after}
    <3>1. CASE Retry
      BY <1>0, <3>1 DEF Retry, Continue, Operation
    <3>2. CASE Close /\ op.after = "idle"
      BY <3>2 DEF Close, Idle
    <3>3. CASE Close /\ op.after # "idle"
      BY <1>0, <3>3 DEF Close, Operation
    <3>. QED
      BY <1>4, <3>1, <3>2, <3>3
  <2>. QED
    BY <2>1, <2>2 DEF ContinueHasSpace
<1>5. CASE SwapOut \/ SwapIn \/ CancelRest \/ \E s \in Slot : ReleaseBlock(s)
  <2>1. op.stage \in Using \union {"close"} /\ op'.stage # "continue"
    BY <1>0, <1>5 DEF SwapOut, SwapIn, CancelRest, ReleaseBlock, Using, Operation
  <2>. QED
    BY <2>1 DEF ContinueHasSpace
<1>6. CASE \/ TakeCached \/ EntryWritten \/ SyncDone \/ UNCHANGED vars
           \/ \E i \in DOMAIN entries : DataWritten(i)
  <2>1. op'.stage = op.stage /\ op'.need = op.need /\ UNCHANGED allocVars
    BY <1>0, <1>6 DEF TakeCached, EntryWritten, SyncDone, DataWritten, vars, Operation
  <2>. QED
    BY <2>1, AvailableStays DEF ContinueHasSpace
<1>. QED
  BY <1>1, <1>2, <1>3, <1>4, <1>5, <1>6, WriteSeesSpace, EntryDoneKeepsSpace DEF Next, Work

(***************************************************************************)
(* An operation that changes versions has looked first.                     *)
(***************************************************************************)

LEMMA WriteHasRoom ==
  ASSUME Invariants, SpaceOrder, NEW f \in File, NEW S \in SUBSET SlotsOf(f), Write(f, S)
  PROVE  RoomToGrow' /\ SecondAttempt'
<1>. DEFINE flush == ShouldFlush(f, NeededFor(S)) /\ cached[f] # None
            next == IF cached[f] = None \/ flush THEN "begin" ELSE "continue"
<1>. PICK need : need = IF flush THEN Cardinality(S) ELSE NeededFor(S)
  OBVIOUS
<1>. PICK stage : stage = IF flush THEN "flush" ELSE next
  OBVIOUS
<1>1. /\ op' = [Idle EXCEPT !.file = f, !.slots = S, !.need = need, !.stage = stage,
                            !.after = next]
      /\ op.stage = "idle" /\ S # {} /\ \A s \in S : ver[s] < MaxVersion
      /\ ver' = ver
  BY DEF Write, memoryVars
<1>2. op'.stage = stage /\ op'.need = need /\ op'.slots = S
  BY <1>1 DEF Idle
<1>3. ~op'.retried
  BY <1>1 DEF Idle
<1>4. stage # "continue" => need # 0
  <2>1. S \in SUBSET Slot
    BY DEF SlotsOf
  <2>2. Cardinality(S) # 0
    BY <2>1, <1>1, SlotsAreFinite, FS_EmptySet
  <2>3. cached[f] = None => S \ pending = S
    BY <1>1, <2>1 DEF Invariants, OwnersInv, PendingIsCached, SlotsOf
  <2>. QED
    BY <2>2, <2>3 DEF NeededFor
<1>5. stage \notin {"release", "write"}
  OBVIOUS
<1>. QED
  BY <1>1, <1>2, <1>3, <1>4, <1>5 DEF RoomToGrow, SecondAttempt

\* The other operations that begin.
LEMMA StartHasRoom ==
  ASSUME Invariants, SpaceOrder,
         (\E f \in File : Truncate(f) \/ Remove(f)) \/ StartSync \/ TimerExpires
  PROVE  RoomToGrow' /\ SecondAttempt'
<1>1. op'.slots = {} /\ op'.stage \notin {"reserve", "release"} /\ ~op'.retried
  BY DEF Truncate, Remove, StartSync, TimerExpires, Idle
<1>2. CASE \E f \in File : Truncate(f) \/ Remove(f)
  <2>1. PICK f \in File : Truncate(f) \/ Remove(f)
    BY <1>2
  <2>2. op'.file = f /\ ver' = ver /\ \A s \in SlotsOf(f) : ver[s] < MaxVersion
    BY <2>1 DEF Truncate, Remove, Idle, memoryVars
  <2>. QED
    BY <1>1, <2>2 DEF RoomToGrow, SecondAttempt, SlotsOf
<1>3. CASE StartSync \/ TimerExpires
  <2>1. op'.stage = "sync" /\ op'.after = "idle"
    BY <1>3 DEF StartSync, TimerExpires, Idle
  <2>. QED
    BY <1>1, <2>1 DEF RoomToGrow, SecondAttempt, Asking
<1>. QED
  BY <1>2, <1>3

\* What the steps of the dispatcher do to op, so far as it matters here.
Moves(stage, after) ==
  /\ op'.stage = stage /\ op'.after = after /\ op'.slots = op.slots /\ op'.file = op.file
  /\ op'.need = op.need /\ op'.wait = op.wait

LEMMA StageMoves ==
  ASSUME op \in Operation, NEW stage \in Stage, Continue(stage)
  PROVE  Moves(stage, op.after) /\ (op'.retried <=> op.retried)
BY MovesTo DEF Continue, Moves

LEMMA BeginHasRoom ==
  ASSUME Invariants, SpaceOrder, Begin PROVE RoomToGrow' /\ SecondAttempt' /\ op'.wait = op.wait
<1>0. op \in Operation
  BY OperationType
<1>. PICK stage : stage = IF op.need = 0 THEN "release" ELSE "reserve"
  OBVIOUS
<1>. PICK r : r = NewReservation
  OBVIOUS
<1>1. /\ op.stage = "begin" /\ op' = [op EXCEPT !.txn = r, !.after = "idle", !.stage = stage]
      /\ UNCHANGED <<ver, entries>>
  BY DEF Begin, memoryVars, journalVars
<1>2. Moves(stage, "idle")
  BY <1>0, <1>1 DEF Operation, Moves
<1>3. op'.retried <=> op.retried
  BY <1>0, <1>1 DEF Operation
<1>4. RoomToGrow'
  BY <1>1, <1>2 DEF SpaceOrder, RoomToGrow, Moves, Asking, SlotsOf
<1>5. SecondAttempt'
  BY <1>1, <1>2, <1>3 DEF SpaceOrder, SecondAttempt, Moves, Asking
<1>. QED
  BY <1>2, <1>4, <1>5 DEF Moves

LEMMA ReserveHasRoom ==
  ASSUME Invariants, SpaceOrder, Reserved \/ ReserveFails \/ Abandon \/ Extended
  PROVE  RoomToGrow' /\ SecondAttempt' /\ op'.wait = op.wait
<1>0. op \in Operation
  BY OperationType
<1>. PICK stage \in {"release", "write", "abandon", "abandoned"} :
       /\ op.stage \in {"reserve", "abandon", "continue"} /\ Continue(stage)
       /\ stage = "release" => op.slots = {} /\ op.stage = "reserve"
       /\ stage = "write" => op.slots # {} \/ op.stage = "continue"
       /\ stage \in Asking => op.stage \in Asking
  BY DEF Reserved, ReserveFails, Abandon, Extended, Asking
<1>1. UNCHANGED <<ver, entries>>
  BY DEF Reserved, ReserveFails, Abandon, Extended, memoryVars, journalVars
<1>2. Moves(stage, op.after) /\ (op'.retried <=> op.retried)
  BY <1>0, StageMoves DEF Stage
<1>3. RoomToGrow'
  BY <1>1, <1>2 DEF SpaceOrder, RoomToGrow, Moves, Asking, SlotsOf
<1>4. SecondAttempt'
  BY <1>1, <1>2 DEF SpaceOrder, SecondAttempt, Moves, Asking
<1>. QED
  BY <1>2, <1>3, <1>4 DEF Moves

LEMMA AbandonedHasRoom ==
  ASSUME Invariants, SpaceOrder, Abandoned
  PROVE  RoomToGrow' /\ SecondAttempt' /\ op'.wait \in {0, Len(entries)}
<1>0. op \in Operation /\ op.stage = "abandoned" /\ ver' = ver
  BY OperationType DEF Abandoned, memoryVars
<1>1. CASE op.retried
  <2>1. op' = Idle
    BY <1>1 DEF Abandoned
  <2>. QED
    BY <2>1, IdleIsFresh DEF RoomToGrow, SecondAttempt, Asking
<1>2. CASE ~op.retried
  <2>1. op' = [op EXCEPT !.stage = "wait", !.after = "begin", !.txn = None, !.retried = TRUE,
                 !.wait = Len(entries)]
    BY <1>2 DEF Abandoned, BlockingJournalSync, BlockingSyncOf
  <2>2. /\ op'.stage = "wait" /\ op'.after = "begin" /\ op'.slots = op.slots
        /\ op'.file = op.file /\ op'.need = op.need /\ op'.wait = Len(entries)
    BY <1>0, <2>1 DEF Operation
  <2>. QED
    BY <1>0, <2>2 DEF SpaceOrder, RoomToGrow, SecondAttempt, Asking, SlotsOf
<1>. QED
  BY <1>1, <1>2

LEMMA RetryHasRoom ==
  ASSUME Invariants, SpaceOrder, Retry PROVE RoomToGrow' /\ SecondAttempt' /\ op'.wait = op.wait
<1>1. /\ op \in Operation /\ op.stage = "wait" /\ op.wait = 0 /\ Len(entries) = 0
      /\ op.after = "begin" /\ Continue("begin") /\ UNCHANGED <<ver, entries>>
  BY OperationType DEF Retry, Invariants, OwnersInv, OperationIsInOrder, memoryVars, journalVars
<1>2. Moves("begin", "begin") /\ (op'.retried <=> op.retried)
  BY <1>1, StageMoves DEF Stage
<1>3. RoomToGrow'
  BY <1>1, <1>2 DEF SpaceOrder, RoomToGrow, Moves, Asking, SlotsOf
<1>4. SecondAttempt'
  BY <1>1, <1>2 DEF SecondAttempt, Moves
<1>. QED
  BY <1>2, <1>3, <1>4 DEF Moves

\* Steps that work on blocks, or carry the reservation about.
LEMMA WorkHasRoom ==
  ASSUME Invariants, SpaceOrder, TakeCached \/ Flush \/ SwapOut \/ SwapIn \/ CancelRest
  PROVE  RoomToGrow' /\ SecondAttempt' /\ op'.wait = op.wait
<1>0. op \in Operation
  BY OperationType
<1>. PICK stage :
       stage = op'.stage
  OBVIOUS
<1>1. /\ stage \in {"continue", "swap", "close"}
      /\ stage = "swap" => op.stage \in {"flush", "swap"}
      /\ stage # "swap" => op.stage = stage
      /\ Moves(stage, op.after) /\ ver' = ver /\ entries' = entries
  <2>1. CASE TakeCached
    BY <1>0, <2>1 DEF TakeCached, Moves, Operation, journalVars
  <2>2. CASE Flush
    BY <1>0, <2>2 DEF Flush, Moves, Operation, journalVars
  <2>3. CASE SwapOut \/ CancelRest
    BY <2>3 DEF SwapOut, CancelRest, Moves, memoryVars, journalVars
  <2>4. CASE SwapIn
    BY <2>4, SwapInEffect, <1>0 DEF SwapIn, Moves, Operation, journalVars
  <2>. QED
    BY <2>1, <2>2, <2>3, <2>4
<1>2. op'.retried <=> op.retried
  <2>1. CASE TakeCached
    BY <1>0, <2>1 DEF TakeCached, Operation
  <2>2. CASE Flush
    BY <1>0, <2>2 DEF Flush, Operation
  <2>3. CASE SwapOut \/ CancelRest
    BY <2>3 DEF SwapOut, CancelRest
  <2>4. CASE SwapIn
    BY <2>4, <1>0 DEF SwapIn, Operation
  <2>. QED
    BY <2>1, <2>2, <2>3, <2>4
<1>3. RoomToGrow'
  BY <1>1 DEF SpaceOrder, RoomToGrow, Moves, Asking, SlotsOf
<1>4. SecondAttempt'
  BY <1>1, <1>2 DEF SpaceOrder, SecondAttempt, Moves, Asking
<1>. QED
  BY <1>1, <1>3, <1>4 DEF Moves

LEMMA CloseHasRoom ==
  ASSUME Invariants, SpaceOrder, Close
  PROVE  RoomToGrow' /\ SecondAttempt' /\ op'.wait \in {0, op.wait}
<1>0. op \in Operation /\ op.stage = "close" /\ UNCHANGED <<ver, entries>>
  BY OperationType DEF Close, memoryVars, journalVars
<1>1. CASE op.after = "idle"
  <2>1. op' = Idle
    BY <1>1 DEF Close
  <2>. QED
    BY <2>1, IdleIsFresh DEF RoomToGrow, SecondAttempt, Asking
<1>2. CASE op.after # "idle"
  <2>1. op' = [op EXCEPT !.stage = op.after, !.txn = None, !.data = {}]
    BY <1>2 DEF Close
  <2>2. Moves(op.after, op.after)
    BY <1>0, <2>1 DEF Moves, Operation
  <2>3. op'.retried <=> op.retried
    BY <1>0, <2>1 DEF Operation
  <2>4. op.after \in {"begin", "sync"}
    BY <1>0, <1>2 DEF Operation, Invariants, OwnersInv, OperationIsInOrder
  <2>5. RoomToGrow'
    BY <1>0, <2>2, <2>4 DEF SpaceOrder, RoomToGrow, Moves, Asking, SlotsOf
  <2>6. SecondAttempt'
    BY <1>0, <2>2, <2>3, <2>4 DEF SpaceOrder, SecondAttempt, Moves, Asking
  <2>. QED
    BY <2>2, <2>5, <2>6 DEF Moves
<1>. QED
  BY <1>1, <1>2

LEMMA SyncFileHasRoom ==
  ASSUME Invariants, SpaceOrder, NEW f \in File, SyncFile(f)
  PROVE  RoomToGrow' /\ SecondAttempt' /\ op'.wait = op.wait
<1>1. /\ op \in Operation /\ op.stage = "sync"
      /\ op' = [op EXCEPT !.stage = "flush", !.file = f, !.after = "sync"]
  BY OperationType DEF SyncFile
<1>2. /\ op'.stage = "flush" /\ op'.after = "sync" /\ op'.slots = op.slots
      /\ op'.wait = op.wait
  BY <1>1 DEF Operation
<1>3. op.slots = {}
  BY <1>1 DEF Invariants, OwnersInv, OperationIsInOrder
<1>. QED
  BY <1>2, <1>3 DEF RoomToGrow, SecondAttempt, Asking

(***************************************************************************)
(* Steps that change versions, or the journal.                              *)
(***************************************************************************)

LEMMA VersionTypes ==
  ASSUME Types
  PROVE  /\ \A s \in Slot : ver[s] \in Nat /\ durable.ver[s] \in Nat
         /\ Len(entries) \in Nat /\ MaxVersion \in Nat
         /\ \A i \in 1..Len(entries) :
              /\ entries[i] \in JournalEntry
              /\ DOMAIN entries[i].ver \subseteq Slot
              /\ \A s \in DOMAIN entries[i].ver : entries[i].ver[s] \in Nat
<1>1. \A i \in 1..Len(entries) : entries[i] \in JournalEntry
  BY EntryTypes
<1>2. \A e \in JournalEntry : /\ DOMAIN e.ver \subseteq Slot
                              /\ \A s \in DOMAIN e.ver : e.ver[s] \in Nat
  BY DEF JournalEntry
<1>3. \A s \in Slot : ver[s] \in Nat /\ durable.ver[s] \in Nat
  BY DEF Types, DiskState
<1>. QED
  BY <1>1, <1>2, <1>3, EntryTypes, TransactionsAssumption

LEMMA WriteToCacheBounds ==
  ASSUME Invariants, SpaceOrder, WriteToCache
  PROVE  RoomToGrow' /\ VersionsBounded' /\ WaitsBounded' /\ SecondAttempt'
<1>1. /\ ver' = [s \in Slot |-> IF s \in op.slots THEN ver[s] + 1 ELSE ver[s]]
      /\ UNCHANGED <<entries, demanded, timer, durable, sync, crashes>>
  BY DEF WriteToCache, journalVars, diskVars, clientVars
<1>2. /\ op'.stage \in {"idle", "flush"} /\ op'.after = "idle" /\ op'.slots = {} /\ op'.wait = 0
  BY DEF WriteToCache, Idle
<1>3. RoomToGrow' /\ SecondAttempt'
  BY <1>2 DEF RoomToGrow, SecondAttempt, Asking
<1>4. VersionsBounded'
  <2>1. \A s \in Slot : ver'[s] <= MaxVersion
    BY <1>1, VersionTypes DEF SpaceOrder, RoomToGrow, VersionsBounded, Invariants, OwnersInv
  <2>. QED
    BY <1>1, <2>1 DEF SpaceOrder, VersionsBounded
<1>5. WaitsBounded'
  BY <1>1, <1>2, VersionTypes DEF SpaceOrder, WaitsBounded, Invariants, OwnersInv
<1>. QED
  BY <1>3, <1>4, <1>5

LEMMA ReleaseBlockBounds ==
  ASSUME Invariants, SpaceOrder, NEW s \in Slot, ReleaseBlock(s)
  PROVE  RoomToGrow' /\ VersionsBounded' /\ WaitsBounded' /\ SecondAttempt'
<1>1. /\ op.stage = "release" /\ s \in SlotsOf(op.file) /\ ptr[s] # 0
      /\ ptr' = [ptr EXCEPT ![s] = 0] /\ ver' = [ver EXCEPT ![s] = @ + 1]
      /\ UNCHANGED <<op, entries, demanded, timer, durable, sync, crashes>>
  BY DEF ReleaseBlock, journalVars, diskVars, clientVars
<1>2. ver[s] < MaxVersion /\ op.slots = {}
  BY <1>1 DEF SpaceOrder, RoomToGrow
<1>3. /\ ptr'[s] = 0 /\ ver'[s] = ver[s] + 1
      /\ \A t \in Slot : t # s => ptr'[t] = ptr[t] /\ ver'[t] = ver[t]
  BY <1>1 DEF Invariants, OwnersInv, Types
<1>4. VersionsBounded'
  <2>1. \A t \in Slot : ver'[t] <= MaxVersion
    BY <1>2, <1>3, VersionTypes DEF SpaceOrder, VersionsBounded, Invariants, OwnersInv
  <2>. QED
    BY <1>1, <2>1 DEF SpaceOrder, VersionsBounded
<1>5. op.after # "begin"
  BY <1>1 DEF SpaceOrder, RoomToGrow
<1>6. RoomToGrow'
  BY <1>1, <1>2, <1>3, <1>5 DEF SpaceOrder, RoomToGrow, SlotsOf, Asking
<1>. QED
  BY <1>1, <1>4, <1>6 DEF SpaceOrder, WaitsBounded, SecondAttempt

LEMMA EnqueueCallbackBounds ==
  ASSUME Invariants, SpaceOrder, EnqueueCallback
  PROVE  RoomToGrow' /\ VersionsBounded' /\ WaitsBounded' /\ SecondAttempt'
<1>1. /\ op' = Idle /\ demanded' = Len(entries)
      /\ sync' = IF op.client THEN [wait |-> Len(entries), want |-> ver] ELSE sync
      /\ UNCHANGED <<ver, entries, timer, durable, crashes>>
  BY DEF EnqueueCallback, memoryVars, diskVars
<1>2. sync'.wait \in {Len(entries), sync.wait}
  BY <1>1
<1>. QED
  BY <1>1, <1>2, IdleIsFresh, VersionTypes
     DEF SpaceOrder, RoomToGrow, VersionsBounded, WaitsBounded, SecondAttempt, Asking, Invariants,
         OwnersInv

LEMMA CommitBounds ==
  ASSUME Invariants, SpaceOrder, CommitTransaction
  PROVE  RoomToGrow' /\ VersionsBounded' /\ WaitsBounded' /\ SecondAttempt'
<1>. PICK e : e = Entry(map', used')
  OBVIOUS
<1>1. /\ op.stage \in Using /\ Continue("close") /\ timer' = TRUE
      /\ entries' = Append(entries, e) /\ e \in JournalEntry
      /\ e.ver = [s \in SlotsOf(op.file) |-> ver[s]]
      /\ UNCHANGED <<ver, ptr, demanded, durable, sync, crashes>>
  BY CommitEffect DEF CommitTransaction, PostSyncTask, memoryVars, diskVars, clientVars
<1>2. Moves("close", op.after) /\ (op'.retried <=> op.retried)
  BY <1>1, OperationType, StageMoves DEF Stage
<1>3. /\ Len(entries') = Len(entries) + 1 /\ Len(entries) \in Nat
      /\ \A i \in 1..Len(entries) : entries'[i] = entries[i]
      /\ entries'[Len(entries) + 1] = e
  BY <1>1, AppendedSequence DEF Invariants, OwnersInv, Types
<1>4. RoomToGrow'
  BY <1>1, <1>2 DEF SpaceOrder, RoomToGrow, Moves, Asking, SlotsOf, Using
<1>5. SecondAttempt'
  BY <1>1, <1>2 DEF SpaceOrder, SecondAttempt, Moves, Asking, Using
<1>6. VersionsBounded'
  <2>1. \A s \in DOMAIN e.ver : e.ver[s] <= MaxVersion
    BY <1>1 DEF SpaceOrder, VersionsBounded, SlotsOf
  <2>. QED
    BY <1>1, <1>3, <2>1 DEF SpaceOrder, VersionsBounded
<1>7. WaitsBounded'
  BY <1>1, <1>2, <1>3 DEF SpaceOrder, WaitsBounded, Moves, Invariants, OwnersInv, Types, Operation
<1>. QED
  BY <1>4, <1>5, <1>6, <1>7

LEMMA DataWrittenBounds ==
  ASSUME Invariants, SpaceOrder, NEW i \in 1..Len(entries), DataWritten(i)
  PROVE  RoomToGrow' /\ VersionsBounded' /\ WaitsBounded' /\ SecondAttempt'
<1>1. PICK e \in JournalEntry : entries' = [entries EXCEPT ![i] = e] /\ e.ver = entries[i].ver
  BY DataWrittenEffect
<1>2. UNCHANGED <<ver, ptr, op, demanded, timer, durable, sync, crashes>>
  BY DEF DataWritten, memoryVars, clientVars
<1>3. /\ Len(entries') = Len(entries)
      /\ \A j \in 1..Len(entries) : entries'[j].ver = entries[j].ver
  BY <1>1, ChangedSequence DEF Invariants, OwnersInv, Types
<1>. QED
  BY <1>2, <1>3 DEF SpaceOrder, RoomToGrow, VersionsBounded, WaitsBounded, SecondAttempt, SlotsOf

LEMMA EntryWrittenBounds ==
  ASSUME Invariants, SpaceOrder, EntryWritten
  PROVE  RoomToGrow' /\ VersionsBounded' /\ WaitsBounded' /\ SecondAttempt'
<1>1. PICK e \in JournalEntry : /\ entries' = [entries EXCEPT ![1] = e] /\ e.ver = entries[1].ver
                                 /\ durable' = After(durable, entries[1])
                                 /\ Len(entries) \in Nat \ {0}
  BY EntryWrittenEffect
<1>2. UNCHANGED <<ver, ptr, op, demanded, timer, sync, crashes>> /\ 1 \in 1..Len(entries)
  BY <1>1 DEF EntryWritten, memoryVars, clientVars
<1>3. /\ Len(entries') = Len(entries)
      /\ \A j \in 1..Len(entries) : entries'[j].ver = entries[j].ver
  BY <1>1, <1>2, ChangedSequence DEF Invariants, OwnersInv, Types
<1>4. \A s \in Slot : durable'.ver[s] <= MaxVersion
  BY <1>1, <1>2 DEF After, SpaceOrder, VersionsBounded
<1>. QED
  BY <1>2, <1>3, <1>4
     DEF SpaceOrder, RoomToGrow, VersionsBounded, WaitsBounded, SecondAttempt, SlotsOf

LEMMA EntryDoneBounds ==
  ASSUME Invariants, SpaceOrder, EntryDone
  PROVE  RoomToGrow' /\ VersionsBounded' /\ WaitsBounded' /\ SecondAttempt'
<1>. PICK n \in Nat \ {0} : n = Len(entries)
  BY EntryDoneEffect
<1>1. /\ Len(entries') = n - 1 /\ \A i \in 1..(n - 1) : entries'[i] = entries[i + 1]
      /\ op'.stage = op.stage /\ op'.after = op.after /\ op'.file = op.file
      /\ op'.slots = op.slots /\ op'.wait = Decrement(op.wait)
      /\ sync'.wait = Decrement(sync.wait)
      /\ UNCHANGED <<ver, ptr, durable, timer, crashes>> /\ demanded' = Decrement(demanded)
  BY EntryDoneEffect DEF EntryDone, memoryVars, diskVars
<1>2. op'.need = op.need
  BY OperationType DEF EntryDone, Operation
<1>3. op'.retried <=> op.retried
  BY OperationType DEF EntryDone, Operation
<1>4. RoomToGrow'
  BY <1>1, <1>2 DEF SpaceOrder, RoomToGrow, SlotsOf
<1>5. SecondAttempt'
  BY <1>1, <1>3 DEF SpaceOrder, SecondAttempt
<1>6. VersionsBounded'
  <2>1. \A i \in 1..(n - 1) : i + 1 \in 1..n
    OBVIOUS
  <2>. QED
    BY <1>1, <2>1 DEF SpaceOrder, VersionsBounded
<1>7. WaitsBounded'
  <2>1. demanded \in Nat /\ op.wait \in Nat /\ sync.wait \in Nat \union {-1}
    BY DEF Invariants, OwnersInv, Types, Operation
  <2>. QED
    BY <1>1, <2>1 DEF SpaceOrder, WaitsBounded, Decrement
<1>. QED
  BY <1>4, <1>5, <1>6, <1>7

LEMMA OtherBounds ==
  ASSUME Invariants, SpaceOrder, SyncDone \/ Crash \/ UNCHANGED vars
  PROVE  RoomToGrow' /\ VersionsBounded' /\ WaitsBounded' /\ SecondAttempt'
<1>1. CASE SyncDone
  <2>1. /\ UNCHANGED <<ver, ptr, op, entries, demanded, timer, durable, crashes>>
        /\ sync'.wait = -1
    BY <1>1 DEF SyncDone, NoSync, memoryVars, journalVars, diskVars
  <2>. QED
    BY <2>1, VersionTypes DEF SpaceOrder, RoomToGrow, VersionsBounded, WaitsBounded, SecondAttempt,
       SlotsOf, Invariants, OwnersInv
<1>2. CASE Crash
  <2>1. /\ ver' = durable.ver /\ durable' = durable /\ op' = Idle /\ entries' = <<>>
        /\ demanded' = 0 /\ timer' = FALSE /\ sync'.wait = -1 /\ crashes' = crashes + 1
        /\ crashes < MaxCrashes
    BY <1>2 DEF Crash, NoSync, diskVars
  <2>2. Len(entries') = 0
    BY <2>1
  <2>3. RoomToGrow' /\ SecondAttempt'
    BY <2>1, IdleIsFresh DEF RoomToGrow, SecondAttempt, Asking
  <2>4. VersionsBounded'
    BY <2>1, <2>2 DEF SpaceOrder, VersionsBounded
  <2>5. WaitsBounded'
    <3>1. crashes' \in 0..MaxCrashes
      BY <2>1, TransactionsAssumption DEF SpaceOrder, WaitsBounded
    <3>2. op'.wait = 0
      BY <2>1, IdleIsFresh
    <3>3. timer' \in BOOLEAN
      BY <2>1
    <3>4. demanded' <= Len(entries') /\ op'.wait <= Len(entries') /\ sync'.wait <= Len(entries')
      BY <2>1, <2>2, <3>2
    <3>. QED
      BY <3>1, <3>3, <3>4 DEF WaitsBounded
  <2>. QED
    BY <2>3, <2>4, <2>5
<1>3. CASE UNCHANGED vars
  BY <1>3 DEF SpaceOrder, RoomToGrow, VersionsBounded, WaitsBounded, SecondAttempt, SlotsOf, vars,
     memoryVars, journalVars, diskVars, clientVars
<1>. QED
  BY <1>1, <1>2, <1>3

\* The steps that leave versions and journal alone.
LEMMA QuietBounds ==
  ASSUME Invariants, SpaceOrder, UNCHANGED <<ver, entries, durable, sync, crashes>>,
         demanded' \in {demanded, Len(entries)}, timer' \in BOOLEAN,
         op'.wait \in {0, op.wait, Len(entries)}
  PROVE  VersionsBounded' /\ WaitsBounded'
<1>1. Len(entries) \in Nat
  BY EntryTypes DEF Invariants, OwnersInv
<1>2. VersionsBounded'
  BY DEF SpaceOrder, VersionsBounded
<1>3. WaitsBounded'
  BY <1>1 DEF SpaceOrder, WaitsBounded
<1>. QED
  BY <1>2, <1>3

LEMMA NextBounds ==
  Invariants /\ SpaceOrder /\ [Next]_vars =>
    RoomToGrow' /\ VersionsBounded' /\ WaitsBounded' /\ SecondAttempt'
<1>. DEFINE Goal == RoomToGrow' /\ VersionsBounded' /\ WaitsBounded' /\ SecondAttempt'
<1>. SUFFICES ASSUME Invariants, SpaceOrder, [Next]_vars PROVE Goal
  OBVIOUS
<1>0. timer \in BOOLEAN
  BY DEF SpaceOrder, WaitsBounded
<1>1. ASSUME NEW f \in File, NEW S \in SUBSET SlotsOf(f), Write(f, S) PROVE Goal
  <2>1. UNCHANGED <<ver, entries, durable, sync, crashes, demanded, timer>> /\ op'.wait = 0
    BY <1>1 DEF Write, Idle, memoryVars, journalVars, diskVars, clientVars
  <2>. QED
    BY <1>0, <1>1, <2>1, WriteHasRoom, QuietBounds
<1>2. CASE (\E f \in File : Truncate(f) \/ Remove(f)) \/ StartSync \/ TimerExpires
  <2>1. /\ UNCHANGED <<ver, entries, durable, sync, crashes, demanded>> /\ op'.wait = 0
        /\ timer' = timer \/ timer' = FALSE
    BY <1>2 DEF Truncate, Remove, StartSync, TimerExpires, Idle, memoryVars, journalVars, diskVars,
       clientVars
  <2>. QED
    BY <1>0, <1>2, <2>1, StartHasRoom, QuietBounds
<1>3. CASE Begin \/ Reserved \/ ReserveFails \/ Abandon \/ Extended \/ Retry
  <2>1. UNCHANGED <<ver, entries, durable, sync, crashes, demanded, timer>>
    BY <1>3 DEF Begin, Reserved, ReserveFails, Abandon, Extended, Retry, memoryVars, journalVars,
       diskVars, clientVars
  <2>2. RoomToGrow' /\ SecondAttempt' /\ op'.wait = op.wait
    BY <1>3, BeginHasRoom, ReserveHasRoom, RetryHasRoom
  <2>. QED
    BY <1>0, <2>1, <2>2, QuietBounds
<1>4. CASE Abandoned
  <2>1. /\ UNCHANGED <<ver, entries, durable, sync, crashes, timer>>
        /\ demanded' \in {demanded, Len(entries)}
    BY <1>4 DEF Abandoned, BlockingJournalSync, memoryVars, diskVars, clientVars
  <2>. QED
    BY <1>0, <1>4, <2>1, AbandonedHasRoom, QuietBounds
<1>5. CASE \/ TakeCached \/ Flush \/ SwapOut \/ SwapIn \/ CancelRest \/ Close
           \/ \E f \in File : SyncFile(f)
  <2>1. UNCHANGED <<ver, entries, durable, sync, crashes, demanded, timer>>
    BY <1>5 DEF TakeCached, Flush, SwapOut, SwapIn, CancelRest, Close, SyncFile, memoryVars,
       journalVars, diskVars, clientVars
  <2>2. RoomToGrow' /\ SecondAttempt' /\ op'.wait \in {0, op.wait}
    BY <1>5, WorkHasRoom, CloseHasRoom, SyncFileHasRoom
  <2>. QED
    BY <1>0, <2>1, <2>2, QuietBounds
<1>6. CASE WriteToCache \/ EnqueueCallback \/ CommitTransaction \/ \E s \in Slot : ReleaseBlock(s)
  BY <1>6, WriteToCacheBounds, EnqueueCallbackBounds, CommitBounds, ReleaseBlockBounds
<1>7. CASE EntryWritten \/ EntryDone \/ SyncDone \/ Crash \/ UNCHANGED vars
  BY <1>7, EntryWrittenBounds, EntryDoneBounds, OtherBounds
<1>8. ASSUME NEW i \in DOMAIN entries, DataWritten(i) PROVE Goal
  <2>1. i \in 1..Len(entries)
    BY <1>8 DEF Invariants, OwnersInv, Types
  <2>. QED
    BY <1>8, <2>1, DataWrittenBounds
<1>. QED
  BY <1>1, <1>2, <1>3, <1>4, <1>5, <1>6, <1>7, <1>8 DEF Next, Work

LEMMA NextSpaceOrder == Invariants /\ SpaceOrder /\ [Next]_vars => SpaceOrder'
BY NextBounds, NextContinue DEF SpaceOrder

LEMMA InitSpaceOrder == Init => SpaceOrder
<1>. SUFFICES ASSUME Init PROVE SpaceOrder
  OBVIOUS
<1>1. /\ ver = [s \in Slot |-> 0] /\ op = Idle /\ entries = <<>> /\ demanded = 0
      /\ timer = FALSE /\ durable.ver = [s \in Slot |-> 0] /\ sync.wait = -1 /\ crashes = 0
  BY DEF Init, NoSync
<1>2. Len(entries) = 0
  BY <1>1
<1>3. RoomToGrow /\ SecondAttempt /\ ContinueHasSpace
  BY <1>1, IdleIsFresh DEF RoomToGrow, SecondAttempt, ContinueHasSpace, Asking
<1>4. VersionsBounded
  BY <1>1, <1>2, TransactionsAssumption DEF VersionsBounded
<1>5. WaitsBounded
  <2>1. op.wait = 0
    BY <1>1, IdleIsFresh
  <2>2. timer \in BOOLEAN
    BY <1>1
  <2>. QED
    BY <1>1, <1>2, <2>1, <2>2, TransactionsAssumption DEF WaitsBounded
<1>. QED
  BY <1>3, <1>4, <1>5 DEF SpaceOrder

LEMMA SpaceOrderHolds == Spec => [](Invariants /\ SpaceOrder)
<1>1. Init => Invariants /\ SpaceOrder
  BY InitInvariants, InitSpaceOrder
<1>2. (Invariants /\ SpaceOrder) /\ [Next]_vars => (Invariants /\ SpaceOrder)'
  BY NextInvariants, NextSpaceOrder
<1>. QED
  BY <1>1, <1>2, PTL DEF Spec

\* Every variable keeps its type and its bound: a version changes only in an operation that
\* has seen that it may, and nobody waits for more entries than the journal has.
THEOREM TypesHold == Spec => []TypeOK
<1>1. Invariants /\ SpaceOrder => TypeOK
  <2>. SUFFICES ASSUME Invariants, SpaceOrder PROVE TypeOK
    OBVIOUS
  <2>1. ver \in [Slot -> 0..MaxVersion]
    BY VersionTypes DEF SpaceOrder, VersionsBounded, Invariants, OwnersInv, Types
  <2>2. /\ ptr \in [Slot -> 0..(Blocks - 1)] /\ pending \subseteq Slot
        /\ cached \in [File -> Reservation \union {None}] /\ op.stage \in Stage
    BY DEF Invariants, OwnersInv, Types, Block, Operation
  <2>3. /\ demanded \in 0..Len(entries) /\ op.wait \in 0..Len(entries)
        /\ sync.wait \in -1..Len(entries)
    <3>1. demanded \in Nat /\ op.wait \in Nat /\ sync.wait \in Nat \union {-1}
      BY DEF Invariants, OwnersInv, Types, Operation
    <3>. QED
      BY <3>1, VersionTypes DEF SpaceOrder, WaitsBounded, Invariants, OwnersInv
  <2>4. timer \in BOOLEAN /\ crashes \in 0..MaxCrashes
    BY DEF SpaceOrder, WaitsBounded
  <2>. QED
    BY <2>1, <2>2, <2>3, <2>4 DEF TypeOK
<1>. QED
  BY <1>1, SpaceOrderHolds, PTL

\* An operation is refused for lack of space only when no freed block is kept back: between
\* BlockingJournalSync's return and the second Reserve of BeginTransaction the journal gets
\* no new entry, and only entries keep freed blocks.
THEOREM RefusedOnlyWhenFull == Spec => []NoSpaceOnlyWhenFull
<1>1. Invariants /\ SpaceOrder => NoSpaceOnlyWhenFull
  <2>. SUFFICES ASSUME Invariants, SpaceOrder, op.stage = "abandoned", op.retried,
                       NEW r \in Reservation, Allocator!Committed(r)
                PROVE  dealloc[r] = {}
    BY DEF NoSpaceOnlyWhenFull
  <2>1. Len(entries) = 0
    BY DEF SpaceOrder, SecondAttempt, Asking
  <2>2. ~Keeps(r)
    BY <2>1 DEF Invariants, OwnersInv, EntriesKeepBlocks
  <2>. QED
    BY <2>2 DEF Keeps, A!Committed, Allocator!Committed
<1>. QED
  BY <1>1, SpaceOrderHolds, PTL

\* A write that has decided not to flush its file finds the space it has seen
\* (file_target.cc:188-199): until it extends its reservation only the journal touches the
\* allocator, and that only gives blocks back.
THEOREM ContinuesWithSpace == Spec => []ContinueHasSpace
<1>1. Invariants /\ SpaceOrder => ContinueHasSpace
  BY DEF SpaceOrder
<1>. QED
  BY <1>1, SpaceOrderHolds, PTL

================================================================================
