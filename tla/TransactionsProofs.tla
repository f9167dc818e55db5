--------------------------- MODULE TransactionsProofs ---------------------------
(***************************************************************************)
(* The part of the argument for Transactions that is about who holds what:  *)
(* which reservation belongs to the operation, to a file's cache or to a    *)
(* journal entry, and which of them have blocks.  What the allocator        *)
(* guarantees is taken from AllocatorProofs.                                *)
(***************************************************************************)
EXTENDS Transactions, FiniteSetTheorems, TLAPS

A == INSTANCE AllocatorProofs WITH
  InitAllocated <- {0}, InitTotal <- Blocks, SliceElements <- 1, MaxTotal <- Blocks,
  UsingFvm <- FALSE, MaxRequest <- Blocks, FreesOwnAllocations <- FALSE

(***************************************************************************)
(* The allocator: its invariants hold here, where clients take its steps    *)
(* and a crash starts it anew from the bitmap on disk.                      *)
(***************************************************************************)

SpaceInv == A!TypeOK /\ A!NoElementTwice

LEMMA SameSets ==
  /\ \A S : A!IsFiniteSet(S) = IsFiniteSet(S)
  /\ \A S : A!Cardinality(S) = Cardinality(S)
  /\ \A S : A!Cardinality(S) = Allocator!Cardinality(S)
BY DEF A!IsFiniteSet, IsFiniteSet, A!Cardinality, Cardinality, Allocator!Cardinality

LEMMA SpaceAssumption == A!AllocatorAssumption
BY SameSets, TransactionsAssumption DEF A!AllocatorAssumption

\* The operations of the two instances are the same.
LEMMA SameOperations ==
  ASSUME NEW r
  PROVE  /\ Allocator!Construct(r) => A!Construct(r)
         /\ \A n : Allocator!Reserve(r, n) => A!Reserve(r, n)
         /\ Allocator!Allocate(r) => A!Allocate(r)
         /\ \A i : Allocator!Free(r, i) => A!Free(r, i)
         /\ Allocator!Commit(r) => A!Commit(r)
         /\ Allocator!Cancel(r) => A!Cancel(r)
         /\ Allocator!Abort(r) => A!Abort(r)
         /\ Allocator!DropAllocations(r) => A!DropAllocations(r)
         /\ Allocator!DestroyCommitted(r) => A!DestroyCommitted(r)
         /\ Allocator!ReleaseDeallocations(r) => A!ReleaseDeallocations(r)
         /\ Allocator!FindLocked = A!FindLocked
         /\ Allocator!Available = A!Available
<1>1. Allocator!Available = A!Available
  BY SameSets DEF Allocator!Available, A!Available, Allocator!PendingCount, A!PendingCount,
     Allocator!PendingPairs, A!PendingPairs, Allocator!ReservedBits, A!ReservedBits,
     Allocator!Committed, A!Committed, Allocator!Element, A!Element
<1>2. Allocator!Allocatable = A!Allocatable
  BY DEF Allocator!Allocatable, A!Allocatable, Allocator!Pending, A!Pending,
     Allocator!ReservedBits, A!ReservedBits, Allocator!Committed, A!Committed
<1>3. Allocator!FindLocked = A!FindLocked
  BY <1>2, Zenon DEF Allocator!FindLocked, A!FindLocked
<1>4. /\ Allocator!Construct(r) => A!Construct(r)
      /\ Allocator!Cancel(r) => A!Cancel(r)
      /\ Allocator!Abort(r) => A!Abort(r)
      /\ Allocator!DestroyCommitted(r) => A!DestroyCommitted(r)
      /\ \A i : Allocator!Free(r, i) => A!Free(r, i)
  BY DEF Allocator!Construct, A!Construct, Allocator!Cancel, A!Cancel, Allocator!Abort,
     A!Abort, Allocator!DestroyCommitted, A!DestroyCommitted, Allocator!Free, A!Free,
     Allocator!Freeable, A!Freeable
<1>5. Allocator!Commit(r) => A!Commit(r)
  BY SameSets DEF Allocator!Commit, A!Commit
<1>6. Allocator!DropAllocations(r) => A!DropAllocations(r)
  BY DEF Allocator!DropAllocations, A!DropAllocations, Allocator!LowerFirstFree,
     A!LowerFirstFree
<1>7. Allocator!ReleaseDeallocations(r) => A!ReleaseDeallocations(r)
  BY DEF Allocator!ReleaseDeallocations, A!ReleaseDeallocations, Allocator!LowerFirstFree,
     A!LowerFirstFree, Allocator!Committed, A!Committed
<1>8. \A n : Allocator!Reserve(r, n) => A!Reserve(r, n)
  BY <1>1 DEF Allocator!Reserve, A!Reserve, Allocator!Extend, A!Extend
<1>9. Allocator!Allocate(r) => A!Allocate(r)
  BY <1>2, <1>3 DEF Allocator!Allocate, A!Allocate
<1>. QED
  BY <1>1, <1>3, <1>4, <1>5, <1>6, <1>7, <1>8, <1>9

LEMMA SpaceAtStart == Init => SpaceInv
<1>1. Allocator!Init => A!Init
  BY SameSets DEF Allocator!Init, A!Init
<1>. QED
  BY <1>1, SpaceAssumption, A!InitTypeOK, A!InitNoElementTwice
     DEF Init, SpaceInv, A!AllocatorAssumption

LEMMA SpaceStep ==
  ASSUME SpaceInv, NEW r \in Reservation,
         \/ A!Construct(r) \/ A!Allocate(r) \/ A!Commit(r) \/ A!Cancel(r) \/ A!Abort(r)
         \/ A!DropAllocations(r) \/ A!DestroyCommitted(r) \/ A!ReleaseDeallocations(r)
         \/ \E i \in A!Element : A!Free(r, i)
  PROVE  SpaceInv'
<1>1. A!Next
  BY DEF A!Next
<1>. QED
  BY <1>1, SpaceAssumption, A!NextTypeOK, A!NextNoElementTwice
     DEF SpaceInv, A!AllocatorAssumption

\* Clients may extend a reservation by nothing.
LEMMA SpaceReserve ==
  ASSUME SpaceInv, NEW r \in Reservation, NEW n \in Nat, A!Reserve(r, n)
  PROVE  SpaceInv'
<1>1. /\ total' = total /\ reserved' = reserved + n /\ held' = [held EXCEPT ![r] = @ + n]
      /\ UNCHANGED <<used, map, firstFree, phase, alloc, dealloc>>
  BY DEF A!Reserve, A!Extend
<1>2. A!TypeOK'
  <2>1. held' \in [Reservation -> Nat] /\ \A s \in Reservation : s # r => held'[s] = held[s]
    BY <1>1 DEF SpaceInv, A!TypeOK
  <2>2. phase[r] = "open"
    BY DEF A!Reserve
  <2>. QED
    BY <1>1, <2>1, <2>2 DEF SpaceInv, A!TypeOK
<1>3. A!NoElementTwice'
  BY <1>1 DEF SpaceInv, A!NoElementTwice, A!Pending, A!ReservedBits, A!Committed
<1>. QED
  BY <1>2, <1>3 DEF SpaceInv

(***************************************************************************)
(* The types, and who owns which reservation.                               *)
(***************************************************************************)

Block == 0..(Blocks - 1)

Data == [block : Block \ {0}, slot : Slot, ver : Nat]

Operation ==
  [stage : Stage, after : {"idle", "begin", "continue", "sync"}, file : File \union {None},
   slots : SUBSET Slot, need : Nat, txn : Reservation \union {None}, data : SUBSET Data,
   retried : BOOLEAN, wait : Nat, client : BOOLEAN]

JournalEntry ==
  [txn : Reservation, frees : BOOLEAN, data : SUBSET Data, written : BOOLEAN,
   block : UNION {[S -> Block] : S \in SUBSET Slot}, ver : UNION {[S -> Nat] : S \in SUBSET Slot},
   map : SUBSET Block, used : Int]

DiskState == [block : [Slot -> Block], ver : [Slot -> Nat], map : SUBSET Block, used : Int]

Types ==
  /\ ver \in [Slot -> Nat] /\ ptr \in [Slot -> Block] /\ pending \subseteq Slot
  /\ cached \in [File -> Reservation \union {None}]
  /\ op \in Operation
  /\ entries \in Seq(JournalEntry) /\ demanded \in Nat
  /\ content \in [Block -> [slot : Nat, ver : Nat]] /\ durable \in DiskState
  /\ sync \in [wait : Nat \union {-1}, want : [Slot -> Nat]] /\ synced \in [Slot -> Nat]

\* The stages in which the operation's reservation may have blocks.
Using == {"release", "swap"}

\* The reservation of the operation: it has one in these stages, and none in those.
PhaseAt(stage) ==
  IF stage = "abandoned" THEN "aborting" ELSE IF stage = "close" THEN "committed" ELSE "open"

OperationOwns ==
  /\ op.stage \in {"idle", "flush", "begin", "wait", "sync"} => op.txn = None
  /\ op.stage \in {"reserve", "abandon", "abandoned", "write"} \union Using \union {"close"} =>
       op.txn # None
  /\ op.txn # None => phase[op.txn] = PhaseAt(op.stage)
  /\ op.stage \notin {"idle", "sync"} => op.file \in File
  /\ op.stage = "flush" => cached[op.file] # None

\* A cached reservation is nobody else's.
CachedAreOpen ==
  \A f \in File : cached[f] # None =>
    /\ phase[cached[f]] = "open" /\ cached[f] # op.txn
    /\ \A g \in File : g # f => cached[f] # cached[g]

\* Only the operation and what it has committed have blocks.
BlocksAreOwned ==
  \A r \in Reservation :
    alloc[r] # {} \/ dealloc[r] # {} =>
      A!Committed(r) \/ (r = op.txn /\ op.stage \in Using)

\* The blocks that a committed transaction freed are kept by its entry, and by no other.
Keeps(r) == A!Committed(r) /\ dealloc[r] # {}

EntriesKeepBlocks ==
  /\ \A i \in 1..Len(entries) : entries[i].frees =>
       /\ Keeps(entries[i].txn)
       /\ \A j \in 1..Len(entries) : j # i /\ entries[j].frees => entries[j].txn # entries[i].txn
  /\ \A r \in Reservation : Keeps(r) =>
       \E i \in 1..Len(entries) : entries[i].frees /\ entries[i].txn = r

\* A file with pending blocks is dirty, or in the operation's hands.
PendingIsCached ==
  \A s \in pending :
    \/ cached[FileOf[s]] # None
    \/ op.file = FileOf[s] /\ op.stage \in {"continue", "write", "swap"} /\ op.txn # None

\* What the operation carries from stage to stage.
OperationIsInOrder ==
  /\ op.slots \subseteq SlotsOf(op.file)
  /\ op.stage \notin {"swap", "close"} => op.data = {}
  /\ op.after = "continue" => op.stage \in {"continue", "write"}
  /\ op.stage = "sync" \/ op.after = "sync" => op.slots = {}
  /\ op.stage = "wait" => op.wait = Len(entries) /\ op.after = "begin"

OwnersInv ==
  /\ Types /\ OperationOwns /\ CachedAreOpen /\ BlocksAreOwned /\ EntriesKeepBlocks
  /\ PendingIsCached /\ OperationIsInOrder

\* Block 0, which stands for none, is never free.
ZeroIsTaken ==
  /\ 0 \in map /\ 0 \in durable.map
  /\ \A i \in 1..Len(entries) : 0 \in entries[i].map
  /\ \A r \in Reservation : 0 \notin dealloc[r]

Invariants == SpaceInv /\ OwnersInv /\ ZeroIsTaken

LEMMA IdleOperation ==
  /\ Idle \in Operation /\ Idle.stage = "idle" /\ Idle.after = "idle" /\ Idle.txn = None
  /\ Idle.data = {} /\ Idle.slots = {} /\ Idle.need = 0 /\ Idle.wait = 0 /\ Idle.file = None
BY DEF Idle, Operation, Stage

LEMMA NextStage ==
  ASSUME NEW o \in Operation, NEW stage \in Stage
  PROVE  LET p == [o EXCEPT !.stage = stage]
         IN  /\ p \in Operation /\ p.stage = stage /\ p.after = o.after /\ p.file = o.file
             /\ p.slots = o.slots /\ p.need = o.need /\ p.txn = o.txn /\ p.data = o.data
             /\ p.wait = o.wait
BY DEF Operation

LEMMA EntryTypes ==
  ASSUME Types
  PROVE  Len(entries) \in Nat /\ \A i \in 1..Len(entries) : entries[i] \in JournalEntry
BY DEF Types

LEMMA JournalKeeps ==
  ASSUME Types, EntriesKeepBlocks, entries' = entries,
         \A r \in Reservation : Keeps(r)' <=> Keeps(r)
  PROVE  EntriesKeepBlocks'
<1>1. \A i \in 1..Len(entries) : entries[i].txn \in Reservation
  BY EntryTypes DEF JournalEntry
<1>. QED
  BY <1>1 DEF EntriesKeepBlocks

\* A step of an operation that has no reservation, and takes none.
LEMMA TakesNothing ==
  ASSUME Invariants, Types', UNCHANGED <<phase, alloc, dealloc, cached, pending, entries>>,
         op.txn = None, op'.txn = None, op'.data = {},
         op'.stage \in {"idle", "flush", "begin", "continue", "wait", "sync"},
         op'.stage \notin {"idle", "sync"} => op'.file \in File,
         op'.stage = "flush" => cached[op'.file] # None,
         op'.slots \subseteq SlotsOf(op'.file),
         op'.after = "continue" => op'.stage = "continue",
         op'.stage = "sync" \/ op'.after = "sync" => op'.slots = {},
         op'.stage = "wait" => op'.wait = Len(entries) /\ op'.after = "begin"
  PROVE  OwnersInv'
<1>1. \A r \in Reservation : Keeps(r)' <=> Keeps(r)
  BY DEF Keeps, A!Committed
<1>2. EntriesKeepBlocks'
  BY <1>1, JournalKeeps DEF Invariants, OwnersInv
<1>3. OperationOwns'
  BY DEF Invariants, OwnersInv, OperationOwns, PhaseAt, Using
<1>4. CachedAreOpen'
  BY DEF Invariants, OwnersInv, Types, CachedAreOpen
<1>5. BlocksAreOwned'
  BY TransactionsAssumption DEF Invariants, OwnersInv, BlocksAreOwned, A!Committed
<1>6. PendingIsCached'
  BY DEF Invariants, OwnersInv, PendingIsCached
<1>7. OperationIsInOrder'
  BY DEF Invariants, OwnersInv, OperationIsInOrder, SlotsOf
<1>. QED
  BY <1>2, <1>3, <1>4, <1>5, <1>6, <1>7 DEF OwnersInv

LEMMA SlotsAreFinite ==
  ASSUME NEW S \in SUBSET Slot PROVE IsFiniteSet(S) /\ Cardinality(S) \in Nat
BY TransactionsAssumption, FS_Subset, FS_CardinalityType

LEMMA WriteOwners ==
  ASSUME Invariants, NEW f \in File, NEW S \in SUBSET SlotsOf(f), Write(f, S) PROVE OwnersInv'
<1>. DEFINE flush == ShouldFlush(f, NeededFor(S)) /\ cached[f] # None
            next == IF cached[f] = None \/ flush THEN "begin" ELSE "continue"
<1>. PICK need : need = IF flush THEN Cardinality(S) ELSE NeededFor(S)
  OBVIOUS
<1>. PICK stage : stage = IF flush THEN "flush" ELSE next
  OBVIOUS
<1>. PICK after : after = next
  OBVIOUS
<1>1. /\ op.stage = "idle"
      /\ op' = [Idle EXCEPT !.file = f, !.slots = S, !.need = need, !.stage = stage,
                            !.after = after]
      /\ UNCHANGED <<allocVars, memoryVars, journalVars, diskVars, clientVars, crashes>>
  BY DEF Write
<1>2. /\ need \in Nat /\ S \in SUBSET Slot
      /\ stage \in {"flush", "begin", "continue"} /\ after \in {"begin", "continue"}
      /\ after = "continue" => stage = "continue"
      /\ stage = "flush" => cached[f] # None
  <2>1. S \in SUBSET Slot
    BY DEF SlotsOf
  <2>. QED
    BY <2>1, SlotsAreFinite DEF NeededFor
<1>3. /\ op' \in Operation /\ op'.txn = None /\ op'.data = {} /\ op'.file = f
      /\ op'.stage = stage /\ op'.after = after /\ op'.slots = S
  BY <1>1, <1>2 DEF Idle, Operation, Stage
<1>4. Types'
  BY <1>1, <1>3 DEF Invariants, OwnersInv, Types, memoryVars, journalVars, diskVars, clientVars
<1>. QED
  BY <1>1, <1>2, <1>3, <1>4, TakesNothing
     DEF Invariants, OwnersInv, OperationOwns, allocVars, memoryVars, journalVars

\* An operation that has just begun.
Begun ==
  /\ op.stage = "idle" /\ op' \in Operation /\ op'.txn = None /\ op'.data = {}
  /\ op'.slots = {} /\ op'.stage \in {"flush", "begin", "sync"} /\ op'.after \in {"idle", "begin"}
  /\ op'.stage # "sync" => op'.file \in File
  /\ op'.stage = "flush" => cached[op'.file] # None

LEMMA StartOwners ==
  ASSUME Invariants,
         \/ \E f \in File : Truncate(f) \/ Remove(f)
         \/ StartSync \/ TimerExpires
  PROVE  OwnersInv'
<1>1. Begun
  <2>1. ASSUME NEW f \in File, Truncate(f) PROVE Begun
    BY <2>1 DEF Truncate, Idle, Operation, Stage, Begun
  <2>2. ASSUME NEW f \in File, Remove(f) PROVE Begun
    BY <2>2 DEF Remove, Idle, Operation, Stage, Begun
  <2>3. CASE StartSync
    <3>1. op.stage = "idle" /\ op' = [Idle EXCEPT !.stage = "sync", !.client = TRUE]
      BY <2>3 DEF StartSync
    <3>2. \A o \in Operation : LET p == [o EXCEPT !.stage = "sync", !.client = TRUE]
                               IN  /\ p \in Operation /\ p.stage = "sync" /\ p.txn = o.txn
                                   /\ p.data = o.data /\ p.slots = o.slots /\ p.after = o.after
      BY DEF Operation, Stage
    <3>. QED
      BY <3>1, <3>2, IdleOperation DEF Begun
  <2>4. CASE TimerExpires
    BY <2>4 DEF TimerExpires, Idle, Operation, Stage, Begun
  <2>. QED
    BY <2>1, <2>2, <2>3, <2>4
<1>2. /\ UNCHANGED <<allocVars, memoryVars, entries, demanded, diskVars, clientVars, crashes>>
  BY DEF Truncate, Remove, StartSync, TimerExpires, journalVars
<1>3. Types'
  BY <1>1, <1>2 DEF Begun, Invariants, OwnersInv, Types, memoryVars, diskVars, clientVars
<1>. QED
  BY <1>1, <1>2, <1>3, TakesNothing
     DEF Begun, Invariants, OwnersInv, OperationOwns, allocVars, memoryVars

LEMMA OperationType == Invariants => op \in Operation
BY DEF Invariants, OwnersInv, Types

\* Retry, and the steps of a sync.
LEMMA RetryOwners ==
  ASSUME Invariants, Retry PROVE OwnersInv'
<1>1. op.stage = "wait" /\ op.txn = None /\ op.after = "begin" /\ op.file \in File
      /\ op' = [op EXCEPT !.stage = "begin"] /\ op.data = {} /\ op.slots \subseteq SlotsOf(op.file)
      /\ UNCHANGED <<allocVars, memoryVars, journalVars, diskVars, clientVars, crashes>>
  BY DEF Retry, Continue, Invariants, OwnersInv, OperationOwns, OperationIsInOrder
<1>2. op' \in Operation /\ op'.stage = "begin" /\ op'.after = "begin" /\ op'.file = op.file
      /\ op'.txn = None /\ op'.data = {} /\ op'.slots = op.slots
  BY <1>1, OperationType, NextStage, ZenonT(40) DEF Stage
<1>3. Types'
  BY <1>1, <1>2 DEF Invariants, OwnersInv, Types, memoryVars, journalVars, diskVars, clientVars
<1>. QED
  BY <1>1, <1>2, <1>3, TakesNothing DEF allocVars, memoryVars, journalVars

LEMMA SyncFileOwners ==
  ASSUME Invariants, NEW f \in File, SyncFile(f) PROVE OwnersInv'
<1>1. op.stage = "sync" /\ op.txn = None /\ cached[f] # None /\ op.data = {}
      /\ op' = [op EXCEPT !.stage = "flush", !.file = f, !.after = "sync"]
      /\ op.slots = {}
      /\ UNCHANGED <<allocVars, memoryVars, journalVars, diskVars, clientVars, crashes>>
  BY DEF SyncFile, Invariants, OwnersInv, OperationOwns, OperationIsInOrder
<1>2. op' \in Operation /\ op'.stage = "flush" /\ op'.after = "sync" /\ op'.file = f
      /\ op'.txn = None /\ op'.data = {} /\ op'.slots = {}
  <2>1. \A o \in Operation :
          LET p == [o EXCEPT !.stage = "flush", !.file = f, !.after = "sync"]
          IN  /\ p \in Operation /\ p.stage = "flush" /\ p.after = "sync" /\ p.file = f
              /\ p.txn = o.txn /\ p.data = o.data /\ p.slots = o.slots
    BY DEF Operation, Stage
  <2>. QED
    BY <1>1, <2>1, OperationType
<1>3. Types'
  BY <1>1, <1>2 DEF Invariants, OwnersInv, Types, memoryVars, journalVars, diskVars, clientVars
<1>. QED
  BY <1>1, <1>2, <1>3, TakesNothing DEF allocVars, memoryVars, journalVars

LEMMA EnqueueCallbackOwners ==
  ASSUME Invariants, EnqueueCallback PROVE OwnersInv'
<1>1. /\ op.stage = "sync" /\ op.txn = None /\ demanded' = Len(entries) /\ op' = Idle
      /\ UNCHANGED <<allocVars, memoryVars, entries, timer, diskVars, synced, crashes>>
  BY DEF EnqueueCallback, Invariants, OwnersInv, OperationOwns
<1>2. sync' \in [wait : Nat \union {-1}, want : [Slot -> Nat]]
  BY EntryTypes DEF EnqueueCallback, Invariants, OwnersInv, Types
<1>3. Types'
  BY <1>1, <1>2, IdleOperation, EntryTypes
     DEF Invariants, OwnersInv, Types, memoryVars, diskVars
<1>. QED
  BY <1>1, <1>3, IdleOperation, TakesNothing DEF allocVars, memoryVars, SlotsOf

\* An operation that keeps its reservation, and whose reservation stays as it is.
LEMMA StaysOpen ==
  ASSUME Invariants, Types', UNCHANGED <<phase, alloc, dealloc, cached, pending, entries>>,
         op.txn # None, op'.txn = op.txn, op'.data = op.data, op'.file = op.file,
         op'.slots = op.slots, op'.after = op.after,
         \/ op.stage = "reserve" /\ op'.stage \in {"abandon", "release"}
         \/ op.stage = "reserve" /\ op'.stage = "write"
         \/ op.stage = "continue" /\ op'.stage = "write"
         \/ op.stage = "close" /\ op'.stage = "close"
  PROVE  OwnersInv'
<1>1. \A r \in Reservation : Keeps(r)' <=> Keeps(r)
  BY DEF Keeps, A!Committed
<1>2. EntriesKeepBlocks'
  BY <1>1, JournalKeeps DEF Invariants, OwnersInv
<1>3. OperationOwns'
  BY DEF Invariants, OwnersInv, OperationOwns, PhaseAt, Using
<1>4. CachedAreOpen'
  BY DEF Invariants, OwnersInv, Types, CachedAreOpen
<1>5. BlocksAreOwned'
  BY DEF Invariants, OwnersInv, BlocksAreOwned, A!Committed, Using
<1>6. PendingIsCached'
  BY DEF Invariants, OwnersInv, PendingIsCached
<1>7. OperationIsInOrder'
  BY DEF Invariants, OwnersInv, OperationIsInOrder, SlotsOf
<1>. QED
  BY <1>2, <1>3, <1>4, <1>5, <1>6, <1>7 DEF OwnersInv

LEMMA ReserveFailsOwners ==
  ASSUME Invariants, ReserveFails PROVE OwnersInv'
<1>1. op.stage = "reserve" /\ op.txn # None /\ op' = [op EXCEPT !.stage = "abandon"]
      /\ UNCHANGED <<allocVars, memoryVars, journalVars, diskVars, clientVars, crashes>>
  BY DEF ReserveFails, Continue, Invariants, OwnersInv, OperationOwns
<1>2. op' \in Operation /\ op'.after = op.after /\ op'.file = op.file /\ op'.stage = "abandon"
      /\ op'.slots = op.slots /\ op'.txn = op.txn /\ op'.data = op.data
  BY <1>1, OperationType, NextStage DEF Stage
<1>3. Types'
  BY <1>1, <1>2 DEF Invariants, OwnersInv, Types, memoryVars, journalVars, diskVars, clientVars
<1>. QED
  BY <1>1, <1>2, <1>3, StaysOpen DEF allocVars, memoryVars, journalVars

LEMMA ReservedOwners ==
  ASSUME Invariants, Reserved PROVE OwnersInv'
<1>. PICK stage : stage = IF op.slots = {} THEN "release" ELSE "write"
  OBVIOUS
<1>1. /\ op.stage = "reserve" /\ A!Reserve(op.txn, op.need)
      /\ op' = [op EXCEPT !.stage = stage]
      /\ UNCHANGED <<memoryVars, journalVars, diskVars, clientVars, crashes>>
  BY SameOperations DEF Reserved, Continue
<1>2. /\ op' \in Operation /\ op'.after = op.after /\ op'.file = op.file
      /\ op'.stage = stage /\ stage \in {"release", "write"}
      /\ op'.slots = op.slots /\ op'.txn = op.txn /\ op'.data = op.data /\ op'.wait = op.wait
  <2>1. stage \in {"release", "write"} /\ stage \in Stage
    BY DEF Stage
  <2>2. op \in Operation
    BY DEF Invariants, OwnersInv, Types
  <2>. QED
    BY <1>1, <2>1, <2>2, NextStage
<1>3. Types'
  BY <1>1, <1>2 DEF Invariants, OwnersInv, Types, memoryVars, journalVars, diskVars, clientVars
<1>4. UNCHANGED <<phase, alloc, dealloc>> /\ op.txn # None
  BY <1>1 DEF A!Reserve, Invariants, OwnersInv, OperationOwns
<1>. QED
  BY <1>1, <1>2, <1>3, <1>4, StaysOpen DEF memoryVars, journalVars

LEMMA ExtendedOwners ==
  ASSUME Invariants, Extended PROVE OwnersInv'
<1>1. op.stage = "continue" /\ op.txn # None /\ op' = [op EXCEPT !.stage = "write"]
      /\ A!Reserve(op.txn, op.need)
      /\ UNCHANGED <<memoryVars, journalVars, diskVars, clientVars, crashes>>
  BY SameOperations DEF Extended, Continue
<1>2. op' \in Operation /\ op'.after = op.after /\ op'.file = op.file /\ op'.stage = "write"
      /\ op'.slots = op.slots /\ op'.txn = op.txn /\ op'.data = op.data
  BY <1>1, OperationType, NextStage DEF Stage
<1>3. Types'
  BY <1>1, <1>2 DEF Invariants, OwnersInv, Types, memoryVars, journalVars, diskVars, clientVars
<1>4. UNCHANGED <<phase, alloc, dealloc>>
  BY <1>1 DEF A!Reserve
<1>. QED
  BY <1>1, <1>2, <1>3, <1>4, StaysOpen DEF memoryVars, journalVars

LEMMA CancelRestOwners ==
  ASSUME Invariants, CancelRest PROVE OwnersInv'
<1>1. op.stage = "close" /\ op.txn # None /\ A!Cancel(op.txn)
      /\ UNCHANGED <<memoryVars, op, journalVars, diskVars, clientVars, crashes>>
  BY SameOperations DEF CancelRest, Invariants, OwnersInv, OperationOwns
<1>2. Types'
  BY <1>1 DEF Invariants, OwnersInv, Types, memoryVars, journalVars, diskVars, clientVars
<1>3. UNCHANGED <<phase, alloc, dealloc>>
  BY <1>1 DEF A!Cancel
<1>. QED
  BY <1>1, <1>2, <1>3, StaysOpen DEF memoryVars, journalVars

LEMMA SpaceTypes ==
  ASSUME SpaceInv
  PROVE  /\ phase \in [Reservation -> A!Phase]
         /\ alloc \in [Reservation -> SUBSET Block] /\ dealloc \in [Reservation -> SUBSET Block]
         /\ map \in SUBSET Block /\ used \in Int
         /\ \A r \in Reservation :
              /\ phase[r] = "none" => alloc[r] = {} /\ dealloc[r] = {}
              /\ phase[r] = "aborting" => dealloc[r] = {}
              /\ phase[r] = "journal" => alloc[r] = {}
<1>1. 0..(total - 1) \subseteq Block
  BY TransactionsAssumption, A!IntervalGrows, SpaceAssumption
     DEF SpaceInv, A!TypeOK, Block, A!AllocatorAssumption
<1>2. \A S \in SUBSET (0..(total - 1)) : S \in SUBSET Block
  BY <1>1
<1>. QED
  BY <1>2 DEF SpaceInv, A!TypeOK

LEMMA BeginOwners ==
  ASSUME Invariants, Begin PROVE OwnersInv'
<1>. PICK r \in Reservation : r = NewReservation /\ phase[r] = "none"
  BY Zenon DEF Begin, NewReservation
<1>. PICK stage : stage = IF op.need = 0 THEN "release" ELSE "reserve"
  OBVIOUS
<1>1. /\ op.stage = "begin" /\ op.txn = None /\ A!Construct(r)
      /\ op' = [op EXCEPT !.txn = r, !.after = "idle", !.stage = stage]
      /\ op.file \in File /\ op.data = {} /\ op.slots \subseteq SlotsOf(op.file)
      /\ UNCHANGED <<memoryVars, journalVars, diskVars, clientVars, crashes>>
  BY SameOperations DEF Begin, Invariants, OwnersInv, OperationOwns, OperationIsInOrder
<1>2. /\ stage \in {"release", "reserve"}
      /\ op' \in Operation /\ op'.after = "idle" /\ op'.file = op.file
      /\ op'.stage = stage /\ op'.txn = r /\ op'.data = {} /\ op'.slots = op.slots
  <2>1. stage \in {"release", "reserve"} /\ stage \in Stage
    BY DEF Stage
  <2>2. \A o \in Operation :
          LET p == [o EXCEPT !.txn = r, !.after = "idle", !.stage = stage]
          IN  /\ p \in Operation /\ p.after = "idle" /\ p.file = o.file /\ p.stage = stage
              /\ p.txn = r /\ p.data = o.data /\ p.slots = o.slots
    BY <2>1 DEF Operation
  <2>. QED
    BY <1>1, <2>1, <2>2, OperationType
<1>3. Types'
  BY <1>1, <1>2 DEF Invariants, OwnersInv, Types, memoryVars, journalVars, diskVars, clientVars
<1>4. /\ phase'[r] = "open" /\ \A q \in Reservation : q # r => phase'[q] = phase[q]
      /\ alloc' = alloc /\ dealloc' = dealloc /\ alloc[r] = {} /\ dealloc[r] = {}
  BY <1>1, SpaceTypes DEF A!Construct, Invariants
<1>5. EntriesKeepBlocks'
  <2>1. \A q \in Reservation : Keeps(q)' <=> Keeps(q)
    BY <1>4 DEF Keeps, A!Committed
  <2>. QED
    BY <1>1, <2>1, JournalKeeps DEF Invariants, OwnersInv, journalVars
<1>6. OperationOwns'
  BY <1>1, <1>2, <1>4, TransactionsAssumption DEF OperationOwns, PhaseAt, Using
<1>7. CachedAreOpen'
  BY <1>1, <1>2, <1>4, SMTT(30) DEF Invariants, OwnersInv, Types, CachedAreOpen, memoryVars
<1>8. BlocksAreOwned'
  BY <1>1, <1>2, <1>4, TransactionsAssumption
     DEF Invariants, OwnersInv, BlocksAreOwned, A!Committed
<1>9. PendingIsCached' /\ OperationIsInOrder'
  BY <1>1, <1>2 DEF Invariants, OwnersInv, PendingIsCached, OperationIsInOrder, memoryVars, SlotsOf
<1>. QED
  BY <1>3, <1>5, <1>6, <1>7, <1>8, <1>9 DEF OwnersInv

LEMMA AbandonOwners ==
  ASSUME Invariants, Abandon PROVE OwnersInv'
<1>1. /\ op.stage = "abandon" /\ op.txn \in Reservation /\ A!Abort(op.txn)
      /\ op' = [op EXCEPT !.stage = "abandoned"] /\ phase[op.txn] = "open"
      /\ UNCHANGED <<memoryVars, journalVars, diskVars, clientVars, crashes>>
  BY SameOperations
     DEF Abandon, Continue, Invariants, OwnersInv, OperationOwns, Types, Operation, PhaseAt
<1>2. op' \in Operation /\ op'.after = op.after /\ op'.file = op.file /\ op'.stage = "abandoned"
      /\ op'.slots = op.slots /\ op'.txn = op.txn /\ op'.data = op.data
  BY <1>1, OperationType, NextStage DEF Stage
<1>3. Types'
  BY <1>1, <1>2 DEF Invariants, OwnersInv, Types, memoryVars, journalVars, diskVars, clientVars
<1>. PICK r \in Reservation : r = op.txn
  BY <1>1
<1>4. /\ phase'[r] = "aborting" /\ \A q \in Reservation : q # r => phase'[q] = phase[q]
      /\ alloc' = alloc /\ dealloc'[r] = {}
      /\ \A q \in Reservation : q # r => dealloc'[q] = dealloc[q]
      /\ alloc[r] = {} /\ dealloc[r] = {}
  <2>1. alloc[r] = {} /\ dealloc[r] = {}
    BY <1>1 DEF Invariants, OwnersInv, BlocksAreOwned, A!Committed, Using
  <2>. QED
    BY <1>1, <2>1, SpaceTypes DEF A!Abort, Invariants
<1>5. EntriesKeepBlocks'
  <2>1. \A q \in Reservation : Keeps(q)' <=> Keeps(q)
    BY <1>1, <1>4 DEF Keeps, A!Committed
  <2>. QED
    BY <1>1, <2>1, JournalKeeps DEF Invariants, OwnersInv, journalVars
<1>6. OperationOwns'
  BY <1>1, <1>2, <1>4 DEF Invariants, OwnersInv, OperationOwns, PhaseAt, Using
<1>7. CachedAreOpen'
  BY <1>1, <1>2, <1>4, ZenonT(40) DEF Invariants, OwnersInv, Types, CachedAreOpen, memoryVars
<1>8. BlocksAreOwned'
  BY <1>1, <1>2, <1>4 DEF Invariants, OwnersInv, BlocksAreOwned, A!Committed
<1>9. PendingIsCached' /\ OperationIsInOrder'
  BY <1>1, <1>2 DEF Invariants, OwnersInv, PendingIsCached, OperationIsInOrder, memoryVars, SlotsOf
<1>. QED
  BY <1>3, <1>5, <1>6, <1>7, <1>8, <1>9 DEF OwnersInv

LEMMA AbandonedOwners ==
  ASSUME Invariants, Abandoned PROVE OwnersInv'
<1>1. /\ op.stage = "abandoned" /\ op.txn \in Reservation /\ A!DropAllocations(op.txn)
      /\ phase[op.txn] = "aborting" /\ op.data = {}
      /\ UNCHANGED <<memoryVars, entries, timer, diskVars, clientVars, crashes>>
      /\ op.file \in File /\ op.slots \subseteq SlotsOf(op.file)
  BY SameOperations
     DEF Abandoned, Invariants, OwnersInv, OperationOwns, OperationIsInOrder, Types, Operation,
         PhaseAt
<1>2. \/ op' = Idle /\ demanded' = demanded
      \/ /\ op' = [op EXCEPT !.stage = "wait", !.after = "begin", !.txn = None, !.retried = TRUE,
                             !.wait = Len(entries)]
         /\ demanded' = Len(entries)
  BY DEF Abandoned, BlockingJournalSync, BlockingSyncOf
<1>3. /\ op' \in Operation /\ op'.txn = None /\ op'.data = {} /\ demanded' \in Nat
      /\ op'.after \in {"idle", "begin"} /\ op'.slots \subseteq SlotsOf(op'.file)
      /\ \/ op'.stage = "idle"
         \/ op'.stage = "wait" /\ op'.after = "begin" /\ op'.wait = Len(entries)
            /\ op'.file \in File
  <2>1. CASE op' = Idle /\ demanded' = demanded
    BY <2>1, IdleOperation DEF Invariants, OwnersInv, Types, SlotsOf
  <2>2. CASE ~(op' = Idle /\ demanded' = demanded)
    <3>. PICK n \in Nat : n = Len(entries)
      BY EntryTypes DEF Invariants, OwnersInv
    <3>1. \A o \in Operation :
            LET p == [o EXCEPT !.stage = "wait", !.after = "begin", !.txn = None,
                               !.retried = TRUE, !.wait = n]
            IN  /\ p \in Operation /\ p.txn = None /\ p.data = o.data /\ p.after = "begin"
                /\ p.slots = o.slots /\ p.file = o.file /\ p.stage = "wait" /\ p.wait = n
      BY DEF Operation, Stage
    <3>. QED
      BY <1>1, <1>2, <2>2, <3>1, OperationType
  <2>. QED
    BY <2>1, <2>2
<1>4. Types'
  BY <1>1, <1>3 DEF Invariants, OwnersInv, Types, memoryVars, diskVars, clientVars
<1>. PICK r \in Reservation : r = op.txn
  BY <1>1
<1>5. /\ phase'[r] = "none" /\ \A q \in Reservation : q # r => phase'[q] = phase[q]
      /\ dealloc' = dealloc /\ alloc'[r] = {}
      /\ \A q \in Reservation : q # r => alloc'[q] = alloc[q]
      /\ dealloc[r] = {}
  BY <1>1, SpaceTypes DEF A!DropAllocations, Invariants
<1>6. EntriesKeepBlocks'
  <2>1. \A q \in Reservation : Keeps(q)' <=> Keeps(q)
    BY <1>5 DEF Keeps, A!Committed
  <2>. QED
    BY <1>1, <2>1, JournalKeeps DEF Invariants, OwnersInv
<1>7. OperationOwns'
  BY <1>1, <1>3, <1>5 DEF OperationOwns, PhaseAt, Using
<1>8. CachedAreOpen'
  <2>1. op'.txn = None /\ cached' = cached
    BY <1>1, <1>3 DEF memoryVars
  <2>2. \A f \in File : cached[f] # None =>
          /\ cached[f] \in Reservation /\ cached[f] # r /\ phase[cached[f]] = "open"
          /\ \A g \in File : g # f => cached[f] # cached[g]
    BY DEF Invariants, OwnersInv, Types, CachedAreOpen
  <2>. QED
    BY <1>5, <2>1, <2>2 DEF CachedAreOpen
<1>9. BlocksAreOwned'
  BY <1>1, <1>3, <1>5 DEF Invariants, OwnersInv, BlocksAreOwned, A!Committed, Using
<1>10. PendingIsCached'
  BY <1>1 DEF Invariants, OwnersInv, PendingIsCached, memoryVars
<1>11. OperationIsInOrder'
  BY <1>1, <1>3 DEF Invariants, OwnersInv, OperationIsInOrder, SlotsOf
<1>. QED
  BY <1>4, <1>6, <1>7, <1>8, <1>9, <1>10, <1>11 DEF OwnersInv

\* A reservation moves between a file's cache and the operation.
LEMMA ReservationMoves ==
  ASSUME Invariants, Types', UNCHANGED <<phase, alloc, dealloc, entries>>,
         op'.data = {}, op.data = {}, op.stage \notin Using \union {"wait"},
         op.file \in File, NEW r \in Reservation, phase[r] = "open",
         op'.stage \notin {"release", "wait"},
         op'.after = "continue" => op'.stage = "continue",
         op'.stage = "sync" \/ op'.after = "sync" => op'.slots = {},
         op'.slots \subseteq SlotsOf(op'.file)
  PROVE  EntriesKeepBlocks' /\ BlocksAreOwned' /\ OperationIsInOrder'
<1>1. \A q \in Reservation : Keeps(q)' <=> Keeps(q)
  BY DEF Keeps, A!Committed
<1>2. EntriesKeepBlocks'
  BY <1>1, JournalKeeps DEF Invariants, OwnersInv
<1>3. BlocksAreOwned'
  BY DEF Invariants, OwnersInv, BlocksAreOwned, A!Committed
<1>4. OperationIsInOrder'
  BY DEF OperationIsInOrder, SlotsOf
<1>. QED
  BY <1>2, <1>3, <1>4

LEMMA TakeCachedOwners ==
  ASSUME Invariants, TakeCached PROVE OwnersInv'
<1>1. /\ op.stage = "continue" /\ op.file \in File /\ op.data = {}
      /\ op.slots \subseteq SlotsOf(op.file)
      /\ op.after = "sync" => op.slots = {}
      /\ cached[op.file] \in Reservation
      /\ phase[cached[op.file]] = "open"
      /\ cached' = [cached EXCEPT ![op.file] = None]
      /\ op' = [op EXCEPT !.txn = cached[op.file]]
      /\ UNCHANGED <<allocVars, ver, ptr, pending, journalVars, diskVars, clientVars, crashes>>
  BY DEF TakeCached, Invariants, OwnersInv, OperationOwns, OperationIsInOrder, Types, CachedAreOpen
<1>. PICK r \in Reservation : r = cached[op.file]
  BY <1>1
<1>2. op' \in Operation /\ op'.after = op.after /\ op'.file = op.file /\ op'.stage = "continue"
      /\ op'.slots = op.slots /\ op'.txn = r /\ op'.data = {}
  <2>1. \A o \in Operation :
          LET p == [o EXCEPT !.txn = r]
          IN  /\ p \in Operation /\ p.after = o.after /\ p.file = o.file /\ p.stage = o.stage
              /\ p.txn = r /\ p.data = o.data /\ p.slots = o.slots
    BY DEF Operation
  <2>. QED
    BY <1>1, <2>1, OperationType
<1>3. Types'
  BY <1>1, <1>2 DEF Invariants, OwnersInv, Types, journalVars, diskVars, clientVars
<1>4. /\ cached'[op.file] = None /\ \A f \in File : f # op.file => cached'[f] = cached[f]
  BY <1>1 DEF Invariants, OwnersInv, Types
<1>5. EntriesKeepBlocks' /\ BlocksAreOwned' /\ OperationIsInOrder'
  BY <1>1, <1>2, <1>3, ReservationMoves DEF allocVars, journalVars, Using
<1>6. OperationOwns'
  BY <1>1, <1>2, TransactionsAssumption DEF OperationOwns, PhaseAt, Using, allocVars
<1>7. CachedAreOpen'
  BY <1>1, <1>2, <1>4 DEF Invariants, OwnersInv, Types, CachedAreOpen, allocVars
<1>8. PendingIsCached'
  BY <1>1, <1>2, <1>4, TransactionsAssumption DEF Invariants, OwnersInv, Types, PendingIsCached
<1>. QED
  BY <1>3, <1>5, <1>6, <1>7, <1>8 DEF OwnersInv

LEMMA FlushOwners ==
  ASSUME Invariants, Flush PROVE OwnersInv'
<1>1. /\ op.stage = "flush" /\ op.file \in File /\ op.data = {} /\ op.txn = None
      /\ op.slots \subseteq SlotsOf(op.file) /\ op.after # "continue"
      /\ op.after = "sync" => op.slots = {}
      /\ cached[op.file] \in Reservation
      /\ phase[cached[op.file]] = "open"
      /\ cached' = [cached EXCEPT ![op.file] = None]
      /\ op' = [op EXCEPT !.stage = "swap", !.txn = cached[op.file]]
      /\ UNCHANGED <<allocVars, ver, ptr, pending, journalVars, diskVars, clientVars, crashes>>
  BY DEF Flush, Invariants, OwnersInv, OperationOwns, OperationIsInOrder, Types, CachedAreOpen
<1>. PICK r \in Reservation : r = cached[op.file]
  BY <1>1
<1>2. op' \in Operation /\ op'.after = op.after /\ op'.file = op.file /\ op'.stage = "swap"
      /\ op'.slots = op.slots /\ op'.txn = r /\ op'.data = {}
  <2>1. \A o \in Operation :
          LET p == [o EXCEPT !.stage = "swap", !.txn = r]
          IN  /\ p \in Operation /\ p.after = o.after /\ p.file = o.file /\ p.stage = "swap"
              /\ p.txn = r /\ p.data = o.data /\ p.slots = o.slots
    BY DEF Operation, Stage
  <2>. QED
    BY <1>1, <2>1, OperationType
<1>3. Types'
  BY <1>1, <1>2 DEF Invariants, OwnersInv, Types, journalVars, diskVars, clientVars
<1>4. /\ cached'[op.file] = None /\ \A f \in File : f # op.file => cached'[f] = cached[f]
  BY <1>1 DEF Invariants, OwnersInv, Types
<1>5. EntriesKeepBlocks' /\ BlocksAreOwned' /\ OperationIsInOrder'
  BY <1>1, <1>2, <1>3, ReservationMoves DEF allocVars, journalVars, Using
<1>6. OperationOwns'
  BY <1>1, <1>2, TransactionsAssumption DEF OperationOwns, PhaseAt, Using, allocVars
<1>7. CachedAreOpen'
  BY <1>1, <1>2, <1>4 DEF Invariants, OwnersInv, Types, CachedAreOpen, allocVars
<1>8. PendingIsCached'
  BY <1>1, <1>2, <1>4, TransactionsAssumption DEF Invariants, OwnersInv, Types, PendingIsCached
<1>. QED
  BY <1>3, <1>5, <1>6, <1>7, <1>8 DEF OwnersInv

LEMMA WriteToCacheOwners ==
  ASSUME Invariants, WriteToCache PROVE OwnersInv'
<1>. DEFINE full == Cardinality((pending \union op.slots) \intersect SlotsOf(op.file)) >= DirtyLimit
<1>1. /\ op.stage = "write" /\ op.file \in File /\ op.data = {} /\ op.slots \in SUBSET Slot
      /\ op.slots \subseteq SlotsOf(op.file)
      /\ op.txn \in Reservation /\ phase[op.txn] = "open"
      /\ ver' = [s \in Slot |-> IF s \in op.slots THEN ver[s] + 1 ELSE ver[s]]
      /\ pending' = pending \union op.slots
      /\ cached' = [cached EXCEPT ![op.file] = op.txn]
      /\ op' = IF full THEN [Idle EXCEPT !.file = op.file, !.stage = "flush"] ELSE Idle
      /\ UNCHANGED <<allocVars, ptr, journalVars, diskVars, clientVars, crashes>>
  BY DEF WriteToCache, Invariants, OwnersInv, OperationOwns, OperationIsInOrder, Types, Operation,
     PhaseAt
<1>. PICK r \in Reservation : r = op.txn
  BY <1>1
<1>. PICK f \in File : f = op.file
  BY <1>1
<1>2. op' \in Operation /\ op'.after = "idle" /\ op'.txn = None /\ op'.data = {}
      /\ op'.slots = {} /\ op'.stage \in {"idle", "flush"}
      /\ (op'.stage = "flush" => op'.file = f)
  <2>1. LET p == [Idle EXCEPT !.file = f, !.stage = "flush"]
        IN  /\ p \in Operation /\ p.after = "idle" /\ p.file = f /\ p.stage = "flush"
            /\ p.txn = None /\ p.data = {} /\ p.slots = {}
    BY DEF Idle, Operation, Stage
  <2>2. CASE full
    BY <1>1, <2>1, <2>2
  <2>3. CASE ~full
    BY <1>1, <2>3, IdleOperation
  <2>. QED
    BY <2>2, <2>3
<1>3. Types'
  <2>1. ver' \in [Slot -> Nat] /\ pending' \subseteq Slot
    BY <1>1 DEF Invariants, OwnersInv, Types
  <2>2. cached' \in [File -> Reservation \union {None}]
    BY <1>1 DEF Invariants, OwnersInv, Types
  <2>. QED
    BY <1>1, <1>2, <2>1, <2>2 DEF Invariants, OwnersInv, Types, journalVars, diskVars, clientVars
<1>4. /\ cached'[f] = r /\ \A g \in File : g # f => cached'[g] = cached[g]
  BY <1>1 DEF Invariants, OwnersInv, Types
<1>5. EntriesKeepBlocks' /\ BlocksAreOwned' /\ OperationIsInOrder'
  BY <1>1, <1>2, <1>3, ReservationMoves DEF allocVars, journalVars, Using
<1>6. OperationOwns'
  BY <1>1, <1>2, <1>4, TransactionsAssumption DEF OperationOwns, PhaseAt, Using
<1>7. CachedAreOpen'
  <2>1. \A g \in File : cached[g] # None => cached[g] # r /\ cached[g] \in Reservation
                        /\ phase[cached[g]] = "open"
                        /\ \A e \in File : e # g => cached[g] # cached[e]
    BY DEF Invariants, OwnersInv, Types, CachedAreOpen
  <2>. QED
    BY <1>1, <1>2, <1>4, <2>1, TransactionsAssumption DEF CachedAreOpen, allocVars
<1>8. PendingIsCached'
  <2>. SUFFICES ASSUME NEW s \in pending' PROVE cached'[FileOf[s]] # None
    BY DEF PendingIsCached
  <2>1. s \in Slot /\ FileOf[s] \in File
    BY <1>3, TransactionsAssumption DEF Types
  <2>2. CASE FileOf[s] = f
    BY <1>4, <2>2, TransactionsAssumption
  <2>3. CASE FileOf[s] # f
    <3>1. s \in pending
      BY <1>1, <2>3 DEF SlotsOf
    <3>. QED
      BY <1>4, <2>1, <2>3, <3>1 DEF Invariants, OwnersInv, PendingIsCached
  <2>. QED
    BY <2>2, <2>3
<1>. QED
  BY <1>3, <1>5, <1>6, <1>7, <1>8 DEF OwnersInv

(***************************************************************************)
(* Blocks freed, allocated and committed.                                   *)
(***************************************************************************)

LEMMA OutOfTwoReasons ==
  ASSUME SpaceInv
  PROVE  /\ \A r \in Reservation : ~A!Committed(r) => alloc[r] \intersect map = {}
         /\ \A r \in Reservation : ~A!Committed(r) => dealloc[r] \subseteq map
         /\ \A r \in Reservation : A!Committed(r) => dealloc[r] \intersect map = {}
         /\ \A r, q \in Reservation : r # q => dealloc[r] \intersect dealloc[q] = {}
         /\ \A r, q \in Reservation : ~A!Committed(r) /\ A!Committed(q) =>
              alloc[r] \intersect dealloc[q] = {}
BY SpaceAssumption, A!NoElementTwiceExpanded DEF SpaceInv, A!ReservedBits, A!AllocatorAssumption

LEMMA FreeEffect ==
  ASSUME SpaceInv, NEW r \in Reservation, NEW b, A!Free(r, b)
  PROVE  /\ phase[r] = "open" /\ b \in map \ {0} /\ \A q \in Reservation : b \notin dealloc[q]
         /\ UNCHANGED <<phase, map, used, alloc>>
         /\ dealloc'[r] = dealloc[r] \union {b}
         /\ \A q \in Reservation : q # r => dealloc'[q] = dealloc[q]
<1>1. /\ phase[r] = "open" /\ b \in map \ {0} /\ \A q \in Reservation : b \notin dealloc[q]
      /\ UNCHANGED <<phase, map, used>>
      /\ alloc' = [alloc EXCEPT ![r] = @ \ {b}]
      /\ dealloc' = [dealloc EXCEPT ![r] = @ \union ({b} \ alloc[r])]
  BY DEF A!Free, A!Freeable
<1>2. b \notin alloc[r]
  BY <1>1, OutOfTwoReasons DEF A!Committed
<1>3. alloc' = alloc
  BY <1>1, <1>2, SpaceTypes
<1>. QED
  BY <1>1, <1>2, <1>3, SpaceTypes

LEMMA AllocateEffect ==
  ASSUME SpaceInv, NEW r \in Reservation, A!Allocate(r)
  PROVE  /\ phase[r] = "open" /\ A!FindLocked \in Block \ map
         /\ \A q \in Reservation : ~A!Committed(q) => A!FindLocked \notin alloc[q]
         /\ \A q \in Reservation : A!Committed(q) => A!FindLocked \notin dealloc[q]
         /\ UNCHANGED <<phase, map, used, dealloc>>
         /\ alloc'[r] = alloc[r] \union {A!FindLocked}
         /\ \A q \in Reservation : q # r => alloc'[q] = alloc[q]
<1>1. A!FindLocked \in A!Allocatable
  BY SpaceAssumption, A!FindLockedIsLeast DEF A!Allocate, SpaceInv, A!AllocatorAssumption
<1>2. /\ A!FindLocked \in firstFree..(total - 1) /\ A!FindLocked \notin map
      /\ \A q \in Reservation : A!FindLocked \notin A!ReservedBits(q)
  BY <1>1 DEF A!Allocatable, A!Pending
<1>3. A!FindLocked \in Block
  BY <1>2, TransactionsAssumption DEF SpaceInv, A!TypeOK, Block
<1>. QED
  BY <1>2, <1>3, SpaceTypes DEF A!Allocate, A!ReservedBits

\* The operation frees a block.
LEMMA FreeOwners ==
  ASSUME Invariants, op.stage \in Using, NEW b, A!Free(op.txn, b), op' = op, Types',
         UNCHANGED <<pending, cached, entries>>
  PROVE  OwnersInv'
<1>. PICK r \in Reservation : r = op.txn
  BY OperationType DEF Invariants, OwnersInv, OperationOwns, Operation
<1>1. /\ phase' = phase /\ alloc' = alloc
      /\ \A q \in Reservation : q # r => dealloc'[q] = dealloc[q]
      /\ phase[r] = "open"
  BY FreeEffect DEF Invariants
<1>2. EntriesKeepBlocks'
  <2>1. \A q \in Reservation : Keeps(q)' <=> Keeps(q)
    BY <1>1 DEF Keeps, A!Committed
  <2>. QED
    BY <2>1, JournalKeeps DEF Invariants, OwnersInv
<1>3. OperationOwns' /\ CachedAreOpen'
  BY <1>1 DEF Invariants, OwnersInv, OperationOwns, CachedAreOpen
<1>4. BlocksAreOwned'
  BY <1>1 DEF Invariants, OwnersInv, BlocksAreOwned, A!Committed
<1>5. PendingIsCached' /\ OperationIsInOrder'
  BY DEF Invariants, OwnersInv, PendingIsCached, OperationIsInOrder, SlotsOf
<1>. QED
  BY <1>2, <1>3, <1>4, <1>5 DEF OwnersInv

LEMMA ReleaseBlockOwners ==
  ASSUME Invariants, NEW s \in Slot, ReleaseBlock(s) PROVE OwnersInv'
<1>1. /\ op.stage = "release" /\ A!Free(op.txn, ptr[s])
      /\ ptr' = [ptr EXCEPT ![s] = 0] /\ ver' = [ver EXCEPT ![s] = @ + 1]
      /\ UNCHANGED <<pending, cached, op, journalVars, diskVars, clientVars, crashes>>
  BY SameOperations DEF ReleaseBlock
<1>2. Types'
  <2>1. ptr' \in [Slot -> Block] /\ ver' \in [Slot -> Nat]
    BY <1>1, TransactionsAssumption DEF Invariants, OwnersInv, Types, Block
  <2>. QED
    BY <1>1, <2>1 DEF Invariants, OwnersInv, Types, journalVars, diskVars, clientVars
<1>. QED
  BY <1>1, <1>2, FreeOwners DEF Using, journalVars

LEMMA NextPendingIsDirty ==
  ASSUME Types, Dirty(op.file) # {}
  PROVE  NextPending \in Dirty(op.file) /\ NextPending \in Slot /\ NextPending \in pending
<1>1. Dirty(op.file) \in SUBSET Nat /\ Dirty(op.file) \in SUBSET Slot
  BY TransactionsAssumption DEF Dirty, Types
<1>2. \E i \in Dirty(op.file) : \A j \in Dirty(op.file) : i <= j
  BY <1>1, SpaceAssumption, A!LeastExists DEF A!AllocatorAssumption
<1>3. NextPending \in Dirty(op.file)
  BY <1>2, Zenon DEF NextPending
<1>. QED
  BY <1>1, <1>3 DEF Dirty

LEMMA SwapOutOwners ==
  ASSUME Invariants, SwapOut PROVE OwnersInv'
<1>. PICK s : s = NextPending
  OBVIOUS
<1>1. /\ op.stage = "swap" /\ Dirty(op.file) # {} /\ A!Free(op.txn, ptr[s])
      /\ ptr' = [ptr EXCEPT ![s] = 0]
      /\ UNCHANGED <<ver, pending, cached, op, journalVars, diskVars, clientVars, crashes>>
  BY SameOperations DEF SwapOut
<1>2. Types'
  <2>1. ptr' \in [Slot -> Block]
    <3>1. 0 \in Block /\ ptr \in [Slot -> Block]
      BY TransactionsAssumption DEF Invariants, OwnersInv, Types, Block
    <3>. QED
      BY <1>1, <3>1
  <2>. QED
    BY <1>1, <2>1 DEF Invariants, OwnersInv, Types, journalVars, diskVars, clientVars
<1>. QED
  BY <1>1, <1>2, FreeOwners DEF Using, journalVars

LEMMA SwapInEffect ==
  ASSUME Invariants, SwapIn
  PROVE  LET b == A!FindLocked
             d == [block |-> b, slot |-> NextPending, ver |-> ver[NextPending]]
         IN  /\ op.stage = "swap" /\ op.txn \in Reservation /\ ptr[NextPending] = 0
             /\ NextPending \in Slot /\ NextPending \in pending /\ FileOf[NextPending] = op.file
             /\ A!Allocate(op.txn) /\ b \in Block \ {0} /\ d \in Data
             /\ ptr' = [ptr EXCEPT ![NextPending] = b]
             /\ pending' = pending \ {NextPending}
             /\ op' \in Operation /\ op'.data = op.data \union {d}
             /\ op'.stage = "swap" /\ op'.txn = op.txn /\ op'.file = op.file
             /\ op'.slots = op.slots /\ op'.after = op.after
             /\ UNCHANGED <<ver, cached, journalVars, diskVars, clientVars, crashes>>
<1>. PICK b : b = A!FindLocked
  OBVIOUS
<1>. PICK s : s = NextPending
  OBVIOUS
<1>. PICK d : d = [block |-> b, slot |-> s, ver |-> ver[s]]
  OBVIOUS
<1>1. /\ op.stage = "swap" /\ op.txn \in Reservation /\ ptr[s] = 0 /\ Dirty(op.file) # {}
      /\ A!Allocate(op.txn)
      /\ ptr' = [ptr EXCEPT ![s] = b] /\ pending' = pending \ {s}
      /\ op' = [op EXCEPT !.data = @ \union {d}]
      /\ UNCHANGED <<ver, cached, journalVars, diskVars, clientVars, crashes>>
  BY SameOperations, OperationType
     DEF SwapIn, Invariants, OwnersInv, OperationOwns, Operation, Using
<1>2. s \in Slot /\ s \in pending /\ FileOf[s] = op.file
  BY <1>1, NextPendingIsDirty DEF Invariants, OwnersInv, Dirty, SlotsOf
<1>3. b \in Block \ {0}
  BY <1>1, AllocateEffect DEF Invariants, ZeroIsTaken
<1>4. d \in Data
  BY <1>2, <1>3 DEF Data, Invariants, OwnersInv, Types
<1>5. /\ op' \in Operation /\ op'.data = op.data \union {d} /\ op'.stage = op.stage
      /\ op'.txn = op.txn /\ op'.file = op.file /\ op'.slots = op.slots /\ op'.after = op.after
  <2>1. \A o \in Operation :
          LET p == [o EXCEPT !.data = @ \union {d}]
          IN  /\ p \in Operation /\ p.data = o.data \union {d} /\ p.stage = o.stage
              /\ p.txn = o.txn /\ p.file = o.file /\ p.slots = o.slots /\ p.after = o.after
    BY <1>4 DEF Operation
  <2>. QED
    BY <1>1, <2>1, OperationType
<1>. QED
  BY <1>1, <1>2, <1>3, <1>4, <1>5

LEMMA SwapInOwners ==
  ASSUME Invariants, SwapIn PROVE OwnersInv'
<1>. PICK b : b = A!FindLocked
  OBVIOUS
<1>. PICK s : s = NextPending
  OBVIOUS
<1>1. /\ op.stage = "swap" /\ op.txn \in Reservation
      /\ A!Allocate(op.txn) /\ b \in Block
      /\ ptr' = [ptr EXCEPT ![s] = b] /\ pending' = pending \ {s}
      /\ op' \in Operation
      /\ op'.stage = "swap" /\ op'.txn = op.txn /\ op'.file = op.file
      /\ op'.slots = op.slots /\ op'.after = op.after
      /\ UNCHANGED <<ver, cached, journalVars, diskVars, clientVars, crashes>>
  BY SwapInEffect
<1>. PICK r \in Reservation : r = op.txn
  BY <1>1
<1>2. /\ phase' = phase /\ dealloc' = dealloc /\ phase[r] = "open"
      /\ \A q \in Reservation : q # r => alloc'[q] = alloc[q]
  BY <1>1, AllocateEffect DEF Invariants
<1>3. Types'
  <2>1. ptr' \in [Slot -> Block]
    BY <1>1 DEF Invariants, OwnersInv, Types
  <2>. QED
    BY <1>1, <2>1 DEF Invariants, OwnersInv, Types, journalVars, diskVars, clientVars
<1>4. EntriesKeepBlocks'
  <2>1. \A q \in Reservation : Keeps(q)' <=> Keeps(q)
    BY <1>2 DEF Keeps, A!Committed
  <2>. QED
    BY <1>1, <2>1, JournalKeeps DEF Invariants, OwnersInv, journalVars
<1>5. OperationOwns' /\ CachedAreOpen'
  BY <1>1, <1>2 DEF Invariants, OwnersInv, OperationOwns, CachedAreOpen, Using
<1>6. BlocksAreOwned'
  BY <1>1, <1>2 DEF Invariants, OwnersInv, BlocksAreOwned, A!Committed, Using
<1>7. PendingIsCached' /\ OperationIsInOrder'
  BY <1>1 DEF Invariants, OwnersInv, PendingIsCached, OperationIsInOrder, SlotsOf
<1>. QED
  BY <1>3, <1>4, <1>5, <1>6, <1>7 DEF OwnersInv

(***************************************************************************)
(* Entries come and go.                                                     *)
(***************************************************************************)

LEMMA AppendedSequence ==
  ASSUME NEW T, NEW q \in Seq(T), NEW e \in T
  PROVE  /\ Append(q, e) \in Seq(T) /\ Len(q) \in Nat /\ Len(Append(q, e)) = Len(q) + 1
         /\ \A i \in 1..Len(q) : Append(q, e)[i] = q[i]
         /\ Append(q, e)[Len(q) + 1] = e
OBVIOUS

LEMMA ShortenedSequence ==
  ASSUME NEW T, NEW q \in Seq(T), q # <<>>
  PROVE  /\ Tail(q) \in Seq(T) /\ Len(q) \in Nat \ {0} /\ Len(Tail(q)) = Len(q) - 1
         /\ \A i \in 1..(Len(q) - 1) : Tail(q)[i] = q[i + 1]
         /\ Head(q) = q[1] /\ q[1] \in T
OBVIOUS

LEMMA ChangedSequence ==
  ASSUME NEW T, NEW q \in Seq(T), NEW i \in 1..Len(q), NEW e \in T
  PROVE  /\ [q EXCEPT ![i] = e] \in Seq(T) /\ Len([q EXCEPT ![i] = e]) = Len(q)
         /\ [q EXCEPT ![i] = e][i] = e
         /\ \A j \in 1..Len(q) : j # i => [q EXCEPT ![i] = e][j] = q[j]
OBVIOUS

\* What a commit does to the blocks, and the entry it makes.
LEMMA CommitEffect ==
  ASSUME Invariants, CommitTransaction
  PROVE  LET e == Entry(map', used')
         IN  /\ op.stage \in Using /\ op.txn \in Reservation /\ phase[op.txn] = "open"
             /\ op.stage = "swap" => Dirty(op.file) = {}
             /\ op.stage = "release" => \A s \in SlotsOf(op.file) : ptr[s] = 0
             /\ A!Commit(op.txn)
             /\ map' = (map \ dealloc[op.txn]) \union alloc[op.txn]
             /\ used' = used + Cardinality(alloc[op.txn]) - Cardinality(dealloc[op.txn])
             /\ phase'[op.txn] = "committed"
             /\ \A r \in Reservation : r # op.txn => phase'[r] = phase[r]
             /\ alloc' = alloc /\ dealloc' = dealloc
             /\ entries' = Append(entries, e) /\ e \in JournalEntry
             /\ e.txn = op.txn /\ (e.frees <=> dealloc[op.txn] # {}) /\ e.data = op.data
             /\ e.block = [s \in SlotsOf(op.file) |-> ptr[s]]
             /\ e.ver = [s \in SlotsOf(op.file) |-> ver[s]]
             /\ e.map = map' /\ e.used = used' /\ ~e.written
             /\ op' \in Operation /\ op'.stage = "close" /\ op'.txn = op.txn
             /\ op'.file = op.file /\ op'.slots = op.slots /\ op'.after = op.after
             /\ op'.data = op.data
             /\ UNCHANGED <<memoryVars, demanded, diskVars, clientVars, crashes>>
<1>. PICK e : e = Entry(map', used')
  OBVIOUS
<1>1. /\ op.stage \in Using /\ op.txn \in Reservation /\ phase[op.txn] = "open"
      /\ op.stage = "swap" => Dirty(op.file) = {}
      /\ op.stage = "release" => \A s \in SlotsOf(op.file) : ptr[s] = 0
      /\ A!Commit(op.txn) /\ entries' = Append(entries, e)
      /\ op' = [op EXCEPT !.stage = "close"]
      /\ UNCHANGED <<memoryVars, demanded, diskVars, clientVars, crashes>>
  BY SameOperations, OperationType
     DEF CommitTransaction, Continue, Schedule, Invariants, OwnersInv, OperationOwns, Operation,
         Using, PhaseAt
<1>. PICK r \in Reservation : r = op.txn
  BY <1>1
<1>2. /\ map' = (map \union alloc[r]) \ dealloc[r]
      /\ used' = used + A!Cardinality(alloc[r]) - A!Cardinality(dealloc[r])
      /\ phase' = [phase EXCEPT ![r] = "committed"]
      /\ alloc' = alloc /\ dealloc' = dealloc
  BY <1>1 DEF A!Commit
<1>3. map' = (map \ dealloc[r]) \union alloc[r]
  BY <1>1, <1>2, OutOfTwoReasons DEF Invariants, A!Committed
<1>4. used' = used + Cardinality(alloc[r]) - Cardinality(dealloc[r])
  BY <1>2, SameSets
<1>5. phase'[r] = "committed" /\ \A q \in Reservation : q # r => phase'[q] = phase[q]
  BY <1>2, SpaceTypes DEF Invariants
<1>6. map' \in SUBSET Block /\ used' \in Int
  <2>1. SpaceInv'
    BY <1>1, SpaceStep DEF Invariants
  <2>2. (map \in SUBSET Block /\ used \in Int)'
    BY <2>1, SpaceTypes, PTL
  <2>. QED
    BY <2>2 DEF Block
<1>7. op' \in Operation /\ op'.stage = "close" /\ op'.txn = op.txn /\ op'.file = op.file
      /\ op'.slots = op.slots /\ op'.after = op.after /\ op'.data = op.data
  BY <1>1, OperationType, NextStage DEF Stage
<1>. PICK B : B = [s \in SlotsOf(op.file) |-> ptr[s]]
  OBVIOUS
<1>. PICK V : V = [s \in SlotsOf(op.file) |-> ver[s]]
  OBVIOUS
<1>. PICK frees \in BOOLEAN : frees = (dealloc[r] # {})
  OBVIOUS
<1>8. /\ B \in UNION {[S -> Block] : S \in SUBSET Slot}
      /\ V \in UNION {[S -> Nat] : S \in SUBSET Slot}
  <2>1. SlotsOf(op.file) \in SUBSET Slot
    BY DEF SlotsOf
  <2>2. B \in [SlotsOf(op.file) -> Block] /\ V \in [SlotsOf(op.file) -> Nat]
    BY <2>1 DEF Invariants, OwnersInv, Types
  <2>. QED
    BY <2>1, <2>2
<1>9. e = [txn |-> r, frees |-> frees, data |-> op.data, written |-> FALSE, block |-> B,
           ver |-> V, map |-> map', used |-> used']
  BY DEF Entry
<1>10. op.data \in SUBSET Data
  BY OperationType DEF Operation
<1>11. e \in JournalEntry /\ e.txn = r /\ e.data = op.data /\ e.block = B
       /\ e.ver = V /\ e.map = map' /\ e.used = used'
  BY <1>6, <1>8, <1>9, <1>10 DEF JournalEntry
<1>12. e.frees <=> dealloc[r] # {}
  <2>1. e.frees <=> frees
    BY <1>9
  <2>. QED
    BY <2>1
<1>13. ~e.written
  <2>1. e.written = FALSE
    BY <1>9
  <2>. QED
    BY <2>1
<1>. QED
  BY <1>1, <1>2, <1>3, <1>4, <1>5, <1>7, <1>11, <1>12, <1>13

LEMMA CommitOwners ==
  ASSUME Invariants, CommitTransaction PROVE OwnersInv'
<1>. PICK e : e = Entry(map', used')
  OBVIOUS
<1>. PICK n : n = Len(entries)
  OBVIOUS
<1>1. /\ op.stage \in Using /\ op.txn \in Reservation /\ phase[op.txn] = "open"
      /\ op.stage = "swap" => Dirty(op.file) = {}
      /\ phase'[op.txn] = "committed"
      /\ \A r \in Reservation : r # op.txn => phase'[r] = phase[r]
      /\ alloc' = alloc /\ dealloc' = dealloc
      /\ entries' = Append(entries, e) /\ e \in JournalEntry
      /\ e.txn = op.txn /\ (e.frees <=> dealloc[op.txn] # {})
      /\ op' \in Operation /\ op'.stage = "close" /\ op'.txn = op.txn
      /\ op'.file = op.file /\ op'.slots = op.slots /\ op'.after = op.after
      /\ op'.data = op.data
      /\ UNCHANGED <<memoryVars, demanded, diskVars, clientVars, crashes>>
  BY CommitEffect
<1>. PICK r \in Reservation : r = op.txn
  BY <1>1
<1>2. /\ entries' \in Seq(JournalEntry) /\ n \in Nat /\ Len(entries') = n + 1
      /\ \A i \in 1..n : entries'[i] = entries[i] /\ entries[i].txn \in Reservation
      /\ entries'[n + 1] = e
  <2>1. entries \in Seq(JournalEntry) /\ \A i \in 1..n : entries[i].txn \in Reservation
    BY EntryTypes DEF Invariants, OwnersInv, Types, JournalEntry
  <2>. QED
    BY <1>1, <2>1, AppendedSequence
<1>3. Types'
  BY <1>1, <1>2 DEF Invariants, OwnersInv, Types, memoryVars, diskVars, clientVars
<1>4. EntriesKeepBlocks'
  <2>1. ~A!Committed(r) /\ A!Committed(r)' /\ dealloc' = dealloc
        /\ \A q \in Reservation : q # r => (Keeps(q)' <=> Keeps(q))
    BY <1>1 DEF A!Committed, Keeps
  <2>2. ~Keeps(r) /\ (Keeps(r)' <=> dealloc[r] # {})
    BY <2>1 DEF Keeps
  <2>3. \A i \in 1..n : entries[i].frees => entries[i].txn # r
    BY <2>2 DEF Invariants, OwnersInv, EntriesKeepBlocks
  <2>4. \A q \in Reservation : Keeps(q) =>
          \E i \in 1..n : entries[i].frees /\ entries[i].txn = q
    BY DEF Invariants, OwnersInv, EntriesKeepBlocks
  <2>5. \A i \in 1..n : entries[i].frees =>
          /\ Keeps(entries[i].txn)
          /\ \A j \in 1..n : j # i /\ entries[j].frees => entries[j].txn # entries[i].txn
    BY DEF Invariants, OwnersInv, EntriesKeepBlocks
  <2>6. \A i \in 1..(n + 1) : i \in 1..n \/ i = n + 1
    BY <1>2
  <2>7. ASSUME NEW i \in 1..(n + 1), entries'[i].frees
        PROVE  /\ phase'[entries'[i].txn] \in {"committed", "journal"}
               /\ dealloc'[entries'[i].txn] # {}
               /\ \A j \in 1..(n + 1) :
                    j # i /\ entries'[j].frees => entries'[j].txn # entries'[i].txn
    <3>1. CASE i \in 1..n
      <4>1. entries[i].frees /\ entries'[i].txn = entries[i].txn /\ entries[i].txn \in Reservation
        BY <1>2, <2>7, <3>1
      <4>2. /\ phase[entries[i].txn] \in {"committed", "journal"} /\ dealloc[entries[i].txn] # {}
            /\ entries[i].txn # r
        BY <2>3, <2>5, <3>1, <4>1 DEF Keeps, A!Committed
      <4>3. ASSUME NEW j \in 1..(n + 1), j # i, entries'[j].frees
            PROVE  entries'[j].txn # entries'[i].txn
        <5>1. CASE j \in 1..n
          BY <1>2, <2>5, <3>1, <4>1, <4>3, <5>1
        <5>2. CASE j = n + 1
          BY <1>1, <1>2, <4>1, <4>2, <5>2
        <5>. QED
          BY <2>6, <5>1, <5>2
      <4>. QED
        BY <1>1, <4>1, <4>2, <4>3
    <3>2. CASE i = n + 1
      <4>1. entries'[i].txn = r /\ dealloc[r] # {}
        BY <1>1, <1>2, <2>7, <3>2
      <4>2. \A j \in 1..n : entries'[j].frees => entries'[j].txn # r
        BY <1>2, <2>3
      <4>. QED
        BY <1>1, <2>6, <3>2, <4>1, <4>2
    <3>. QED
      BY <2>6, <3>1, <3>2
  <2>8. ASSUME NEW q \in Reservation, Keeps(q)'
        PROVE  \E i \in 1..(n + 1) : entries'[i].frees /\ entries'[i].txn = q
    <3>1. CASE q = r
      BY <1>1, <1>2, <2>2, <2>8, <3>1
    <3>2. CASE q # r
      BY <1>2, <2>1, <2>4, <2>8, <3>2
    <3>. QED
      BY <3>1, <3>2
  <2>. QED
    BY <1>2, <2>7, <2>8 DEF EntriesKeepBlocks, Keeps, A!Committed
<1>5. OperationOwns'
  BY <1>1, TransactionsAssumption
     DEF Invariants, OwnersInv, OperationOwns, PhaseAt, Using, memoryVars
<1>6. CachedAreOpen'
  BY <1>1, ZenonT(40) DEF Invariants, OwnersInv, Types, CachedAreOpen, memoryVars
<1>7. BlocksAreOwned'
  BY <1>1 DEF Invariants, OwnersInv, BlocksAreOwned, A!Committed
<1>8. PendingIsCached'
  <2>1. ASSUME NEW s \in pending PROVE cached[FileOf[s]] # None
    <3>1. op.stage = "swap" => FileOf[s] # op.file
      BY <1>1 DEF Dirty, SlotsOf, Invariants, OwnersInv, Types
    <3>. QED
      BY <1>1, <3>1 DEF Invariants, OwnersInv, PendingIsCached, Using
  <2>. QED
    BY <1>1, <2>1 DEF PendingIsCached, memoryVars
<1>9. OperationIsInOrder'
  BY <1>1 DEF Invariants, OwnersInv, OperationIsInOrder, SlotsOf, Using
<1>. QED
  BY <1>3, <1>4, <1>5, <1>6, <1>7, <1>8, <1>9 DEF OwnersInv

LEMMA CloseOwners ==
  ASSUME Invariants, Close PROVE OwnersInv'
<1>1. /\ op.stage = "close" /\ op.txn \in Reservation /\ A!DestroyCommitted(op.txn)
      /\ op.file \in File /\ op.after \in {"idle", "begin", "sync"}
      /\ op.slots \subseteq SlotsOf(op.file) /\ (op.after = "sync" => op.slots = {})
      /\ UNCHANGED <<memoryVars, journalVars, diskVars, clientVars, crashes>>
  BY SameOperations, OperationType
     DEF Close, Invariants, OwnersInv, OperationOwns, OperationIsInOrder, Operation
<1>2. op' \in Operation /\ op'.txn = None /\ op'.data = {}
      /\ op'.stage \in {"idle", "begin", "sync"} /\ op'.after # "continue"
      /\ op'.slots \subseteq SlotsOf(op'.file)
      /\ (op'.stage = "begin" => op'.file \in File)
      /\ (op'.stage = "sync" \/ op'.after = "sync" => op'.slots = {})
  <2>1. CASE op.after = "idle"
    BY <1>1, <2>1, IdleOperation DEF Close, SlotsOf
  <2>2. CASE op.after # "idle"
    <3>. PICK after : after = op.after
      OBVIOUS
    <3>1. after \in {"begin", "sync"} /\ after \in Stage
      BY <1>1, <2>2 DEF Stage
    <3>2. op' = [op EXCEPT !.stage = after, !.txn = None, !.data = {}]
      BY <2>2 DEF Close
    <3>3. \A o \in Operation :
            LET p == [o EXCEPT !.stage = after, !.txn = None, !.data = {}]
            IN  /\ p \in Operation /\ p.stage = after /\ p.txn = None /\ p.data = {}
                /\ p.file = o.file /\ p.slots = o.slots /\ p.after = o.after
      BY <3>1 DEF Operation
    <3>. QED
      BY <1>1, <3>1, <3>2, <3>3, OperationType
  <2>. QED
    BY <2>1, <2>2
<1>3. Types'
  BY <1>1, <1>2 DEF Invariants, OwnersInv, Types, memoryVars, journalVars, diskVars, clientVars
<1>. PICK r \in Reservation : r = op.txn
  BY <1>1
<1>4. /\ phase[r] = "committed" /\ phase'[r] = IF dealloc[r] = {} THEN "none" ELSE "journal"
      /\ \A q \in Reservation : q # r => phase'[q] = phase[q] /\ alloc'[q] = alloc[q]
      /\ alloc'[r] = {} /\ dealloc' = dealloc
  BY <1>1, SpaceTypes DEF A!DestroyCommitted, Invariants
<1>5. EntriesKeepBlocks'
  <2>1. \A q \in Reservation : Keeps(q)' <=> Keeps(q)
    BY <1>4 DEF Keeps, A!Committed
  <2>. QED
    BY <1>1, <2>1, JournalKeeps DEF Invariants, OwnersInv, journalVars
<1>6. OperationOwns'
  BY <1>1, <1>2 DEF OperationOwns, Using
<1>7. CachedAreOpen'
  <2>1. op'.txn = None /\ cached' = cached
    BY <1>1, <1>2 DEF memoryVars
  <2>2. \A f \in File : cached[f] # None =>
          /\ cached[f] \in Reservation /\ cached[f] # r /\ phase[cached[f]] = "open"
          /\ \A g \in File : g # f => cached[f] # cached[g]
    BY DEF Invariants, OwnersInv, Types, CachedAreOpen
  <2>. QED
    BY <1>4, <2>1, <2>2 DEF CachedAreOpen
<1>8. BlocksAreOwned'
  BY <1>1, <1>4 DEF Invariants, OwnersInv, BlocksAreOwned, A!Committed, Using
<1>9. PendingIsCached'
  BY <1>1 DEF Invariants, OwnersInv, PendingIsCached, memoryVars
<1>10. OperationIsInOrder'
  BY <1>2 DEF OperationIsInOrder, SlotsOf
<1>. QED
  BY <1>3, <1>5, <1>6, <1>7, <1>8, <1>9, <1>10 DEF OwnersInv

(***************************************************************************)
(* What the journal does, and a crash.                                      *)
(***************************************************************************)

\* The disk after a replay of an entry.
After(d, e) ==
  [block |-> [s \in Slot |-> IF s \in DOMAIN e.block THEN e.block[s] ELSE d.block[s]],
   ver |-> [s \in Slot |-> IF s \in DOMAIN e.ver THEN e.ver[s] ELSE d.ver[s]],
   map |-> e.map, used |-> e.used]

LEMMA AfterType ==
  ASSUME NEW d \in DiskState, NEW e \in JournalEntry PROVE After(d, e) \in DiskState
<1>1. PICK S \in SUBSET Slot : e.block \in [S -> Block]
  BY DEF JournalEntry
<1>2. PICK T \in SUBSET Slot : e.ver \in [T -> Nat]
  BY DEF JournalEntry
<1>3. d.block \in [Slot -> Block] /\ d.ver \in [Slot -> Nat]
  BY DEF DiskState
<1>4. [s \in Slot |-> IF s \in DOMAIN e.block THEN e.block[s] ELSE d.block[s]] \in [Slot -> Block]
  BY <1>1, <1>3
<1>5. [s \in Slot |-> IF s \in DOMAIN e.ver THEN e.ver[s] ELSE d.ver[s]] \in [Slot -> Nat]
  BY <1>2, <1>3
<1>6. e.map \in SUBSET Block /\ e.used \in Int
  BY DEF JournalEntry
<1>. QED
  BY <1>4, <1>5, <1>6 DEF After, DiskState

\* A block of data reaches the disk.
LEMMA DataWrittenEffect ==
  ASSUME Invariants, NEW i \in 1..Len(entries), DataWritten(i)
  PROVE  \E d \in entries[i].data : \E e \in JournalEntry :
           /\ content' = [content EXCEPT ![d.block] = [slot |-> d.slot, ver |-> d.ver]]
           /\ entries' = [entries EXCEPT ![i] = e]
           /\ e.data = entries[i].data \ {d} /\ e.txn = entries[i].txn
           /\ e.block = entries[i].block /\ e.ver = entries[i].ver
           /\ e.map = entries[i].map /\ e.used = entries[i].used
           /\ (e.frees <=> entries[i].frees) /\ (e.written <=> entries[i].written)
<1>1. PICK d \in entries[i].data :
        /\ content' = [content EXCEPT ![d.block] = [slot |-> d.slot, ver |-> d.ver]]
        /\ entries' = [entries EXCEPT ![i] = [entries[i] EXCEPT !.data = @ \ {d}]]
  BY DEF DataWritten
<1>. DEFINE e == [entries[i] EXCEPT !.data = @ \ {d}]
<1>2. entries[i] \in JournalEntry
  BY EntryTypes DEF Invariants, OwnersInv
<1>3. \A o \in JournalEntry :
        LET p == [o EXCEPT !.data = @ \ {d}]
        IN  /\ p \in JournalEntry /\ p.data = o.data \ {d} /\ p.txn = o.txn /\ p.block = o.block
            /\ p.ver = o.ver /\ p.map = o.map /\ p.used = o.used
            /\ p.frees = o.frees /\ p.written = o.written
  BY DEF JournalEntry
<1>4. /\ e \in JournalEntry /\ e.data = entries[i].data \ {d} /\ e.txn = entries[i].txn
      /\ e.block = entries[i].block
      /\ e.ver = entries[i].ver /\ e.map = entries[i].map /\ e.used = entries[i].used
  BY <1>2, <1>3
<1>5. e.frees = entries[i].frees /\ e.written = entries[i].written
  BY <1>2, <1>3
<1>6. (e.frees <=> entries[i].frees) /\ (e.written <=> entries[i].written)
  BY <1>5
<1>. QED
  BY <1>1, <1>4, <1>6

\* Entries that change otherwise than in what they free.
LEMMA SameFreedBlocks ==
  ASSUME Invariants, Len(entries') = Len(entries),
         \A i \in 1..Len(entries) :
           entries'[i].txn = entries[i].txn /\ (entries'[i].frees <=> entries[i].frees),
         UNCHANGED <<phase, alloc, dealloc, pending, cached, op>>, Types'
  PROVE  OwnersInv'
<1>1. EntriesKeepBlocks'
  <2>1. \A r \in Reservation : Keeps(r)' <=> Keeps(r)
    BY DEF Keeps, A!Committed
  <2>2. \A i \in 1..Len(entries) : entries[i].txn \in Reservation
    BY EntryTypes DEF Invariants, OwnersInv, JournalEntry
  <2>. QED
    BY <2>1, <2>2 DEF Invariants, OwnersInv, EntriesKeepBlocks
<1>2. OperationOwns' /\ CachedAreOpen' /\ BlocksAreOwned'
  BY DEF Invariants, OwnersInv, OperationOwns, CachedAreOpen, BlocksAreOwned, A!Committed
<1>3. PendingIsCached' /\ OperationIsInOrder'
  BY DEF Invariants, OwnersInv, PendingIsCached, OperationIsInOrder, SlotsOf
<1>. QED
  BY <1>1, <1>2, <1>3 DEF OwnersInv

LEMMA DataWrittenOwners ==
  ASSUME Invariants, NEW i \in DOMAIN entries, DataWritten(i) PROVE OwnersInv'
<1>1. i \in 1..Len(entries) /\ entries \in Seq(JournalEntry)
  BY DEF Invariants, OwnersInv, Types
<1>2. PICK d \in entries[i].data, e \in JournalEntry :
        /\ content' = [content EXCEPT ![d.block] = [slot |-> d.slot, ver |-> d.ver]]
        /\ entries' = [entries EXCEPT ![i] = e]
        /\ e.txn = entries[i].txn /\ (e.frees <=> entries[i].frees)
  BY <1>1, DataWrittenEffect
<1>3. /\ entries' \in Seq(JournalEntry) /\ Len(entries') = Len(entries)
      /\ entries'[i] = e /\ \A j \in 1..Len(entries) : j # i => entries'[j] = entries[j]
  BY <1>1, <1>2, ChangedSequence
<1>4. content' \in [Block -> [slot : Nat, ver : Nat]]
  <2>1. d \in Data
    BY <1>1, EntryTypes DEF Invariants, OwnersInv, JournalEntry
  <2>2. [slot |-> d.slot, ver |-> d.ver] \in [slot : Nat, ver : Nat]
    BY <2>1, TransactionsAssumption DEF Data
  <2>. QED
    BY <1>2, <2>2 DEF Invariants, OwnersInv, Types
<1>5. Types'
  BY <1>3, <1>4
     DEF DataWritten, Invariants, OwnersInv, Types, memoryVars, journalVars, clientVars
<1>6. \A j \in 1..Len(entries) :
        entries'[j].txn = entries[j].txn /\ (entries'[j].frees <=> entries[j].frees)
  BY <1>2, <1>3
<1>. QED
  BY <1>3, <1>5, <1>6, SameFreedBlocks DEF DataWritten, allocVars, memoryVars

\* An entry is complete on the disk.
LEMMA EntryWrittenEffect ==
  ASSUME Invariants, EntryWritten
  PROVE  \E e \in JournalEntry :
           /\ entries # <<>> /\ Len(entries) \in Nat \ {0} /\ ~entries[1].written
           /\ entries[1].data = {}
           /\ durable' = After(durable, entries[1]) /\ durable' \in DiskState
           /\ entries' = [entries EXCEPT ![1] = e]
           /\ e.data = {} /\ e.txn = entries[1].txn
           /\ e.block = entries[1].block /\ e.ver = entries[1].ver
           /\ e.map = entries[1].map /\ e.used = entries[1].used
           /\ (e.frees <=> entries[1].frees)
<1>1. /\ entries # <<>> /\ entries \in Seq(JournalEntry) /\ Head(entries) = entries[1]
      /\ entries[1] \in JournalEntry /\ Len(entries) \in Nat \ {0} /\ durable \in DiskState
  BY ShortenedSequence DEF EntryWritten, Invariants, OwnersInv, Types
<1>2. /\ ~Head(entries).written /\ Head(entries).data = {}
      /\ durable' = Apply(Head(entries))
  BY DEF EntryWritten
<1>3. entries' = [entries EXCEPT ![1] = [entries[1] EXCEPT !.written = TRUE]]
  BY DEF EntryWritten
<1>. DEFINE e == [entries[1] EXCEPT !.written = TRUE]
<1>4. \A o \in JournalEntry :
        LET p == [o EXCEPT !.written = TRUE]
        IN  /\ p \in JournalEntry /\ p.data = o.data /\ p.txn = o.txn /\ p.block = o.block
            /\ p.ver = o.ver /\ p.map = o.map /\ p.used = o.used /\ p.frees = o.frees
  BY DEF JournalEntry
<1>5. /\ e \in JournalEntry /\ e.data = entries[1].data /\ e.txn = entries[1].txn
      /\ e.block = entries[1].block
      /\ e.ver = entries[1].ver /\ e.map = entries[1].map /\ e.used = entries[1].used
  BY <1>1, <1>4
<1>6. e.frees <=> entries[1].frees
  <2>1. e.frees = entries[1].frees
    BY <1>1, <1>4
  <2>. QED
    BY <2>1
<1>7. durable' = After(durable, entries[1]) /\ durable' \in DiskState
  BY <1>1, <1>2, AfterType DEF Apply, After
<1>8. ~entries[1].written /\ entries[1].data = {}
  BY <1>1, <1>2
<1>. QED
  BY <1>1, <1>3, <1>5, <1>6, <1>7, <1>8

LEMMA EntryWrittenOwners ==
  ASSUME Invariants, EntryWritten PROVE OwnersInv'
<1>1. PICK e \in JournalEntry :
        /\ entries # <<>> /\ Len(entries) \in Nat \ {0}
        /\ durable' \in DiskState /\ entries' = [entries EXCEPT ![1] = e]
        /\ e.txn = entries[1].txn /\ (e.frees <=> entries[1].frees)
  BY EntryWrittenEffect
<1>2. /\ entries' \in Seq(JournalEntry) /\ Len(entries') = Len(entries)
      /\ entries'[1] = e /\ \A j \in 1..Len(entries) : j # 1 => entries'[j] = entries[j]
  <2>1. 1 \in 1..Len(entries) /\ entries \in Seq(JournalEntry)
    BY <1>1 DEF Invariants, OwnersInv, Types
  <2>. QED
    BY <1>1, <2>1, ChangedSequence
<1>3. Types'
  BY <1>1, <1>2
     DEF EntryWritten, Invariants, OwnersInv, Types, memoryVars, journalVars, clientVars
<1>4. \A j \in 1..Len(entries) :
        entries'[j].txn = entries[j].txn /\ (entries'[j].frees <=> entries[j].frees)
  BY <1>1, <1>2
<1>. QED
  BY <1>2, <1>3, <1>4, SameFreedBlocks DEF EntryWritten, allocVars, memoryVars

LEMMA SyncDoneOwners ==
  ASSUME Invariants, SyncDone PROVE OwnersInv'
<1>1. /\ synced' = sync.want /\ sync' = NoSync
      /\ UNCHANGED <<allocVars, memoryVars, op, journalVars, diskVars, crashes>>
  BY DEF SyncDone
<1>2. Types'
  BY <1>1 DEF NoSync, Invariants, OwnersInv, Types, memoryVars, journalVars, diskVars
<1>. QED
  BY <1>1, <1>2, SameFreedBlocks DEF allocVars, memoryVars, journalVars

\* What a commit callback does to the reservations.
LEMMA EntryDoneEffect ==
  ASSUME Invariants, EntryDone
  PROVE  /\ entries \in Seq(JournalEntry) /\ entries # <<>> /\ Len(entries) \in Nat \ {0}
         /\ entries' = Tail(entries) /\ entries' \in Seq(JournalEntry)
         /\ Len(entries') = Len(entries) - 1
         /\ \A i \in 1..(Len(entries) - 1) : entries'[i] = entries[i + 1]
         /\ entries[1] \in JournalEntry /\ entries[1].written
         /\ entries[1].frees => /\ dealloc'[entries[1].txn] = {}
                                /\ \A q \in Reservation :
                                     q # entries[1].txn => dealloc'[q] = dealloc[q]
         /\ ~entries[1].frees => dealloc' = dealloc
         /\ alloc' = alloc /\ map' = map /\ used' = used
         /\ \A q \in Reservation : phase[q] # "journal" => phase'[q] = phase[q]
         /\ \A q \in Reservation :
              ~(entries[1].frees /\ q = entries[1].txn) => phase'[q] = phase[q]
         /\ SpaceInv'
         /\ op' = [op EXCEPT !.wait = Decrement(op.wait)] /\ op' \in Operation
         /\ op'.wait = Decrement(op.wait) /\ op'.stage = op.stage /\ op'.after = op.after
         /\ op'.file = op.file /\ op'.slots = op.slots /\ op'.txn = op.txn /\ op'.data = op.data
         /\ sync' \in [wait : Nat \union {-1}, want : [Slot -> Nat]]
         /\ sync'.want = sync.want /\ sync'.wait = Decrement(sync.wait)
         /\ demanded' \in Nat
         /\ UNCHANGED <<memoryVars, diskVars, synced>>
<1>1. /\ entries \in Seq(JournalEntry) /\ entries # <<>> /\ Len(entries) \in Nat \ {0}
      /\ entries' = Tail(entries) /\ entries' \in Seq(JournalEntry)
      /\ Len(entries') = Len(entries) - 1
      /\ \A i \in 1..(Len(entries) - 1) : entries'[i] = entries[i + 1]
      /\ Head(entries) = entries[1] /\ entries[1] \in JournalEntry /\ Head(entries).written
  BY ShortenedSequence DEF EntryDone, Invariants, OwnersInv, Types
<1>2. entries[1].written
  BY <1>1
<1>. PICK r \in Reservation : r = entries[1].txn
  BY <1>1 DEF JournalEntry
<1>3. /\ entries[1].frees => A!ReleaseDeallocations(r)
      /\ ~entries[1].frees => UNCHANGED allocVars
  BY <1>1, SameOperations DEF EntryDone
<1>4. /\ entries[1].frees =>
           /\ dealloc'[r] = {} /\ (\A q \in Reservation : q # r => dealloc'[q] = dealloc[q])
           /\ phase'[r] = (IF phase[r] = "journal" THEN "none" ELSE phase[r])
           /\ (\A q \in Reservation : q # r => phase'[q] = phase[q])
           /\ alloc' = alloc /\ map' = map /\ used' = used
      /\ ~entries[1].frees =>
           phase' = phase /\ alloc' = alloc /\ dealloc' = dealloc /\ map' = map /\ used' = used
  <2>1. CASE entries[1].frees
    BY <1>3, <2>1, SpaceTypes DEF A!ReleaseDeallocations, Invariants
  <2>2. CASE ~entries[1].frees
    BY <1>3, <2>2 DEF allocVars
  <2>. QED
    BY <2>1, <2>2
<1>5. SpaceInv'
  <2>1. CASE entries[1].frees
    BY <1>3, <2>1, SpaceStep DEF Invariants
  <2>2. CASE ~entries[1].frees
    <3>1. UNCHANGED <<total, used, map, reserved, firstFree, phase, held, alloc, dealloc>>
      BY <1>3, <2>2 DEF allocVars
    <3>. QED
      BY <3>1 DEF Invariants, SpaceInv, A!TypeOK, A!NoElementTwice, A!Pending, A!ReservedBits,
         A!Committed
  <2>. QED
    BY <2>1, <2>2
<1>6. /\ op' = [op EXCEPT !.wait = Decrement(op.wait)] /\ op' \in Operation
      /\ op'.wait = Decrement(op.wait) /\ op'.stage = op.stage /\ op'.after = op.after
      /\ op'.file = op.file /\ op'.slots = op.slots /\ op'.txn = op.txn /\ op'.data = op.data
  <2>1. op.wait \in Nat
    BY OperationType DEF Operation
  <2>. PICK n \in Nat : n = Decrement(op.wait)
    BY <2>1 DEF Decrement
  <2>2. op' = [op EXCEPT !.wait = n]
    BY DEF EntryDone
  <2>3. \A o \in Operation :
          LET p == [o EXCEPT !.wait = n]
          IN  /\ p \in Operation /\ p.wait = n /\ p.stage = o.stage /\ p.after = o.after
              /\ p.file = o.file /\ p.slots = o.slots /\ p.txn = o.txn /\ p.data = o.data
    BY DEF Operation
  <2>. QED
    BY <2>2, <2>3, OperationType
<1>7. /\ sync' \in [wait : Nat \union {-1}, want : [Slot -> Nat]]
      /\ sync'.want = sync.want /\ sync'.wait = Decrement(sync.wait)
  <2>1. sync \in [wait : Nat \union {-1}, want : [Slot -> Nat]]
    BY DEF Invariants, OwnersInv, Types
  <2>. PICK n \in Nat \union {-1} : n = Decrement(sync.wait)
    BY <2>1 DEF Decrement
  <2>2. sync' = [sync EXCEPT !.wait = n]
    BY DEF EntryDone
  <2>. QED
    BY <2>1, <2>2
<1>8. demanded' \in Nat /\ UNCHANGED <<memoryVars, diskVars, synced>>
  BY DEF EntryDone, Decrement, Invariants, OwnersInv, Types
<1>. QED
  BY <1>1, <1>2, <1>4, <1>5, <1>6, <1>7, <1>8

LEMMA EntryDoneOwners ==
  ASSUME Invariants, EntryDone PROVE OwnersInv'
<1>. PICK n \in Nat : n = Len(entries) - 1
  BY EntryDoneEffect
<1>1. /\ Len(entries) = n + 1 /\ Len(entries') = n /\ entries' \in Seq(JournalEntry)
      /\ \A i \in 1..n : entries'[i] = entries[i + 1]
      /\ alloc' = alloc
      /\ \A q \in Reservation : phase[q] # "journal" => phase'[q] = phase[q]
      /\ UNCHANGED <<memoryVars, diskVars, synced>>
  BY EntryDoneEffect
<1>2. /\ op' \in Operation
      /\ op'.wait = Decrement(op.wait) /\ op'.stage = op.stage /\ op'.after = op.after
      /\ op'.file = op.file /\ op'.slots = op.slots /\ op'.txn = op.txn /\ op'.data = op.data
  BY EntryDoneEffect
<1>. PICK r \in Reservation : r = entries[1].txn
  BY EntryDoneEffect DEF JournalEntry
<1>3. Types'
  BY <1>1, <1>2, EntryDoneEffect
     DEF Invariants, OwnersInv, Types, memoryVars, diskVars
<1>4. EntriesKeepBlocks'
  <2>1. \A q \in Reservation : ~(entries[1].frees /\ q = r) => (Keeps(q)' <=> Keeps(q))
    <3>1. /\ \A q \in Reservation : ~(entries[1].frees /\ q = r) => phase'[q] = phase[q]
          /\ \A q \in Reservation : ~(entries[1].frees /\ q = r) => dealloc'[q] = dealloc[q]
      BY EntryDoneEffect
    <3>. QED
      BY <3>1 DEF Keeps, A!Committed
  <2>2. entries[1].frees => ~Keeps(r)'
    <3>1. entries[1].frees => dealloc'[r] = {}
      BY EntryDoneEffect
    <3>. QED
      BY <3>1 DEF Keeps
  <2>3. \A i \in 1..(n + 1) : entries[i].frees =>
          /\ Keeps(entries[i].txn)
          /\ \A j \in 1..(n + 1) : j # i /\ entries[j].frees => entries[j].txn # entries[i].txn
    BY <1>1 DEF Invariants, OwnersInv, EntriesKeepBlocks
  <2>4. \A q \in Reservation : Keeps(q) =>
          \E i \in 1..(n + 1) : entries[i].frees /\ entries[i].txn = q
    BY <1>1 DEF Invariants, OwnersInv, EntriesKeepBlocks
  <2>5. \A i \in 1..n : i + 1 \in 1..(n + 1) /\ i + 1 # 1
    OBVIOUS
  <2>6. ASSUME NEW i \in 1..n, entries'[i].frees
        PROVE  /\ phase'[entries'[i].txn] \in {"committed", "journal"}
               /\ dealloc'[entries'[i].txn] # {}
               /\ \A j \in 1..n :
                    j # i /\ entries'[j].frees => entries'[j].txn # entries'[i].txn
    <3>1. entries[i + 1].frees /\ entries'[i].txn = entries[i + 1].txn
      BY <1>1, <2>6
    <3>. PICK q \in Reservation : q = entries[i + 1].txn
      BY <2>5, <1>1, EntryTypes DEF JournalEntry, Invariants, OwnersInv
    <3>2. Keeps(q) /\ ~(entries[1].frees /\ q = r)
      BY <2>3, <2>5, <3>1
    <3>3. Keeps(q)'
      BY <2>1, <3>2
    <3>4. ASSUME NEW j \in 1..n, j # i, entries'[j].frees PROVE entries'[j].txn # q
      <4>1. entries[j + 1].frees /\ entries'[j].txn = entries[j + 1].txn /\ j + 1 # i + 1
        BY <1>1, <3>4, SMTT(30)
      <4>. QED
        BY <2>3, <2>5, <3>1, <4>1
    <3>. QED
      BY <3>1, <3>3, <3>4 DEF Keeps, A!Committed
  <2>7. ASSUME NEW q \in Reservation, Keeps(q)'
        PROVE  \E i \in 1..n : entries'[i].frees /\ entries'[i].txn = q
    <3>1. ~(entries[1].frees /\ q = r) /\ Keeps(q)
      BY <2>1, <2>2, <2>7
    <3>2. PICK i \in 1..(n + 1) : entries[i].frees /\ entries[i].txn = q
      BY <2>4, <3>1
    <3>3. i # 1
      BY <3>1, <3>2
    <3>4. i - 1 \in 1..n /\ (i - 1) + 1 = i
      BY <3>3
    <3>. QED
      BY <1>1, <3>2, <3>4
  <2>. QED
    BY <1>1, <2>6, <2>7 DEF EntriesKeepBlocks, Keeps, A!Committed
<1>5. OperationOwns'
  <2>1. op.txn # None => op.txn \in Reservation /\ phase[op.txn] # "journal"
    BY OperationType DEF Operation, Invariants, OwnersInv, OperationOwns, PhaseAt
  <2>. QED
    BY <1>1, <1>2, <2>1 DEF Invariants, OwnersInv, OperationOwns, memoryVars
<1>6. CachedAreOpen'
  <2>1. \A f \in File : cached[f] # None => cached[f] \in Reservation /\ phase[cached[f]] = "open"
    BY DEF Invariants, OwnersInv, Types, CachedAreOpen
  <2>. QED
    BY <1>1, <1>2, <2>1 DEF Invariants, OwnersInv, CachedAreOpen, memoryVars
<1>7. BlocksAreOwned'
  <2>. SUFFICES ASSUME NEW q \in Reservation, alloc'[q] # {} \/ dealloc'[q] # {}
                PROVE  phase'[q] \in {"committed", "journal"} \/ (q = op'.txn /\ op'.stage \in Using)
    BY DEF BlocksAreOwned, A!Committed
  <2>1. CASE phase[q] = "journal"
    <3>1. alloc[q] = {} /\ dealloc'[q] # {}
      BY <1>1, <2>1, SpaceTypes DEF Invariants
    <3>2. ~(entries[1].frees /\ q = entries[1].txn)
      BY <3>1, EntryDoneEffect
    <3>. QED
      BY <2>1, <3>2, EntryDoneEffect
  <2>2. CASE phase[q] # "journal"
    <3>1. alloc[q] # {} \/ dealloc[q] # {}
      <4>1. CASE entries[1].frees
        BY <1>1, <4>1, EntryDoneEffect
      <4>2. CASE ~entries[1].frees
        BY <1>1, <4>2, EntryDoneEffect
      <4>. QED
        BY <4>1, <4>2
    <3>. QED
      BY <1>1, <1>2, <2>2, <3>1 DEF Invariants, OwnersInv, BlocksAreOwned, A!Committed
  <2>. QED
    BY <2>1, <2>2
<1>8. PendingIsCached'
  BY <1>1, <1>2 DEF Invariants, OwnersInv, PendingIsCached, memoryVars
<1>9. OperationIsInOrder'
  BY <1>1, <1>2 DEF Invariants, OwnersInv, OperationIsInOrder, SlotsOf, Decrement
<1>. QED
  BY <1>3, <1>4, <1>5, <1>6, <1>7, <1>8, <1>9 DEF OwnersInv

\* What a crash leaves: nothing but the disk.
LEMMA CrashOwners ==
  ASSUME Invariants, Crash PROVE OwnersInv'
<1>1. /\ phase' = [r \in Reservation |-> "none"] /\ alloc' = [r \in Reservation |-> {}]
      /\ dealloc' = [r \in Reservation |-> {}]
      /\ ver' = durable.ver /\ ptr' = durable.block /\ pending' = {}
      /\ cached' = [f \in File |-> None] /\ op' = Idle /\ entries' = <<>> /\ demanded' = 0
      /\ sync' = NoSync /\ content' = content /\ durable' = durable /\ synced' = synced
  BY DEF Crash, diskVars
<1>2. Types'
  <2>1. ver' \in [Slot -> Nat] /\ ptr' \in [Slot -> Block]
    BY <1>1 DEF Invariants, OwnersInv, Types, DiskState
  <2>2. sync' \in [wait : Nat \union {-1}, want : [Slot -> Nat]]
    BY <1>1 DEF NoSync
  <2>3. op' \in Operation /\ entries' \in Seq(JournalEntry)
    BY <1>1, IdleOperation
  <2>. QED
    BY <1>1, <2>1, <2>2, <2>3 DEF Invariants, OwnersInv, Types
<1>3. EntriesKeepBlocks'
  BY <1>1 DEF EntriesKeepBlocks, Keeps
<1>4. OperationOwns' /\ OperationIsInOrder'
  BY <1>1, IdleOperation DEF OperationOwns, OperationIsInOrder, SlotsOf, Using
<1>5. CachedAreOpen' /\ BlocksAreOwned' /\ PendingIsCached'
  BY <1>1 DEF CachedAreOpen, BlocksAreOwned, PendingIsCached
<1>. QED
  BY <1>2, <1>3, <1>4, <1>5 DEF OwnersInv

(***************************************************************************)
(* Every step.                                                              *)
(***************************************************************************)

LEMMA SpaceKept == SpaceInv /\ UNCHANGED allocVars => SpaceInv'
BY DEF SpaceInv, A!TypeOK, A!NoElementTwice, A!Pending, A!ReservedBits, A!Committed, allocVars

\* The steps in which the allocator takes one of its own.
LEMMA AllocatorSteps ==
  ASSUME Invariants,
         \/ Begin \/ Reserved \/ Extended \/ Abandon \/ Abandoned
         \/ SwapOut \/ SwapIn \/ (\E s \in Slot : ReleaseBlock(s))
         \/ CommitTransaction \/ CancelRest \/ Close
  PROVE  SpaceInv'
<1>1. op.txn # None => op.txn \in Reservation
  BY OperationType DEF Operation
<1>2. CASE Begin
  <2>1. NewReservation \in Reservation
    BY <1>2, Zenon DEF Begin, NewReservation
  <2>2. A!Construct(NewReservation)
    BY <1>2, SameOperations DEF Begin
  <2>. QED
    BY <2>1, <2>2, SpaceStep DEF Invariants
<1>3. CASE Reserved \/ Extended
  <2>1. op.txn \in Reservation /\ op.need \in Nat
    BY <1>1, <1>3, OperationType
       DEF Reserved, Extended, Invariants, OwnersInv, OperationOwns, Operation
  <2>2. A!Reserve(op.txn, op.need)
    BY <1>3, SameOperations DEF Reserved, Extended
  <2>. QED
    BY <2>1, <2>2, SpaceReserve DEF Invariants
<1>4. CASE Abandon \/ Abandoned \/ CommitTransaction \/ CancelRest \/ Close \/ SwapIn
  <2>1. op.txn \in Reservation
    BY <1>1, <1>4
       DEF Abandon, Abandoned, CommitTransaction, CancelRest, Close, SwapIn, Invariants,
           OwnersInv, OperationOwns, Using
  <2>2. \/ A!Abort(op.txn) \/ A!DropAllocations(op.txn) \/ A!Commit(op.txn)
        \/ A!Cancel(op.txn) \/ A!DestroyCommitted(op.txn) \/ A!Allocate(op.txn)
    BY <1>4, SameOperations DEF Abandon, Abandoned, CommitTransaction, CancelRest, Close, SwapIn
  <2>. QED
    BY <2>1, <2>2, SpaceStep DEF Invariants
<1>5. CASE SwapOut \/ \E s \in Slot : ReleaseBlock(s)
  <2>1. op.txn \in Reservation
    BY <1>1, <1>5 DEF SwapOut, ReleaseBlock, Invariants, OwnersInv, OperationOwns, Using
  <2>2. PICK b : A!Free(op.txn, b)
    BY <1>5, SameOperations DEF SwapOut, ReleaseBlock
  <2>3. b \in A!Element
    <3>1. b \in Block
      BY <2>1, <2>2, FreeEffect, SpaceTypes DEF Invariants
    <3>. QED
      BY <3>1 DEF A!Element, Block
  <2>. QED
    BY <2>1, <2>2, <2>3, SpaceStep DEF Invariants
<1>. QED
  BY <1>2, <1>3, <1>4, <1>5

LEMMA NextSpace == Invariants /\ [Next]_vars => SpaceInv'
<1>. SUFFICES ASSUME Invariants, [Next]_vars PROVE SpaceInv'
  OBVIOUS
<1>1. CASE \/ Begin \/ Reserved \/ Extended \/ Abandon \/ Abandoned
           \/ SwapOut \/ SwapIn \/ (\E s \in Slot : ReleaseBlock(s))
           \/ CommitTransaction \/ CancelRest \/ Close
  BY <1>1, AllocatorSteps
<1>2. CASE UNCHANGED allocVars
  BY <1>2, SpaceKept DEF Invariants
<1>3. CASE EntryDone
  BY <1>3, EntryDoneEffect
<1>4. CASE Crash
  <2>1. /\ total' = Blocks /\ map' = durable.map /\ used' = durable.used /\ reserved' = 0
        /\ firstFree' = 0 /\ phase' = [r \in Reservation |-> "none"]
        /\ held' = [r \in Reservation |-> 0] /\ alloc' = [r \in Reservation |-> {}]
        /\ dealloc' = [r \in Reservation |-> {}]
    BY <1>4 DEF Crash
  <2>2. durable.map \in SUBSET (0..(Blocks - 1)) /\ durable.used \in Int
    BY DEF Invariants, OwnersInv, Types, DiskState, Block
  <2>3. A!TypeOK'
    BY <2>1, <2>2, TransactionsAssumption DEF A!TypeOK, A!Phase
  <2>4. A!NoElementTwice'
    BY <2>1 DEF A!NoElementTwice, A!Pending, A!ReservedBits, A!Committed
  <2>. QED
    BY <2>3, <2>4 DEF SpaceInv
<1>. QED
  <2>1. \/ \E f \in File : Truncate(f) \/ Remove(f) \/ \E S \in SUBSET SlotsOf(f) : Write(f, S)
        \/ StartSync \/ TimerExpires \/ ReserveFails \/ Retry \/ TakeCached \/ WriteToCache
        \/ Flush \/ (\E f \in File : SyncFile(f)) \/ EnqueueCallback
        \/ (\E i \in DOMAIN entries : DataWritten(i)) \/ EntryWritten \/ SyncDone
        \/ UNCHANGED vars
        => UNCHANGED allocVars
    BY DEF Truncate, Remove, Write, StartSync, TimerExpires, ReserveFails, Retry, TakeCached,
       WriteToCache, Flush, SyncFile, EnqueueCallback, DataWritten, EntryWritten, SyncDone, vars
  <2>. QED
    BY <1>1, <1>2, <1>3, <1>4, <2>1 DEF Next, Work

\* Bits that are 0's stay where they are, entries as they were.
LEMMA ZeroKept ==
  ASSUME Invariants, UNCHANGED <<map, durable, entries>>,
         \A r \in Reservation : 0 \in dealloc'[r] => 0 \in dealloc[r]
  PROVE  ZeroIsTaken'
BY DEF Invariants, ZeroIsTaken

LEMMA NextZero == Invariants /\ [Next]_vars => ZeroIsTaken'
<1>. SUFFICES ASSUME Invariants, [Next]_vars PROVE ZeroIsTaken'
  OBVIOUS
<1>1. dealloc \in [Reservation -> SUBSET Block] /\ (op.txn # None => op.txn \in Reservation)
  BY SpaceTypes, OperationType DEF Invariants, Operation
<1>2. CASE UNCHANGED <<map, dealloc, durable, entries>>
  BY <1>2, ZeroKept
<1>3. CASE Abandon
  <2>1. \A r \in Reservation : 0 \in dealloc'[r] => 0 \in dealloc[r]
    BY <1>1, <1>3, SameOperations DEF Abandon, A!Abort
  <2>2. UNCHANGED <<map, durable, entries>>
    BY <1>3, SameOperations DEF Abandon, A!Abort, journalVars, diskVars
  <2>. QED
    BY <2>1, <2>2, ZeroKept
<1>4. CASE SwapOut \/ \E s \in Slot : ReleaseBlock(s)
  <2>1. op.txn \in Reservation
    BY <1>1, <1>4 DEF SwapOut, ReleaseBlock, Invariants, OwnersInv, OperationOwns, Using
  <2>2. PICK b : A!Free(op.txn, b)
    BY <1>4, SameOperations DEF SwapOut, ReleaseBlock
  <2>3. \A r \in Reservation : 0 \in dealloc'[r] => 0 \in dealloc[r]
    BY <2>1, <2>2, FreeEffect DEF Invariants
  <2>4. UNCHANGED <<map, durable, entries>>
    BY <1>4, <2>2 DEF SwapOut, ReleaseBlock, A!Free, journalVars, diskVars
  <2>. QED
    BY <2>3, <2>4, ZeroKept
<1>5. CASE CommitTransaction
  <2>. PICK e \in JournalEntry : e = Entry(map', used')
    BY <1>5, CommitEffect
  <2>. PICK n \in Nat : n = Len(entries)
    BY EntryTypes DEF Invariants, OwnersInv
  <2>1. /\ map' = (map \ dealloc[op.txn]) \union alloc[op.txn] /\ dealloc' = dealloc
        /\ entries' = Append(entries, e) /\ e.map = map' /\ op.txn \in Reservation
        /\ durable' = durable
    BY <1>5, CommitEffect DEF diskVars
  <2>2. /\ Len(entries') = n + 1 /\ entries'[n + 1] = e
        /\ \A i \in 1..n : entries'[i] = entries[i]
    <3>1. entries \in Seq(JournalEntry)
      BY DEF Invariants, OwnersInv, Types
    <3>2. /\ Len(Append(entries, e)) = Len(entries) + 1
          /\ \A i \in 1..Len(entries) : Append(entries, e)[i] = entries[i]
          /\ Append(entries, e)[Len(entries) + 1] = e
      BY <3>1, AppendedSequence
    <3>. QED
      BY <2>1, <3>2
  <2>3. 0 \in map'
    BY <2>1 DEF Invariants, ZeroIsTaken
  <2>4. \A i \in 1..(n + 1) : 0 \in entries'[i].map
    <3>1. \A i \in 1..(n + 1) : i \in 1..n \/ i = n + 1
      OBVIOUS
    <3>. QED
      BY <2>1, <2>2, <2>3, <3>1 DEF Invariants, ZeroIsTaken
  <2>. QED
    BY <2>1, <2>2, <2>3, <2>4 DEF Invariants, ZeroIsTaken
<1>6. CASE \E i \in DOMAIN entries : DataWritten(i)
  <2>1. PICK i \in DOMAIN entries : DataWritten(i)
    BY <1>6
  <2>2. i \in 1..Len(entries) /\ entries \in Seq(JournalEntry)
    BY DEF Invariants, OwnersInv, Types
  <2>3. PICK e \in JournalEntry : entries' = [entries EXCEPT ![i] = e] /\ e.map = entries[i].map
    BY <2>1, <2>2, DataWrittenEffect
  <2>4. /\ Len(entries') = Len(entries) /\ entries'[i] = e
        /\ \A j \in 1..Len(entries) : j # i => entries'[j] = entries[j]
    BY <2>2, <2>3, ChangedSequence
  <2>5. UNCHANGED <<map, dealloc, durable>>
    BY <2>1 DEF DataWritten, allocVars
  <2>. QED
    BY <2>3, <2>4, <2>5 DEF Invariants, ZeroIsTaken
<1>7. CASE EntryWritten
  <2>1. PICK e \in JournalEntry :
          /\ Len(entries) \in Nat \ {0} /\ durable' = After(durable, entries[1])
          /\ entries' = [entries EXCEPT ![1] = e] /\ e.map = entries[1].map
    BY <1>7, EntryWrittenEffect
  <2>2. 1 \in 1..Len(entries) /\ entries \in Seq(JournalEntry)
    BY <2>1 DEF Invariants, OwnersInv, Types
  <2>3. /\ Len(entries') = Len(entries) /\ entries'[1] = e
        /\ \A j \in 1..Len(entries) : j # 1 => entries'[j] = entries[j]
    BY <2>1, <2>2, ChangedSequence
  <2>4. durable'.map = entries[1].map
    BY <2>1 DEF After
  <2>5. UNCHANGED <<map, dealloc>>
    BY <1>7 DEF EntryWritten, allocVars
  <2>. QED
    BY <2>1, <2>2, <2>3, <2>4, <2>5 DEF Invariants, ZeroIsTaken
<1>8. CASE EntryDone
  <2>. PICK n \in Nat : n = Len(entries) - 1
    BY <1>8, EntryDoneEffect
  <2>1. /\ Len(entries) = n + 1 /\ Len(entries') = n
        /\ \A i \in 1..n : entries'[i] = entries[i + 1]
        /\ map' = map /\ durable' = durable
    BY <1>8, EntryDoneEffect DEF diskVars
  <2>2. \A r \in Reservation : 0 \in dealloc'[r] => 0 \in dealloc[r]
    <3>1. CASE entries[1].frees
      BY <1>8, <3>1, EntryDoneEffect
    <3>2. CASE ~entries[1].frees
      BY <1>8, <3>2, EntryDoneEffect
    <3>. QED
      BY <3>1, <3>2
  <2>. QED
    BY <2>1, <2>2 DEF Invariants, ZeroIsTaken
<1>9. CASE Crash
  BY <1>9 DEF Crash, diskVars, Invariants, ZeroIsTaken
<1>. QED
  <2>1. \/ \E f \in File : Truncate(f) \/ Remove(f) \/ \E S \in SUBSET SlotsOf(f) : Write(f, S)
        \/ StartSync \/ TimerExpires \/ ReserveFails \/ Retry \/ TakeCached \/ WriteToCache
        \/ Flush \/ (\E f \in File : SyncFile(f)) \/ EnqueueCallback \/ SyncDone
        \/ UNCHANGED vars
        => UNCHANGED <<map, dealloc, durable, entries>>
    BY DEF Truncate, Remove, Write, StartSync, TimerExpires, ReserveFails, Retry, TakeCached,
       WriteToCache, Flush, SyncFile, EnqueueCallback, SyncDone, vars, allocVars, journalVars,
       diskVars
  <2>2. Begin \/ Reserved \/ Extended \/ Abandoned \/ SwapIn \/ CancelRest \/ Close
        => UNCHANGED <<map, dealloc, durable, entries>>
    BY SameOperations
       DEF Begin, Reserved, Extended, Abandoned, SwapIn, CancelRest, Close, A!Construct, A!Reserve,
           A!DropAllocations, A!Allocate, A!Cancel, A!DestroyCommitted, journalVars, diskVars
  <2>. QED
    BY <1>2, <1>3, <1>4, <1>5, <1>6, <1>7, <1>8, <1>9, <2>1, <2>2 DEF Next, Work

LEMMA NextOwners == Invariants /\ [Next]_vars => OwnersInv'
<1>. SUFFICES ASSUME Invariants, [Next]_vars PROVE OwnersInv'
  OBVIOUS
<1>1. ASSUME NEW f \in File, NEW S \in SUBSET SlotsOf(f), Write(f, S) PROVE OwnersInv'
  BY <1>1, WriteOwners
<1>2. CASE (\E f \in File : Truncate(f) \/ Remove(f)) \/ StartSync \/ TimerExpires
  BY <1>2, StartOwners
<1>3. CASE Begin \/ Reserved \/ ReserveFails \/ Abandon \/ Abandoned \/ Retry
  BY <1>3, BeginOwners, ReservedOwners, ReserveFailsOwners, AbandonOwners, AbandonedOwners,
     RetryOwners
<1>4. CASE TakeCached \/ Extended \/ WriteToCache \/ Flush \/ SwapOut \/ SwapIn
  BY <1>4, TakeCachedOwners, ExtendedOwners, WriteToCacheOwners, FlushOwners, SwapOutOwners,
     SwapInOwners
<1>5. ASSUME NEW s \in Slot, ReleaseBlock(s) PROVE OwnersInv'
  BY <1>5, ReleaseBlockOwners
<1>6. CASE CommitTransaction \/ CancelRest \/ Close
  BY <1>6, CommitOwners, CancelRestOwners, CloseOwners
<1>7. ASSUME NEW f \in File, SyncFile(f) PROVE OwnersInv'
  BY <1>7, SyncFileOwners
<1>8. CASE EnqueueCallback \/ EntryWritten \/ EntryDone \/ SyncDone \/ Crash
  BY <1>8, EnqueueCallbackOwners, EntryWrittenOwners, EntryDoneOwners, SyncDoneOwners, CrashOwners
<1>9. ASSUME NEW i \in DOMAIN entries, DataWritten(i) PROVE OwnersInv'
  BY <1>9, DataWrittenOwners
<1>10. CASE UNCHANGED vars
  <2>1. Types'
    BY <1>10 DEF Invariants, OwnersInv, Types, vars, memoryVars, journalVars, diskVars, clientVars
  <2>. QED
    BY <1>10, <2>1, SameFreedBlocks DEF vars, allocVars, memoryVars, journalVars
<1>. QED
  BY <1>1, <1>2, <1>3, <1>4, <1>5, <1>6, <1>7, <1>8, <1>9, <1>10 DEF Next, Work

LEMMA NextInvariants == Invariants /\ [Next]_vars => Invariants'
BY NextSpace, NextOwners, NextZero DEF Invariants

LEMMA InitInvariants == Init => Invariants
<1>. SUFFICES ASSUME Init PROVE Invariants
  OBVIOUS
<1>1. SpaceInv
  BY SpaceAtStart
<1>2. /\ phase = [r \in Reservation |-> "none"] /\ alloc = [r \in Reservation |-> {}]
      /\ dealloc = [r \in Reservation |-> {}] /\ map = {0}
  BY DEF Init, Allocator!Init
<1>3. /\ ver = [s \in Slot |-> 0] /\ ptr = [s \in Slot |-> 0] /\ pending = {}
      /\ cached = [f \in File |-> None] /\ op = Idle /\ entries = <<>> /\ demanded = 0
      /\ content = [b \in 0..(Blocks - 1) |-> Nothing] /\ sync = NoSync
      /\ synced = [s \in Slot |-> 0]
      /\ durable = [block |-> [s \in Slot |-> 0], ver |-> [s \in Slot |-> 0], map |-> {0},
                    used |-> 1]
  BY DEF Init
<1>4. Types
  <2>1. 0 \in Block
    BY TransactionsAssumption DEF Block
  <2>2. durable \in DiskState
    BY <1>3, <2>1 DEF DiskState
  <2>3. sync \in [wait : Nat \union {-1}, want : [Slot -> Nat]]
    BY <1>3 DEF NoSync
  <2>4. op \in Operation /\ entries \in Seq(JournalEntry)
    BY <1>3, IdleOperation
  <2>. QED
    BY <1>3, <2>1, <2>2, <2>3, <2>4 DEF Types, Block, Nothing
<1>5. EntriesKeepBlocks
  BY <1>2, <1>3 DEF EntriesKeepBlocks, Keeps
<1>6. OperationOwns /\ OperationIsInOrder
  BY <1>3, IdleOperation DEF OperationOwns, OperationIsInOrder, SlotsOf, Using
<1>7. CachedAreOpen /\ BlocksAreOwned /\ PendingIsCached
  BY <1>2, <1>3 DEF CachedAreOpen, BlocksAreOwned, PendingIsCached
<1>8. ZeroIsTaken
  BY <1>2, <1>3 DEF ZeroIsTaken
<1>. QED
  BY <1>1, <1>4, <1>5, <1>6, <1>7, <1>8 DEF Invariants, OwnersInv

\* Every reservation is always in one pair of hands, and what it holds in no other's: the
\* operation's, one file's cache (File::cached_transaction_), or the journal entry that
\* keeps the blocks the transaction freed until its commit callback has run
\* (Minfs::CommitTransaction); and within the allocator no block is out twice.
THEOREM ReservationsAreOwned == Spec => []Invariants
<1>1. Init => Invariants
  BY InitInvariants
<1>2. Invariants /\ [Next]_vars => Invariants'
  BY NextInvariants
<1>. QED
  BY <1>1, <1>2, PTL DEF Spec

================================================================================
