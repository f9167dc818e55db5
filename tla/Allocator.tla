------------------------------- MODULE Allocator -------------------------------
(***************************************************************************)
(* The element allocator of minfs (src/storage/minfs/allocator).  One      *)
(* instance hands out data blocks, another one inodes.  An element is an   *)
(* index into the bitmap map_.  A client holds an AllocatorReservation:    *)
(* it reserves a number of elements first, turns reserved elements into    *)
(* concrete indices later, marks other elements for deallocation, and      *)
(* commits both at once.  The two PendingChange objects of a reservation   *)
(* keep elements out of reach that the bitmap does not (or does no longer) *)
(* show as allocated: allocations until they are committed, deallocations  *)
(* from the commit until the transaction has reached the journal.          *)
(*                                                                         *)
(* Every action is one critical section of Allocator::lock_, so that       *)
(* reservations of different threads, and the journal callback that drops  *)
(* committed deallocations, interleave between them.                       *)
(***************************************************************************)
EXTENDS Integers, FiniteSets

CONSTANTS
  Reservation,        \* AllocatorReservation objects (a name is reused after destruction)
  InitAllocated,      \* bits set in the bitmap loaded at mount
  InitTotal,          \* PoolTotal of the superblock at mount
  SliceElements,      \* elements one more FVM slice adds to the pool
  MaxTotal,           \* bound: the device or the bitmap has no room beyond this
  UsingFvm,           \* kMinfsFlagFVM of the superblock
  MaxRequest,         \* largest count a client reserves in one call
  FreesOwnAllocations \* whether clients free an element their own reservation
                      \* allocated and has not committed

(***************************************************************************)
(* A pool that can grow does so by one slice per call, whatever the count  *)
(* asked for (the TODO at allocator.cc:198): clients must not ask for more *)
(* than a slice at once.                                                   *)
(***************************************************************************)
ASSUME AllocatorAssumption ==
  /\ InitTotal \in Nat /\ MaxTotal \in Nat /\ InitTotal <= MaxTotal
  /\ SliceElements \in Nat \ {0}
  /\ MaxRequest \in Nat \ {0}
  /\ UsingFvm \in BOOLEAN /\ FreesOwnAllocations \in BOOLEAN
  /\ UsingFvm => MaxRequest <= SliceElements
  /\ InitAllocated \subseteq 0..(InitTotal - 1)
  /\ IsFiniteSet(Reservation)

VARIABLES
  total,      \* storage_->PoolTotal(), also the size of map_
  used,       \* superblock count of allocated elements (PoolUsed)
  map,        \* the set bits of map_
  reserved,   \* Allocator::reserved_
  firstFree,  \* Allocator::first_free_
  phase,      \* where each AllocatorReservation is in its life
  held,       \* AllocatorReservation::reserved_ of each reservation
  alloc,      \* bits of its PendingAllocations
  dealloc     \* bits of its PendingDeallocations

vars == <<total, used, map, reserved, firstFree, phase, held, alloc, dealloc>>

Element == 0..(MaxTotal - 1)

(***************************************************************************)
(* "none": no object; "open": usable; "aborting": the destructor of an     *)
(* uncommitted reservation is running; "committed": is_committed() of both *)
(* changes; "journal": the reservation is gone and only its committed      *)
(* PendingDeallocations lives on, in the journal's commit callback.        *)
(***************************************************************************)
Phase == {"none", "open", "aborting", "committed", "journal"}

TypeOK ==
  /\ total \in Nat /\ total <= MaxTotal
  /\ used \in Int
  /\ map \subseteq 0..(total - 1)
  /\ reserved \in Int
  /\ firstFree \in 0..total
  /\ phase \in [Reservation -> Phase]
  /\ held \in [Reservation -> Nat]
  /\ alloc \in [Reservation -> SUBSET (0..(total - 1))]
  /\ dealloc \in [Reservation -> SUBSET (0..(total - 1))]
  /\ \A r \in Reservation :
       /\ phase[r] = "none" => held[r] = 0 /\ alloc[r] = {} /\ dealloc[r] = {}
       /\ phase[r] = "aborting" => held[r] = 0 /\ dealloc[r] = {}
       /\ phase[r] = "journal" => held[r] = 0 /\ alloc[r] = {}

(***************************************************************************)
(* Faulty variants: plausible mistakes in the definitions below, each of    *)
(* which breaks one of the properties at the end of the module.  They are   *)
(* not part of the specification.                                           *)
(***************************************************************************)

\* Committed deallocations are not kept out of reach.
ReservedBitsWithoutQuarantine(r) ==
  IF phase[r] \in {"committed", "journal"} THEN {} ELSE alloc[r]

\* GetAvailableLocked does not count what pending changes reserve.
AvailableWithoutPending == (total - used) - reserved

\* The search looks at the bitmap only.
AllocatableIgnoringPending == {i \in firstFree..(total - 1) : i \notin map}

\* RemovePendingChange leaves first_free_ alone.
LowerFirstFreeNever(bits) == firstFree

\* Commit records the allocations in the superblock's count only.
CommitMiscounted(r) ==
  /\ phase[r] = "open"
  /\ alloc[r] # {} \/ dealloc[r] # {}
  /\ map' = (map \union alloc[r]) \ dealloc[r]
  /\ used' = used + Cardinality(alloc[r])
  /\ phase' = [phase EXCEPT ![r] = "committed"]
  /\ UNCHANGED <<total, reserved, firstFree, held, alloc, dealloc>>

\* The destructor does not cancel first.
AbortHolding(r) ==
  /\ phase[r] = "open"
  /\ dealloc' = [dealloc EXCEPT ![r] = {}]
  /\ phase' = [phase EXCEPT ![r] = "aborting"]
  /\ UNCHANGED <<total, used, map, reserved, firstFree, held, alloc>>

(***************************************************************************)
(* Accounting.                                                             *)
(***************************************************************************)

Committed(r) == phase[r] \in {"committed", "journal"}

\* The elements a reservation keeps out of reach although the bitmap shows
\* them free: allocations before the commit, deallocations after it.
ReservedBits(r) == IF Committed(r) THEN dealloc[r] ELSE alloc[r]

Pending == UNION {ReservedBits(r) : r \in Reservation}

\* The sum of GetReservedCount() over pending_changes_, as the number of
\* pairs of a change and a bit it reserves.
PendingPairs == {p \in Reservation \X Element : p[2] \in ReservedBits(p[1])}
PendingCount == Cardinality(PendingPairs)

Available == (total - used) - (reserved + PendingCount)

\* The elements FindLocked may return, and the one it does.
Allocatable == {i \in firstFree..(total - 1) : i \notin map /\ i \notin Pending}
FindLocked == CHOOSE i \in Allocatable : \A j \in Allocatable : i <= j

\* first_free_ after RemovePendingChange of a change with these bits that
\* reserves them: the first bit of the change, when it is lower.
LowerFirstFree(bits) ==
  IF \E i \in bits : i < firstFree
  THEN CHOOSE i \in bits : \A j \in bits : i <= j
  ELSE firstFree

(***************************************************************************)
(* The operations.                                                         *)
(***************************************************************************)

Init ==
  /\ total = InitTotal
  /\ map = InitAllocated
  /\ used = Cardinality(InitAllocated)
  /\ reserved = 0
  /\ firstFree = 0
  /\ phase = [r \in Reservation |-> "none"]
  /\ held = [r \in Reservation |-> 0]
  /\ alloc = [r \in Reservation |-> {}]
  /\ dealloc = [r \in Reservation |-> {}]

Construct(r) ==
  /\ phase[r] = "none"
  /\ phase' = [phase EXCEPT ![r] = "open"]
  /\ UNCHANGED <<total, used, map, reserved, firstFree, held, alloc, dealloc>>

\* PersistentStorage::Extend: one FVM slice, if the volume and the bitmap
\* have room for it.  (Where it fails, Reserve fails and nothing changes.)
Extend ==
  /\ UsingFvm
  /\ total + SliceElements <= MaxTotal
  /\ total' = total + SliceElements

\* AllocatorReservation::ExtendReservation, and Reserve (which refuses a
\* reservation that still holds elements).
Reserve(r, count) ==
  /\ phase[r] = "open"
  /\ \/ Available >= count /\ UNCHANGED total
     \/ Available < count /\ Extend
  /\ reserved' = reserved + count
  /\ held' = [held EXCEPT ![r] = @ + count]
  /\ UNCHANGED <<used, map, firstFree, phase, alloc, dealloc>>

Allocate(r) ==
  /\ phase[r] = "open"
  /\ held[r] > 0
  /\ Allocatable # {}
  /\ held' = [held EXCEPT ![r] = @ - 1]
  /\ alloc' = [alloc EXCEPT ![r] = @ \union {FindLocked}]
  /\ reserved' = reserved - 1
  /\ firstFree' = FindLocked + 1
  /\ UNCHANGED <<total, used, map, phase, dealloc>>

\* What a client may pass to Allocator::Free: an element in use (it belongs to
\* one vnode, which forgets it as it frees it, so that none is freed twice;
\* element 0 stands for "none" and is never freed), or, for a client that does
\* so, one its own reservation has just allocated.
Freeable(r) ==
  {i \in map \ {0} : \A s \in Reservation : i \notin dealloc[s]}
    \union (IF FreesOwnAllocations THEN alloc[r] ELSE {})

\* Allocator::Free.  A pending allocation of the same reservation is forgotten
\* (the element becomes available again, but neither reserved_ nor first_free_
\* changes); any other element is to be deallocated.
Free(r, i) ==
  /\ phase[r] = "open"
  /\ i \in Freeable(r)
  /\ alloc' = [alloc EXCEPT ![r] = @ \ {i}]
  /\ dealloc' = [dealloc EXCEPT ![r] = @ \union ({i} \ alloc[r])]
  /\ UNCHANGED <<total, used, map, reserved, firstFree, phase, held>>

Commit(r) ==
  /\ phase[r] = "open"
  /\ alloc[r] # {} \/ dealloc[r] # {}
  /\ map' = (map \union alloc[r]) \ dealloc[r]
  /\ used' = used + Cardinality(alloc[r]) - Cardinality(dealloc[r])
  /\ phase' = [phase EXCEPT ![r] = "committed"]
  /\ UNCHANGED <<total, reserved, firstFree, held, alloc, dealloc>>

\* Cancel, called by the transaction's destructor and by the reservation's:
\* what was reserved and not allocated goes back.
Cancel(r) ==
  /\ held[r] > 0
  /\ reserved' = reserved - held[r]
  /\ held' = [held EXCEPT ![r] = 0]
  /\ UNCHANGED <<total, used, map, firstFree, phase, alloc, dealloc>>

\* The destructor of an uncommitted reservation, after Cancel: members are
\* destroyed in reverse order, deallocations_ first.  These reserve nothing.
Abort(r) ==
  /\ phase[r] = "open"
  /\ held[r] = 0
  /\ dealloc' = [dealloc EXCEPT ![r] = {}]
  /\ phase' = [phase EXCEPT ![r] = "aborting"]
  /\ UNCHANGED <<total, used, map, reserved, firstFree, held, alloc>>

\* ... then allocations_, which an uncommitted reservation keeps reserved
\* until this point.
DropAllocations(r) ==
  /\ phase[r] = "aborting"
  /\ alloc' = [alloc EXCEPT ![r] = {}]
  /\ firstFree' = LowerFirstFree(alloc[r])
  /\ phase' = [phase EXCEPT ![r] = "none"]
  /\ UNCHANGED <<total, used, map, reserved, held, dealloc>>

\* The destructor of a committed reservation, after Cancel.  Its allocations
\* are in the bitmap and reserve nothing; its deallocations may have been
\* taken away (TakePendingDeallocations) and live on.
DestroyCommitted(r) ==
  /\ phase[r] = "committed"
  /\ held[r] = 0
  /\ alloc' = [alloc EXCEPT ![r] = {}]
  /\ phase' = [phase EXCEPT ![r] = IF dealloc[r] = {} THEN "none" ELSE "journal"]
  /\ UNCHANGED <<total, used, map, reserved, firstFree, held, dealloc>>

\* The committed deallocations are destroyed: for blocks by the journal's
\* commit callback, on the journal's thread and possibly before the
\* reservation itself; for inodes with the reservation.
ReleaseDeallocations(r) ==
  /\ Committed(r)
  /\ dealloc[r] # {}
  /\ dealloc' = [dealloc EXCEPT ![r] = {}]
  /\ firstFree' = LowerFirstFree(dealloc[r])
  /\ phase' = [phase EXCEPT ![r] = IF @ = "journal" THEN "none" ELSE @]
  /\ UNCHANGED <<total, used, map, reserved, held, alloc>>

Next ==
  \E r \in Reservation :
    \/ Construct(r)
    \/ \E count \in 1..MaxRequest : Reserve(r, count)
    \/ Allocate(r)
    \/ \E i \in Element : Free(r, i)
    \/ Commit(r)
    \/ Cancel(r)
    \/ Abort(r)
    \/ DropAllocations(r)
    \/ DestroyCommitted(r)
    \/ ReleaseDeallocations(r)

Spec == Init /\ [][Next]_vars

(***************************************************************************)
(* Safety.                                                                 *)
(***************************************************************************)

\* No element is handed out twice: what one reservation keeps out of reach,
\* no other does, and the bitmap shows it free; and only elements in use are
\* waiting to be deallocated, once each (allocator.cc:132-150 asserts it).
NoElementTwice ==
  /\ map \intersect Pending = {}
  /\ \A r, s \in Reservation :
       r # s => /\ ReservedBits(r) \intersect ReservedBits(s) = {}
                /\ dealloc[r] \intersect dealloc[s] = {}
  /\ \A r \in Reservation : ~Committed(r) => dealloc[r] \subseteq map

\* The counts the allocator keeps incrementally are the counts of the sets
\* they stand for, and nothing is promised twice: the free count never goes
\* below zero (the unsigned subtraction of GetAvailableLocked never wraps).
HeldPairs == {p \in Reservation \X (1..MaxTotal) : p[2] <= held[p[1]]}

AccountingExact ==
  /\ used = Cardinality(map)
  /\ reserved = Cardinality(HeldPairs)
  /\ Available >= 0

\* first_free_ is a lower bound of what can be allocated: everything below it
\* is in use or out of reach.
FirstFreeIsAccurate ==
  \A i \in 0..(firstFree - 1) : i \in map \/ i \in Pending

\* A reservation can always be turned into elements: the search of FindLocked
\* never runs off the end of the bitmap (the ZX_ASSERTs at allocator_common.cc:89
\* and 115), whatever was allocated, freed, committed or dropped meanwhile.
FindSucceeds ==
  \A r \in Reservation : held[r] > 0 => Allocatable # {}

(***************************************************************************)
(* The allocator implements the pool of elements.                          *)
(***************************************************************************)

Unclaimed == {i \in 0..(total - 1) : i \notin map /\ i \notin Pending}

Pool == INSTANCE ElementPool WITH
  free <- Unclaimed,
  used <- map,
  claimed <- [r \in Reservation |-> IF Committed(r) THEN {} ELSE alloc[r]],
  quarantined <- [r \in Reservation |-> IF Committed(r) THEN dealloc[r] ELSE {}],
  promised <- reserved

\* Every step of the allocator is a step of the pool or changes nothing there.
ImplementsPool == Pool!PoolSpec

================================================================================
