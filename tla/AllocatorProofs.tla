---------------------------- MODULE AllocatorProofs ----------------------------
(***************************************************************************)
(* Theorems about the allocator, for every pool, slice size and set of      *)
(* reservations: types and exclusiveness, then the counts it keeps, what it *)
(* has promised it can give, and that it implements the pool of elements.   *)
(***************************************************************************)
EXTENDS Allocator, FiniteSetTheorems, FunctionTheorems, WellFoundedInduction, TLAPS

(***************************************************************************)
(* The search: a set of naturals that is not empty has a least element, so  *)
(* that FindLocked and LowerFirstFree are well defined.                     *)
(***************************************************************************)

LessThan == {p \in Nat \X Nat : p[1] < p[2]}

\* A non-empty set of element indices has a lowest one: what a scan of a
\* bitmap from the left returns.
LEMMA LeastExists ==
  ASSUME NEW S \in SUBSET Nat, S # {}
  PROVE  \E i \in S : \A j \in S : i <= j
<1>1. LessThan = OpToRel(<, Nat)
  BY Zenon DEF LessThan, OpToRel
<1>2. IsWellFoundedOn(LessThan, Nat)
  BY <1>1, NatLessThanWellFounded, Zenon
<1>3. \E i \in S : \A j \in S : ~(<<j, i>> \in LessThan)
  BY <1>2, WFMin
<1>4. ASSUME NEW i \in Nat, NEW j \in Nat, <<j, i>> \notin LessThan
      PROVE  i <= j
  BY <1>4 DEF LessThan
<1>. QED
  BY <1>3, <1>4

\* FindLocked returns the lowest element that may be allocated.
LEMMA FindLockedIsLeast ==
  ASSUME TypeOK, Allocatable # {}
  PROVE  /\ FindLocked \in Allocatable
         /\ \A j \in Allocatable : FindLocked <= j
<1>1. Allocatable \in SUBSET Nat
  BY DEF TypeOK, Allocatable
<1>2. \E i \in Allocatable : \A j \in Allocatable : i <= j
  BY <1>1, LeastExists
<1>. QED
  BY <1>2, Zenon DEF FindLocked

\* Dropping a change never raises first_free_ and leaves no bit of the change
\* below it.
LEMMA LowerFirstFreeIsLow ==
  ASSUME TypeOK, NEW bits \in SUBSET (0..(total - 1))
  PROVE  /\ LowerFirstFree(bits) \in 0..firstFree
         /\ \A i \in bits : LowerFirstFree(bits) <= i
<1>1. CASE \E i \in bits : i < firstFree
  <2>1. bits \in SUBSET Nat /\ bits # {}
    BY <1>1 DEF TypeOK
  <2>2. \E i \in bits : \A j \in bits : i <= j
    BY <2>1, LeastExists
  <2>. DEFINE m == CHOOSE i \in bits : \A j \in bits : i <= j
  <2>3. m \in bits /\ \A j \in bits : m <= j
    BY <2>2
  <2>4. LowerFirstFree(bits) = m
    BY <1>1 DEF LowerFirstFree
  <2>5. m < firstFree /\ m \in Nat
    <3>. HIDE DEF m
    <3>. QED
      BY <1>1, <2>1, <2>3 DEF TypeOK
  <2>. QED
    <3>. HIDE DEF m
    <3>. QED
      BY <2>3, <2>4, <2>5 DEF TypeOK
<1>2. CASE ~ \E i \in bits : i < firstFree
  BY <1>2 DEF TypeOK, LowerFirstFree
<1>. QED
  BY <1>1, <1>2

(***************************************************************************)
(* Type correctness.                                                       *)
(***************************************************************************)

LEMMA IntervalGrows ==
  ASSUME NEW a \in Nat, NEW b \in Nat, a <= b
  PROVE  0..(a - 1) \subseteq 0..(b - 1)
<1>1. \A i \in 0..(a - 1) : i \in 0..(b - 1)
  OBVIOUS
<1>. QED
  BY <1>1

LEMMA BitsAreFinite ==
  ASSUME TypeOK
  PROVE  /\ IsFiniteSet(map) /\ Cardinality(map) \in Nat
         /\ \A r \in Reservation :
              /\ IsFiniteSet(alloc[r]) /\ Cardinality(alloc[r]) \in Nat
              /\ IsFiniteSet(dealloc[r]) /\ Cardinality(dealloc[r]) \in Nat
<1>1. IsFiniteSet(0..(total - 1))
  BY FS_Interval DEF TypeOK
<1>2. \A S \in SUBSET (0..(total - 1)) : IsFiniteSet(S) /\ Cardinality(S) \in Nat
  BY <1>1, FS_Subset, FS_CardinalityType
<1>. QED
  BY <1>2 DEF TypeOK

LEMMA InitTypeOK == Init => TypeOK
<1>. SUFFICES ASSUME Init PROVE TypeOK
  OBVIOUS
<1>1. IsFiniteSet(0..(InitTotal - 1))
  BY AllocatorAssumption, FS_Interval
<1>2. Cardinality(InitAllocated) \in Nat
  BY <1>1, AllocatorAssumption, FS_Subset, FS_CardinalityType
<1>. QED
  BY <1>2, AllocatorAssumption DEF Init, TypeOK, Phase

LEMMA ConstructTypeOK ==
  ASSUME TypeOK, NEW r \in Reservation, Construct(r) PROVE TypeOK'
BY DEF TypeOK, Construct, Phase

LEMMA ReserveTypeOK ==
  ASSUME TypeOK, NEW r \in Reservation, NEW count \in 1..MaxRequest, Reserve(r, count)
  PROVE  TypeOK'
<1>1. total \in Nat /\ total' \in Nat /\ total <= total' /\ total' <= MaxTotal
  BY AllocatorAssumption DEF TypeOK, Reserve, Extend
<1>2. 0..(total - 1) \subseteq 0..(total' - 1)
  BY <1>1, IntervalGrows
<1>3. firstFree \in 0..total'
  BY <1>1 DEF TypeOK
<1>4. /\ map' \subseteq 0..(total' - 1)
      /\ alloc' \in [Reservation -> SUBSET (0..(total' - 1))]
      /\ dealloc' \in [Reservation -> SUBSET (0..(total' - 1))]
  <2>1. alloc' = alloc /\ dealloc' = dealloc /\ map' = map
    BY DEF Reserve
  <2>. QED
    BY <1>2, <2>1 DEF TypeOK
<1>5. held' \in [Reservation -> Nat] /\ reserved' \in Int
  BY AllocatorAssumption DEF TypeOK, Reserve
<1>6. \A s \in Reservation : phase[s] # "open" => held'[s] = held[s]
  BY DEF TypeOK, Reserve
<1>. QED
  BY <1>1, <1>3, <1>4, <1>5, <1>6 DEF TypeOK, Reserve, Phase

LEMMA AllocateTypeOK ==
  ASSUME TypeOK, NEW r \in Reservation, Allocate(r) PROVE TypeOK'
<1>1. FindLocked \in 0..(total - 1)
  BY FindLockedIsLeast DEF Allocate, Allocatable, TypeOK
<1>2. /\ alloc' \in [Reservation -> SUBSET (0..(total - 1))]
      /\ held' \in [Reservation -> Nat]
      /\ firstFree' \in 0..total
  BY <1>1 DEF TypeOK, Allocate
<1>. QED
  BY <1>2 DEF TypeOK, Allocate, Phase

LEMMA FreeTypeOK ==
  ASSUME TypeOK, NEW r \in Reservation, NEW i \in Element, Free(r, i)
  PROVE  TypeOK'
<1>1. {i} \ alloc[r] \subseteq 0..(total - 1)
  BY DEF TypeOK, Free, Freeable
<1>2. /\ alloc' \in [Reservation -> SUBSET (0..(total - 1))]
      /\ dealloc' \in [Reservation -> SUBSET (0..(total - 1))]
  BY <1>1 DEF TypeOK, Free
<1>3. \A s \in Reservation : s # r => alloc'[s] = alloc[s] /\ dealloc'[s] = dealloc[s]
  BY DEF TypeOK, Free
<1>. QED
  BY <1>2, <1>3 DEF TypeOK, Free, Phase

LEMMA CommitTypeOK ==
  ASSUME TypeOK, NEW r \in Reservation, Commit(r) PROVE TypeOK'
<1>1. used' \in Int
  BY BitsAreFinite DEF TypeOK, Commit
<1>2. map' \subseteq 0..(total - 1)
  BY DEF TypeOK, Commit
<1>. QED
  BY <1>1, <1>2 DEF TypeOK, Commit, Phase

LEMMA CancelTypeOK ==
  ASSUME TypeOK, NEW r \in Reservation, Cancel(r) PROVE TypeOK'
BY DEF TypeOK, Cancel, Phase

LEMMA AbortTypeOK ==
  ASSUME TypeOK, NEW r \in Reservation, Abort(r) PROVE TypeOK'
BY DEF TypeOK, Abort, Phase

LEMMA DropAllocationsTypeOK ==
  ASSUME TypeOK, NEW r \in Reservation, DropAllocations(r) PROVE TypeOK'
<1>1. firstFree' \in 0..total
  BY LowerFirstFreeIsLow DEF TypeOK, DropAllocations
<1>. QED
  BY <1>1 DEF TypeOK, DropAllocations, Phase

LEMMA DestroyCommittedTypeOK ==
  ASSUME TypeOK, NEW r \in Reservation, DestroyCommitted(r) PROVE TypeOK'
BY DEF TypeOK, DestroyCommitted, Phase

LEMMA ReleaseDeallocationsTypeOK ==
  ASSUME TypeOK, NEW r \in Reservation, ReleaseDeallocations(r) PROVE TypeOK'
<1>1. firstFree' \in 0..total
  BY LowerFirstFreeIsLow DEF TypeOK, ReleaseDeallocations
<1>. QED
  BY <1>1 DEF TypeOK, ReleaseDeallocations, Phase, Committed

LEMMA NextTypeOK == TypeOK /\ [Next]_vars => TypeOK'
<1>. SUFFICES ASSUME TypeOK, [Next]_vars PROVE TypeOK'
  OBVIOUS
<1>1. CASE UNCHANGED vars
  BY <1>1 DEF vars, TypeOK
<1>2. CASE Next
  BY <1>2, ConstructTypeOK, ReserveTypeOK, AllocateTypeOK, FreeTypeOK,
     CommitTypeOK, CancelTypeOK, AbortTypeOK,
     DropAllocationsTypeOK, DestroyCommittedTypeOK, ReleaseDeallocationsTypeOK
     DEF Next
<1>. QED
  BY <1>1, <1>2

\* The state of the allocator stays well formed: first_free_ never leaves the
\* bitmap, no change has a bit outside it, and a reservation past its life
\* holds nothing.
THEOREM TypeCorrect == Spec => []TypeOK
BY InitTypeOK, NextTypeOK, PTL DEF Spec

(***************************************************************************)
(* No element is handed out twice.  Beside its type the allocator needs no  *)
(* strengthening: what FindLocked returns lies outside the bitmap and       *)
(* outside every pending change, and a commit moves elements between the    *)
(* bitmap and the change without passing through "free".                    *)
(***************************************************************************)

\* NoElementTwice without UNION: the form the step proofs use.
LEMMA NoElementTwiceExpanded ==
  NoElementTwice <=>
    /\ \A r \in Reservation : map \intersect ReservedBits(r) = {}
    /\ \A r, s \in Reservation :
         r # s => /\ ReservedBits(r) \intersect ReservedBits(s) = {}
                  /\ dealloc[r] \intersect dealloc[s] = {}
    /\ \A r \in Reservation : ~Committed(r) => dealloc[r] \subseteq map
BY DEF NoElementTwice, Pending

\* A step after which every change reserves no more than before, and marks no
\* more for deallocation, keeps every element in one place.
LEMMA FewerBits ==
  ASSUME NoElementTwice, map' = map,
         \A r \in Reservation :
           /\ ReservedBits(r)' \subseteq ReservedBits(r)
           /\ dealloc'[r] \subseteq dealloc[r]
           /\ ~Committed(r)' => dealloc'[r] = {} \/ ~Committed(r)
  PROVE  NoElementTwice'
<1>. USE NoElementTwiceExpanded
<1>1. \A r \in Reservation : map' \intersect ReservedBits(r)' = {}
  BY Zenon
<1>2. \A r, s \in Reservation :
         r # s => /\ ReservedBits(r)' \intersect ReservedBits(s)' = {}
                  /\ dealloc'[r] \intersect dealloc'[s] = {}
  OBVIOUS
<1>3. \A r \in Reservation : ~Committed(r)' => dealloc'[r] \subseteq map'
  OBVIOUS
<1>. QED
  BY <1>1, <1>2, <1>3 DEF NoElementTwice, Pending

LEMMA AllocateNoElementTwice ==
  ASSUME TypeOK, NoElementTwice, NEW r \in Reservation, Allocate(r)
  PROVE  NoElementTwice'
<1>. DEFINE e == FindLocked
<1>1. e \notin map /\ e \notin Pending
  BY FindLockedIsLeast DEF Allocate, Allocatable
<1>. HIDE DEF e
<1>2. \A s \in Reservation : e \notin ReservedBits(s)
  BY <1>1 DEF Pending
<1>3. /\ map' = map /\ dealloc' = dealloc
      /\ \A s \in Reservation : Committed(s)' = Committed(s)
  BY DEF Allocate, Committed
<1>4. \A s \in Reservation :
         ReservedBits(s)' = IF s = r THEN ReservedBits(s) \union {e} ELSE ReservedBits(s)
  BY DEF Allocate, Committed, ReservedBits, TypeOK, e
<1>. QED
  BY <1>1, <1>2, <1>3, <1>4, NoElementTwiceExpanded DEF NoElementTwice, Pending

LEMMA FreeNoElementTwice ==
  ASSUME TypeOK, NoElementTwice, NEW r \in Reservation, NEW i \in Element, Free(r, i)
  PROVE  NoElementTwice'
<1>1. /\ map' = map /\ ~Committed(r)
      /\ \A s \in Reservation : Committed(s)' = Committed(s)
      /\ \A s \in Reservation : alloc'[s] \subseteq alloc[s]
      /\ \A s \in Reservation :
           dealloc'[s] = IF s = r THEN dealloc[s] \union ({i} \ alloc[r]) ELSE dealloc[s]
  BY DEF Free, Committed, TypeOK
<1>2. \A s \in Reservation : ReservedBits(s)' \subseteq ReservedBits(s)
  BY <1>1 DEF ReservedBits
<1>3. CASE i \in alloc[r]
  <2>1. \A s \in Reservation : dealloc'[s] = dealloc[s]
    BY <1>1, <1>3
  <2>. QED
    BY <1>1, <1>2, <2>1, FewerBits
<1>4. CASE i \notin alloc[r]
  <2>1. i \in map /\ \A s \in Reservation : i \notin dealloc[s]
    BY <1>4 DEF Free, Freeable
  <2>2. \A s, t \in Reservation :
           s # t => /\ ReservedBits(s)' \intersect ReservedBits(t)' = {}
                    /\ dealloc'[s] \intersect dealloc'[t] = {}
    <3>. SUFFICES ASSUME NEW s \in Reservation, NEW t \in Reservation, s # t
                  PROVE  /\ ReservedBits(s)' \intersect ReservedBits(t)' = {}
                         /\ dealloc'[s] \intersect dealloc'[t] = {}
      OBVIOUS
    <3>1. ReservedBits(s) \intersect ReservedBits(t) = {}
      BY NoElementTwiceExpanded
    <3>2. dealloc[s] \intersect dealloc[t] = {}
      BY NoElementTwiceExpanded
    <3>3. dealloc'[s] \intersect dealloc'[t] = {}
      BY <1>1, <2>1, <3>2
    <3>. QED
      BY <1>2, <3>1, <3>3
  <2>3. \A s \in Reservation : ~Committed(s)' => dealloc'[s] \subseteq map'
    BY <1>1, <2>1, NoElementTwiceExpanded
  <2>4. \A s \in Reservation : map' \intersect ReservedBits(s)' = {}
    BY <1>1, <1>2, NoElementTwiceExpanded
  <2>. QED
    BY <2>2, <2>3, <2>4 DEF NoElementTwice, Pending
<1>. QED
  BY <1>3, <1>4

LEMMA CommitNoElementTwice ==
  ASSUME TypeOK, NoElementTwice, NEW r \in Reservation, Commit(r)
  PROVE  NoElementTwice'
<1>1. /\ map' = (map \union alloc[r]) \ dealloc[r]
      /\ dealloc' = dealloc
      /\ ~Committed(r)
      /\ \A s \in Reservation : Committed(s)' = (s = r \/ Committed(s))
      /\ \A s \in Reservation :
           ReservedBits(s)' = IF s = r THEN dealloc[r] ELSE ReservedBits(s)
      /\ ReservedBits(r) = alloc[r]
  BY DEF Commit, Committed, ReservedBits, TypeOK
<1>2. \A s \in Reservation : Committed(s) => ReservedBits(s) = dealloc[s]
  BY DEF ReservedBits
<1>3. dealloc[r] \subseteq map
  BY <1>1, NoElementTwiceExpanded
<1>4. \A s \in Reservation : map' \intersect ReservedBits(s)' = {}
  BY <1>1, NoElementTwiceExpanded
<1>5. \A s \in Reservation : s # r => dealloc[r] \intersect ReservedBits(s) = {}
  BY <1>3, NoElementTwiceExpanded
<1>6. \A s, t \in Reservation :
         s # t => ReservedBits(s)' \intersect ReservedBits(t)' = {}
  BY <1>1, <1>5, NoElementTwiceExpanded
<1>7. \A s \in Reservation : ~Committed(s)' => dealloc'[s] \subseteq map'
  BY <1>1, NoElementTwiceExpanded
<1>. QED
  BY <1>1, <1>4, <1>6, <1>7, NoElementTwiceExpanded DEF NoElementTwice, Pending

LEMMA NextNoElementTwice == TypeOK /\ NoElementTwice /\ [Next]_vars => NoElementTwice'
<1>. SUFFICES ASSUME TypeOK, NoElementTwice, [Next]_vars PROVE NoElementTwice'
  OBVIOUS
<1>1. CASE UNCHANGED vars
  BY <1>1, FewerBits DEF vars, ReservedBits, Committed
<1>2. ASSUME NEW r \in Reservation, Construct(r) PROVE NoElementTwice'
  BY <1>2, FewerBits DEF Construct, ReservedBits, Committed, TypeOK
<1>3. ASSUME NEW r \in Reservation, NEW count \in 1..MaxRequest, Reserve(r, count)
      PROVE  NoElementTwice'
  BY <1>3, FewerBits DEF Reserve, ReservedBits, Committed
<1>4. ASSUME NEW r \in Reservation, Cancel(r) PROVE NoElementTwice'
  BY <1>4, FewerBits DEF Cancel, ReservedBits, Committed
<1>5. ASSUME NEW r \in Reservation, Abort(r) PROVE NoElementTwice'
  BY <1>5, FewerBits DEF Abort, ReservedBits, Committed, TypeOK
<1>6. ASSUME NEW r \in Reservation, DropAllocations(r) PROVE NoElementTwice'
  BY <1>6, FewerBits DEF DropAllocations, ReservedBits, Committed, TypeOK
<1>7. ASSUME NEW r \in Reservation, DestroyCommitted(r) PROVE NoElementTwice'
  BY <1>7, FewerBits DEF DestroyCommitted, ReservedBits, Committed, TypeOK
<1>8. ASSUME NEW r \in Reservation, ReleaseDeallocations(r) PROVE NoElementTwice'
  BY <1>8, FewerBits DEF ReleaseDeallocations, ReservedBits, Committed, TypeOK
<1>. QED
  BY <1>1, <1>2, <1>3, <1>4, <1>5, <1>6, <1>7, <1>8,
     AllocateNoElementTwice, FreeNoElementTwice, CommitNoElementTwice DEF Next

LEMMA InitNoElementTwice == Init => NoElementTwice
BY DEF Init, NoElementTwice, Pending, ReservedBits, Committed

\* Elements in use, claimed by an open reservation and quarantined by a
\* committed one never overlap, for any number of reservations that allocate,
\* free, commit and are destroyed in any order.
THEOREM NeverAllocatedTwice == Spec => []NoElementTwice
<1>1. Init => TypeOK /\ NoElementTwice
  BY InitTypeOK, InitNoElementTwice
<1>2. TypeOK /\ NoElementTwice /\ [Next]_vars => TypeOK' /\ NoElementTwice'
  BY NextTypeOK, NextNoElementTwice
<1>. QED
  BY <1>1, <1>2, PTL DEF Spec

(***************************************************************************)
(* Counting.  Both counts of the allocator are numbers of pairs of a        *)
(* reservation and something it has: an element, or one of the first         *)
(* held[r] natural numbers.                                                 *)
(***************************************************************************)

Pairs(R, E, F) == {p \in R \X E : p[2] \in F[p[1]]}

\* As many pairs as one reservation has elements.
LEMMA PairsOfOne ==
  ASSUME NEW r, NEW S, IsFiniteSet(S)
  PROVE  /\ IsFiniteSet({r} \X S)
         /\ Cardinality({r} \X S) = Cardinality(S)
<1>1. IsFiniteSet({r}) /\ Cardinality({r}) = 1
  BY FS_Singleton
<1>2. Cardinality(S) \in Nat
  BY FS_CardinalityType
<1>3. IsFiniteSet({r} \X S) /\ Cardinality({r} \X S) = Cardinality({r}) * Cardinality(S)
  BY <1>1, FS_Product, Zenon
<1>. QED
  BY <1>1, <1>2, <1>3

LEMMA PairsAreFinite ==
  ASSUME NEW R, IsFiniteSet(R), NEW E, IsFiniteSet(E), NEW F
  PROVE  IsFiniteSet(Pairs(R, E, F)) /\ Cardinality(Pairs(R, E, F)) \in Nat
<1>1. IsFiniteSet(R \X E)
  BY FS_Product, Zenon
<1>2. Pairs(R, E, F) \in SUBSET (R \X E)
  BY DEF Pairs
<1>. QED
  BY <1>1, <1>2, FS_Subset, FS_CardinalityType, Zenon

\* When one reservation gets other elements, the number of pairs changes by as much as
\* the number of its elements.
LEMMA PairsChange ==
  ASSUME NEW R, IsFiniteSet(R), NEW E, IsFiniteSet(E),
         NEW F \in [R -> SUBSET E], NEW G \in [R -> SUBSET E], NEW r \in R,
         \A s \in R : s # r => G[s] = F[s]
  PROVE  Cardinality(Pairs(R, E, G)) =
           Cardinality(Pairs(R, E, F)) - Cardinality(F[r]) + Cardinality(G[r])
<1>. DEFINE Rest == {p \in R \X E : p[1] # r /\ p[2] \in F[p[1]]}
<1>1. Pairs(R, E, F) = Rest \union ({r} \X F[r]) /\ Rest \intersect ({r} \X F[r]) = {}
  BY DEF Pairs
<1>2. Pairs(R, E, G) = Rest \union ({r} \X G[r]) /\ Rest \intersect ({r} \X G[r]) = {}
  BY DEF Pairs
<1>3. IsFiniteSet(Rest)
  <2>1. Rest \in SUBSET Pairs(R, E, F)
    BY DEF Pairs
  <2>. QED
    BY <2>1, PairsAreFinite, FS_Subset, Zenon
<1>4. \A S \in SUBSET E : IsFiniteSet(S) /\ Cardinality(S) \in Nat
  BY FS_Subset, FS_CardinalityType
<1>5. \A S \in SUBSET E : Rest \intersect ({r} \X S) = {} =>
         Cardinality(Rest \union ({r} \X S)) = Cardinality(Rest) + Cardinality(S)
  <2>. HIDE DEF Rest
  <2>. SUFFICES ASSUME NEW S \in SUBSET E, Rest \intersect ({r} \X S) = {}
                PROVE  Cardinality(Rest \union ({r} \X S)) = Cardinality(Rest) + Cardinality(S)
    OBVIOUS
  <2>1. IsFiniteSet({r} \X S) /\ Cardinality({r} \X S) = Cardinality(S)
    BY <1>4, PairsOfOne
  <2>2. Cardinality(Rest \union ({r} \X S)) =
          Cardinality(Rest) + Cardinality({r} \X S) - Cardinality(Rest \intersect ({r} \X S))
    BY <1>3, <2>1, FS_Union
  <2>3. Cardinality(Rest \intersect ({r} \X S)) = 0
    BY FS_EmptySet
  <2>. QED
    BY <1>3, <1>4, <2>1, <2>2, <2>3, FS_CardinalityType
<1>6. F[r] \in SUBSET E /\ G[r] \in SUBSET E /\ Cardinality(Rest) \in Nat
  BY <1>3, FS_CardinalityType
<1>. HIDE DEF Rest
<1>7. /\ Cardinality(Pairs(R, E, F)) = Cardinality(Rest) + Cardinality(F[r])
      /\ Cardinality(Pairs(R, E, G)) = Cardinality(Rest) + Cardinality(G[r])
  BY <1>1, <1>2, <1>5, <1>6
<1>. QED
  BY <1>4, <1>6, <1>7

(***************************************************************************)
(* The counts the allocator keeps.  AccountingExact is inductive together   *)
(* with HeldFits: HeldPairs counts no more than MaxTotal of what one         *)
(* reservation holds, and what all of them hold fits the pool.               *)
(***************************************************************************)

HeldFits == \A r \in Reservation : held[r] <= MaxTotal

CountsInv == AccountingExact /\ HeldFits

Bits == [r \in Reservation |-> ReservedBits(r)]

Holdings == [r \in Reservation |-> 1..held[r]]

BitsCounted ==
  /\ Bits \in [Reservation -> SUBSET Element]
  /\ PendingPairs = Pairs(Reservation, Element, Bits)
  /\ PendingCount \in Nat
  /\ \A r \in Reservation : Cardinality(ReservedBits(r)) \in Nat

HoldingsCounted ==
  /\ Holdings \in [Reservation -> SUBSET (1..MaxTotal)]
  /\ HeldPairs = Pairs(Reservation, 1..MaxTotal, Holdings)
  /\ IsFiniteSet(HeldPairs)
  /\ \A r \in Reservation : Cardinality(Holdings[r]) = held[r] /\ held[r] \in Nat

LEMMA BoundsAreFinite ==
  /\ MaxTotal \in Nat
  /\ IsFiniteSet(Element) /\ IsFiniteSet(1..MaxTotal) /\ IsFiniteSet(Reservation)
BY AllocatorAssumption, FS_Interval DEF Element

LEMMA BitsType == TypeOK => BitsCounted
<1>. SUFFICES ASSUME TypeOK PROVE BitsCounted
  OBVIOUS
<1>1. 0..(total - 1) \subseteq Element
  BY BoundsAreFinite, IntervalGrows DEF TypeOK, Element
<1>2. \A r \in Reservation : ReservedBits(r) \in SUBSET Element
  BY <1>1 DEF TypeOK, ReservedBits
<1>3. Bits \in [Reservation -> SUBSET Element]
  BY <1>2 DEF Bits
<1>4. PendingPairs = Pairs(Reservation, Element, Bits)
  BY DEF PendingPairs, Pairs, Bits
<1>5. PendingCount \in Nat
  BY <1>4, BoundsAreFinite, PairsAreFinite DEF PendingCount
<1>6. \A r \in Reservation : Cardinality(ReservedBits(r)) \in Nat
  BY BitsAreFinite DEF ReservedBits
<1>. QED
  BY <1>3, <1>4, <1>5, <1>6 DEF BitsCounted

LEMMA HoldingsType == TypeOK /\ HeldFits => HoldingsCounted
<1>. SUFFICES ASSUME TypeOK, HeldFits PROVE HoldingsCounted
  OBVIOUS
<1>1. \A r \in Reservation : 1..held[r] \subseteq 1..MaxTotal
  BY BoundsAreFinite DEF TypeOK, HeldFits
<1>2. Holdings \in [Reservation -> SUBSET (1..MaxTotal)]
  BY <1>1 DEF Holdings
<1>3. HeldPairs = Pairs(Reservation, 1..MaxTotal, Holdings)
  BY DEF HeldPairs, Pairs, Holdings, TypeOK
<1>4. \A r \in Reservation : Cardinality(Holdings[r]) = held[r] /\ held[r] \in Nat
  BY FS_Interval DEF TypeOK, Holdings
<1>. QED
  BY <1>2, <1>3, <1>4, BoundsAreFinite, PairsAreFinite DEF HoldingsCounted

LEMMA BitsTypeNext == TypeOK' => BitsCounted'
BY BitsType, PTL

LEMMA HoldingsTypeNext == TypeOK' /\ HeldFits' => HoldingsCounted'
BY HoldingsType, PTL

\* A step that changes the bits of one reservation changes the count of all of
\* them by as much.
LEMMA PendingCountChange ==
  ASSUME TypeOK, TypeOK', NEW r \in Reservation,
         \A s \in Reservation : s # r => ReservedBits(s)' = ReservedBits(s)
  PROVE  PendingCount' =
           PendingCount - Cardinality(ReservedBits(r)) + Cardinality(ReservedBits(r)')
<1>1. /\ Bits \in [Reservation -> SUBSET Element]
      /\ PendingPairs = Pairs(Reservation, Element, Bits)
  BY BitsType DEF BitsCounted
<1>2. /\ Bits' \in [Reservation -> SUBSET Element]
      /\ PendingPairs' = Pairs(Reservation, Element, Bits')
  BY BitsTypeNext DEF BitsCounted, Element, Pairs
<1>3. \A s \in Reservation : Bits[s] = ReservedBits(s) /\ Bits'[s] = ReservedBits(s)'
  BY DEF Bits
<1>4. \A s \in Reservation : s # r => Bits'[s] = Bits[s]
  BY <1>3
<1>5. Cardinality(Pairs(Reservation, Element, Bits')) =
        Cardinality(Pairs(Reservation, Element, Bits))
          - Cardinality(Bits[r]) + Cardinality(Bits'[r])
  BY <1>1, <1>2, <1>4, PairsChange, BoundsAreFinite
<1>. QED
  BY <1>1, <1>2, <1>3, <1>5 DEF PendingCount

\* A step in which one reservation gets or loses promised elements changes the
\* number of all promised elements by as many.
LEMMA HeldPairsChange ==
  ASSUME TypeOK, HeldFits, TypeOK', HeldFits', NEW r \in Reservation,
         \A s \in Reservation : s # r => held'[s] = held[s]
  PROVE  Cardinality(HeldPairs') = Cardinality(HeldPairs) - held[r] + held'[r]
<1>1. /\ Holdings \in [Reservation -> SUBSET (1..MaxTotal)]
      /\ HeldPairs = Pairs(Reservation, 1..MaxTotal, Holdings)
      /\ Cardinality(Holdings[r]) = held[r]
  BY HoldingsType DEF HoldingsCounted
<1>2. /\ Holdings' \in [Reservation -> SUBSET (1..MaxTotal)]
      /\ HeldPairs' = Pairs(Reservation, 1..MaxTotal, Holdings')
      /\ Cardinality(Holdings'[r]) = held'[r]
  BY HoldingsTypeNext DEF HoldingsCounted, Pairs
<1>3. \A s \in Reservation : s # r => Holdings'[s] = Holdings[s]
  BY DEF Holdings
<1>. QED
  BY <1>1, <1>2, <1>3, PairsChange, BoundsAreFinite

LEMMA HeldAtMostReserved ==
  ASSUME TypeOK, CountsInv, NEW r \in Reservation
  PROVE  held[r] <= reserved /\ reserved \in Nat
<1>1. /\ HeldPairs = Pairs(Reservation, 1..MaxTotal, Holdings)
      /\ Holdings \in [Reservation -> SUBSET (1..MaxTotal)]
      /\ IsFiniteSet(HeldPairs)
      /\ Cardinality(Holdings[r]) = held[r]
  BY HoldingsType DEF CountsInv, HoldingsCounted
<1>2. {r} \X Holdings[r] \in SUBSET HeldPairs
  BY <1>1 DEF Pairs
<1>3. IsFiniteSet(Holdings[r])
  BY <1>1, BoundsAreFinite, FS_Subset
<1>4. Cardinality({r} \X Holdings[r]) = held[r]
  BY <1>1, <1>3, PairsOfOne
<1>. QED
  BY <1>1, <1>2, <1>4, FS_Subset, FS_CardinalityType DEF CountsInv, AccountingExact

\* A step after which no change reserves more than before promises no more.
LEMMA FewerPending ==
  ASSUME TypeOK, TypeOK', CountsInv,
         UNCHANGED <<total, used, map, reserved, held>>,
         \A s \in Reservation : ReservedBits(s)' \subseteq ReservedBits(s)
  PROVE  CountsInv'
<1>1. PendingPairs' \in SUBSET PendingPairs
  BY DEF PendingPairs, Element
<1>2. IsFiniteSet(PendingPairs)
  BY BitsType, PairsAreFinite, BoundsAreFinite DEF BitsCounted
<1>3. PendingCount' <= PendingCount
  BY <1>1, <1>2, FS_Subset DEF PendingCount
<1>4. PendingCount \in Nat /\ PendingCount' \in Nat
  BY BitsType, BitsTypeNext DEF BitsCounted
<1>5. HeldPairs' = HeldPairs
  BY DEF HeldPairs
<1>6. Available' >= 0
  <2>1. /\ total' = total /\ used' = used /\ reserved' = reserved
        /\ total \in Int /\ used \in Int /\ reserved \in Int
    BY DEF TypeOK
  <2>2. (total - used) - (reserved + PendingCount) >= 0
    BY DEF CountsInv, AccountingExact, Available
  <2>3. \A n \in Nat : n <= PendingCount => (total - used) - (reserved + n) >= 0
    BY <1>4, <2>1, <2>2
  <2>4. (total - used) - (reserved + PendingCount') >= 0
    BY <1>3, <1>4, <2>3
  <2>. QED
    BY <2>1, <2>4 DEF Available
<1>. QED
  BY <1>5, <1>6 DEF CountsInv, AccountingExact, HeldFits

LEMMA ReserveCounts ==
  ASSUME TypeOK, TypeOK', CountsInv,
         NEW r \in Reservation, NEW count \in 1..MaxRequest, Reserve(r, count)
  PROVE  CountsInv'
<1>1. count \in Nat
  BY AllocatorAssumption
<1>2. /\ held'[r] = held[r] + count
      /\ \A s \in Reservation : s # r => held'[s] = held[s]
      /\ reserved' = reserved + count
      /\ used' = used /\ map' = map
  BY DEF Reserve, TypeOK
<1>3. PendingCount' = PendingCount /\ PendingCount \in Nat
  <2>1. PendingPairs' = PendingPairs
    BY DEF Reserve, PendingPairs, ReservedBits, Committed, Element
  <2>. QED
    BY <2>1, BitsType DEF PendingCount, BitsCounted
<1>4. used \in Nat /\ used = Cardinality(map)
  BY BitsAreFinite DEF CountsInv, AccountingExact
<1>5. Available' >= 0
  <2>1. CASE Available >= count /\ UNCHANGED total
    BY <2>1, <1>1, <1>2, <1>3, <1>4 DEF Available, TypeOK
  <2>2. CASE Available < count /\ Extend
    <3>1. total' >= total + count
      BY <2>2, AllocatorAssumption DEF Extend, TypeOK
    <3>2. Available >= 0
      BY DEF CountsInv, AccountingExact
    <3>. QED
      BY <3>1, <3>2, <1>1, <1>2, <1>3, <1>4 DEF Available, TypeOK
  <2>. QED
    BY <2>1, <2>2 DEF Reserve
<1>6. HeldFits'
  <2>1. reserved' <= MaxTotal
    BY <1>1, <1>2, <1>3, <1>4, <1>5, BoundsAreFinite DEF Available, TypeOK
  <2>2. held'[r] <= MaxTotal
    BY <2>1, <1>1, <1>2, HeldAtMostReserved, BoundsAreFinite DEF TypeOK
  <2>. QED
    BY <2>2, <1>2 DEF CountsInv, HeldFits
<1>7. Cardinality(HeldPairs') = Cardinality(HeldPairs) - held[r] + held'[r]
  BY <1>2, <1>6, HeldPairsChange DEF CountsInv
<1>8. held[r] \in Nat /\ reserved \in Int /\ reserved = Cardinality(HeldPairs)
  BY DEF TypeOK, CountsInv, AccountingExact
<1>9. reserved' = Cardinality(HeldPairs')
  BY <1>1, <1>2, <1>7, <1>8
<1>. QED
  BY <1>2, <1>4, <1>5, <1>6, <1>9 DEF CountsInv, AccountingExact

LEMMA AllocateCounts ==
  ASSUME TypeOK, TypeOK', NoElementTwice, CountsInv, NEW r \in Reservation, Allocate(r)
  PROVE  CountsInv'
<1>. DEFINE e == FindLocked
<1>1. \A s \in Reservation : e \notin ReservedBits(s)
  BY FindLockedIsLeast DEF Allocate, Allocatable, Pending
<1>2. /\ ReservedBits(r)' = ReservedBits(r) \union {e}
      /\ \A s \in Reservation : s # r => ReservedBits(s)' = ReservedBits(s)
  BY DEF Allocate, Committed, ReservedBits, TypeOK
<1>3. /\ held'[r] = held[r] - 1
      /\ \A s \in Reservation : s # r => held'[s] = held[s]
      /\ reserved' = reserved - 1
      /\ used' = used /\ map' = map /\ total' = total
  BY DEF Allocate, TypeOK
<1>. HIDE DEF e
<1>4. Cardinality(ReservedBits(r)') = Cardinality(ReservedBits(r)) + 1
  <2>1. IsFiniteSet(ReservedBits(r))
    BY BitsAreFinite DEF ReservedBits
  <2>. QED
    BY <1>1, <1>2, <2>1, FS_AddElement
<1>5. PendingCount' = PendingCount + 1 /\ PendingCount \in Nat
  <2>1. PendingCount' =
           PendingCount - Cardinality(ReservedBits(r)) + Cardinality(ReservedBits(r)')
    BY <1>2, PendingCountChange
  <2>2. PendingCount \in Nat /\ Cardinality(ReservedBits(r)) \in Nat
    BY BitsType DEF BitsCounted
  <2>. QED
    BY <1>4, <2>1, <2>2
<1>6. held[r] \in Nat /\ reserved \in Int /\ reserved = Cardinality(HeldPairs)
  BY DEF TypeOK, CountsInv, AccountingExact
<1>7. HeldFits'
  <2>1. held'[r] <= MaxTotal
    BY <1>3, <1>6, BoundsAreFinite DEF CountsInv, HeldFits
  <2>. QED
    BY <2>1, <1>3 DEF CountsInv, HeldFits
<1>8. Cardinality(HeldPairs') = Cardinality(HeldPairs) - held[r] + held'[r]
  BY <1>3, <1>7, HeldPairsChange DEF CountsInv
<1>9. reserved' = Cardinality(HeldPairs')
  BY <1>3, <1>6, <1>8
<1>10. Available' = Available
  BY <1>3, <1>5 DEF Available, TypeOK
<1>. QED
  BY <1>3, <1>7, <1>9, <1>10 DEF CountsInv, AccountingExact

LEMMA CancelCounts ==
  ASSUME TypeOK, TypeOK', CountsInv, NEW r \in Reservation, Cancel(r)
  PROVE  CountsInv'
<1>1. /\ held'[r] = 0
      /\ \A s \in Reservation : s # r => held'[s] = held[s]
      /\ reserved' = reserved - held[r]
      /\ used' = used /\ map' = map /\ total' = total
      /\ PendingPairs' = PendingPairs
  BY DEF Cancel, TypeOK, PendingPairs, ReservedBits, Committed, Element
<1>2. PendingCount' = PendingCount /\ PendingCount \in Nat
  BY <1>1, BitsType DEF PendingCount, BitsCounted
<1>3. HeldFits'
  <2>1. held'[r] <= MaxTotal
    BY <1>1, BoundsAreFinite
  <2>. QED
    BY <2>1, <1>1 DEF CountsInv, HeldFits
<1>4. reserved' = Cardinality(HeldPairs')
  <2>1. Cardinality(HeldPairs') = Cardinality(HeldPairs) - held[r] + held'[r]
    BY <1>1, <1>3, HeldPairsChange DEF CountsInv
  <2>2. held[r] \in Nat /\ reserved \in Int /\ reserved = Cardinality(HeldPairs)
    BY DEF TypeOK, CountsInv, AccountingExact
  <2>. QED
    BY <1>1, <2>1, <2>2
<1>5. Available' >= 0
  BY <1>1, <1>2 DEF Available, TypeOK, CountsInv, AccountingExact
<1>. QED
  BY <1>1, <1>3, <1>4, <1>5 DEF CountsInv, AccountingExact

\* In a commit the allocations enter the bitmap and stop counting as pending, the
\* deallocations leave the bitmap and start to: what is available stays the same.
LEMMA CommitCounts ==
  ASSUME TypeOK, TypeOK', NoElementTwice, CountsInv, NEW r \in Reservation, Commit(r)
  PROVE  CountsInv'
<1>. DEFINE A == Cardinality(alloc[r])
            D == Cardinality(dealloc[r])
<1>1. /\ ReservedBits(r) = alloc[r] /\ ReservedBits(r)' = dealloc[r]
      /\ \A s \in Reservation : s # r => ReservedBits(s)' = ReservedBits(s)
      /\ ~Committed(r)
      /\ map' = (map \union alloc[r]) \ dealloc[r]
      /\ used' = used + A - D
      /\ total' = total /\ reserved' = reserved /\ held' = held
  BY DEF Commit, Committed, ReservedBits, TypeOK
<1>2. map \intersect alloc[r] = {} /\ (map \union alloc[r]) \intersect dealloc[r] = dealloc[r]
  BY <1>1, NoElementTwiceExpanded
<1>3. /\ IsFiniteSet(map) /\ Cardinality(map) \in Nat
      /\ IsFiniteSet(alloc[r]) /\ A \in Nat /\ D \in Nat
  BY BitsAreFinite
<1>4. Cardinality(map') = Cardinality(map) + A - D
  <2>1. /\ IsFiniteSet(map \union alloc[r])
        /\ Cardinality(map \union alloc[r]) = Cardinality(map) + A - 0
    BY <1>2, <1>3, FS_Union, FS_EmptySet, ZenonT(40)
  <2>2. Cardinality((map \union alloc[r]) \ dealloc[r]) =
          Cardinality(map \union alloc[r])
            - Cardinality((map \union alloc[r]) \intersect dealloc[r])
    BY <2>1, FS_Difference, Zenon
  <2>3. Cardinality(map') = Cardinality(map \union alloc[r]) - D
    BY <1>1, <1>2, <2>2, Zenon
  <2>. QED
    BY <1>3, <2>1, <2>3
<1>5. PendingCount' = PendingCount - A + D /\ PendingCount \in Nat
  BY <1>1, PendingCountChange, BitsType DEF BitsCounted
<1>. HIDE DEF A, D
<1>6. used \in Int /\ used = Cardinality(map) /\ reserved \in Int /\ total \in Int
  BY DEF TypeOK, CountsInv, AccountingExact
<1>7. used' = Cardinality(map')
  BY <1>1, <1>4, <1>6
<1>8. Available' = Available
  BY <1>1, <1>3, <1>5, <1>6 DEF Available
<1>9. HeldPairs' = HeldPairs
  BY <1>1 DEF HeldPairs
<1>. QED
  BY <1>1, <1>7, <1>8, <1>9 DEF CountsInv, AccountingExact, HeldFits

LEMMA InitCounts == Init => CountsInv
<1>. SUFFICES ASSUME Init PROVE CountsInv
  OBVIOUS
<1>1. PendingPairs = {} /\ HeldPairs = {}
  BY DEF Init, PendingPairs, HeldPairs, ReservedBits, Committed
<1>2. PendingCount = 0 /\ Cardinality(HeldPairs) = 0
  BY <1>1, FS_EmptySet DEF PendingCount
<1>3. /\ IsFiniteSet(0..(InitTotal - 1))
      /\ Cardinality(0..(InitTotal - 1)) = InitTotal
  BY AllocatorAssumption, FS_Interval
<1>4. Cardinality(InitAllocated) \in Nat /\ Cardinality(InitAllocated) <= InitTotal
  BY <1>3, AllocatorAssumption, FS_Subset, FS_CardinalityType
<1>5. AccountingExact
  BY <1>2, <1>4, AllocatorAssumption DEF Init, AccountingExact, Available
<1>. QED
  BY <1>5, BoundsAreFinite DEF Init, CountsInv, HeldFits

LEMMA NextCounts ==
  TypeOK /\ TypeOK' /\ NoElementTwice /\ CountsInv /\ [Next]_vars => CountsInv'
<1>. SUFFICES ASSUME TypeOK, TypeOK', NoElementTwice, CountsInv, [Next]_vars
              PROVE  CountsInv'
  OBVIOUS
<1>1. CASE UNCHANGED vars
  BY <1>1, FewerPending DEF vars, ReservedBits, Committed
<1>2. ASSUME NEW r \in Reservation, Construct(r) PROVE CountsInv'
  BY <1>2, FewerPending DEF Construct, ReservedBits, Committed, TypeOK
<1>3. ASSUME NEW r \in Reservation, NEW i \in Element, Free(r, i) PROVE CountsInv'
  BY <1>3, FewerPending DEF Free, ReservedBits, Committed, TypeOK
<1>4. ASSUME NEW r \in Reservation, Abort(r) PROVE CountsInv'
  BY <1>4, FewerPending DEF Abort, ReservedBits, Committed, TypeOK
<1>5. ASSUME NEW r \in Reservation, DropAllocations(r) PROVE CountsInv'
  BY <1>5, FewerPending DEF DropAllocations, ReservedBits, Committed, TypeOK
<1>6. ASSUME NEW r \in Reservation, DestroyCommitted(r) PROVE CountsInv'
  BY <1>6, FewerPending DEF DestroyCommitted, ReservedBits, Committed, TypeOK
<1>7. ASSUME NEW r \in Reservation, ReleaseDeallocations(r) PROVE CountsInv'
  BY <1>7, FewerPending DEF ReleaseDeallocations, ReservedBits, Committed, TypeOK
<1>. QED
  BY <1>1, <1>2, <1>3, <1>4, <1>5, <1>6, <1>7,
     ReserveCounts, AllocateCounts, CancelCounts, CommitCounts DEF Next

LEMMA CountsInvariant == Spec => [](TypeOK /\ NoElementTwice /\ CountsInv)
<1>1. Init => TypeOK /\ NoElementTwice /\ CountsInv
  BY InitTypeOK, InitNoElementTwice, InitCounts
<1>2. TypeOK /\ NoElementTwice /\ CountsInv /\ [Next]_vars
        => TypeOK' /\ NoElementTwice' /\ CountsInv'
  BY NextTypeOK, NextNoElementTwice, NextCounts
<1>. QED
  BY <1>1, <1>2, PTL DEF Spec

\* The counts that the allocator keeps in the superblock and in reserved_ are
\* exact, and what it has promised never exceeds what is free: the assertion of
\* GetAvailableLocked (allocator.cc:64) holds and its unsigned subtraction never
\* wraps, and so does Reserve's after an extension (allocator_common.cc:204).
THEOREM CountsAreExact == Spec => []AccountingExact
<1>1. CountsInv => AccountingExact
  BY DEF CountsInv
<1>. QED
  BY <1>1, CountsInvariant, PTL

(***************************************************************************)
(* The cursor.  Free of an own pending allocation would make an element      *)
(* below first_free_ available again: what follows is about clients that    *)
(* do not do so, as those of minfs.                                         *)
(***************************************************************************)

\* FirstFreeIsAccurate without UNION.
LEMMA FirstFreeExpanded ==
  FirstFreeIsAccurate <=>
    \A i \in 0..(firstFree - 1) :
      i \in map \/ \E s \in Reservation : i \in ReservedBits(s)
BY DEF FirstFreeIsAccurate, Pending

\* A step that leaves the cursor alone and makes no element available.
LEMMA NothingComesFree ==
  ASSUME FirstFreeIsAccurate, firstFree' = firstFree, map' = map,
         \A s \in Reservation : ReservedBits(s) \subseteq ReservedBits(s)'
  PROVE  FirstFreeIsAccurate'
BY FirstFreeExpanded DEF FirstFreeIsAccurate, Pending

LEMMA AllocateFirstFree ==
  ASSUME TypeOK, FirstFreeIsAccurate, NEW r \in Reservation, Allocate(r)
  PROVE  FirstFreeIsAccurate'
<1>. DEFINE e == FindLocked
<1>1. /\ e \in Allocatable
      /\ \A j \in Allocatable : e <= j
  BY FindLockedIsLeast DEF Allocate
<1>2. /\ ReservedBits(r)' = ReservedBits(r) \union {e}
      /\ \A s \in Reservation : ReservedBits(s) \subseteq ReservedBits(s)'
  BY DEF Allocate, Committed, ReservedBits, TypeOK
<1>3. firstFree' = e + 1 /\ map' = map
  BY DEF Allocate
<1>. HIDE DEF e
<1>4. e \in firstFree..(total - 1) /\ firstFree \in Nat /\ total \in Nat
  BY <1>1 DEF Allocatable, TypeOK
<1>. SUFFICES ASSUME NEW i \in 0..e
              PROVE  i \in map \/ \E s \in Reservation : i \in ReservedBits(s)'
  BY <1>3, <1>4 DEF FirstFreeIsAccurate, Pending
<1>5. CASE i = e
  BY <1>2, <1>5
<1>6. CASE i < firstFree
  BY <1>2, <1>4, <1>6, FirstFreeExpanded
<1>7. CASE i # e /\ ~(i < firstFree)
  <2>1. i \in firstFree..(total - 1) /\ ~(e <= i)
    BY <1>4, <1>7
  <2>2. i \notin Allocatable
    BY <1>1, <2>1
  <2>3. i \in map \/ \E s \in Reservation : i \in ReservedBits(s)
    BY <2>1, <2>2 DEF Allocatable, Pending
  <2>. QED
    BY <1>2, <2>3
<1>. QED
  BY <1>5, <1>6, <1>7

LEMMA FreeFirstFree ==
  ASSUME ~FreesOwnAllocations, TypeOK, NoElementTwice, FirstFreeIsAccurate,
         NEW r \in Reservation, NEW i \in Element, Free(r, i)
  PROVE  FirstFreeIsAccurate'
<1>1. i \in map /\ ReservedBits(r) = alloc[r]
  BY DEF Free, Freeable, ReservedBits, Committed
<1>2. i \notin alloc[r]
  BY <1>1, NoElementTwiceExpanded
<1>3. \A s \in Reservation : ReservedBits(s)' = ReservedBits(s)
  BY <1>2 DEF Free, ReservedBits, Committed, TypeOK
<1>. QED
  BY <1>3, NothingComesFree DEF Free

\* What a commit takes out of the bitmap it puts out of reach.
LEMMA CommitFirstFree ==
  ASSUME TypeOK, FirstFreeIsAccurate, NEW r \in Reservation, Commit(r)
  PROVE  FirstFreeIsAccurate'
<1>1. /\ ReservedBits(r) = alloc[r] /\ ReservedBits(r)' = dealloc[r]
      /\ \A s \in Reservation : s # r => ReservedBits(s)' = ReservedBits(s)
      /\ map' = (map \union alloc[r]) \ dealloc[r]
      /\ firstFree' = firstFree
  BY DEF Commit, Committed, ReservedBits, TypeOK
<1>. SUFFICES ASSUME NEW i \in 0..(firstFree - 1)
              PROVE  i \in map' \/ \E s \in Reservation : i \in ReservedBits(s)'
  BY <1>1 DEF FirstFreeIsAccurate, Pending
<1>2. i \in map \/ \E s \in Reservation : i \in ReservedBits(s)
  BY FirstFreeExpanded
<1>. QED
  BY <1>1, <1>2

\* A change that is dropped lowers the cursor below its bits.
LEMMA DropFirstFree ==
  ASSUME TypeOK, FirstFreeIsAccurate, NEW r \in Reservation,
         firstFree' = LowerFirstFree(ReservedBits(r)),
         map' = map,
         \A s \in Reservation : s # r => ReservedBits(s)' = ReservedBits(s)
  PROVE  FirstFreeIsAccurate'
<1>1. ReservedBits(r) \in SUBSET (0..(total - 1))
  BY DEF ReservedBits, TypeOK
<1>2. /\ firstFree' \in 0..firstFree
      /\ \A i \in ReservedBits(r) : firstFree' <= i
  BY <1>1, LowerFirstFreeIsLow
<1>. SUFFICES ASSUME NEW i \in 0..(firstFree' - 1)
              PROVE  i \in map' \/ \E s \in Reservation : i \in ReservedBits(s)'
  BY DEF FirstFreeIsAccurate, Pending
<1>3. \A n \in 0..firstFree : i \in 0..(n - 1) => i \in 0..(firstFree - 1) /\ ~(n <= i)
  BY DEF TypeOK
<1>4. i \in 0..(firstFree - 1) /\ i \notin ReservedBits(r)
  BY <1>2, <1>3
<1>5. i \in map \/ \E s \in Reservation : i \in ReservedBits(s)
  BY <1>4, FirstFreeExpanded
<1>. QED
  BY <1>4, <1>5

LEMMA NextFirstFree ==
  ASSUME ~FreesOwnAllocations
  PROVE  TypeOK /\ NoElementTwice /\ FirstFreeIsAccurate /\ [Next]_vars
           => FirstFreeIsAccurate'
<1>. SUFFICES ASSUME TypeOK, NoElementTwice, FirstFreeIsAccurate, [Next]_vars
              PROVE  FirstFreeIsAccurate'
  OBVIOUS
<1>1. CASE UNCHANGED vars
  BY <1>1, NothingComesFree DEF vars, ReservedBits, Committed
<1>2. ASSUME NEW r \in Reservation, Construct(r) PROVE FirstFreeIsAccurate'
  BY <1>2, NothingComesFree DEF Construct, ReservedBits, Committed, TypeOK
<1>3. ASSUME NEW r \in Reservation, NEW count \in 1..MaxRequest, Reserve(r, count)
      PROVE  FirstFreeIsAccurate'
  BY <1>3, NothingComesFree DEF Reserve, ReservedBits, Committed
<1>4. ASSUME NEW r \in Reservation, Cancel(r) PROVE FirstFreeIsAccurate'
  BY <1>4, NothingComesFree DEF Cancel, ReservedBits, Committed
<1>5. ASSUME NEW r \in Reservation, Abort(r) PROVE FirstFreeIsAccurate'
  BY <1>5, NothingComesFree DEF Abort, ReservedBits, Committed, TypeOK
<1>6. ASSUME NEW r \in Reservation, DropAllocations(r) PROVE FirstFreeIsAccurate'
  BY <1>6, DropFirstFree DEF DropAllocations, ReservedBits, Committed, TypeOK
<1>7. ASSUME NEW r \in Reservation, DestroyCommitted(r) PROVE FirstFreeIsAccurate'
  BY <1>7, NothingComesFree DEF DestroyCommitted, ReservedBits, Committed, TypeOK
<1>8. ASSUME NEW r \in Reservation, ReleaseDeallocations(r) PROVE FirstFreeIsAccurate'
  BY <1>8, DropFirstFree DEF ReleaseDeallocations, ReservedBits, Committed, TypeOK
<1>. QED
  BY <1>1, <1>2, <1>3, <1>4, <1>5, <1>6, <1>7, <1>8,
     AllocateFirstFree, FreeFirstFree, CommitFirstFree DEF Next

\* first_free_ never passes an element that could be allocated, whatever order
\* reservations allocate, free, commit and are destroyed in.
THEOREM CursorPassesNothing ==
  ASSUME ~FreesOwnAllocations
  PROVE  Spec => []FirstFreeIsAccurate
<1>1. Init => TypeOK /\ NoElementTwice /\ FirstFreeIsAccurate
  BY InitTypeOK, InitNoElementTwice DEF Init, FirstFreeIsAccurate
<1>2. TypeOK /\ NoElementTwice /\ FirstFreeIsAccurate /\ [Next]_vars
        => TypeOK' /\ NoElementTwice' /\ FirstFreeIsAccurate'
  BY NextTypeOK, NextNoElementTwice, NextFirstFree
<1>. QED
  BY <1>1, <1>2, PTL DEF Spec

(***************************************************************************)
(* A promise can be kept: both invariants together.                          *)
(***************************************************************************)

\* The elements out of reach are no more than what the changes count.
LEMMA PendingIsCounted ==
  ASSUME TypeOK
  PROVE  /\ IsFiniteSet(Pending)
         /\ Cardinality(Pending) \in Nat
         /\ Cardinality(Pending) <= PendingCount
<1>. DEFINE f == [p \in PendingPairs |-> p[2]]
<1>1. IsFiniteSet(PendingPairs)
  BY BitsType, PairsAreFinite, BoundsAreFinite DEF BitsCounted
<1>2. f \in [PendingPairs -> Pending]
  BY DEF PendingPairs, Pending
<1>3. ASSUME NEW i \in Pending PROVE \E p \in PendingPairs : f[p] = i
  <2>1. PICK r \in Reservation : i \in ReservedBits(r)
    BY DEF Pending
  <2>2. ReservedBits(r) \in SUBSET Element
    BY BitsType DEF BitsCounted, Bits
  <2>3. <<r, i>> \in PendingPairs
    BY <2>1, <2>2 DEF PendingPairs
  <2>. QED
    BY <2>3
<1>4. f \in Surjection(PendingPairs, Pending)
  BY <1>2, <1>3, Fun_IsSurj
<1>. QED
  BY <1>1, <1>4, FS_Surjection, FS_CardinalityType DEF PendingCount

\* What was promised is there.
Backed ==
  /\ IsFiniteSet(Unclaimed)
  /\ Cardinality(Unclaimed) \in Nat
  /\ reserved <= Cardinality(Unclaimed)

LEMMA PromisesAreBacked == TypeOK /\ CountsInv => Backed
<1>. SUFFICES ASSUME TypeOK, CountsInv PROVE Backed
  OBVIOUS
<1>. DEFINE All == 0..(total - 1)
            Taken == map \union Pending
<1>1. IsFiniteSet(All) /\ Cardinality(All) = total /\ total \in Nat
  <2>1. total \in Nat /\ 0 \in Int /\ total - 1 \in Int
    BY DEF TypeOK
  <2>. QED
    BY <2>1, FS_Interval
<1>2. Taken \subseteq All
  BY DEF TypeOK, Pending, ReservedBits
<1>3. /\ IsFiniteSet(Taken) /\ Cardinality(Taken) \in Nat
      /\ Cardinality(Taken) <= Cardinality(map) + Cardinality(Pending)
  <2>1. IsFiniteSet(map \intersect Pending) /\ Cardinality(map \intersect Pending) \in Nat
    BY BitsAreFinite, FS_Intersection, FS_CardinalityType
  <2>2. /\ IsFiniteSet(Taken)
        /\ Cardinality(Taken) =
             Cardinality(map) + Cardinality(Pending) - Cardinality(map \intersect Pending)
    BY BitsAreFinite, PendingIsCounted, FS_Union
  <2>3. Cardinality(map) \in Nat /\ Cardinality(Pending) \in Nat
    BY BitsAreFinite, PendingIsCounted
  <2>4. Cardinality(Taken) \in Nat
    BY <2>2, FS_CardinalityType
  <2>. HIDE DEF Taken
  <2>. QED
    BY <2>1, <2>2, <2>3, <2>4
<1>4. Unclaimed = All \ Taken
  BY DEF Unclaimed
<1>5. IsFiniteSet(Unclaimed) /\ Cardinality(Unclaimed) = total - Cardinality(Taken)
  <2>1. All \intersect Taken = Taken
    BY <1>2
  <2>2. IsFiniteSet(All \ Taken)
        /\ Cardinality(All \ Taken) = Cardinality(All) - Cardinality(All \intersect Taken)
    BY <1>1, FS_Difference
  <2>. QED
    BY <1>1, <1>4, <2>1, <2>2
<1>6. /\ used = Cardinality(map) /\ reserved \in Int /\ PendingCount \in Nat
      /\ (total - used) - (reserved + PendingCount) >= 0
  BY BitsType DEF CountsInv, AccountingExact, Available, TypeOK, BitsCounted
<1>7. Cardinality(Unclaimed) \in Nat
  BY <1>5, FS_CardinalityType
<1>. HIDE DEF All, Taken
<1>. QED
  BY <1>1, <1>3, <1>5, <1>6, <1>7, BitsAreFinite, PendingIsCounted DEF Backed

\* Elements nobody has lie at or above the cursor.
LEMMA UnclaimedIsAllocatable ==
  ASSUME TypeOK, FirstFreeIsAccurate PROVE Unclaimed \subseteq Allocatable
<1>. SUFFICES ASSUME NEW i \in Unclaimed PROVE i \in Allocatable
  OBVIOUS
<1>1. i \in 0..(total - 1) /\ i \notin map /\ i \notin Pending
  BY DEF Unclaimed
<1>2. i \notin 0..(firstFree - 1)
  BY <1>1 DEF FirstFreeIsAccurate
<1>. QED
  BY <1>1, <1>2 DEF Allocatable, TypeOK

LEMMA FindFromCounts ==
  TypeOK /\ CountsInv /\ FirstFreeIsAccurate => FindSucceeds
<1>. SUFFICES ASSUME TypeOK, CountsInv, FirstFreeIsAccurate,
                     NEW r \in Reservation, held[r] > 0
              PROVE  Allocatable # {}
  BY DEF FindSucceeds
<1>1. reserved >= 1
  BY HeldAtMostReserved DEF TypeOK
<1>2. Cardinality(Unclaimed) >= 1
  BY <1>1, PromisesAreBacked DEF TypeOK, Backed
<1>3. Unclaimed # {}
  BY <1>2, FS_EmptySet
<1>. QED
  BY <1>3, UnclaimedIsAllocatable

\* The assertions of the search (allocator_common.cc:89 and 115) cannot fail: a
\* reservation that holds elements finds one for each, however many reservations
\* there are and however the pool grew.
THEOREM SearchSucceeds ==
  ASSUME ~FreesOwnAllocations
  PROVE  Spec => []FindSucceeds
BY CountsInvariant, CursorPassesNothing, FindFromCounts, PTL

(***************************************************************************)
(* The allocator implements the pool of elements: every step of the bitmap,  *)
(* the cursor and the counts is a step of ElementPool, or none.              *)
(***************************************************************************)

\* What the substitution of Pool puts for claimed and quarantined.
Claimed == [r \in Reservation |-> IF Committed(r) THEN {} ELSE alloc[r]]
Quarantined == [r \in Reservation |-> IF Committed(r) THEN dealloc[r] ELSE {}]

LEMMA BitsAreClaimedOrQuarantined ==
  ASSUME NEW r \in Reservation
  PROVE  ReservedBits(r) = Claimed[r] \union Quarantined[r]
BY DEF ReservedBits, Claimed, Quarantined

\* Unclaimed without UNION.
LEMMA UnclaimedExpanded ==
  Unclaimed = {i \in 0..(total - 1) :
                 i \notin map /\ \A s \in Reservation : i \notin ReservedBits(s)}
BY DEF Unclaimed, Pending

\* Steps that clients of the pool do not see.
LEMMA PoolStutters ==
  ASSUME total' = total, map' = map, reserved' = reserved,
         Claimed' = Claimed, Quarantined' = Quarantined
  PROVE  UNCHANGED Pool!poolVars
<1>1. \A s \in Reservation : ReservedBits(s)' = ReservedBits(s)
  BY BitsAreClaimedOrQuarantined DEF ReservedBits, Claimed, Quarantined
<1>2. Unclaimed' = Unclaimed
  BY <1>1, UnclaimedExpanded DEF Unclaimed, Pending
<1>. QED
  BY <1>2 DEF Pool!poolVars, Claimed, Quarantined

LEMMA InitIsPoolInit == Init => Pool!PoolInit
<1>. SUFFICES ASSUME Init PROVE Pool!PoolInit
  OBVIOUS
<1>1. TypeOK
  BY InitTypeOK
<1>2. 0..(total - 1) \subseteq Element
  BY <1>1, BoundsAreFinite, IntervalGrows DEF TypeOK, Element
<1>3. Unclaimed \subseteq Element /\ map \subseteq Element \ Unclaimed
  BY <1>1, <1>2 DEF Unclaimed, TypeOK
<1>4. \A r \in Reservation : ~Committed(r)
  BY DEF Init, Committed
<1>. QED
  BY <1>3, <1>4 DEF Init, Pool!PoolInit

\* The pool's copy of Cardinality is the same operator.
LEMMA PoolCardinality == \A S : Pool!Cardinality(S) = Cardinality(S)
BY DEF Pool!Cardinality, Cardinality

LEMMA PromisesBackedNext == TypeOK' /\ CountsInv' => Backed'
BY PromisesAreBacked, PTL

LEMMA ReservePromises ==
  ASSUME TypeOK, TypeOK', CountsInv, CountsInv',
         NEW r \in Reservation, NEW count \in 1..MaxRequest, Reserve(r, count)
  PROVE  Pool!Promise
<1>1. /\ map' = map /\ Claimed' = Claimed /\ Quarantined' = Quarantined
      /\ Pending' = Pending
  BY DEF Reserve, Claimed, Quarantined, Committed, Pending, ReservedBits
<1>2. 0..(total - 1) \subseteq 0..(total' - 1)
  <2>1. total \in Nat /\ total' \in Nat /\ total <= total'
    BY AllocatorAssumption DEF TypeOK, Reserve, Extend
  <2>. QED
    BY <2>1, IntervalGrows
<1>3. Unclaimed \subseteq Unclaimed'
  BY <1>1, <1>2 DEF Unclaimed
<1>4. Unclaimed' \ Unclaimed \subseteq Element \ Pool!Known
  <2>. SUFFICES ASSUME NEW i \in Unclaimed', i \notin Unclaimed
                PROVE  i \in Element /\ i \notin Pool!Known
    OBVIOUS
  <2>1. i \notin map /\ i \notin Pending
    BY <1>1 DEF Unclaimed
  <2>2. i \notin 0..(total - 1)
    BY <2>1 DEF Unclaimed
  <2>3. i \in Element
    <3>1. total' \in Nat /\ total' <= MaxTotal
      BY DEF TypeOK
    <3>2. 0..(total' - 1) \subseteq Element
      BY <3>1, BoundsAreFinite, IntervalGrows DEF Element
    <3>. QED
      BY <3>2 DEF Unclaimed
  <2>4. \A s \in Reservation : i \notin alloc[s] /\ i \notin dealloc[s]
    BY <2>2 DEF TypeOK
  <2>. QED
    BY <2>1, <2>3, <2>4 DEF Pool!Known
<1>5. reserved' \in reserved..Cardinality(Unclaimed')
  <2>1. reserved' <= Cardinality(Unclaimed') /\ Cardinality(Unclaimed') \in Nat
    BY PromisesBackedNext DEF Backed
  <2>2. count \in Nat /\ reserved' = reserved + count /\ reserved \in Int
    BY AllocatorAssumption DEF Reserve, TypeOK
  <2>. QED
    BY <2>1, <2>2
<1>. QED
  BY <1>1, <1>3, <1>4, <1>5, PoolCardinality DEF Pool!Promise, Claimed, Quarantined

LEMMA CancelWithdraws ==
  ASSUME TypeOK, CountsInv, NEW r \in Reservation, Cancel(r)
  PROVE  Pool!Withdraw
<1>1. /\ map' = map /\ Claimed' = Claimed /\ Quarantined' = Quarantined
      /\ Unclaimed' = Unclaimed
  BY DEF Cancel, Claimed, Quarantined, Committed, Unclaimed, Pending, ReservedBits
<1>2. held[r] <= reserved /\ reserved \in Nat /\ held[r] \in Nat
      /\ reserved' = reserved - held[r]
  BY HeldAtMostReserved DEF Cancel, TypeOK
<1>3. reserved' \in 0..reserved
  BY <1>2
<1>. QED
  BY <1>1, <1>3 DEF Pool!Withdraw, Claimed, Quarantined

LEMMA AllocateClaims ==
  ASSUME TypeOK, CountsInv, NEW r \in Reservation, Allocate(r)
  PROVE  Pool!Claim(r)
<1>. DEFINE e == FindLocked
<1>1. e \in Unclaimed
  BY FindLockedIsLeast DEF Allocate, Allocatable, Unclaimed, TypeOK
<1>2. reserved > 0 /\ reserved' = reserved - 1
  BY HeldAtMostReserved DEF Allocate, TypeOK
<1>3. /\ map' = map /\ total' = total /\ ~Committed(r)
      /\ \A s \in Reservation :
           /\ Claimed'[s] = IF s = r THEN Claimed[s] \union {e} ELSE Claimed[s]
           /\ Quarantined'[s] = Quarantined[s]
      /\ \A s \in Reservation :
           ReservedBits(s)' = IF s = r THEN ReservedBits(s) \union {e} ELSE ReservedBits(s)
  BY DEF Allocate, Claimed, Quarantined, Committed, ReservedBits, TypeOK
<1>. HIDE DEF e
<1>4. Unclaimed' = Unclaimed \ {e}
  BY <1>3, UnclaimedExpanded DEF Unclaimed, Pending
<1>5. Claimed' = [Claimed EXCEPT ![r] = @ \union {e}] /\ Quarantined' = Quarantined
  BY <1>3 DEF Claimed, Quarantined
<1>. QED
  BY <1>1, <1>2, <1>3, <1>4, <1>5 DEF Pool!Claim, Claimed, Quarantined

\* Giving up claims: what a reservation no longer claims, everybody may claim.
LEMMA GivesUp ==
  ASSUME TypeOK, NoElementTwice, NEW r \in Reservation,
         NEW given \in SUBSET Claimed[r],
         total' = total, map' = map, reserved' = reserved,
         Claimed' = [Claimed EXCEPT ![r] = @ \ given],
         Quarantined' = Quarantined
  PROVE  Pool!Abandon(r)
<1>1. /\ \A s \in Reservation : ReservedBits(s) = Claimed[s] \union Quarantined[s]
      /\ \A s \in Reservation :
           ReservedBits(s)' = Claimed'[s] \union Quarantined'[s]
  BY BitsAreClaimedOrQuarantined DEF ReservedBits, Claimed, Quarantined
<1>2. /\ given \subseteq 0..(total - 1)
      /\ given \subseteq ReservedBits(r) /\ Quarantined[r] \intersect given = {}
  BY DEF Claimed, Quarantined, ReservedBits, TypeOK
<1>3. \A s \in Reservation :
         ReservedBits(s)' = IF s = r THEN ReservedBits(s) \ given ELSE ReservedBits(s)
  <2>1. \A s \in Reservation :
           /\ Claimed'[s] = IF s = r THEN Claimed[s] \ given ELSE Claimed[s]
           /\ Quarantined'[s] = Quarantined[s]
    <3>1. DOMAIN Claimed = Reservation
      BY DEF Claimed
    <3>. QED
      BY <3>1
  <2>. QED
    BY <1>1, <1>2, <2>1
<1>4. given \intersect map = {}
      /\ \A s \in Reservation : s # r => given \intersect ReservedBits(s) = {}
  BY <1>2, NoElementTwiceExpanded
<1>5. Unclaimed' = Unclaimed \union given
  <2>1. Unclaimed' = {i \in 0..(total - 1) :
                        i \notin map /\ \A s \in Reservation : i \notin ReservedBits(s)'}
    BY DEF Unclaimed, Pending
  <2>2. ASSUME NEW i
        PROVE  (\A s \in Reservation : i \notin ReservedBits(s)')
                 <=> (\A s \in Reservation : i \notin ReservedBits(s)) \/ i \in given
    BY <1>2, <1>3, <1>4
  <2>. QED
    BY <1>2, <1>4, <2>1, <2>2, UnclaimedExpanded
<1>. QED
  BY <1>5 DEF Pool!Abandon, Claimed, Quarantined

LEMMA FreeAbandonsOrStutters ==
  ASSUME TypeOK, NoElementTwice, NEW r \in Reservation, NEW i \in Element, Free(r, i)
  PROVE  Pool!Abandon(r) \/ UNCHANGED Pool!poolVars
<1>1. /\ total' = total /\ map' = map /\ reserved' = reserved
      /\ ~Committed(r) /\ Claimed[r] = alloc[r]
      /\ \A s \in Reservation : Committed(s)' = Committed(s)
  BY DEF Free, Committed, Claimed
<1>2. Claimed' = [Claimed EXCEPT ![r] = @ \ {i}]
  BY <1>1 DEF Free, Claimed, TypeOK
<1>3. Quarantined' = Quarantined
  BY <1>1 DEF Free, Quarantined, TypeOK
<1>4. CASE i \in alloc[r]
  <2>1. {i} \in SUBSET Claimed[r]
    BY <1>1, <1>4
  <2>. QED
    BY <1>1, <1>2, <1>3, <2>1, GivesUp
<1>5. CASE i \notin alloc[r]
  <2>1. /\ Claimed = [s \in Reservation |-> Claimed[s]]
        /\ Claimed' = [s \in Reservation |-> IF s = r THEN Claimed[r] \ {i} ELSE Claimed[s]]
    BY <1>2 DEF Claimed
  <2>2. Claimed[r] \ {i} = Claimed[r]
    BY <1>1, <1>5
  <2>3. Claimed' = Claimed
    <3>. HIDE DEF Claimed
    <3>. QED
      BY <2>1, <2>2
  <2>. QED
    BY <1>1, <1>3, <2>3, PoolStutters
<1>. QED
  BY <1>4, <1>5

LEMMA DropAllocationsAbandons ==
  ASSUME TypeOK, NoElementTwice, NEW r \in Reservation, DropAllocations(r)
  PROVE  Pool!Abandon(r)
<1>1. /\ total' = total /\ map' = map /\ reserved' = reserved
      /\ \A s \in Reservation : Committed(s)' = Committed(s)
      /\ Claimed[r] = alloc[r]
  BY DEF DropAllocations, Committed, Claimed, TypeOK
<1>2. Claimed' = [Claimed EXCEPT ![r] = @ \ alloc[r]]
  BY <1>1 DEF DropAllocations, Claimed, TypeOK
<1>3. Quarantined' = Quarantined
  BY <1>1 DEF DropAllocations, Quarantined
<1>. QED
  BY <1>1, <1>2, <1>3, GivesUp

LEMMA CommitPublishes ==
  ASSUME TypeOK, NoElementTwice, NEW r \in Reservation, Commit(r)
  PROVE  Pool!Publish(r)
<1>1. /\ ReservedBits(r) = alloc[r] /\ ReservedBits(r)' = dealloc[r]
      /\ \A s \in Reservation : s # r => ReservedBits(s)' = ReservedBits(s)
      /\ ~Committed(r)
      /\ \A s \in Reservation : Committed(s)' = (s = r \/ Committed(s))
      /\ map' = (map \union alloc[r]) \ dealloc[r]
      /\ total' = total /\ reserved' = reserved /\ alloc' = alloc /\ dealloc' = dealloc
  BY DEF Commit, Committed, ReservedBits, TypeOK
<1>2. dealloc[r] \in SUBSET map /\ map \intersect alloc[r] = {}
  BY <1>1, NoElementTwiceExpanded
<1>3. map' = (map \ dealloc[r]) \union Claimed[r]
  BY <1>1, <1>2 DEF Claimed
<1>4. Unclaimed' = Unclaimed
  <2>1. \A i : (i \in map' \/ \E s \in Reservation : i \in ReservedBits(s)')
                 <=> (i \in map \/ \E s \in Reservation : i \in ReservedBits(s))
    BY <1>1, <1>2
  <2>. QED
    BY <1>1, <2>1 DEF Unclaimed, Pending
<1>5. Claimed' = [Claimed EXCEPT ![r] = {}]
  BY <1>1 DEF Claimed
<1>6. Quarantined' = [Quarantined EXCEPT ![r] = dealloc[r]] /\ Quarantined[r] = {}
  BY <1>1 DEF Quarantined
<1>. QED
  BY <1>1, <1>2, <1>3, <1>4, <1>5, <1>6 DEF Pool!Publish, Claimed, Quarantined

LEMMA ReleaseDeallocationsReleases ==
  ASSUME TypeOK, NoElementTwice, NEW r \in Reservation, ReleaseDeallocations(r)
  PROVE  Pool!Release(r)
<1>1. /\ total' = total /\ map' = map /\ reserved' = reserved
      /\ ReservedBits(r) = dealloc[r] /\ ReservedBits(r)' = {}
      /\ \A s \in Reservation : s # r => ReservedBits(s)' = ReservedBits(s)
      /\ \A s \in Reservation : s # r => Committed(s)' = Committed(s)
      /\ Quarantined[r] = dealloc[r]
  BY DEF ReleaseDeallocations, Committed, ReservedBits, Quarantined, TypeOK
<1>2. /\ dealloc[r] \subseteq 0..(total - 1) /\ map \intersect dealloc[r] = {}
      /\ \A s \in Reservation : s # r => dealloc[r] \intersect ReservedBits(s) = {}
  BY <1>1, NoElementTwiceExpanded DEF TypeOK
<1>3. Unclaimed' = Unclaimed \union Quarantined[r]
  BY <1>1, <1>2, UnclaimedExpanded DEF Unclaimed, Pending
<1>4. Claimed' = Claimed
  BY <1>1 DEF ReleaseDeallocations, Claimed, Committed, TypeOK
<1>5. Quarantined' = [Quarantined EXCEPT ![r] = {}]
  BY <1>1 DEF ReleaseDeallocations, Quarantined, TypeOK
<1>. QED
  BY <1>1, <1>3, <1>4, <1>5 DEF Pool!Release, Claimed, Quarantined

LEMMA NextIsPoolNext ==
  /\ TypeOK /\ NoElementTwice /\ CountsInv
  /\ TypeOK' /\ CountsInv'
  /\ [Next]_vars
  => [Pool!PoolNext]_(Pool!poolVars)
<1>. SUFFICES ASSUME TypeOK, NoElementTwice, CountsInv, TypeOK', CountsInv', [Next]_vars
              PROVE  [Pool!PoolNext]_(Pool!poolVars)
  OBVIOUS
<1>1. CASE UNCHANGED vars
  BY <1>1, PoolStutters DEF vars, Claimed, Quarantined, Committed
<1>2. ASSUME NEW r \in Reservation, Construct(r) PROVE UNCHANGED Pool!poolVars
  BY <1>2, PoolStutters DEF Construct, Claimed, Quarantined, Committed, TypeOK
<1>3. ASSUME NEW r \in Reservation, Abort(r) PROVE UNCHANGED Pool!poolVars
  BY <1>3, PoolStutters DEF Abort, Claimed, Quarantined, Committed, TypeOK
<1>4. ASSUME NEW r \in Reservation, DestroyCommitted(r) PROVE UNCHANGED Pool!poolVars
  BY <1>4, PoolStutters DEF DestroyCommitted, Claimed, Quarantined, Committed, TypeOK
<1>. QED
  BY <1>1, <1>2, <1>3, <1>4, ReservePromises, CancelWithdraws, AllocateClaims,
     FreeAbandonsOrStutters, DropAllocationsAbandons, CommitPublishes,
     ReleaseDeallocationsReleases DEF Next, Pool!PoolNext

\* What clients rely on: every element is free, in use, claimed or quarantined, one
\* in use becomes free only by way of quarantine, and promises are backed.  The
\* bitmap, the cursor and the counts of the allocator do no more than this.
THEOREM AllocatorImplementsPool == Spec => ImplementsPool
BY CountsInvariant, InitIsPoolInit, NextIsPoolNext, PTL
   DEF Spec, ImplementsPool, Pool!PoolSpec

================================================================================
