--------------------------- MODULE DirtyCacheProofs ---------------------------
(***************************************************************************)
(* Theorems about the dirty cache.  Every call is a chain of functions on   *)
(* the file's state; each has a lemma that says what it keeps, and the      *)
(* calls are put together from these.                                       *)
(***************************************************************************)
EXTENDS DirtyCache, FiniteSetTheorems, TLAPS

FileIndirect == IndirectsOf(FileBlock)

Messages ==
  {"reserved_ > 0", "beyond the allowed nodesize", "GetTotalPending() == 0",
   "File was found dirty", "pending updates to the inode size"}

FileState ==
  [pending : SUBSET FileBlock, new : Int, backed : SUBSET FileBlock,
   indirect : SUBSET FileIndirect, nodeSize : 0..MaxFileSize, inodeSize : 0..MaxFileSize,
   dirty : BOOLEAN, reserved : Int, unsaved : SUBSET FileBlock, free : Int, kept : Int,
   failed : SUBSET Messages]

CountsAreNatural(f) == f.new \in Nat /\ f.reserved \in Nat /\ f.free \in Nat /\ f.kept \in Nat

\* Every block of the volume has one place, and a block of the file has the indirect
\* blocks that lead to it.
Balance(f) == f.free + f.kept + f.reserved + Cardinality(f.backed) + Cardinality(f.indirect)

Accounted(f) ==
  /\ CountsAreNatural(f)
  /\ Balance(f) = TotalBlocks
  /\ f.new = Cardinality(f.pending \ f.backed)
  /\ IndirectsOf(f.backed) \subseteq f.indirect

\* What a flush needs is reserved, lies below the size, and is all that is unsaved.
Covered(f) ==
  /\ BlocksToAllocate(f) <= f.reserved
  /\ f.unsaved \subseteq f.pending
  /\ \A b \in f.pending : b * BlockSize < f.nodeSize

CacheInv ==
  /\ file \in FileState /\ vnode \in {"open", "closed", "none"}
  /\ linked \in BOOLEAN /\ writeFailed \in BOOLEAN
  /\ CountsAreNatural(file)
  /\ file.failed = {} => Accounted(file) /\ file.nodeSize = file.inodeSize
  /\ ~writeFailed =>
       /\ file.failed = {} /\ Covered(file)
       /\ ~file.dirty \/ vnode # "open" => file.pending = {}

(***************************************************************************)
(* Blocks and offsets.                                                      *)
(***************************************************************************)

LEMMA Constants ==
  /\ BlockSize \in Nat \ {0} /\ MaxFileSize \in Nat \ {0} /\ Direct \in Nat
  /\ PerIndirect \in Nat \ {0} /\ DirtyLimit \in Nat \ {0} /\ TotalBlocks \in Nat
BY DirtyCacheAssumption DEF DirtyCacheAssumption

LEMMA Times ==
  ASSUME NEW n \in Nat \ {0}, NEW a \in Int, NEW b \in Int, a <= b
  PROVE  a * n \in Int /\ b * n \in Int /\ a * n <= b * n
OBVIOUS

LEMMA Division ==
  ASSUME NEW n \in Nat \ {0}, NEW x \in Nat
  PROVE  /\ x \div n \in Nat /\ (x \div n) * n \in Nat
         /\ (x \div n) * n <= x /\ x < (x \div n) * n + n
         /\ x % n = x - (x \div n) * n
OBVIOUS

LEMMA FileBlocks ==
  /\ \A off \in Nat, len \in Nat : off + len <= MaxFileSize =>
       BlocksOf(off, len) \subseteq FileBlock
  /\ \A b \in FileBlock : b \in Nat /\ b * BlockSize \in Nat /\ b * BlockSize < MaxFileSize
<1>1. \A off \in Nat, len \in Nat : off + len <= MaxFileSize =>
        BlocksOf(off, len) \subseteq FileBlock
  <2>. SUFFICES ASSUME NEW off \in Nat, NEW len \in Nat, off + len <= MaxFileSize,
                       NEW b \in BlocksOf(off, len)
                PROVE  b \in FileBlock
    OBVIOUS
  <2>1. b \in 0..(MaxFileSize \div BlockSize) /\ b * BlockSize < off + len
    BY DEF BlocksOf
  <2>2. MaxFileSize \div BlockSize \in Nat /\ b \in Nat
    BY <2>1, Division, Constants
  <2>3. b * BlockSize \in Int
    BY <2>2, Constants
  <2>4. 0 \div BlockSize = 0
    BY Division, Constants
  <2>5. b * BlockSize < 0 + MaxFileSize
    BY <2>1, <2>3, Constants
  <2>. QED
    BY <2>1, <2>2, <2>4, <2>5 DEF FileBlock, BlocksOf
<1>2. ASSUME NEW b \in FileBlock
      PROVE  b \in Nat /\ b * BlockSize \in Nat /\ b * BlockSize < MaxFileSize
  <2>1. b \in 0..(MaxFileSize \div BlockSize) /\ b * BlockSize < 0 + MaxFileSize
    BY <1>2 DEF FileBlock, BlocksOf
  <2>2. b \in Nat
    BY <2>1, Division, Constants
  <2>. QED
    BY <2>1, <2>2, Constants
<1>. QED
  BY <1>1, <1>2

LEMMA BlocksAreFinite ==
  ASSUME NEW B \in SUBSET FileBlock
  PROVE  IsFiniteSet(B) /\ Cardinality(B) \in Nat
<1>1. MaxFileSize \div BlockSize \in Nat
  BY Division, Constants
<1>2. IsFiniteSet(0..(MaxFileSize \div BlockSize))
  BY <1>1, FS_Interval
<1>3. FileBlock \subseteq 0..(MaxFileSize \div BlockSize)
  BY DEF FileBlock, BlocksOf
<1>. QED
  BY <1>2, <1>3, FS_Subset, FS_CardinalityType

LEMMA IndirectsAreMonotone ==
  ASSUME NEW B, NEW C \in SUBSET B
  PROVE  IndirectsOf(C) \subseteq IndirectsOf(B)
BY DEF IndirectsOf

LEMMA IndirectsOfBoth ==
  ASSUME NEW B, NEW C PROVE IndirectsOf(B \union C) = IndirectsOf(B) \union IndirectsOf(C)
BY DEF IndirectsOf

LEMMA IndirectsOfNone == IndirectsOf({}) = {}
BY DEF IndirectsOf

LEMMA IndirectsAreFinite ==
  ASSUME NEW I \in SUBSET FileIndirect
  PROVE  IsFiniteSet(I) /\ Cardinality(I) \in Nat
<1>. DEFINE S == {c \in FileBlock : c >= Direct}
            g == [b \in S |-> (b - Direct) \div PerIndirect]
<1>1. IsFiniteSet(S)
  BY BlocksAreFinite
<1>2. FileIndirect = {g[b] : b \in S}
  BY DEF FileIndirect, IndirectsOf
<1>3. IsFiniteSet({g[b] : b \in S})
  <2>. HIDE DEF g, S
  <2>. DEFINE T == {g[b] : b \in S}
              h == [b \in S |-> g[b]]
  <2>1. h \in Surjection(S, T)
    BY DEF Surjection
  <2>. HIDE DEF h, T
  <2>2. IsFiniteSet(T)
    BY <1>1, <2>1, FS_Surjection
  <2>. QED
    BY <2>2 DEF T
<1>4. IsFiniteSet(FileIndirect)
  BY <1>2, <1>3
<1>. QED
  BY <1>4, FS_Subset, FS_CardinalityType

\* The end of a block that begins below the size is not beyond the size, rounded up.
LEMMA EndsBelowRoundUp ==
  ASSUME NEW b \in Nat, NEW size \in Nat, b * BlockSize < size
  PROVE  (b + 1) * BlockSize <= RoundUp(size)
<1>. PICK n \in Nat \ {0} : n = BlockSize
  BY Constants
<1>. PICK q : q = (size + n - 1) \div n
  OBVIOUS
<1>1. q \in Nat /\ q * n \in Nat /\ size + n - 1 < q * n + n
  <2>1. \A x \in Nat : LET p == x \div n IN p \in Nat /\ p * n \in Nat /\ x < p * n + n
    BY Division
  <2>2. size + n - 1 \in Nat
    OBVIOUS
  <2>. QED
    BY <2>1, <2>2
<1>2. (b + 1) * n = b * n + n /\ b * n \in Nat
  OBVIOUS
<1>3. b < q
  <2>. SUFFICES ASSUME q <= b PROVE FALSE
    BY <1>1
  <2>1. q * n <= b * n
    BY <1>1, Times
  <2>. QED
    BY <1>1, <1>2, <2>1
<1>4. (b + 1) * n <= q * n
  BY <1>1, <1>3, Times
<1>. QED
  BY <1>4 DEF RoundUp

(***************************************************************************)
(* The steps of a call, field by field.                                     *)
(***************************************************************************)

\* The fields a reservation does not concern.
SameBlocks(f, g) ==
  /\ g.pending = f.pending /\ g.new = f.new /\ g.backed = f.backed /\ g.indirect = f.indirect
  /\ g.unsaved = f.unsaved

SameSizes(f, g) == g.nodeSize = f.nodeSize /\ g.inodeSize = f.inodeSize

SameSpace(f, g) == g.reserved = f.reserved /\ g.free = f.free /\ g.kept = f.kept

LEMMA CancelledIs ==
  ASSUME NEW f \in FileState
  PROVE  LET g == Cancelled(f)
         IN  /\ g \in FileState /\ SameBlocks(f, g) /\ SameSizes(f, g) /\ g.failed = f.failed
             /\ g.free = f.free + f.reserved /\ g.reserved = 0 /\ g.kept = f.kept /\ ~g.dirty
<1>. DEFINE g == [f EXCEPT !.free = @ + f.reserved, !.reserved = 0, !.dirty = FALSE]
<1>1. g \in FileState
  <2>. PICK x \in Int, y \in Int : x = f.free + f.reserved /\ y = 0
    BY DEF FileState
  <2>1. [f EXCEPT !.free = x, !.reserved = y, !.dirty = FALSE] \in FileState
    BY DEF FileState
  <2>. QED
    BY <2>1
<1>2. SameBlocks(f, g) /\ SameSizes(f, g) /\ g.failed = f.failed
  BY DEF FileState, SameBlocks, SameSizes
<1>3. g.free = f.free + f.reserved /\ g.reserved = 0 /\ g.kept = f.kept
  BY DEF FileState
<1>4. ~g.dirty
  BY DEF FileState
<1>. QED
  BY <1>1, <1>2, <1>3, <1>4 DEF Cancelled

LEMMA ReservedIs ==
  ASSUME NEW f \in FileState, NEW n \in Nat
  PROVE  LET g == Reserved(f, n)
         IN  /\ g \in FileState /\ SameBlocks(f, g) /\ SameSizes(f, g) /\ g.failed = f.failed
             /\ g.free + g.kept = f.free + f.kept - n
             /\ g.reserved = f.reserved + n /\ (g.dirty <=> f.dirty)
             /\ CountsAreNatural(f) /\ MayReserve(f, n) => g.free \in Nat /\ g.kept \in Nat
<1>. DEFINE h == IF f.free >= n THEN f ELSE [f EXCEPT !.free = @ + f.kept, !.kept = 0]
            g == [h EXCEPT !.free = @ - n, !.reserved = @ + n]
<1>1. /\ h \in FileState /\ SameBlocks(f, h) /\ SameSizes(f, h) /\ h.failed = f.failed
      /\ h.free + h.kept = f.free + f.kept /\ h.reserved = f.reserved
      /\ CountsAreNatural(f) /\ MayReserve(f, n) => h.kept \in Nat /\ h.free >= n
  <2>1. CASE f.free >= n
    BY <2>1 DEF CountsAreNatural, SameBlocks, SameSizes
  <2>2. CASE ~(f.free >= n)
    <3>. DEFINE k == [f EXCEPT !.free = @ + f.kept, !.kept = 0]
    <3>1. k \in FileState
      <4>. PICK x \in Int, y \in Int : x = f.free + f.kept /\ y = 0
        BY DEF FileState
      <4>1. [f EXCEPT !.free = x, !.kept = y] \in FileState
        BY DEF FileState
      <4>. QED
        BY <4>1
    <3>2. SameBlocks(f, k) /\ SameSizes(f, k) /\ k.failed = f.failed
      BY DEF FileState, SameBlocks, SameSizes
    <3>3. k.free = f.free + f.kept /\ k.kept = 0 /\ k.reserved = f.reserved
      BY DEF FileState
    <3>4. f.free \in Int /\ f.kept \in Int
      BY DEF FileState
    <3>. HIDE DEF k
    <3>5. k.free + k.kept = f.free + f.kept
      BY <3>3, <3>4
    <3>6. CountsAreNatural(f) /\ MayReserve(f, n) => k.kept \in Nat /\ k.free >= n
      BY <3>3, <3>4 DEF MayReserve, CountsAreNatural
    <3>7. h = k
      BY <2>2 DEF k
    <3>. HIDE DEF h
    <3>. QED
      BY <3>1, <3>2, <3>3, <3>5, <3>6, <3>7
  <2>. QED
    BY <2>1, <2>2
<1>2. h.dirty <=> f.dirty
  BY DEF FileState
<1>. HIDE DEF h
<1>3. /\ g \in FileState /\ SameBlocks(h, g) /\ SameSizes(h, g) /\ g.failed = h.failed
      /\ g.free = h.free - n /\ g.kept = h.kept /\ g.reserved = h.reserved + n
  <2>1. g \in FileState
    <3>. PICK x \in Int, y \in Int : x = h.free - n /\ y = h.reserved + n
      BY <1>1 DEF FileState
    <3>1. [h EXCEPT !.free = x, !.reserved = y] \in FileState
      BY <1>1 DEF FileState
    <3>. QED
      BY <3>1
  <2>2. SameBlocks(h, g) /\ SameSizes(h, g) /\ g.failed = h.failed
    BY <1>1 DEF FileState, SameBlocks, SameSizes
  <2>3. g.free = h.free - n /\ g.kept = h.kept /\ g.reserved = h.reserved + n
    BY <1>1 DEF FileState
  <2>. QED
    BY <2>1, <2>2, <2>3
<1>4. g.dirty <=> h.dirty
  BY <1>1 DEF FileState
<1>5. g = Reserved(f, n)
  BY DEF Reserved, h
<1>6. h.free \in Int /\ h.kept \in Int /\ f.free \in Int /\ f.kept \in Int
  BY <1>1 DEF FileState
<1>. HIDE DEF g
<1>7. SameBlocks(f, g) /\ SameSizes(f, g)
  BY <1>1, <1>3 DEF SameBlocks, SameSizes
<1>. QED
  BY <1>1, <1>2, <1>3, <1>4, <1>5, <1>6, <1>7

LEMMA MarkedIs ==
  ASSUME NEW f \in FileState, NEW B \in SUBSET FileBlock
  PROVE  LET g == Marked(f, B)
         IN  /\ g \in FileState /\ SameSizes(f, g) /\ SameSpace(f, g) /\ g.failed = f.failed
             /\ g.backed = f.backed /\ g.indirect = f.indirect /\ g.unsaved = f.unsaved
             /\ g.pending = f.pending \union B
             /\ g.new = f.new + Cardinality(B \ (f.pending \union f.backed))
             /\ (g.dirty <=> f.dirty)
<1>. PICK c \in Nat : c = Cardinality(B \ (f.pending \union f.backed))
  BY BlocksAreFinite
<1>. DEFINE g == [f EXCEPT !.new = @ + c, !.pending = @ \union B]
<1>1. /\ g \in FileState /\ SameSizes(f, g) /\ SameSpace(f, g) /\ g.failed = f.failed
      /\ g.backed = f.backed /\ g.indirect = f.indirect /\ g.unsaved = f.unsaved
      /\ g.pending = f.pending \union B /\ g.new = f.new + c
  <2>1. g \in FileState
    <3>. PICK x \in Int : x = f.new + c
      BY DEF FileState
    <3>. PICK P \in SUBSET FileBlock : P = f.pending \union B
      BY DEF FileState
    <3>1. [f EXCEPT !.new = x, !.pending = P] \in FileState
      BY DEF FileState
    <3>. QED
      BY <3>1
  <2>2. SameSizes(f, g) /\ SameSpace(f, g) /\ g.failed = f.failed
    BY DEF FileState, SameSizes, SameSpace
  <2>3. /\ g.backed = f.backed /\ g.indirect = f.indirect /\ g.unsaved = f.unsaved
        /\ g.pending = f.pending \union B /\ g.new = f.new + c
    BY DEF FileState
  <2>. QED
    BY <2>1, <2>2, <2>3
<1>2. g.dirty <=> f.dirty
  BY DEF FileState
<1>. QED
  BY <1>1, <1>2 DEF Marked

LEMMA AssertedIs ==
  ASSUME NEW f \in FileState, NEW what \in Messages, NEW holds \in BOOLEAN
  PROVE  LET g == Asserted(f, what, holds)
         IN  /\ g \in FileState /\ SameBlocks(f, g) /\ SameSizes(f, g) /\ SameSpace(f, g)
             /\ (g.dirty <=> f.dirty) /\ (g.failed = {} <=> f.failed = {} /\ holds)
<1>. DEFINE h == [f EXCEPT !.failed = {what}]
<1>1. h \in FileState /\ SameBlocks(f, h) /\ SameSizes(f, h) /\ SameSpace(f, h) /\ h.failed = {what}
  BY DEF FileState, SameBlocks, SameSizes, SameSpace
<1>2. h.dirty <=> f.dirty
  BY DEF FileState
<1>. HIDE DEF h
<1>3. SameBlocks(f, f) /\ SameSizes(f, f) /\ SameSpace(f, f)
  BY DEF SameBlocks, SameSizes, SameSpace
<1>4. CASE holds \/ f.failed # {}
  <2>1. Asserted(f, what, holds) = f
    BY <1>4 DEF Asserted
  <2>. QED
    BY <1>3, <1>4, <2>1
<1>5. CASE ~holds /\ f.failed = {}
  <2>1. Asserted(f, what, holds) = h
    BY <1>5 DEF Asserted, h
  <2>. QED
    BY <1>1, <1>2, <1>5, <2>1
<1>. QED
  BY <1>4, <1>5

LEMMA RanIs ==
  ASSUME NEW f \in FileState, file \in FileState
  PROVE  /\ Ran(f) \in FileState /\ Ran(f).failed = f.failed
         /\ f.failed = {} => Ran(f) = f
         /\ CountsAreNatural(file) /\ (f.failed = {} => CountsAreNatural(f)) =>
              CountsAreNatural(Ran(f))
BY DEF Ran, FileState, CountsAreNatural

(***************************************************************************)
(* A flush.                                                                 *)
(***************************************************************************)

NothingBeyond(f) == \A b \in f.pending : (b + 1) * BlockSize <= RoundUp(f.nodeSize)

LEMMA IndirectTypes ==
  ASSUME NEW f \in FileState
  PROVE  /\ IndirectsOf(f.pending) \in SUBSET FileIndirect
         /\ NewIndirects(f) \in SUBSET FileIndirect /\ BlocksToAllocate(f) \in Nat
<1>1. f.pending \in SUBSET FileBlock
  BY DEF FileState
<1>2. IndirectsOf(f.pending) \in SUBSET FileIndirect
  BY <1>1, IndirectsAreMonotone DEF FileIndirect
<1>3. NewIndirects(f) \in SUBSET FileIndirect
  BY <1>2 DEF NewIndirects
<1>. QED
  BY <1>1, <1>2, <1>3, BlocksAreFinite, IndirectsAreFinite DEF BlocksToAllocate

\* What a flush stores, field by field.
Stored(h, need, freed, more, f) ==
  [h EXCEPT !.reserved = @ - need, !.kept = @ + freed, !.backed = @ \union f.pending,
            !.indirect = @ \union more, !.pending = {}, !.new = 0,
            !.inodeSize = f.nodeSize, !.unsaved = @ \ f.pending]

LEMMA StoredIs ==
  ASSUME NEW f \in FileState, NEW h \in FileState, NEW need, NEW freed, NEW more, NEW k,
         need \in Nat, freed \in Nat, more \in SUBSET FileIndirect,
         k = Stored(h, need, freed, more, f)
  PROVE  /\ k \in FileState
         /\ k.pending = {} /\ k.new = 0 /\ k.backed = h.backed \union f.pending
         /\ k.indirect = h.indirect \union more /\ k.unsaved = h.unsaved \ f.pending
         /\ k.nodeSize = h.nodeSize /\ k.inodeSize = f.nodeSize /\ k.failed = h.failed
         /\ k.reserved = h.reserved - need /\ k.kept = h.kept + freed /\ k.free = h.free
<1>1. Stored(h, need, freed, more, f) \in FileState
  <2>1. h.reserved \in Int /\ h.kept \in Int /\ f.nodeSize \in 0..MaxFileSize
    BY DEF FileState
  <2>2. /\ h.backed \in SUBSET FileBlock /\ h.unsaved \in SUBSET FileBlock
        /\ f.pending \in SUBSET FileBlock /\ h.indirect \in SUBSET FileIndirect
    BY DEF FileState
  <2>. PICK r \in Int, t \in Int, z \in Int : r = h.reserved - need /\ t = h.kept + freed /\ z = 0
    BY <2>1
  <2>. PICK B \in SUBSET FileBlock, P \in SUBSET FileBlock, U \in SUBSET FileBlock :
         B = h.backed \union f.pending /\ P = {} /\ U = h.unsaved \ f.pending
    BY <2>2
  <2>. PICK I \in SUBSET FileIndirect : I = h.indirect \union more
    BY <2>2
  <2>. PICK s \in 0..MaxFileSize : s = f.nodeSize
    BY <2>1
  <2>. DEFINE g == [h EXCEPT !.reserved = r, !.kept = t, !.backed = B, !.indirect = I]
              u == [g EXCEPT !.pending = P, !.new = z, !.inodeSize = s, !.unsaved = U]
  <2>3. g \in FileState
    BY DEF FileState
  <2>4. u \in FileState
    <3>. HIDE DEF g
    <3>. QED
      BY <2>3 DEF FileState
  <2>5. Stored(h, need, freed, more, f) = u
    BY DEF FileState, Stored
  <2>. QED
    BY <2>4, <2>5
<1>2. /\ k.pending = {} /\ k.new = 0 /\ k.backed = h.backed \union f.pending
      /\ k.indirect = h.indirect \union more /\ k.unsaved = h.unsaved \ f.pending
      /\ k.nodeSize = h.nodeSize /\ k.inodeSize = f.nodeSize /\ k.failed = h.failed
  BY DEF FileState, Stored
<1>3. k.reserved = h.reserved - need /\ k.kept = h.kept + freed /\ k.free = h.free
  BY DEF FileState, Stored
<1>. QED
  BY <1>1, <1>2, <1>3

LEMMA FlushAsserts ==
  ASSUME NEW f \in FileState, NEW freed, NEW more
  PROVE  \E h \in FileState :
           /\ SameBlocks(f, h) /\ SameSizes(f, h) /\ SameSpace(f, h)
           /\ (h.failed = {} <=>
                 f.failed = {} /\ BlocksToAllocate(f) <= f.reserved /\ NothingBeyond(f))
           /\ freed = Cardinality(f.pending \intersect f.backed) /\ more = NewIndirects(f) =>
                AllocateAndCommitData(f) =
                  Cancelled(Stored(h, BlocksToAllocate(f), freed, more, f))
<1>. PICK enough \in BOOLEAN : enough <=> BlocksToAllocate(f) <= f.reserved
  OBVIOUS
<1>. PICK below \in BOOLEAN : below <=> NothingBeyond(f)
  OBVIOUS
<1>. PICK first : first = Asserted(f, "reserved_ > 0", enough)
  OBVIOUS
<1>. PICK h : h = Asserted(first, "beyond the allowed nodesize", below)
  OBVIOUS
<1>1. /\ h \in FileState /\ SameBlocks(f, h) /\ SameSizes(f, h) /\ SameSpace(f, h)
      /\ (h.failed = {} <=> f.failed = {} /\ enough /\ below)
  <2>0. "reserved_ > 0" \in Messages /\ "beyond the allowed nodesize" \in Messages
    BY DEF Messages
  <2>2. /\ first \in FileState /\ SameBlocks(f, first) /\ SameSizes(f, first)
        /\ SameSpace(f, first)
        /\ (first.failed = {} <=> f.failed = {} /\ enough)
    BY <2>0, AssertedIs, Zenon
  <2>3. /\ h \in FileState /\ SameBlocks(first, h) /\ SameSizes(first, h) /\ SameSpace(first, h)
        /\ (h.failed = {} <=> first.failed = {} /\ below)
    BY <2>0, <2>2, AssertedIs, Zenon
  <2>4. SameBlocks(f, h) /\ SameSizes(f, h) /\ SameSpace(f, h)
    BY <2>2, <2>3 DEF SameBlocks, SameSizes, SameSpace
  <2>. QED
    BY <2>2, <2>3, <2>4
<1>2. AllocateAndCommitData(f) =
        Cancelled(Stored(h, BlocksToAllocate(f), Cardinality(f.pending \intersect f.backed),
                         NewIndirects(f), f))
  <2>1. first = Asserted(f, "reserved_ > 0", BlocksToAllocate(f) <= f.reserved)
    BY DEF Asserted
  <2>2. h = Asserted(first, "beyond the allowed nodesize",
                     \A b \in f.pending : (b + 1) * BlockSize <= RoundUp(f.nodeSize))
    BY DEF Asserted, NothingBeyond
  <2>. QED
    BY <2>1, <2>2 DEF AllocateAndCommitData, Stored
<1>. QED
  BY <1>1, <1>2, Zenon

LEMMA FlushIs ==
  ASSUME NEW f \in FileState
  PROVE  LET g == AllocateAndCommitData(f)
         IN  /\ g \in FileState
             /\ g.pending = {} /\ g.new = 0 /\ g.backed = f.backed \union f.pending
             /\ g.indirect = f.indirect \union NewIndirects(f)
             /\ g.unsaved = f.unsaved \ f.pending
             /\ g.nodeSize = f.nodeSize /\ g.inodeSize = f.nodeSize
             /\ ~g.dirty /\ g.reserved = 0
             /\ g.free = f.free + (f.reserved - BlocksToAllocate(f))
             /\ g.kept = f.kept + Cardinality(f.pending \intersect f.backed)
             /\ (g.failed = {} <=>
                   f.failed = {} /\ BlocksToAllocate(f) <= f.reserved /\ NothingBeyond(f))
<1>. PICK need \in Nat : need = BlocksToAllocate(f)
  BY IndirectTypes
<1>. PICK freed \in Nat : freed = Cardinality(f.pending \intersect f.backed)
  BY BlocksAreFinite DEF FileState
<1>. PICK more \in SUBSET FileIndirect : more = NewIndirects(f)
  BY IndirectTypes
<1>1. PICK h \in FileState :
        /\ SameBlocks(f, h) /\ SameSizes(f, h) /\ SameSpace(f, h)
        /\ (h.failed = {} <=>
              f.failed = {} /\ BlocksToAllocate(f) <= f.reserved /\ NothingBeyond(f))
        /\ AllocateAndCommitData(f) = Cancelled(Stored(h, need, freed, more, f))
  BY FlushAsserts, Zenon
<1>2. PICK k : k = Stored(h, need, freed, more, f)
  OBVIOUS
<1>3. /\ k \in FileState
      /\ k.pending = {} /\ k.new = 0 /\ k.backed = h.backed \union f.pending
      /\ k.indirect = h.indirect \union more /\ k.unsaved = h.unsaved \ f.pending
      /\ k.nodeSize = h.nodeSize /\ k.inodeSize = f.nodeSize /\ k.failed = h.failed
      /\ k.reserved = h.reserved - need /\ k.kept = h.kept + freed /\ k.free = h.free
  <2>1. k \in FileState
    BY <1>2, StoredIs
  <2>2. /\ k.pending = {} /\ k.new = 0 /\ k.backed = h.backed \union f.pending
        /\ k.indirect = h.indirect \union more /\ k.unsaved = h.unsaved \ f.pending
        /\ k.nodeSize = h.nodeSize /\ k.inodeSize = f.nodeSize /\ k.failed = h.failed
    BY <1>2 DEF FileState, Stored
  <2>3. k.reserved = h.reserved - need /\ k.kept = h.kept + freed /\ k.free = h.free
    BY <1>2, StoredIs
  <2>. QED
    BY <2>1, <2>2, <2>3
<1>4. /\ Cancelled(k) \in FileState /\ SameBlocks(k, Cancelled(k)) /\ SameSizes(k, Cancelled(k))
      /\ Cancelled(k).failed = k.failed
      /\ Cancelled(k).free = k.free + k.reserved /\ Cancelled(k).reserved = 0
      /\ Cancelled(k).kept = k.kept /\ ~Cancelled(k).dirty
  BY <1>3, CancelledIs
<1>. PICK g : g = AllocateAndCommitData(f)
  OBVIOUS
<1>5. /\ g \in FileState
      /\ g.pending = {} /\ g.new = 0 /\ g.backed = f.backed \union f.pending
      /\ g.indirect = f.indirect \union NewIndirects(f)
      /\ g.unsaved = f.unsaved \ f.pending
      /\ g.nodeSize = f.nodeSize /\ g.inodeSize = f.nodeSize
  <2>1. /\ g \in FileState /\ SameBlocks(k, g) /\ SameSizes(k, g)
    BY <1>1, <1>2, <1>4
  <2>. QED
    BY <1>1, <1>3, <2>1 DEF SameBlocks, SameSizes
<1>6. /\ g.reserved = 0
      /\ g.free = f.free + (f.reserved - BlocksToAllocate(f))
      /\ g.kept = f.kept + Cardinality(f.pending \intersect f.backed)
  <2>1. g.free = k.free + k.reserved /\ g.reserved = 0 /\ g.kept = k.kept
    BY <1>1, <1>2, <1>4
  <2>2. h.reserved = f.reserved /\ h.free = f.free /\ h.kept = f.kept
    BY <1>1 DEF SameSpace
  <2>3. f.free \in Int /\ f.kept \in Int /\ f.reserved \in Int
    BY DEF FileState
  <2>4. k.reserved = f.reserved - need /\ k.kept = f.kept + freed /\ k.free = f.free
    BY <1>3, <2>2
  <2>5. g.free = f.free + (f.reserved - need) /\ g.kept = f.kept + freed
    BY <2>1, <2>3, <2>4
  <2>. QED
    BY <2>1, <2>5
<1>7. ~g.dirty /\ g.failed = h.failed
  BY <1>1, <1>2, <1>3, <1>4
<1>. QED
  BY <1>1, <1>5, <1>6, <1>7

\* Adding and taking away, in numbers.
LEMMA Count ==
  ASSUME NEW S, NEW T, IsFiniteSet(S), IsFiniteSet(T)
  PROVE  /\ Cardinality(S) \in Nat /\ Cardinality(S \ T) \in Nat /\ Cardinality(S \intersect T) \in Nat
         /\ Cardinality(S) = Cardinality(S \ T) + Cardinality(S \intersect T)
         /\ Cardinality(S \union T) = Cardinality(T) + Cardinality(S \ T)
<1>1. /\ Cardinality(S) \in Nat /\ Cardinality(T) \in Nat /\ IsFiniteSet(S \ T)
      /\ IsFiniteSet(S \intersect T)
  BY FS_CardinalityType, FS_Difference, FS_Intersection
<1>2. Cardinality(S \ T) \in Nat /\ Cardinality(S \intersect T) \in Nat
  BY <1>1, FS_CardinalityType
<1>3. Cardinality(S \ T) = Cardinality(S) - Cardinality(S \intersect T)
  BY FS_Difference
<1>4. Cardinality(S \union T) = Cardinality(S) + Cardinality(T) - Cardinality(S \intersect T)
  BY FS_Union
<1>. QED
  BY <1>1, <1>2, <1>3, <1>4

LEMMA CountParts ==
  ASSUME NEW S, NEW T, T \subseteq S, IsFiniteSet(S)
  PROVE  Cardinality(S) = Cardinality(S \ T) + Cardinality(T) /\ Cardinality(S \ T) \in Nat
<1>1. IsFiniteSet(T) /\ S \intersect T = T
  BY FS_Subset
<1>2. /\ Cardinality(S) = Cardinality(S \ T) + Cardinality(S \intersect T)
      /\ Cardinality(S \ T) \in Nat
  BY <1>1, Count
<1>. QED
  BY <1>1, <1>2

LEMMA CountUnion ==
  ASSUME NEW M, NEW N, NEW I, IsFiniteSet(M), IsFiniteSet(N)
  PROVE  /\ Cardinality((M \union N) \ I) <= Cardinality(N \ I) + Cardinality(M)
         /\ Cardinality(M) \in Nat /\ Cardinality(N \ I) \in Nat
         /\ Cardinality((M \union N) \ I) \in Nat
<1>1. IsFiniteSet(M \ I) /\ IsFiniteSet(N \ I)
  BY FS_Difference
<1>2. /\ Cardinality((M \ I) \union (N \ I)) =
            Cardinality(N \ I) + Cardinality((M \ I) \ (N \ I))
      /\ Cardinality((M \ I) \ (N \ I)) \in Nat
  BY <1>1, Count
<1>3. (M \ I) \union (N \ I) = (M \union N) \ I
  OBVIOUS
<1>4. (M \ I) \ (N \ I) \subseteq M
  OBVIOUS
<1>5. Cardinality((M \ I) \ (N \ I)) <= Cardinality(M)
  BY <1>4, FS_Subset
<1>6. Cardinality(M) \in Nat /\ Cardinality(N \ I) \in Nat
  BY <1>1, FS_CardinalityType
<1>7. PICK a \in Nat, b \in Nat, c \in Nat :
        /\ a = Cardinality(M) /\ b = Cardinality(N \ I)
        /\ c = Cardinality((M \ I) \ (N \ I))
  BY <1>2, <1>6
<1>8. Cardinality((M \union N) \ I) = b + c /\ c <= a
  BY <1>2, <1>3, <1>5, <1>7
<1>9. b + c \in Nat /\ b + c <= b + a
  BY <1>8
<1>. QED
  BY <1>7, <1>8, <1>9

LEMMA CoveredIsBelow ==
  ASSUME NEW f \in FileState, Covered(f) PROVE NothingBeyond(f)
<1>1. f.pending \in SUBSET FileBlock /\ f.nodeSize \in Nat
  BY DEF FileState
<1>. QED
  BY <1>1, EndsBelowRoundUp, FileBlocks DEF Covered, NothingBeyond

\* A flush that asserts nothing leaves the blocks accounted for and nothing to store; and if
\* all was covered it asserts nothing.
LEMMA FlushKeeps ==
  ASSUME NEW f \in FileState
  PROVE  LET g == AllocateAndCommitData(f)
         IN  /\ g \in FileState /\ ~g.dirty /\ g.pending = {} /\ g.reserved = 0
             /\ g.nodeSize = g.inodeSize /\ g.nodeSize = f.nodeSize
             /\ g.failed = {} => f.failed = {}
             /\ Accounted(f) /\ g.failed = {} => Accounted(g)
             /\ Covered(f) /\ f.failed = {} => Covered(g) /\ g.failed = {}
<1>. PICK g : g = AllocateAndCommitData(f)
  OBVIOUS
<1>1. /\ g \in FileState
      /\ g.pending = {} /\ g.new = 0 /\ g.backed = f.backed \union f.pending
      /\ g.indirect = f.indirect \union NewIndirects(f)
      /\ g.unsaved = f.unsaved \ f.pending
      /\ g.nodeSize = f.nodeSize /\ g.inodeSize = f.nodeSize
      /\ ~g.dirty /\ g.reserved = 0
      /\ g.free = f.free + (f.reserved - BlocksToAllocate(f))
      /\ g.kept = f.kept + Cardinality(f.pending \intersect f.backed)
      /\ (g.failed = {} <=>
            f.failed = {} /\ BlocksToAllocate(f) <= f.reserved /\ NothingBeyond(f))
  BY FlushIs
<1>2. ASSUME Accounted(f), g.failed = {} PROVE Accounted(g)
  <2>. PICK p \in SUBSET FileBlock, b \in SUBSET FileBlock, i \in SUBSET FileIndirect,
            m \in SUBSET FileIndirect :
         p = f.pending /\ b = f.backed /\ i = f.indirect /\ m = NewIndirects(f)
    BY IndirectTypes DEF FileState
  <2>1. IsFiniteSet(p) /\ IsFiniteSet(b) /\ IsFiniteSet(i) /\ IsFiniteSet(m)
    BY BlocksAreFinite, IndirectsAreFinite
  <2>2. /\ Cardinality(p) = Cardinality(p \ b) + Cardinality(p \intersect b)
        /\ Cardinality(b \union p) = Cardinality(b) + Cardinality(p \ b)
        /\ Cardinality(p) \in Nat /\ Cardinality(p \ b) \in Nat /\ Cardinality(b) \in Nat
        /\ Cardinality(p \intersect b) \in Nat
    <3>1. b \union p = p \union b
      OBVIOUS
    <3>. QED
      BY <2>1, <3>1, Count, ZenonT(40)
  <2>3. /\ Cardinality(i \union m) = Cardinality(i) + Cardinality(m)
        /\ Cardinality(i) \in Nat /\ Cardinality(m) \in Nat
    <3>1. m \ i = m /\ i \union m = m \union i
      BY DEF NewIndirects
    <3>2. /\ Cardinality(m \union i) = Cardinality(i) + Cardinality(m \ i)
          /\ Cardinality(i) \in Nat /\ Cardinality(m) \in Nat
      BY <2>1, Count
    <3>. QED
      BY <3>1, <3>2
  <2>4. BlocksToAllocate(f) = Cardinality(p) + Cardinality(m) /\ BlocksToAllocate(f) <= f.reserved
    BY <1>1, <1>2 DEF BlocksToAllocate
  <2>5. CountsAreNatural(g)
    BY <1>1, <1>2, <2>2, <2>3, <2>4 DEF Accounted, CountsAreNatural
  <2>6. Balance(g) = TotalBlocks
    BY <1>1, <1>2, <2>2, <2>3, <2>4 DEF Accounted, CountsAreNatural, Balance
  <2>7. g.new = Cardinality(g.pending \ g.backed)
    BY <1>1, FS_EmptySet
  <2>8. IndirectsOf(g.backed) \subseteq g.indirect
    <3>1. IndirectsOf(b \union p) = IndirectsOf(b) \union IndirectsOf(p)
      BY IndirectsOfBoth
    <3>. QED
      BY <1>1, <1>2, <3>1 DEF Accounted, NewIndirects
  <2>. QED
    BY <2>5, <2>6, <2>7, <2>8 DEF Accounted
<1>3. ASSUME Covered(f), f.failed = {} PROVE Covered(g) /\ g.failed = {}
  <2>1. g.failed = {}
    BY <1>1, <1>3, CoveredIsBelow DEF Covered
  <2>2. BlocksToAllocate(g) = 0
    BY <1>1, IndirectsOfNone, FS_EmptySet DEF BlocksToAllocate, NewIndirects
  <2>. QED
    BY <1>1, <1>3, <2>1, <2>2 DEF Covered
<1>. QED
  BY <1>1, <1>2, <1>3

(***************************************************************************)
(* What a chain of steps keeps.  Sound holds after failed writes too; Ready *)
(* is what every write that succeeds leaves.                                *)
(***************************************************************************)
Sound(f) ==
  f \in FileState /\ (f.failed = {} => Accounted(f) /\ f.nodeSize = f.inodeSize)

\* Sound, but for the size that is not yet in the inode.
Half(f) == f \in FileState /\ (f.failed = {} => Accounted(f))

Ready(f) == f.failed = {} /\ Covered(f)

LEMMA SizesOf ==
  ASSUME NEW f \in FileState
  PROVE  /\ Cardinality(f.backed) \in Nat /\ Cardinality(f.indirect) \in Nat
         /\ f.new \in Int /\ f.free \in Int /\ f.kept \in Int /\ f.reserved \in Int
         /\ f.nodeSize \in Nat /\ f.inodeSize \in Nat
         /\ f.pending \in SUBSET FileBlock /\ f.backed \in SUBSET FileBlock
         /\ f.unsaved \in SUBSET FileBlock /\ f.indirect \in SUBSET FileIndirect
         /\ f.nodeSize \in 0..MaxFileSize /\ f.inodeSize \in 0..MaxFileSize
BY BlocksAreFinite, IndirectsAreFinite DEF FileState

\* A step that leaves the blocks alone and only moves space about.
LEMMA SpaceMoves ==
  ASSUME NEW f \in FileState, NEW g \in FileState, SameBlocks(f, g),
         g.free \in Nat, g.kept \in Nat, g.reserved \in Nat,
         g.free + g.kept + g.reserved = f.free + f.kept + f.reserved, Accounted(f)
  PROVE  Accounted(g)
<1>1. f.free \in Nat /\ f.kept \in Nat /\ f.reserved \in Nat /\ f.new \in Nat
  BY DEF Accounted, CountsAreNatural
<1>2. Balance(g) = Balance(f)
  <2>. PICK x \in Nat, y \in Nat :
         x = Cardinality(f.backed) /\ y = Cardinality(f.indirect)
    BY SizesOf
  <2>. QED
    BY <1>1 DEF Balance, SameBlocks
<1>3. CountsAreNatural(g)
  BY <1>1 DEF CountsAreNatural, SameBlocks
<1>. QED
  BY <1>2, <1>3 DEF Accounted, SameBlocks

\* A reservation taken, and given back.
LEMMA ReservedKeeps ==
  ASSUME NEW f \in FileState, NEW n \in Nat
  PROVE  LET g == Reserved(f, n)
         IN  /\ g \in FileState /\ SameBlocks(f, g) /\ SameSizes(f, g) /\ g.failed = f.failed
             /\ g.reserved = f.reserved + n /\ (g.dirty <=> f.dirty)
             /\ MayReserve(f, n) /\ Half(f) => Half(g)
<1>. PICK g : g = Reserved(f, n)
  OBVIOUS
<1>1. /\ g \in FileState /\ SameBlocks(f, g) /\ SameSizes(f, g) /\ g.failed = f.failed
      /\ g.free + g.kept = f.free + f.kept - n
      /\ g.reserved = f.reserved + n /\ (g.dirty <=> f.dirty)
      /\ CountsAreNatural(f) /\ MayReserve(f, n) => g.free \in Nat /\ g.kept \in Nat
  BY ReservedIs
<1>2. ASSUME MayReserve(f, n), Half(f), f.failed = {} PROVE Accounted(g)
  <2>1. Accounted(f) /\ CountsAreNatural(f) /\ f.reserved \in Nat /\ f.free \in Nat /\ f.kept \in Nat
    BY <1>2 DEF Half, Accounted, CountsAreNatural
  <2>2. g.free \in Nat /\ g.kept \in Nat /\ g.reserved \in Nat
    BY <1>1, <1>2, <2>1
  <2>3. g.free + g.kept + g.reserved = f.free + f.kept + f.reserved
    BY <1>1, <2>1, <2>2
  <2>. QED
    BY <1>1, <2>1, <2>2, <2>3, SpaceMoves
<1>. QED
  BY <1>1, <1>2 DEF Half

LEMMA CancelledKeeps ==
  ASSUME NEW f \in FileState
  PROVE  LET g == Cancelled(f)
         IN  /\ g \in FileState /\ SameBlocks(f, g) /\ SameSizes(f, g) /\ g.failed = f.failed
             /\ ~g.dirty /\ g.reserved = 0 /\ (Half(f) => Half(g)) /\ (Sound(f) => Sound(g))
<1>. PICK g : g = Cancelled(f)
  OBVIOUS
<1>1. /\ g \in FileState /\ SameBlocks(f, g) /\ SameSizes(f, g) /\ g.failed = f.failed
      /\ g.free = f.free + f.reserved /\ g.reserved = 0 /\ g.kept = f.kept /\ ~g.dirty
  BY CancelledIs
<1>2. ASSUME Accounted(f) PROVE Accounted(g)
  <2>1. f.reserved \in Nat /\ f.free \in Nat /\ f.kept \in Nat
    BY <1>2 DEF Accounted, CountsAreNatural
  <2>2. g.free \in Nat /\ g.kept \in Nat /\ g.reserved \in Nat
    BY <1>1, <2>1
  <2>3. g.free + g.kept + g.reserved = f.free + f.kept + f.reserved
    BY <1>1, <2>1, <2>2
  <2>. QED
    BY <1>1, <1>2, <2>2, <2>3, SpaceMoves
<1>. QED
  BY <1>1, <1>2 DEF Half, Sound, SameSizes

\* Blocks marked pending.
LEMMA MarkedKeeps ==
  ASSUME NEW f \in FileState, NEW B \in SUBSET FileBlock, Half(f) PROVE Half(Marked(f, B))
<1>. PICK g : g = Marked(f, B)
  OBVIOUS
<1>1. /\ g \in FileState /\ SameSpace(f, g) /\ g.failed = f.failed
      /\ g.backed = f.backed /\ g.indirect = f.indirect
      /\ g.pending = f.pending \union B
      /\ g.new = f.new + Cardinality(B \ (f.pending \union f.backed))
  BY MarkedIs
<1>. PICK P \in SUBSET FileBlock, K \in SUBSET FileBlock : P = f.pending /\ K = f.backed
  BY SizesOf
<1>2. /\ Cardinality((P \union B) \ K) = Cardinality(P \ K) + Cardinality(B \ (P \union K))
      /\ Cardinality(B \ (P \union K)) \in Nat
  <2>1. IsFiniteSet(P \ K) /\ IsFiniteSet(B \ (P \union K))
    BY BlocksAreFinite, FS_Difference
  <2>2. /\ Cardinality((B \ (P \union K)) \union (P \ K)) =
             Cardinality(P \ K) + Cardinality((B \ (P \union K)) \ (P \ K))
        /\ Cardinality(B \ (P \union K)) \in Nat
    BY <2>1, Count
  <2>3. (B \ (P \union K)) \ (P \ K) = B \ (P \union K)
    OBVIOUS
  <2>4. (B \ (P \union K)) \union (P \ K) = (P \union B) \ K
    OBVIOUS
  <2>. QED
    BY <2>2, <2>3, <2>4
<1>3. ASSUME f.failed = {} PROVE Accounted(g)
  <2>1. Accounted(f)
    BY <1>3 DEF Half
  <2>2. CountsAreNatural(g)
    BY <1>1, <1>2, <2>1 DEF Accounted, CountsAreNatural, SameSpace
  <2>3. Balance(g) = TotalBlocks
    BY <1>1, <2>1 DEF Accounted, Balance, SameSpace
  <2>4. g.new = Cardinality(g.pending \ g.backed)
    BY <1>1, <1>2, <2>1 DEF Accounted
  <2>. QED
    BY <1>1, <2>1, <2>2, <2>3, <2>4 DEF Accounted
<1>. QED
  BY <1>1, <1>3 DEF Half

LEMMA FlushedIs ==
  ASSUME NEW f \in FileState
  PROVE  LET g == AllocateAndCommitData(f)
         IN  /\ g \in FileState /\ ~g.dirty /\ g.pending = {} /\ g.nodeSize = f.nodeSize
             /\ (Half(f) => Sound(g)) /\ (Ready(f) => Ready(g))
BY FlushKeeps DEF Half, Sound, Ready

LEMMA FlushCachedIs ==
  ASSUME NEW f, Sound(f)
  PROVE  LET g == FlushCachedWrites(f)
         IN  /\ Sound(g) /\ ~g.dirty /\ (Ready(f) => Ready(g))
             /\ (~f.dirty => f.pending = {}) => g.pending = {}
<1>1. f \in FileState /\ Half(f)
  BY DEF Sound, Half
<1>2. CASE f.dirty
  BY <1>1, <1>2, FlushedIs DEF FlushCachedWrites
<1>3. CASE ~f.dirty
  BY <1>3 DEF FlushCachedWrites
<1>. QED
  BY <1>2, <1>3

(***************************************************************************)
(* Truncating.                                                              *)
(***************************************************************************)

LEMMA Sums == \A v \in Int, n \in Nat, m \in Nat : v + n + m \in Int
OBVIOUS

LEMMA Differences == \A v \in Int, n \in Nat : v - n \in Int
OBVIOUS

\* What is freed is kept by the journal, and no block of the file loses the indirect
\* blocks that lead to it.
LEMMA ShrunkIs ==
  ASSUME NEW f \in FileState, NEW start \in Nat
  PROVE  LET g == Shrunk(f, start)
             gone == {b \in f.backed : b >= start}
         IN  /\ g \in FileState /\ SameSizes(f, g) /\ g.failed = f.failed
             /\ g.reserved = f.reserved /\ (g.dirty <=> f.dirty)
             /\ g.pending = f.pending \ gone /\ g.unsaved = {b \in f.unsaved : b < start}
             /\ g.backed = f.backed \ gone
             /\ Half(f) => Half(g)
<1>. PICK gone \in SUBSET FileBlock : gone = {b \in f.backed : b >= start}
  BY SizesOf
<1>. PICK goneIndirect \in SUBSET FileIndirect :
       goneIndirect = {i \in f.indirect : i \notin IndirectsOf(f.backed \ gone)}
  BY SizesOf
<1>. PICK n \in Nat, m \in Nat : n = Cardinality(gone) /\ m = Cardinality(goneIndirect)
  BY BlocksAreFinite, IndirectsAreFinite
<1>. PICK g : g = [f EXCEPT !.backed = @ \ gone, !.indirect = @ \ goneIndirect,
                            !.kept = @ + n + m, !.pending = @ \ gone,
                            !.unsaved = {b \in @ : b < start}]
  OBVIOUS
<1>1. g = Shrunk(f, start)
  BY DEF Shrunk
<1>2. g \in FileState
  <2>. PICK v \in Int : v = f.kept
    BY SizesOf
  <2>. PICK x \in Int : x = v + n + m
    BY Sums, Zenon
  <2>. PICK K \in SUBSET FileBlock, P \in SUBSET FileBlock, U \in SUBSET FileBlock :
         K = f.backed \ gone /\ P = f.pending \ gone /\ U = {b \in f.unsaved : b < start}
    BY SizesOf
  <2>. PICK I \in SUBSET FileIndirect : I = f.indirect \ goneIndirect
    BY SizesOf
  <2>1. [f EXCEPT !.backed = K, !.indirect = I, !.kept = x, !.pending = P, !.unsaved = U]
          \in FileState
    BY ZenonT(40) DEF FileState
  <2>. QED
    BY <2>1
<1>3. /\ SameSizes(f, g) /\ g.failed = f.failed /\ g.new = f.new
      /\ g.pending = f.pending \ gone /\ g.unsaved = {b \in f.unsaved : b < start}
      /\ g.backed = f.backed \ gone /\ g.indirect = f.indirect \ goneIndirect
  BY DEF FileState, SameSizes
<1>4. g.free = f.free /\ g.reserved = f.reserved /\ g.kept = f.kept + n + m
  BY DEF FileState
<1>5. g.dirty <=> f.dirty
  BY DEF FileState
<1>6. ASSUME Accounted(f) PROVE Accounted(g)
  <2>. PICK K \in SUBSET FileBlock, P \in SUBSET FileBlock, I \in SUBSET FileIndirect :
         K = f.backed /\ P = f.pending /\ I = f.indirect
    BY SizesOf
  <2>1. /\ Cardinality(K) = Cardinality(K \ gone) + n
        /\ Cardinality(K \ gone) \in Nat
    <3>1. gone \subseteq K /\ IsFiniteSet(K)
      BY BlocksAreFinite
    <3>. QED
      BY <3>1, CountParts
  <2>2. /\ Cardinality(I) = Cardinality(I \ goneIndirect) + m
        /\ Cardinality(I \ goneIndirect) \in Nat
    <3>1. goneIndirect \subseteq I
      OBVIOUS
    <3>2. IsFiniteSet(I)
      BY IndirectsAreFinite
    <3>. QED
      BY <3>1, <3>2, CountParts, Zenon
  <2>3. CountsAreNatural(g)
    BY <1>3, <1>4, <1>6 DEF Accounted, CountsAreNatural
  <2>4. Balance(g) = TotalBlocks
    <3>1. f.free \in Nat /\ f.kept \in Nat /\ f.reserved \in Nat
      BY <1>6 DEF Accounted, CountsAreNatural
    <3>2. f.free + f.kept + f.reserved + Cardinality(K) + Cardinality(I) = TotalBlocks
      BY <1>6 DEF Accounted, Balance
    <3>3. g.backed = K \ gone /\ g.indirect = I \ goneIndirect
      BY <1>3
    <3>. QED
      BY <1>4, <2>1, <2>2, <3>1, <3>2, <3>3 DEF Balance
  <2>5. g.new = Cardinality(g.pending \ g.backed)
    <3>1. (P \ gone) \ (K \ gone) = P \ K
      OBVIOUS
    <3>. QED
      BY <1>3, <1>6, <3>1 DEF Accounted
  <2>6. IndirectsOf(g.backed) \subseteq g.indirect
    <3>1. IndirectsOf(K \ gone) \subseteq IndirectsOf(K)
      BY IndirectsAreMonotone
    <3>. QED
      BY <1>3, <1>6, <3>1 DEF Accounted
  <2>. QED
    BY <2>3, <2>4, <2>5, <2>6 DEF Accounted
<1>. QED
  <2>1. Half(f) => Half(g)
    BY <1>2, <1>3, <1>6 DEF Half
  <2>. QED
    BY <1>1, <1>2, <1>3, <1>4, <1>5, <2>1

\* Writing zeros into the rest of the last block needs the one block that was reserved,
\* as the indirect blocks that lead to it exist.
LEMMA TailIs ==
  ASSUME NEW f \in FileState, Half(f), NEW b
  PROVE  LET g == TailZeroed(f, b)
         IN  /\ Half(g) /\ SameSizes(f, g) /\ g.failed = f.failed /\ g.reserved = f.reserved
             /\ f.pending = {} /\ f.unsaved = {} /\ f.failed = {} =>
                  /\ g.pending \subseteq {b} /\ g.unsaved \subseteq g.pending
                  /\ BlocksToAllocate(g) <= 1
<1>1. CASE b \notin f.backed \union f.pending
  <2>1. TailZeroed(f, b) = f
    BY <1>1 DEF TailZeroed
  <2>2. f.pending = {} => BlocksToAllocate(f) = 0
    BY IndirectsOfNone, FS_EmptySet DEF BlocksToAllocate, NewIndirects
  <2>. QED
    BY <2>1, <2>2 DEF SameSizes
<1>2. CASE b \in f.backed \union f.pending
  <2>1. {b} \in SUBSET FileBlock
    BY <1>2, SizesOf
  <2>2. PICK h : h = Marked(f, {b})
    OBVIOUS
  <2>3. /\ h \in FileState /\ Half(h) /\ SameSizes(f, h) /\ h.failed = f.failed
        /\ h.reserved = f.reserved /\ h.pending = f.pending \union {b}
        /\ h.unsaved = f.unsaved /\ h.backed = f.backed /\ h.indirect = f.indirect
    BY <2>1, <2>2, MarkedIs, MarkedKeeps DEF SameSpace
  <2>4. PICK U \in SUBSET FileBlock : U = h.unsaved \union {b}
    BY <2>1, <2>3, SizesOf
  <2>5. PICK g : g = [h EXCEPT !.unsaved = U]
    OBVIOUS
  <2>6. g = TailZeroed(f, b)
    BY <1>2, <2>2, <2>4, <2>5 DEF TailZeroed
  <2>7. g \in FileState
    BY <2>3, <2>4, <2>5 DEF FileState
  <2>8. /\ SameSizes(h, g) /\ g.failed = h.failed /\ g.pending = h.pending /\ g.new = h.new
        /\ g.backed = h.backed /\ g.indirect = h.indirect /\ g.unsaved = U
    BY <2>3, <2>5 DEF FileState, SameSizes
  <2>9. SameSpace(h, g)
    BY <2>3, <2>5 DEF FileState, SameSpace
  <2>10. Half(g)
    BY <2>3, <2>7, <2>8, <2>9
       DEF Half, Accounted, CountsAreNatural, Balance, SameSpace
  <2>11. ASSUME f.pending = {}, f.unsaved = {}, f.failed = {}
         PROVE  /\ g.pending \subseteq {b} /\ g.unsaved \subseteq g.pending
                /\ BlocksToAllocate(g) <= 1
    <3>1. g.pending = {b} /\ g.unsaved = {b}
      BY <2>3, <2>4, <2>8, <2>11
    <3>2. IndirectsOf({b}) \subseteq g.indirect
      <4>1. {b} \in SUBSET f.backed
        BY <1>2, <2>11
      <4>2. IndirectsOf({b}) \subseteq IndirectsOf(f.backed)
        BY <4>1, IndirectsAreMonotone
      <4>. QED
        BY <2>3, <2>8, <2>11, <4>2 DEF Half, Accounted
    <3>3. NewIndirects(g) = {}
      BY <3>1, <3>2 DEF NewIndirects
    <3>4. Cardinality({b}) = 1 /\ Cardinality({}) = 0
      BY FS_Singleton, FS_EmptySet
    <3>. QED
      BY <3>1, <3>3, <3>4 DEF BlocksToAllocate
  <2>12. SameSizes(f, g) /\ g.failed = f.failed /\ g.reserved = f.reserved
    BY <2>3, <2>8, <2>9 DEF SameSizes, SameSpace
  <2>. QED
    BY <2>6, <2>10, <2>11, <2>12
<1>. QED
  BY <1>1, <1>2

LEMMA ResizedIs ==
  ASSUME NEW f \in FileState, NEW len \in 0..MaxFileSize
  PROVE  LET g == [f EXCEPT !.nodeSize = len]
         IN  /\ g \in FileState /\ SameBlocks(f, g) /\ SameSpace(f, g) /\ g.failed = f.failed
             /\ g.nodeSize = len /\ (Half(f) => Half(g))
<1>. PICK g : g = [f EXCEPT !.nodeSize = len]
  OBVIOUS
<1>1. g \in FileState
  BY DEF FileState
<1>2. SameBlocks(f, g) /\ g.failed = f.failed
  BY DEF FileState, SameBlocks
<1>3. SameSpace(f, g) /\ g.nodeSize = len
  BY DEF FileState, SameSpace
<1>4. Half(f) => Half(g)
  BY <1>1, <1>2, <1>3 DEF Half, Accounted, CountsAreNatural, Balance, SameBlocks, SameSpace
<1>. QED
  BY <1>1, <1>2, <1>3, <1>4

LEMMA NothingToAllocate ==
  ASSUME NEW f, f.pending = {} PROVE BlocksToAllocate(f) = 0
BY IndirectsOfNone, FS_EmptySet DEF BlocksToAllocate, NewIndirects

LEMMA TruncatedIs ==
  ASSUME NEW f \in FileState, Half(f), NEW len \in 0..MaxFileSize
  PROVE  LET g == TruncateInternal(f, len)
         IN  /\ Half(g) /\ g.failed = f.failed
             /\ f.pending = {} /\ f.unsaved = {} /\ f.failed = {} /\ f.reserved \in Nat \ {0} =>
                  Ready(g)
<1>1. CASE ~(len < f.nodeSize)
  <2>1. PICK g : g = [f EXCEPT !.nodeSize = len]
    OBVIOUS
  <2>2. g = TruncateInternal(f, len)
    BY <1>1, <2>1 DEF TruncateInternal
  <2>3. /\ g \in FileState /\ SameBlocks(f, g) /\ SameSpace(f, g) /\ g.failed = f.failed
        /\ Half(g)
    BY <2>1, ResizedIs
  <2>4. ASSUME f.pending = {}, f.unsaved = {}, f.failed = {}, f.reserved \in Nat PROVE Ready(g)
    <3>1. g.pending = {} /\ g.unsaved = {} /\ g.failed = {} /\ g.reserved \in Nat
      BY <2>3, <2>4 DEF SameBlocks, SameSpace
    <3>2. BlocksToAllocate(g) = 0
      BY <3>1, NothingToAllocate
    <3>. QED
      BY <3>1, <3>2 DEF Ready, Covered
  <2>. QED
    BY <2>2, <2>3, <2>4
<1>2. CASE len < f.nodeSize
  <2>1. PICK start \in Nat : start = RoundUp(len) \div BlockSize
    <3>1. len + BlockSize - 1 \in Nat
      BY Constants
    <3>2. RoundUp(len) \in Nat
      BY <3>1, Division, Constants DEF RoundUp
    <3>. QED
      BY <3>2, Division, Constants
  <2>2. PICK g : g = Shrunk(f, start)
    OBVIOUS
  <2>3. /\ g \in FileState /\ Half(g) /\ g.failed = f.failed /\ g.reserved = f.reserved
        /\ f.pending = {} /\ f.unsaved = {} => g.pending = {} /\ g.unsaved = {}
    BY <2>2, ShrunkIs
  <2>4. PICK h : h = IF len % BlockSize = 0 THEN g ELSE TailZeroed(g, len \div BlockSize)
    OBVIOUS
  <2>5. /\ Half(h) /\ h.failed = f.failed /\ h.reserved = f.reserved
        /\ f.pending = {} /\ f.unsaved = {} /\ f.failed = {} =>
             /\ h.unsaved \subseteq h.pending /\ BlocksToAllocate(h) <= 1
             /\ \A b \in h.pending : b * BlockSize < len
    <3>1. CASE len % BlockSize = 0
      <4>1. h = g
        BY <2>4, <3>1
      <4>. QED
        BY <2>3, <4>1, NothingToAllocate
    <3>2. CASE len % BlockSize # 0
      <4>1. PICK b : b = len \div BlockSize
        OBVIOUS
      <4>2. h = TailZeroed(g, b)
        BY <2>4, <3>2, <4>1
      <4>3. b * BlockSize < len
        BY <3>2, <4>1, Division, Constants
      <4>. QED
        BY <2>3, <4>2, <4>3, TailIs
    <3>. QED
      BY <3>1, <3>2
  <2>6. PICK k : k = [h EXCEPT !.nodeSize = len]
    OBVIOUS
  <2>7. k = TruncateInternal(f, len)
    BY <1>2, <2>1, <2>2, <2>4, <2>6 DEF TruncateInternal
  <2>8. /\ k \in FileState /\ SameBlocks(h, k) /\ SameSpace(h, k) /\ k.failed = h.failed
        /\ k.nodeSize = len /\ Half(k)
    <3>1. h \in FileState
      BY <2>5 DEF Half
    <3>. QED
      BY <2>5, <2>6, <3>1, ResizedIs
  <2>9. ASSUME f.pending = {}, f.unsaved = {}, f.failed = {}, f.reserved \in Nat \ {0}
        PROVE  Ready(k)
    <3>1. BlocksToAllocate(k) = BlocksToAllocate(h)
      BY <2>8 DEF BlocksToAllocate, NewIndirects, SameBlocks
    <3>2. h \in FileState /\ BlocksToAllocate(h) \in Nat
      BY <2>5, IndirectTypes DEF Half
    <3>3. BlocksToAllocate(k) <= k.reserved
      BY <2>5, <2>8, <2>9, <3>1, <3>2 DEF SameSpace
    <3>. QED
      BY <2>5, <2>8, <2>9, <3>3 DEF Ready, Covered, SameBlocks
  <2>. QED
    BY <2>5, <2>7, <2>8, <2>9
<1>. QED
  BY <1>1, <1>2

(***************************************************************************)
(* Purging.                                                                 *)
(***************************************************************************)

\* Dropping what is pending asserts that all of it lies below the size; then nothing is
\* left, and the blocks are as they were before the writes.
LEMMA PurgedIs ==
  ASSUME NEW f, Sound(f)
  PROVE  LET g == Purge(f)
         IN  /\ Sound(g) /\ g.pending = {}
             /\ Ready(f) => Ready(g)
<1>0. f \in FileState
  BY DEF Sound
<1>. PICK dropped \in SUBSET FileBlock : dropped = {b \in f.pending : b * BlockSize < f.nodeSize}
  BY <1>0, SizesOf
<1>. PICK n \in Nat : n = Cardinality(dropped \ f.backed)
  BY BlocksAreFinite
<1>. PICK d : d = [f EXCEPT !.pending = @ \ dropped, !.new = @ - n]
  OBVIOUS
<1>1. d \in FileState
  <2>. PICK v \in Int, P \in SUBSET FileBlock : v = f.new /\ P = f.pending \ dropped
    BY <1>0, SizesOf
  <2>. PICK x \in Int : x = v - n
    BY Differences, Zenon
  <2>1. [f EXCEPT !.pending = P, !.new = x] \in FileState
    BY <1>0 DEF FileState
  <2>. QED
    BY <2>1
<1>2. /\ d.backed = f.backed /\ d.indirect = f.indirect /\ d.failed = f.failed
      /\ d.inodeSize = f.inodeSize /\ SameSpace(f, d)
  BY <1>0 DEF FileState, SameSpace
<1>3. PICK all \in BOOLEAN : all <=> f.pending \subseteq dropped
  OBVIOUS
<1>4. PICK e : e = Asserted(d, "GetTotalPending() == 0", all)
  OBVIOUS
<1>5. e = DropCachedWrites(f)
  BY <1>3, <1>4 DEF DropCachedWrites, Asserted
<1>6. /\ e \in FileState /\ SameBlocks(d, e) /\ SameSizes(d, e) /\ SameSpace(d, e)
      /\ (e.failed = {} <=> d.failed = {} /\ all)
  <2>1. "GetTotalPending() == 0" \in Messages
    BY DEF Messages
  <2>. QED
    BY <1>1, <1>4, <2>1, AssertedIs, Zenon
<1>7. PICK s \in 0..MaxFileSize : s = f.inodeSize
  BY <1>0, SizesOf
<1>8. PICK p : p = [e EXCEPT !.pending = {}, !.new = 0, !.nodeSize = s]
  OBVIOUS
<1>9. p \in FileState
  <2>1. PICK P \in SUBSET FileBlock : P = {}
    OBVIOUS
  <2>2. PICK z \in Int : z = 0
    OBVIOUS
  <2>3. [e EXCEPT !.pending = P, !.new = z, !.nodeSize = s] \in FileState
    BY <1>6 DEF FileState
  <2>. QED
    BY <1>8, <2>1, <2>2, <2>3
<1>10. /\ p.pending = {} /\ p.new = 0 /\ p.backed = e.backed /\ p.indirect = e.indirect
       /\ p.failed = e.failed /\ p.nodeSize = s /\ p.inodeSize = e.inodeSize
  BY <1>6, <1>8 DEF FileState
<1>11. SameSpace(e, p)
  BY <1>6, <1>8 DEF FileState, SameSpace
<1>12. Half(p)
  <2>1. SUFFICES ASSUME p.failed = {} PROVE Accounted(p)
    BY <1>9 DEF Half
  <2>2. f.failed = {} /\ Accounted(f)
    BY <1>2, <1>6, <1>10, <2>1 DEF Sound
  <2>3. CountsAreNatural(p) /\ Balance(p) = TotalBlocks
    BY <1>2, <1>6, <1>10, <1>11, <2>2
       DEF Accounted, CountsAreNatural, Balance, SameSpace, SameBlocks
  <2>4. p.new = Cardinality(p.pending \ p.backed)
    BY <1>10, FS_EmptySet
  <2>5. IndirectsOf(p.backed) \subseteq p.indirect
    BY <1>2, <1>6, <1>10, <2>2 DEF Accounted, SameBlocks
  <2>. QED
    BY <2>3, <2>4, <2>5 DEF Accounted
<1>13. PICK q : q = Shrunk(p, 0)
  OBVIOUS
<1>14. /\ q \in FileState /\ SameSizes(p, q) /\ q.failed = p.failed /\ q.reserved = p.reserved
       /\ q.pending = {} /\ Half(q)
  BY <1>9, <1>10, <1>12, <1>13, ShrunkIs
<1>15. PICK U \in SUBSET FileBlock : U = {}
  OBVIOUS
<1>16. PICK g : g = [q EXCEPT !.unsaved = U]
  OBVIOUS
<1>17. g = Purge(f)
  BY <1>5, <1>7, <1>8, <1>13, <1>15, <1>16 DEF Purge
<1>18. g \in FileState
  BY <1>14, <1>16 DEF FileState
<1>19. /\ SameSizes(q, g) /\ g.failed = q.failed /\ g.pending = q.pending /\ g.new = q.new
       /\ g.backed = q.backed /\ g.indirect = q.indirect /\ g.unsaved = {}
  BY <1>14, <1>15, <1>16 DEF FileState, SameSizes
<1>20. SameSpace(q, g)
  BY <1>14, <1>16 DEF FileState, SameSpace
<1>21. Half(g)
  BY <1>14, <1>18, <1>19, <1>20 DEF Half, Accounted, CountsAreNatural, Balance, SameSpace
<1>22. g.nodeSize = g.inodeSize
  BY <1>2, <1>6, <1>7, <1>10, <1>14, <1>19 DEF SameSizes
<1>23. ASSUME Ready(f) PROVE Ready(g)
  <2>1. f.failed = {} /\ f.pending \subseteq dropped
    BY <1>23 DEF Ready, Covered
  <2>2. g.failed = {}
    BY <1>2, <1>3, <1>6, <1>10, <1>14, <1>19, <2>1
  <2>3. g.pending = {} /\ g.unsaved = {} /\ BlocksToAllocate(g) = 0
    BY <1>14, <1>19, NothingToAllocate
  <2>4. g.reserved \in Nat
    BY <1>21, <2>2 DEF Half, Accounted, CountsAreNatural
  <2>. QED
    BY <2>2, <2>3, <2>4 DEF Ready, Covered
<1>. QED
  BY <1>14, <1>17, <1>19, <1>21, <1>22, <1>23 DEF Half, Sound

\* The transaction is cached, or used at once.
LEMMA CachedIs ==
  ASSUME NEW f, Half(f)
  PROVE  /\ Sound(Cached(f))
         /\ Ready(f) => Ready(Cached(f)) /\ (~Cached(f).dirty => Cached(f).pending = {})
<1>1. f \in FileState
  BY DEF Half
<1>. PICK s \in 0..MaxFileSize : s = f.nodeSize
  BY <1>1, SizesOf
<1>2. PICK g : g = [f EXCEPT !.inodeSize = s, !.dirty = TRUE]
  OBVIOUS
<1>3. g \in FileState
  BY <1>1, <1>2 DEF FileState
<1>4. /\ SameBlocks(f, g) /\ g.failed = f.failed /\ g.nodeSize = s /\ g.inodeSize = s
  BY <1>1, <1>2 DEF FileState, SameBlocks
<1>5. SameSpace(f, g)
  BY <1>1, <1>2 DEF FileState, SameSpace
<1>6. g.dirty
  BY <1>1, <1>2 DEF FileState
<1>7. Sound(g) /\ Half(g)
  BY <1>3, <1>4, <1>5
     DEF Half, Sound, Accounted, CountsAreNatural, Balance, SameBlocks, SameSpace
<1>8. Ready(f) => Ready(g)
  BY <1>4, <1>5 DEF Ready, Covered, BlocksToAllocate, NewIndirects, SameBlocks, SameSpace
<1>9. Cached(f) = IF ShouldFlush(g, 0) THEN AllocateAndCommitData(g) ELSE g
  BY <1>2 DEF Cached
<1>. QED
  BY <1>3, <1>6, <1>7, <1>8, <1>9, FlushedIs

(***************************************************************************)
(* The calls.                                                               *)
(***************************************************************************)

\* Where a call that computes g leaves the invariant.
LEMMA RunKeeps ==
  ASSUME CacheInv, NEW g, Sound(g), file' = Ran(g),
         vnode' \in {"open", "closed", "none"}, linked' \in BOOLEAN, writeFailed' \in BOOLEAN,
         ~writeFailed' => Ready(g) /\ (~g.dirty \/ vnode' # "open" => g.pending = {})
  PROVE  CacheInv'
<1>1. g \in FileState /\ file \in FileState /\ CountsAreNatural(file)
  BY DEF Sound, CacheInv
<1>2. CASE g.failed = {}
  <2>1. file' = g
    BY <1>2 DEF Ran
  <2>2. Accounted(g) /\ CountsAreNatural(g) /\ g.nodeSize = g.inodeSize
    BY <1>2 DEF Sound, Accounted
  <2>3. file' \in FileState /\ CountsAreNatural(file') /\ Accounted(file')
        /\ file'.nodeSize = file'.inodeSize /\ file'.failed = {}
    BY <1>1, <1>2, <2>1, <2>2
  <2>4. ~writeFailed' => Covered(file')
    BY <2>1 DEF Ready
  <2>5. ~writeFailed' => (~file'.dirty \/ vnode' # "open" => file'.pending = {})
    BY <2>1
  <2>. QED
    BY <2>3, <2>4, <2>5 DEF CacheInv
<1>3. CASE g.failed # {}
  <2>1. /\ file' \in FileState /\ CountsAreNatural(file') /\ file'.failed # {}
    BY <1>1, <1>3, RanIs
  <2>2. writeFailed'
    BY <1>3 DEF Ready
  <2>. QED
    BY <2>1, <2>2 DEF CacheInv
<1>. QED
  BY <1>2, <1>3

\* What the calls find.
LEMMA Found ==
  ASSUME CacheInv, file.failed = {}
  PROVE  /\ file \in FileState /\ Sound(file) /\ Half(file)
         /\ vnode \in {"open", "closed", "none"} /\ linked \in BOOLEAN /\ writeFailed \in BOOLEAN
         /\ ~writeFailed => Ready(file) /\ (~file.dirty \/ vnode # "open" => file.pending = {})
BY DEF CacheInv, Sound, Half, Ready

LEMMA WriteKeeps ==
  ASSUME CacheInv, NEW off \in 0..(MaxFileSize - 1), NEW len \in 1..(MaxFileSize - off),
         NEW done \in Ends(off, len), Write(off, len, done)
  PROVE  CacheInv'
<1>1. file.failed = {} /\ vnode = "open"
  BY DEF Write, MayWrite
<1>2. /\ file \in FileState /\ Sound(file) /\ Half(file)
      /\ vnode \in {"open", "closed", "none"} /\ linked \in BOOLEAN /\ writeFailed \in BOOLEAN
      /\ ~writeFailed => Ready(file) /\ (~file.dirty \/ vnode # "open" => file.pending = {})
  BY <1>1, Found
<1>3. /\ off \in Nat /\ len \in Nat \ {0} /\ off + len <= MaxFileSize
      /\ done \in Nat /\ done <= len /\ off + done \in 0..MaxFileSize
  BY Constants DEF Ends
<1>4. PICK B \in SUBSET FileBlock : B = BlocksOf(off, len)
  BY <1>3, FileBlocks
<1>5. PICK C \in SUBSET FileBlock : C = BlocksOf(off, done)
  BY <1>3, FileBlocks
<1>6. PICK f : f = IF ShouldFlush(file, RequiredForDirtyCache(file, B))
                   THEN FlushCachedWrites(file) ELSE file
  OBVIOUS
<1>7. /\ Sound(f) /\ f \in FileState /\ Half(f)
      /\ ~writeFailed => Ready(f) /\ (~f.dirty => f.pending = {})
  BY <1>2, <1>6, FlushCachedIs DEF Sound, Half
<1>8. PICK n \in Nat : /\ n = RequiredForDirtyCache(f, B)
                       /\ B \subseteq f.pending => n = 0
                       /\ ~(B \subseteq f.pending) =>
                            n = Cardinality(B \ f.pending) + Cardinality(IndirectsOf(B))
  <2>1. PICK P \in SUBSET FileBlock : P = f.pending
    BY <1>7, SizesOf
  <2>2. IndirectsOf(B) \in SUBSET FileIndirect
    BY IndirectsAreMonotone DEF FileIndirect
  <2>3. PICK i \in Nat : i = Cardinality(IndirectsOf(B))
    BY <2>2, IndirectsAreFinite
  <2>4. /\ Cardinality(B) \in Nat /\ Cardinality(B \ P) \in Nat /\ Cardinality(B \intersect P) \in Nat
        /\ Cardinality(B) = Cardinality(B \ P) + Cardinality(B \intersect P)
    BY BlocksAreFinite, Count
  <2>. QED
    BY <2>1, <2>3, <2>4 DEF RequiredForDirtyCache, GetRequiredBlockCount
<1>9. CASE ~MayReserve(f, n)
  <2>1. file' = Ran(f) /\ writeFailed' = writeFailed /\ vnode' = vnode /\ linked' = linked
    BY <1>4, <1>6, <1>8, <1>9 DEF Write
  <2>. QED
    BY <1>1, <1>2, <1>7, <2>1, RunKeeps
<1>10. CASE MayReserve(f, n)
  <2>1. PICK r : r = Reserved(f, n)
    OBVIOUS
  <2>2. PICK g : g = Marked(r, B)
    OBVIOUS
  <2>3. /\ file' = Ran(IF done = 0 THEN Cancelled(g) ELSE Cached(Copied(g, off, done)))
        /\ writeFailed' = (writeFailed \/ done < len) /\ vnode' = vnode /\ linked' = linked
    BY <1>4, <1>6, <1>8, <1>10, <2>1, <2>2 DEF Write
  <2>4. /\ r \in FileState /\ Half(r) /\ SameBlocks(f, r) /\ SameSizes(f, r) /\ r.failed = f.failed
        /\ r.reserved = f.reserved + n
    BY <1>7, <1>10, <2>1, ReservedKeeps
  <2>5. /\ g \in FileState /\ Half(g) /\ SameSizes(r, g) /\ g.failed = r.failed
        /\ g.indirect = r.indirect /\ g.unsaved = r.unsaved /\ g.pending = r.pending \union B
        /\ g.reserved = r.reserved
    BY <2>2, <2>4, MarkedIs, MarkedKeeps DEF SameSpace
  <2>6. CASE done = 0
    <3>1. file' = Ran(Cancelled(g)) /\ writeFailed'
      <4>1. done < len
        BY <1>3, <2>6
      <4>2. writeFailed'
        BY <2>3, <4>1, Zenon
      <4>. QED
        BY <2>3, <2>6, <4>2
    <3>2. Sound(Cancelled(g))
      <4>1. Sound(g)
        BY <1>7, <2>4, <2>5 DEF Sound, Half, SameSizes
      <4>. QED
        BY <2>5, <4>1, CancelledKeeps
    <3>. QED
      BY <1>1, <1>2, <2>3, <3>1, <3>2, RunKeeps
  <2>7. CASE done # 0
    <3>1. PICK c : c = Copied(g, off, done)
      OBVIOUS
    <3>2. /\ Half(c) /\ c.pending = g.pending /\ c.indirect = g.indirect
          /\ c.reserved = g.reserved /\ c.failed = g.failed
          /\ c.unsaved = g.unsaved \union C
          /\ c.nodeSize = IF off + done > g.nodeSize THEN off + done ELSE g.nodeSize
      <4>1. PICK U \in SUBSET FileBlock : U = g.unsaved \union C
        BY <2>5, SizesOf
      <4>2. PICK s \in 0..MaxFileSize :
              s = IF off + done > g.nodeSize THEN off + done ELSE g.nodeSize
        BY <1>3, <2>5, SizesOf
      <4>3. c = [g EXCEPT !.unsaved = U, !.nodeSize = s]
        BY <1>5, <2>5, <3>1, <4>1, <4>2 DEF Copied, FileState
      <4>4. c \in FileState
        BY <2>5, <4>3 DEF FileState
      <4>5. SameSpace(g, c) /\ c.nodeSize = s
        BY <2>5, <4>3 DEF FileState, SameSpace
      <4>6. /\ c.pending = g.pending /\ c.indirect = g.indirect /\ c.failed = g.failed
            /\ c.backed = g.backed /\ c.new = g.new /\ c.unsaved = U
        BY <2>5, <4>3 DEF FileState
      <4>7. Half(c)
        BY <2>5, <4>4, <4>5, <4>6
           DEF Half, Accounted, CountsAreNatural, Balance, SameSpace
      <4>. QED
        BY <4>1, <4>2, <4>5, <4>6, <4>7 DEF SameSpace
    <3>3. ASSUME ~writeFailed' PROVE Ready(c)
      <4>1. ~writeFailed /\ done = len /\ Ready(f)
        <5>1. ~writeFailed /\ ~(done < len)
          BY <2>3, <3>3, Zenon
        <5>2. done = len
          BY <1>3, <5>1
        <5>. QED
          BY <1>7, <5>1, <5>2
      <4>2. c.failed = {}
        BY <2>4, <2>5, <3>2, <4>1 DEF Ready
      <4>3. c.unsaved \subseteq c.pending
        BY <1>4, <1>5, <2>4, <2>5, <3>2, <4>1 DEF Ready, Covered, SameBlocks
      <4>4. \A b \in c.pending : b * BlockSize < c.nodeSize
        <5>1. f.nodeSize \in Nat /\ g.nodeSize = f.nodeSize
          BY <1>7, <2>4, <2>5, SizesOf DEF SameSizes
        <5>2. \A b \in f.pending : b * BlockSize \in Nat /\ b * BlockSize < f.nodeSize
          BY <1>7, <4>1, SizesOf, FileBlocks DEF Ready, Covered
        <5>3. \A b \in B : b * BlockSize \in Nat /\ b * BlockSize < off + done
          BY <1>4, <4>1, FileBlocks DEF BlocksOf
        <5>4. c.pending = f.pending \union B
          BY <2>4, <2>5, <3>2 DEF SameBlocks
        <5>. QED
          BY <1>3, <3>2, <5>1, <5>2, <5>3, <5>4
      <4>5. BlocksToAllocate(c) <= c.reserved
        <5>1. c.pending = f.pending \union B /\ c.indirect = f.indirect
              /\ c.reserved = f.reserved + n
          BY <2>4, <2>5, <3>2 DEF SameBlocks
        <5>2. BlocksToAllocate(f) \in Nat /\ BlocksToAllocate(f) <= f.reserved /\ f.reserved \in Int
          BY <1>7, <4>1, IndirectTypes, SizesOf DEF Ready, Covered
        <5>3. CASE B \subseteq f.pending
          <6>1. f.pending \union B = f.pending
            BY <5>3
          <6>. QED
            <7>1. BlocksToAllocate(c) = BlocksToAllocate(f)
              BY <5>1, <6>1 DEF BlocksToAllocate, NewIndirects
            <7>2. n = 0
              BY <1>8, <5>3
            <7>. QED
              BY <5>1, <5>2, <7>1, <7>2
        <5>4. CASE ~(B \subseteq f.pending)
          <6>1. PICK P \in SUBSET FileBlock, I \in SUBSET FileIndirect :
                  P = f.pending /\ I = f.indirect
            BY <1>7, SizesOf
          <6>2. PICK N \in SUBSET FileIndirect, M \in SUBSET FileIndirect :
                  N = IndirectsOf(P) /\ M = IndirectsOf(B)
            BY IndirectsAreMonotone DEF FileIndirect
          <6>3. BlocksToAllocate(f) = Cardinality(P) + Cardinality(N \ I)
            BY <6>1, <6>2 DEF BlocksToAllocate, NewIndirects
          <6>4. BlocksToAllocate(c) = Cardinality(B \union P) + Cardinality((M \union N) \ I)
            <7>1. P \union B = B \union P /\ N \union M = M \union N
              OBVIOUS
            <7>2. IndirectsOf(P \union B) = N \union M
              BY <6>2, IndirectsOfBoth
            <7>. QED
              BY <5>1, <6>1, <7>1, <7>2 DEF BlocksToAllocate, NewIndirects
          <6>5. n = Cardinality(B \ P) + Cardinality(M)
            BY <1>8, <5>4, <6>1, <6>2
          <6>6. Cardinality(B \union P) = Cardinality(P) + Cardinality(B \ P)
                /\ Cardinality(P) \in Nat /\ Cardinality(B \ P) \in Nat
            BY BlocksAreFinite, Count
          <6>7. Cardinality((M \union N) \ I) <= Cardinality(N \ I) + Cardinality(M)
                /\ Cardinality(M) \in Nat /\ Cardinality(N \ I) \in Nat
                /\ Cardinality((M \union N) \ I) \in Nat
            BY IndirectsAreFinite, CountUnion
          <6>. QED
            BY <5>1, <5>2, <6>3, <6>4, <6>5, <6>6, <6>7
        <5>. QED
          BY <5>3, <5>4
      <4>. QED
        BY <4>2, <4>3, <4>4, <4>5 DEF Ready, Covered
    <3>4. /\ Sound(Cached(c))
          /\ Ready(c) => Ready(Cached(c)) /\ (~Cached(c).dirty => Cached(c).pending = {})
      BY <3>2, CachedIs
    <3>5. file' = Ran(Cached(c)) /\ writeFailed' \in BOOLEAN
      BY <1>2, <2>3, <2>7, <3>1
    <3>. QED
      BY <1>1, <1>2, <2>3, <3>3, <3>4, <3>5, RunKeeps
  <2>. QED
    BY <2>6, <2>7
<1>. QED
  BY <1>9, <1>10

LEMMA TruncateKeeps ==
  ASSUME CacheInv, NEW len \in 0..MaxFileSize, Truncate(len) PROVE CacheInv'
<1>1. file.failed = {} /\ vnode = "open"
  BY DEF Truncate, MayWrite
<1>2. /\ file \in FileState /\ Sound(file)
      /\ vnode \in {"open", "closed", "none"} /\ linked \in BOOLEAN /\ writeFailed \in BOOLEAN
      /\ ~writeFailed => Ready(file) /\ (~file.dirty \/ vnode # "open" => file.pending = {})
  BY <1>1, Found
<1>3. PICK f : f = FlushedFirst(file)
  OBVIOUS
<1>4. /\ f \in FileState /\ Sound(f) /\ Half(f)
      /\ ~writeFailed => Ready(f) /\ f.pending = {}
  BY <1>2, <1>3, FlushCachedIs DEF FlushedFirst, Sound, Half
<1>5. /\ vnode' = vnode /\ linked' = linked /\ writeFailed' = writeFailed
  BY DEF Truncate
<1>6. CASE ~MayReserve(f, 1)
  <2>1. file' = Ran(f)
    BY <1>3, <1>6 DEF Truncate
  <2>. QED
    BY <1>1, <1>2, <1>4, <1>5, <2>1, RunKeeps
<1>7. CASE MayReserve(f, 1)
  <2>1. PICK r : r = Reserved(f, 1)
    OBVIOUS
  <2>2. /\ r \in FileState /\ Half(r) /\ SameBlocks(f, r) /\ r.failed = f.failed
        /\ r.reserved = f.reserved + 1
    BY <1>4, <1>7, <2>1, ReservedKeeps
  <2>3. PICK g : g = TruncateInternal(r, len)
    OBVIOUS
  <2>4. ASSUME ~writeFailed
        PROVE  r.pending = {} /\ r.unsaved = {} /\ r.failed = {} /\ r.reserved \in Nat \ {0}
    <3>1. f.pending = {} /\ f.unsaved = {} /\ f.failed = {} /\ f.reserved \in Nat
      BY <1>4, <2>4 DEF Ready, Covered, Sound, Accounted, CountsAreNatural
    <3>. QED
      BY <2>2, <3>1 DEF SameBlocks
  <2>5. g \in FileState /\ Half(g) /\ (~writeFailed => Ready(g))
    BY <2>2, <2>3, <2>4, TruncatedIs DEF Half
  <2>6. PICK h : h = AllocateAndCommitData(g)
    OBVIOUS
  <2>7. Sound(h) /\ h.pending = {} /\ (~writeFailed => Ready(h))
    BY <2>5, <2>6, FlushedIs
  <2>8. file' = Ran(h)
    BY <1>3, <1>7, <2>1, <2>3, <2>6 DEF Truncate
  <2>. QED
    BY <1>1, <1>2, <1>5, <2>7, <2>8, RunKeeps
<1>. QED
  BY <1>6, <1>7

LEMMA SyncKeeps == ASSUME CacheInv, Sync PROVE CacheInv'
<1>1. file.failed = {} /\ file' = Ran(FlushCachedWrites(file))
      /\ vnode' = vnode /\ linked' = linked /\ writeFailed' = writeFailed
  BY DEF Sync
<1>2. /\ file \in FileState /\ Sound(file)
      /\ vnode \in {"open", "closed", "none"} /\ linked \in BOOLEAN /\ writeFailed \in BOOLEAN
      /\ ~writeFailed => Ready(file) /\ (~file.dirty \/ vnode # "open" => file.pending = {})
  BY <1>1, Found
<1>3. PICK f : f = FlushCachedWrites(file)
  OBVIOUS
<1>4. Sound(f) /\ (~writeFailed => Ready(f) /\ f.pending = {})
  BY <1>2, <1>3, FlushCachedIs
<1>. QED
  BY <1>1, <1>2, <1>3, <1>4, RunKeeps

LEMMA EntryDoneKeeps == ASSUME CacheInv, EntryDone PROVE CacheInv'
<1>1. /\ file.failed = {} /\ file' = [file EXCEPT !.free = @ + file.kept, !.kept = 0]
      /\ vnode' = vnode /\ linked' = linked /\ writeFailed' = writeFailed
  BY DEF EntryDone
<1>2. /\ file \in FileState /\ Sound(file) /\ Accounted(file)
      /\ vnode \in {"open", "closed", "none"} /\ linked \in BOOLEAN /\ writeFailed \in BOOLEAN
      /\ ~writeFailed => Ready(file) /\ (~file.dirty \/ vnode # "open" => file.pending = {})
  BY <1>1, Found DEF Sound
<1>3. /\ file.free \in Nat /\ file.kept \in Nat /\ file.reserved \in Nat
  BY <1>2 DEF Accounted, CountsAreNatural
<1>4. PICK x \in Int, z \in Int : x = file.free + file.kept /\ z = 0
  BY <1>3
<1>5. PICK g : g = [file EXCEPT !.free = x, !.kept = z]
  OBVIOUS
<1>6. g \in FileState
  BY <1>2, <1>5 DEF FileState
<1>7. SameBlocks(file, g) /\ SameSizes(file, g) /\ g.failed = {}
  BY <1>1, <1>2, <1>5 DEF FileState, SameBlocks, SameSizes
<1>8. g.free = x /\ g.kept = z /\ g.reserved = file.reserved
  BY <1>2, <1>5 DEF FileState
<1>9. g.dirty <=> file.dirty
  BY <1>2, <1>5 DEF FileState
<1>10. Accounted(g)
  BY <1>2, <1>3, <1>4, <1>6, <1>7, <1>8, SpaceMoves
<1>11. Sound(g)
  BY <1>2, <1>6, <1>7, <1>10, <1>1 DEF Sound, SameSizes
<1>12. Ready(file) => Ready(g)
  BY <1>7, <1>8 DEF Ready, Covered, BlocksToAllocate, NewIndirects, SameBlocks, SameSizes
<1>13. file' = Ran(g)
  BY <1>1, <1>4, <1>5, <1>7 DEF Ran
<1>14. g.pending = file.pending
  BY <1>7 DEF SameBlocks
<1>. QED
  BY <1>1, <1>2, <1>9, <1>11, <1>12, <1>13, <1>14, RunKeeps

LEMMA CloseKeeps == ASSUME CacheInv, Close PROVE CacheInv'
<1>1. /\ file.failed = {} /\ file' = Ran(Closed(file)) /\ vnode' = "closed"
      /\ linked' = linked /\ writeFailed' = writeFailed
  BY DEF Close, MayWrite
<1>2. /\ Sound(file) /\ linked \in BOOLEAN /\ writeFailed \in BOOLEAN
      /\ ~writeFailed => Ready(file) /\ (~file.dirty \/ vnode # "open" => file.pending = {})
  BY <1>1, Found
<1>3. PICK f : f = Closed(file)
  OBVIOUS
<1>4. Sound(f) /\ (~writeFailed => Ready(f) /\ f.pending = {})
  BY <1>2, <1>3, FlushCachedIs, PurgedIs DEF Closed
<1>. QED
  BY <1>1, <1>2, <1>3, <1>4, RunKeeps

LEMMA UnlinkKeeps == ASSUME CacheInv, Unlink PROVE CacheInv'
<1>1. /\ file.failed = {} /\ file' = IF vnode = "open" THEN file ELSE Ran(Purge(file))
      /\ linked' = FALSE /\ vnode' = vnode /\ writeFailed' = writeFailed
  BY DEF Unlink
<1>2. /\ Sound(file) /\ vnode \in {"open", "closed", "none"} /\ writeFailed \in BOOLEAN
      /\ ~writeFailed => Ready(file) /\ (~file.dirty \/ vnode # "open" => file.pending = {})
  BY <1>1, Found
<1>3. CASE vnode = "open"
  <2>1. file' = Ran(file)
    BY <1>1, <1>3 DEF Ran
  <2>. QED
    BY <1>1, <1>2, <2>1, RunKeeps
<1>4. CASE vnode # "open"
  <2>1. PICK f : f = Purge(file)
    OBVIOUS
  <2>2. Sound(f) /\ (~writeFailed => Ready(f) /\ f.pending = {})
    BY <1>2, <2>1, PurgedIs
  <2>3. file' = Ran(f)
    BY <1>1, <1>4, <2>1
  <2>. QED
    BY <1>1, <1>2, <2>2, <2>3, RunKeeps
<1>. QED
  BY <1>3, <1>4

LEMMA DestroyKeeps == ASSUME CacheInv, Destroy PROVE CacheInv'
<1>1. /\ file.failed = {} /\ vnode = "closed" /\ vnode' = "none"
      /\ linked' = linked /\ writeFailed' = writeFailed
  BY DEF Destroy
<1>2. /\ file \in FileState /\ Sound(file) /\ linked \in BOOLEAN /\ writeFailed \in BOOLEAN
      /\ ~writeFailed => Ready(file) /\ file.pending = {}
      /\ file.nodeSize = file.inodeSize
  BY <1>1, Found DEF Sound
<1>3. PICK c : c = Cancelled(file)
  OBVIOUS
<1>4. /\ c \in FileState /\ SameBlocks(file, c) /\ SameSizes(file, c) /\ c.failed = file.failed
      /\ c.reserved = 0 /\ Sound(c)
  BY <1>2, <1>3, CancelledKeeps
<1>5. PICK clean \in BOOLEAN : clean <=> file.pending = {}
  OBVIOUS
<1>6. PICK saved \in BOOLEAN : saved <=> file.nodeSize = file.inodeSize
  OBVIOUS
<1>7. PICK a : a = Asserted(c, "File was found dirty", clean)
  OBVIOUS
<1>8. PICK g : g = Asserted(a, "pending updates to the inode size", saved)
  OBVIOUS
<1>9. file' = Ran(g)
  <2>1. a = Asserted(c, "File was found dirty", file.pending = {})
    BY <1>5, <1>7 DEF Asserted
  <2>2. g = Asserted(a, "pending updates to the inode size", file.nodeSize = file.inodeSize)
    BY <1>6, <1>8 DEF Asserted
  <2>. QED
    BY <1>3, <2>1, <2>2 DEF Destroy
<1>10. /\ a \in FileState /\ SameBlocks(c, a) /\ SameSizes(c, a) /\ SameSpace(c, a)
       /\ (a.failed = {} <=> c.failed = {} /\ clean)
  <2>1. "File was found dirty" \in Messages
    BY DEF Messages
  <2>. QED
    BY <1>4, <1>7, <2>1, AssertedIs, Zenon
<1>11. /\ g \in FileState /\ SameBlocks(a, g) /\ SameSizes(a, g) /\ SameSpace(a, g)
       /\ (g.failed = {} <=> a.failed = {} /\ saved)
  <2>1. "pending updates to the inode size" \in Messages
    BY DEF Messages
  <2>. QED
    BY <1>8, <1>10, <2>1, AssertedIs, Zenon
<1>12. SameBlocks(c, g) /\ SameSizes(c, g) /\ SameSpace(c, g)
  BY <1>10, <1>11 DEF SameBlocks, SameSizes, SameSpace
<1>13. Sound(g)
  <2>1. ASSUME g.failed = {} PROVE Accounted(g) /\ g.nodeSize = g.inodeSize
    <3>1. Accounted(c) /\ c.nodeSize = c.inodeSize
      BY <1>4, <1>10, <1>11, <2>1 DEF Sound
    <3>. QED
      BY <1>12, <3>1
         DEF Accounted, CountsAreNatural, Balance, SameBlocks, SameSizes, SameSpace
  <2>. QED
    BY <1>11, <2>1 DEF Sound
<1>14. ASSUME ~writeFailed PROVE Ready(g) /\ g.pending = {}
  <2>1. file.pending = {} /\ file.unsaved = {} /\ file.failed = {}
    BY <1>2, <1>14 DEF Ready, Covered
  <2>2. g.failed = {}
    BY <1>1, <1>2, <1>4, <1>5, <1>6, <1>10, <1>11, <2>1
  <2>3. g.pending = {} /\ g.unsaved = {} /\ g.reserved = 0
    BY <1>4, <1>12, <2>1 DEF SameBlocks, SameSpace
  <2>4. BlocksToAllocate(g) = 0
    BY <2>3, NothingToAllocate
  <2>. QED
    BY <2>2, <2>3, <2>4 DEF Ready, Covered
<1>. QED
  BY <1>1, <1>2, <1>9, <1>13, <1>14, RunKeeps

LEMMA OpenKeeps == ASSUME CacheInv, Open PROVE CacheInv'
<1>1. /\ file.failed = {} /\ vnode # "open" /\ vnode' = "open" /\ file' = file
      /\ linked' = linked /\ writeFailed' = writeFailed
  BY DEF Open
<1>2. /\ Sound(file) /\ linked \in BOOLEAN /\ writeFailed \in BOOLEAN
      /\ ~writeFailed => Ready(file) /\ file.pending = {}
  BY <1>1, Found
<1>3. file' = Ran(file)
  BY <1>1 DEF Ran
<1>. QED
  BY <1>1, <1>2, <1>3, RunKeeps

LEMMA CreateKeeps == ASSUME CacheInv, Create PROVE CacheInv'
<1>1. /\ file.failed = {} /\ vnode # "open" /\ vnode' = "open" /\ linked' = TRUE
      /\ file' = [file EXCEPT !.nodeSize = 0, !.inodeSize = 0] /\ writeFailed' = writeFailed
  BY DEF Create
<1>2. /\ file \in FileState /\ Sound(file) /\ Accounted(file) /\ writeFailed \in BOOLEAN
      /\ ~writeFailed => Ready(file) /\ file.pending = {}
  BY <1>1, Found DEF Sound
<1>3. PICK s \in 0..MaxFileSize : s = 0
  BY Constants
<1>4. PICK g : g = [file EXCEPT !.nodeSize = s, !.inodeSize = s]
  OBVIOUS
<1>5. g \in FileState
  BY <1>2, <1>4 DEF FileState
<1>6. SameBlocks(file, g) /\ g.nodeSize = s /\ g.inodeSize = s /\ g.failed = {}
  BY <1>1, <1>2, <1>4 DEF FileState, SameBlocks
<1>7. SameSpace(file, g)
  BY <1>2, <1>4 DEF FileState, SameSpace
<1>8. Accounted(g)
  BY <1>2, <1>6, <1>7
     DEF Accounted, CountsAreNatural, Balance, SameBlocks, SameSpace
<1>9. Sound(g)
  BY <1>5, <1>6, <1>8 DEF Sound
<1>10. ASSUME ~writeFailed PROVE Ready(g) /\ g.pending = {}
  <2>1. g.pending = {} /\ g.unsaved = {} /\ BlocksToAllocate(g) <= g.reserved
    BY <1>2, <1>6, <1>7, <1>10
       DEF Ready, Covered, BlocksToAllocate, NewIndirects, SameBlocks, SameSpace
  <2>. QED
    BY <1>6, <2>1 DEF Ready, Covered
<1>11. file' = Ran(g)
  BY <1>1, <1>3, <1>4, <1>6 DEF Ran
<1>. QED
  BY <1>1, <1>2, <1>9, <1>10, <1>11, RunKeeps

LEMMA CacheInvInit == Init => CacheInv
<1>. SUFFICES ASSUME Init PROVE CacheInv
  OBVIOUS
<1>1. file = New /\ vnode = "open" /\ linked = TRUE /\ writeFailed = FALSE
  BY DEF Init
<1>2. TotalBlocks \in Nat /\ 0 \in 0..MaxFileSize
  BY Constants
<1>3. New \in FileState
  BY <1>2 DEF New, FileState
<1>4. /\ New.pending = {} /\ New.new = 0 /\ New.backed = {} /\ New.indirect = {}
      /\ New.unsaved = {} /\ New.failed = {} /\ New.nodeSize = 0 /\ New.inodeSize = 0
      /\ New.free = TotalBlocks /\ New.kept = 0 /\ New.reserved = 0
  BY DEF New
<1>5. CountsAreNatural(New)
  BY <1>2, <1>4 DEF CountsAreNatural
<1>6. Accounted(New)
  BY <1>2, <1>4, <1>5, FS_EmptySet, IndirectsOfNone DEF Accounted, Balance
<1>7. Covered(New)
  BY <1>4, NothingToAllocate DEF Covered
<1>. QED
  BY <1>1, <1>3, <1>4, <1>5, <1>6, <1>7 DEF CacheInv

LEMMA CacheInvStep == CacheInv /\ [Next]_vars => CacheInv'
<1>. SUFFICES ASSUME CacheInv, [Next]_vars PROVE CacheInv'
  OBVIOUS
<1>1. CASE \E off \in 0..(MaxFileSize - 1) : \E len \in 1..(MaxFileSize - off) :
             \E done \in Ends(off, len) : Write(off, len, done)
  BY <1>1, WriteKeeps
<1>2. CASE \E len \in 0..MaxFileSize : Truncate(len)
  BY <1>2, TruncateKeeps
<1>3. CASE Sync
  BY <1>3, SyncKeeps
<1>4. CASE EntryDone
  BY <1>4, EntryDoneKeeps
<1>5. CASE Close
  BY <1>5, CloseKeeps
<1>6. CASE Unlink
  BY <1>6, UnlinkKeeps
<1>7. CASE Destroy
  BY <1>7, DestroyKeeps
<1>8. CASE Open
  BY <1>8, OpenKeeps
<1>9. CASE Create
  BY <1>9, CreateKeeps
<1>10. CASE UNCHANGED vars
  BY <1>10 DEF vars, CacheInv
<1>. QED
  BY <1>1, <1>2, <1>3, <1>4, <1>5, <1>6, <1>7, <1>8, <1>9, <1>10 DEF Next

LEMMA CacheInvHolds == Spec => []CacheInv
BY CacheInvInit, CacheInvStep, PTL DEF Spec

(***************************************************************************)
(* The properties.                                                          *)
(***************************************************************************)

\* What is reserved suffices for what is flushed (allocator_reservation.cc:38), no pending
\* block lies beyond the size (file.cc:116), and a vnode that goes away has nothing
\* pending (file_target.cc:28, 142), whatever the sizes of the file and of the volume, as
\* long as no write has failed.
THEOREM AssertionsNeverFail == Spec => []AssertionsHold
<1>1. CacheInv => AssertionsHold
  <2>. SUFFICES ASSUME CacheInv PROVE AssertionsHold
    OBVIOUS
  <2>1. /\ file.pending \in SUBSET FileBlock /\ file.backed \in SUBSET FileBlock
        /\ file.unsaved \in SUBSET FileBlock /\ file.indirect \in SUBSET FileIndirect
        /\ file.nodeSize \in 0..MaxFileSize /\ file.inodeSize \in 0..MaxFileSize
    BY SizesOf DEF CacheInv
  <2>2. {file.new, file.reserved, file.free, file.kept} \subseteq Nat
    BY DEF CacheInv, CountsAreNatural
  <2>3. {file.dirty, linked, writeFailed} \subseteq BOOLEAN
    <3>1. file.dirty \in BOOLEAN /\ linked \in BOOLEAN /\ writeFailed \in BOOLEAN
      BY Zenon DEF CacheInv, FileState
    <3>. QED
      BY <3>1, Zenon
  <2>4. TypeOK
    BY <2>1, <2>2, <2>3 DEF TypeOK, FileIndirect, CacheInv
  <2>. QED
    BY <2>4 DEF AssertionsHold, CacheInv
<1>. QED
  BY <1>1, CacheInvHolds, PTL

\* A file that is not dirty, or has a name and is not open, has nothing left to store:
\* Sync and Close skip it (minfs_target.cc:34, vnode.cc:371).
THEOREM CleanFilesAreStored == Spec => []CleanIsStored
<1>1. CacheInv => CleanIsStored
  BY DEF CacheInv, CleanIsStored, Covered
<1>. QED
  BY <1>1, CacheInvHolds, PTL

\* Every block has one place and new_blocks_ is exact (vnode_allocation.h:66-72), also
\* after writes have failed.
THEOREM EveryBlockHasAPlace == Spec => []BlocksAccountedFor
<1>1. CacheInv => BlocksAccountedFor
  BY DEF CacheInv, BlocksAccountedFor, Accounted, Balance
<1>. QED
  BY <1>1, CacheInvHolds, PTL

================================================================================
