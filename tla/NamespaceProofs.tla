---------------------------- MODULE NamespaceProofs ----------------------------
(***************************************************************************)
(* Theorems about names, links and unlinked inodes, for any number of       *)
(* inodes and names, of times a file is open, of journal entries and of     *)
(* crashes.                                                                 *)
(***************************************************************************)
EXTENDS Namespace, FiniteSetTheorems, WellFoundedInduction, TLAPS

(***************************************************************************)
(* The inductive invariant.  What the properties say of every directory and *)
(* every inode of the list by walking up or along, it says step by step: a   *)
(* directory is deeper than its parent, an inode of the list ranks before   *)
(* the next.  Since a crash makes the volume on disk the one in memory, and *)
(* what is on disk is what memory was some entries ago, it says so of every  *)
(* volume between the two.                                                  *)
(***************************************************************************)
LinkedDirs(v) == {i \in Linked(v) : IsDir(v, i)}

NamesAreLinked(v) ==
  \A d \in Ino, n \in Name : v.entry[d][n] # None =>
    d \in LinkedDirs(v) /\ v.entry[d][n] \in Linked(v) \ {Root}

OnePlace(v) ==
  \A i \in LinkedDirs(v) \ {Root} : \E n \in Name : NamesOf(v, i) = {<<v.parent[i], n>>}

Counted(v) ==
  \A i \in Linked(v) :
    IF IsDir(v, i)
    THEN /\ v.inode[i].links = 2 + Cardinality(Subdirectories(v, i))
         /\ v.inode[i].dirents = 2 + Cardinality(Children(v, i))
    ELSE v.inode[i].links = Cardinality(NamesOf(v, i))

Deepens(v, depth) ==
  \A i \in LinkedDirs(v) \ {Root} : depth[v.parent[i]] < depth[i]

Tree(v) ==
  /\ Root \in LinkedDirs(v)
  /\ NamesAreLinked(v) /\ OnePlace(v) /\ Counted(v)
  /\ \E depth \in [Ino -> Nat] : Deepens(v, depth)

Last(v, i) == v.inode[i].last
NextOf(v, i) == v.inode[i].next

Ends(v) ==
  /\ v.head = None <=> v.tail = None
  /\ v.head # None => v.head \in Unlinked(v) /\ v.tail \in Unlinked(v)

Chained(v) ==
  \A i \in Unlinked(v) :
    /\ Last(v, i) = None <=> i = v.head
    /\ NextOf(v, i) = None <=> i = v.tail
    /\ NextOf(v, i) # None => NextOf(v, i) \in Unlinked(v) /\ Last(v, NextOf(v, i)) = i
    /\ Last(v, i) # None => Last(v, i) \in Unlinked(v) /\ NextOf(v, Last(v, i)) = i

Unchained(v) == \A i \in Ino \ Unlinked(v) : Last(v, i) = None /\ NextOf(v, i) = None

Ranks(v, rank) ==
  \A i \in Unlinked(v) : NextOf(v, i) # None => rank[i] < rank[NextOf(v, i)]

List(v) ==
  /\ Ends(v) /\ Chained(v) /\ Unchained(v)
  /\ \E rank \in [Ino -> Nat] : Ranks(v, rank)

Good(v) == VolumeType(v) /\ Tree(v) /\ List(v)

History(h) ==
  /\ h[0] = disk /\ h[Len(entries)] = vol
  /\ \A k \in 1..Len(entries) : h[k] = Apply(entries[k], h[k - 1])
  /\ \A k \in 0..Len(entries) : Good(h[k])

Counters ==
  /\ open \in [Ino -> 0..MaxOpen]
  /\ entries \in Seq({Entry(v) : v \in Volume}) /\ Len(entries) <= MaxEntries
  /\ mounting \in BOOLEAN
  /\ crashes \in 0..MaxCrashes

OpenInv ==
  /\ \A i \in Ino : open[i] > 0 => i \in Allocated(vol)
  /\ ~mounting => \A i \in Unlinked(vol) : open[i] > 0
  /\ mounting => vol.head # None /\ \A i \in Ino : open[i] = 0

Inv == Counters /\ (\E h : History(h)) /\ OpenInv

(***************************************************************************)
(* Functions defined by recursion on 0..N, and least counterexamples.       *)
(***************************************************************************)
LessThan == {p \in Nat \X Nat : p[1] < p[2]}

\* A set of numbers that is not empty has a least one.
LEMMA LeastOf ==
  ASSUME NEW S \in SUBSET Nat, S # {}
  PROVE  \E k \in S : \A j \in S : k <= j
<1>1. LessThan = OpToRel(<, Nat)
  BY DEF LessThan, OpToRel
<1>2. IsWellFoundedOn(LessThan, Nat)
  BY <1>1, NatLessThanWellFounded
<1>3. \E k \in S : \A j \in S : ~(<<j, k>> \in LessThan)
  BY <1>2, WFMin
<1>4. ASSUME NEW k \in Nat, NEW j \in Nat, <<j, k>> \notin LessThan
      PROVE  k <= j
  BY <1>4 DEF LessThan
<1>. QED
  BY <1>3, <1>4

IsIteration(f, F, a, N) == f = [k \in 0..N |-> IF k = 0 THEN a ELSE F[f[k - 1]]]

\* Repeated application of a function defines a sequence, as long as one wants.
LEMMA IterationExists ==
  ASSUME NEW F, NEW a, NEW N \in Nat
  PROVE  \E f : IsIteration(f, F, a, N)
<1>. DEFINE Bad == {m \in Nat : ~\E f : IsIteration(f, F, a, m)}
<1>. SUFFICES ASSUME Bad # {}
              PROVE  FALSE
  OBVIOUS
<1>1. PICK m \in Bad : \A j \in Bad : m <= j
  BY LeastOf
<1>. HIDE DEF Bad
<1>2. m \in Nat /\ ~\E f : IsIteration(f, F, a, m)
  BY <1>1 DEF Bad
<1>3. CASE m = 0
  <2>. DEFINE f == [k \in 0..0 |-> a]
  <2>1. IsIteration(f, F, a, 0)
    BY DEF IsIteration
  <2>. QED
    BY <1>2, <1>3, <2>1
<1>4. CASE m > 0
  <2>1. m - 1 \in Nat /\ m - 1 \notin Bad
    BY <1>1, <1>2, <1>4
  <2>2. PICK g : IsIteration(g, F, a, m - 1)
    BY <2>1 DEF Bad
  <2>. DEFINE f == [k \in 0..m |-> IF k < m THEN g[k] ELSE F[g[m - 1]]]
  <2>3. ASSUME NEW k \in 0..m
        PROVE  f[k] = IF k = 0 THEN a ELSE F[f[k - 1]]
    <3>1. \A j \in 0..(m - 1) : g[j] = IF j = 0 THEN a ELSE F[g[j - 1]]
      BY <2>2 DEF IsIteration
    <3>2. CASE k < m
      BY <1>2, <1>4, <3>1, <3>2
    <3>3. CASE k = m
      BY <1>2, <1>4, <3>3
    <3>. QED
      BY <1>2, <3>2, <3>3
  <2>4. IsIteration(f, F, a, m)
    BY <2>3 DEF IsIteration
  <2>. QED
    BY <1>2, <2>4
<1>. QED
  BY <1>2, <1>3, <1>4

\* What Above computes.
LEMMA AboveIs ==
  ASSUME NEW v, NEW d
  PROVE  /\ Above(v, d)[0] = d
         /\ \A k \in 1..Inodes : Above(v, d)[k] = v.parent[Above(v, d)[k - 1]]
<1>1. Above(v, d) = CHOOSE f : IsIteration(f, v.parent, d, Inodes)
  BY DEF Above, IsIteration
<1>2. Inodes \in Nat
  BY NamespaceAssumption
<1>3. \E f : IsIteration(f, v.parent, d, Inodes)
  BY <1>2, IterationExists
<1>4. IsIteration(Above(v, d), v.parent, d, Inodes)
  BY <1>1, <1>3
<1>. PICK f : f = Above(v, d)
  OBVIOUS
<1>5. f = [k \in 0..Inodes |-> IF k = 0 THEN d ELSE v.parent[f[k - 1]]]
  BY <1>4, Zenon DEF IsIteration
<1>6. \A k \in 0..Inodes : f[k] = IF k = 0 THEN d ELSE v.parent[f[k - 1]]
  BY <1>5, Zenon
<1>. QED
  BY <1>2, <1>6

(***************************************************************************)
(* Walking up from a directory.                                            *)
(***************************************************************************)
LEMMA InodesIs == Inodes \in Nat /\ Inodes > 0 /\ Root \in Ino /\ None \notin Ino
BY NamespaceAssumption DEF Root, Ino, None

\* A walk on which something decreases meets no inode twice, so it is short.
LEMMA WalkIsShort ==
  ASSUME NEW m \in Nat, NEW f \in [0..m -> Ino], NEW depth \in [Ino -> Nat],
         \A k \in 1..m : depth[f[k]] < depth[f[k - 1]]
  PROVE  m < Inodes
<1>. DEFINE Bad == {k \in 0..m : \E j \in 0..m : j < k /\ depth[f[k]] >= depth[f[j]]}
<1>1. Bad = {}
  <2>. SUFFICES ASSUME Bad # {} PROVE FALSE
    OBVIOUS
  <2>1. Bad \in SUBSET Nat
    OBVIOUS
  <2>2. PICK k \in Bad : \A j \in Bad : k <= j
    BY <2>1, LeastOf
  <2>3. PICK j \in 0..m : j < k /\ depth[f[k]] >= depth[f[j]]
    BY <2>2
  <2>4. k \in 1..m /\ k - 1 \in 0..m /\ k - 1 \notin Bad
    BY <2>2, <2>3
  <2>5. depth[f[k]] < depth[f[k - 1]]
    BY <2>4
  <2>6. j = k - 1 \/ depth[f[k - 1]] < depth[f[j]]
    BY <2>3, <2>4
  <2>. QED
    BY <2>3, <2>4, <2>5, <2>6
<1>2. ASSUME NEW j \in 0..m, NEW k \in 0..m, j < k
      PROVE  f[j] # f[k]
  <2>1. k \notin Bad
    BY <1>1
  <2>2. f[j] \in Ino /\ f[k] \in Ino /\ depth[f[j]] \in Nat /\ depth[f[k]] \in Nat
    OBVIOUS
  <2>. QED
    BY <1>2, <2>1, <2>2
<1>3. IsFiniteSet(0..m) /\ Cardinality(0..m) = m + 1
  BY FS_Interval
<1>4. IsFiniteSet(Ino) /\ Cardinality(Ino) = Inodes
  BY InodesIs, FS_Interval DEF Ino
<1>5. ~(Cardinality(Ino) < Cardinality(0..m))
  <2>. SUFFICES ASSUME Cardinality(Ino) < Cardinality(0..m) PROVE FALSE
    OBVIOUS
  <2>1. PICK x \in 0..m, y \in 0..m : x # y /\ f[x] = f[y]
    BY <1>3, <1>4, FS_PigeonHole, Zenon
  <2>. QED
    BY <1>2, <2>1
<1>. QED
  BY <1>3, <1>4, <1>5, InodesIs

\* The parent of a directory is a directory that has it by a name.
LEMMA ParentIs ==
  ASSUME NEW v, v \in Volume, Tree(v), NEW i \in LinkedDirs(v) \ {Root}
  PROVE  /\ v.parent[i] \in LinkedDirs(v)
         /\ \E n \in Name : NamesOf(v, i) = {<<v.parent[i], n>>} /\ v.entry[v.parent[i]][n] = i
<1>1. PICK n \in Name : NamesOf(v, i) = {<<v.parent[i], n>>}
  BY DEF Tree, OnePlace
<1>2. <<v.parent[i], n>> \in NamesOf(v, i)
  BY <1>1
<1>3. v.parent[i] \in Ino /\ v.entry[v.parent[i]][n] = i
  BY <1>2 DEF NamesOf
<1>4. i # None
  BY InodesIs DEF LinkedDirs, Linked, Allocated
<1>. QED
  BY <1>1, <1>3, <1>4 DEF Tree, NamesAreLinked

\* As long as the walk does not pass the root, it stays in directories.
LEMMA AboveAreDirs ==
  ASSUME NEW v, v \in Volume, Tree(v), NEW i \in LinkedDirs(v), NEW m \in 0..Inodes,
         \A j \in 0..m : j < m => Above(v, i)[j] # Root
  PROVE  \A j \in 0..m : Above(v, i)[j] \in LinkedDirs(v)
<1>. PICK a : a = Above(v, i)
  OBVIOUS
<1>. DEFINE Bad == {k \in 0..m : a[k] \notin LinkedDirs(v)}
<1>. SUFFICES ASSUME Bad # {} PROVE FALSE
  OBVIOUS
<1>1. Bad \in SUBSET Nat
  OBVIOUS
<1>2. PICK k \in Bad : \A j \in Bad : k <= j
  BY <1>1, LeastOf
<1>3. a[0] = i /\ \A j \in 1..Inodes : a[j] = v.parent[a[j - 1]]
  BY AboveIs
<1>4. k \in 1..m /\ k - 1 \in 0..m /\ k - 1 < m
  BY <1>2, <1>3
<1>5. a[k - 1] \in LinkedDirs(v) \ {Root}
  BY <1>2, <1>4
<1>6. a[k] = v.parent[a[k - 1]]
  BY <1>3, <1>4, InodesIs
<1>. QED
  BY <1>2, <1>5, <1>6, ParentIs

\* Every directory is below the root.
LEMMA RootIsAbove ==
  ASSUME NEW v, v \in Volume, Tree(v), NEW i \in LinkedDirs(v)
  PROVE  IsBelow(v, i, Root)
<1>. SUFFICES ASSUME ~IsBelow(v, i, Root) PROVE FALSE
  OBVIOUS
<1>. PICK a : a = Above(v, i)
  OBVIOUS
<1>1. a[0] = i /\ \A j \in 1..Inodes : a[j] = v.parent[a[j - 1]]
  BY AboveIs
<1>2. ASSUME NEW m \in 0..Inodes, \A j \in 0..m : j < m => a[j] # Root
      PROVE  a[m] # Root /\ \A j \in 0..m : a[j] \in LinkedDirs(v)
  <2>1. \A j \in 0..m : a[j] \in LinkedDirs(v)
    BY <1>2, AboveAreDirs
  <2>2. \A j \in 0..m : a[j] # None
    BY <2>1, InodesIs DEF LinkedDirs, Linked, Allocated
  <2>. QED
    BY <1>2, <2>1, <2>2 DEF IsBelow
<1>. DEFINE Bad == {k \in 0..Inodes : a[k] = Root}
<1>3. Bad = {}
  <2>. SUFFICES ASSUME Bad # {} PROVE FALSE
    OBVIOUS
  <2>1. Bad \in SUBSET Nat
    BY InodesIs
  <2>2. PICK k \in Bad : \A j \in Bad : k <= j
    BY <2>1, LeastOf
  <2>3. k \in 0..Inodes /\ a[k] = Root /\ \A j \in 0..k : j < k => a[j] # Root
    BY <2>2, InodesIs
  <2>. QED
    BY <1>2, <2>3
<1>4. \A j \in 0..Inodes : a[j] \in LinkedDirs(v) \ {Root}
  <2>1. \A j \in 0..Inodes : a[j] # Root
    BY <1>3
  <2>2. Inodes \in 0..Inodes
    BY InodesIs
  <2>3. \A j \in 0..Inodes : a[j] \in LinkedDirs(v)
    BY <1>2, <2>1, <2>2
  <2>. QED
    BY <2>1, <2>3
<1>5. PICK depth \in [Ino -> Nat] : Deepens(v, depth)
  BY DEF Tree
<1>. DEFINE f == [k \in 0..Inodes |-> a[k]]
<1>6. f \in [0..Inodes -> Ino]
  BY <1>4 DEF LinkedDirs, Linked, Allocated
<1>7. ASSUME NEW k \in 1..Inodes
      PROVE  depth[f[k]] < depth[f[k - 1]]
  <2>1. k \in 0..Inodes /\ k - 1 \in 0..Inodes
    BY InodesIs
  <2>2. a[k - 1] \in LinkedDirs(v) \ {Root} /\ a[k] = v.parent[a[k - 1]]
    BY <1>1, <1>4, <2>1
  <2>3. depth[v.parent[a[k - 1]]] < depth[a[k - 1]]
    BY <1>5, <2>2 DEF Deepens
  <2>. QED
    BY <2>1, <2>2, <2>3
<1>8. Inodes < Inodes
  <2>. HIDE DEF f
  <2>. QED
    BY <1>6, <1>7, WalkIsShort, InodesIs
<1>. QED
  BY <1>8, InodesIs

\* The walk up from a directory is the walk up from its parent, one step behind.
LEMMA AboveParent ==
  ASSUME NEW v, NEW x
  PROVE  \A j \in 1..Inodes : Above(v, x)[j] = Above(v, v.parent[x])[j - 1]
<1>. PICK a : a = Above(v, x)
  OBVIOUS
<1>. PICK b : b = Above(v, v.parent[x])
  OBVIOUS
<1>1. a[0] = x /\ \A j \in 1..Inodes : a[j] = v.parent[a[j - 1]]
  BY AboveIs
<1>2. b[0] = v.parent[x] /\ \A j \in 1..Inodes : b[j] = v.parent[b[j - 1]]
  BY AboveIs
<1>. DEFINE Bad == {k \in 1..Inodes : a[k] # b[k - 1]}
<1>. SUFFICES ASSUME Bad # {} PROVE FALSE
  OBVIOUS
<1>3. Bad \in SUBSET Nat
  OBVIOUS
<1>4. PICK k \in Bad : \A j \in Bad : k <= j
  BY <1>3, LeastOf
<1>5. k \in 1..Inodes /\ k # 1
  BY <1>1, <1>2, <1>4
<1>6. k - 1 \in 1..Inodes /\ k - 1 \notin Bad
  BY <1>4, <1>5, InodesIs
<1>7. a[k - 1] = b[k - 2]
  BY <1>6
<1>8. a[k] = v.parent[a[k - 1]] /\ b[k - 1] = v.parent[b[k - 2]]
  BY <1>1, <1>2, <1>5, <1>6
<1>. QED
  BY <1>4, <1>7, <1>8

\* A directory other than i is below i if its parent is.
LEMMA BelowParent ==
  ASSUME NEW v, v \in Volume, Tree(v), NEW x \in LinkedDirs(v) \ {Root}, NEW i \in Ino, x # i
  PROVE  IsBelow(v, x, i) <=> IsBelow(v, v.parent[x], i)
<1>. PICK p : p = v.parent[x]
  OBVIOUS
<1>. PICK a : a = Above(v, x)
  OBVIOUS
<1>. PICK b : b = Above(v, p)
  OBVIOUS
<1>1. a[0] = x /\ \A j \in 1..Inodes : a[j] = b[j - 1]
  BY AboveIs, AboveParent
<1>2. x # None /\ x # Root /\ p \in LinkedDirs(v)
  BY ParentIs, InodesIs DEF LinkedDirs, Linked, Allocated
<1>3. ASSUME IsBelow(v, x, i)
      PROVE  IsBelow(v, p, i)
  <2>1. PICK k \in 0..Inodes :
           a[k] = i /\ \A j \in 0..k : a[j] # None /\ (j < k => a[j] # Root)
    BY <1>3 DEF IsBelow
  <2>2. k - 1 \in 0..Inodes /\ k \in 1..Inodes
    BY <1>1, <2>1, InodesIs
  <2>3. b[k - 1] = i
    BY <1>1, <2>1, <2>2
  <2>4. ASSUME NEW j \in 0..(k - 1)
        PROVE  b[j] # None /\ (j < k - 1 => b[j] # Root)
    <3>1. j + 1 \in 0..k /\ j + 1 \in 1..Inodes
      BY <2>2, InodesIs
    <3>2. b[j] = a[j + 1]
      BY <1>1, <3>1
    <3>. QED
      BY <2>1, <2>2, <3>1, <3>2
  <2>. QED
    BY <2>2, <2>3, <2>4 DEF IsBelow
<1>4. ASSUME IsBelow(v, p, i)
      PROVE  IsBelow(v, x, i)
  <2>1. PICK k \in 0..Inodes :
           b[k] = i /\ \A j \in 0..k : b[j] # None /\ (j < k => b[j] # Root)
    BY <1>4 DEF IsBelow
  <2>2. \A j \in 0..k : b[j] \in LinkedDirs(v)
    BY <1>2, <2>1, AboveAreDirs
  <2>3. \A j \in 1..Inodes : b[j] = v.parent[b[j - 1]]
    BY AboveIs
  <2>4. PICK depth \in [Ino -> Nat] : Deepens(v, depth)
    BY DEF Tree
  <2>. DEFINE f == [j \in 0..(k + 1) |-> IF j = 0 THEN x ELSE b[j - 1]]
  <2>5. f \in [0..(k + 1) -> Ino]
    BY <2>2 DEF LinkedDirs, Linked, Allocated
  <2>6. ASSUME NEW j \in 1..(k + 1)
        PROVE  depth[f[j]] < depth[f[j - 1]]
    <3>1. CASE j = 1
      <4>1. b[0] = v.parent[x]
        BY AboveIs
      <4>2. f[1] = v.parent[x] /\ f[0] = x
        BY <2>1, <4>1
      <4>. QED
        BY <2>4, <3>1, <4>2 DEF Deepens
    <3>2. CASE j > 1
      <4>1. j - 1 \in 1..Inodes /\ j - 2 \in 0..k /\ j - 2 < k
        BY <2>1, <3>2, InodesIs
      <4>2. b[j - 2] \in LinkedDirs(v) \ {Root} /\ b[j - 1] = v.parent[b[j - 2]]
        BY <2>1, <2>2, <2>3, <4>1
      <4>3. depth[v.parent[b[j - 2]]] < depth[b[j - 2]]
        BY <2>4, <4>2 DEF Deepens
      <4>4. f[j] = b[j - 1] /\ f[j - 1] = b[j - 2]
        BY <3>2, <4>1
      <4>. QED
        BY <4>2, <4>3, <4>4
    <3>. QED
      BY <2>1, <3>1, <3>2
  <2>7. k + 1 \in Nat /\ k + 1 < Inodes
    <3>1. PICK m \in Nat : m = k + 1
      BY <2>1
    <3>2. f \in [0..m -> Ino] /\ \A j \in 1..m : depth[f[j]] < depth[f[j - 1]]
      BY <2>5, <2>6, <3>1
    <3>. HIDE DEF f
    <3>. QED
      BY <3>1, <3>2, WalkIsShort
  <2>8. k + 1 \in 1..Inodes /\ a[k + 1] = i
    BY <1>1, <2>1, <2>7, InodesIs
  <2>9. ASSUME NEW j \in 0..(k + 1)
        PROVE  a[j] # None /\ (j < k + 1 => a[j] # Root)
    <3>1. CASE j = 0
      BY <1>1, <1>2, <3>1
    <3>2. CASE j > 0
      <4>1. j - 1 \in 0..k /\ j \in 1..Inodes
        BY <2>1, <2>7, <3>2, InodesIs
      <4>2. a[j] = b[j - 1]
        BY <1>1, <4>1
      <4>. QED
        BY <2>1, <4>1, <4>2
    <3>. QED
      BY <2>1, <3>1, <3>2
  <2>. QED
    BY <2>7, <2>8, <2>9 DEF IsBelow
<1>. QED
  BY <1>3, <1>4

\* What is below what: everything itself, the root nothing else.
LEMMA BelowItself ==
  ASSUME NEW v, NEW i \in Ino
  PROVE  IsBelow(v, i, i) /\ (i # Root => ~IsBelow(v, Root, i))
<1>1. Above(v, i)[0] = i /\ Above(v, Root)[0] = Root
  BY AboveIs
<1>2. 0 \in 0..Inodes /\ \A k \in 0..Inodes : 0 \in 0..k /\ (k = 0 \/ 0 < k)
  BY InodesIs
<1>3. i # None
  BY InodesIs
<1>4. \A j \in 0..0 : j = 0
  OBVIOUS
<1>. QED
  BY <1>1, <1>2, <1>3, <1>4 DEF IsBelow

(***************************************************************************)
(* Walking along the list of unlinked inodes.                              *)
(***************************************************************************)
\* What Walk computes.
LEMMA WalkIs ==
  ASSUME NEW v \in Volume
  PROVE  /\ Walk(v)[1] = v.head
         /\ \A k \in 2..Inodes :
              Walk(v)[k] = IF Walk(v)[k - 1] = None THEN None ELSE NextOf(v, Walk(v)[k - 1])
         /\ \A k \in 1..Inodes : Walk(v)[k] \in Ino \union {None}
<1>. DEFINE Place == Ino \union {None}
<1>. DEFINE F == [x \in Place |-> IF x = None THEN None ELSE NextOf(v, x)]
<1>1. F \in [Place -> Place] /\ v.head \in Place
  BY DEF Volume, Inode, NextOf
<1>2. PICK f : IsIteration(f, F, v.head, Inodes)
  <2>. HIDE DEF F
  <2>. QED
    BY InodesIs, IterationExists
<1>3. f[0] = v.head /\ \A k \in 1..Inodes : f[k] = F[f[k - 1]]
  <2>1. f = [k \in 0..Inodes |-> IF k = 0 THEN v.head ELSE F[f[k - 1]]]
    BY <1>2, Zenon DEF IsIteration
  <2>2. \A k \in 0..Inodes : f[k] = IF k = 0 THEN v.head ELSE F[f[k - 1]]
    <3>. HIDE DEF F
    <3>. QED
      BY <2>1, Zenon
  <2>. HIDE DEF F
  <2>. QED
    BY <2>2, InodesIs
<1>4. \A k \in 0..Inodes : f[k] \in Place
  <2>. DEFINE Bad == {k \in 0..Inodes : f[k] \notin Place}
  <2>. HIDE DEF F, Place
  <2>. SUFFICES ASSUME Bad # {} PROVE FALSE
    OBVIOUS
  <2>1. Bad \in SUBSET Nat
    BY InodesIs
  <2>2. PICK k \in Bad : \A j \in Bad : k <= j
    BY <2>1, LeastOf
  <2>3. k \in 1..Inodes /\ k - 1 \in 0..Inodes /\ k - 1 \notin Bad
    BY <1>1, <1>3, <2>2, InodesIs
  <2>. QED
    BY <1>1, <1>3, <2>2, <2>3
<1>. DEFINE IsWalk(w) == w = [k \in 1..Inodes |->
                               IF k = 1 THEN v.head
                               ELSE IF w[k - 1] = None THEN None ELSE v.inode[w[k - 1]].next]
<1>. DEFINE w == [k \in 1..Inodes |-> f[k - 1]]
<1>5. IsWalk(w)
  <2>1. ASSUME NEW k \in 1..Inodes
        PROVE  w[k] = IF k = 1 THEN v.head
                      ELSE IF w[k - 1] = None THEN None ELSE v.inode[w[k - 1]].next
    <3>1. CASE k = 1
      BY <1>3, <3>1
    <3>2. CASE k > 1
      <4>1. k - 1 \in 1..Inodes /\ k - 2 \in 0..Inodes /\ (k - 1) - 1 = k - 2
        BY <3>2, InodesIs
      <4>2. f[k - 1] = F[f[k - 2]] /\ f[k - 2] \in Place
        <5>. HIDE DEF F, Place
        <5>. QED
          BY <1>3, <1>4, <4>1
      <4>3. w[k] = f[k - 1] /\ w[k - 1] = f[k - 2]
        BY <4>1
      <4>4. F[f[k - 2]] = IF f[k - 2] = None THEN None ELSE v.inode[f[k - 2]].next
        BY <4>2 DEF NextOf
      <4>. QED
        BY <3>2, <4>2, <4>3, <4>4
    <3>. QED
      BY <3>1, <3>2, InodesIs
  <2>. QED
    BY <2>1
<1>6. IsWalk(Walk(v))
  <2>1. Walk(v) = CHOOSE x : IsWalk(x)
    BY DEF Walk
  <2>2. \E x : IsWalk(x)
    BY <1>5
  <2>. HIDE DEF IsWalk
  <2>. QED
    BY <2>1, <2>2
<1>. PICK x : x = Walk(v)
  OBVIOUS
<1>7. \A k \in 1..Inodes :
         x[k] = IF k = 1 THEN v.head
                ELSE IF x[k - 1] = None THEN None ELSE v.inode[x[k - 1]].next
  <2>1. x = [k \in 1..Inodes |-> IF k = 1 THEN v.head
                                 ELSE IF x[k - 1] = None THEN None ELSE v.inode[x[k - 1]].next]
    BY <1>6, Zenon
  <2>. QED
    BY <2>1, Zenon
<1>8. \A k \in 1..Inodes : x[k] \in Place
  <2>. DEFINE Bad == {k \in 1..Inodes : x[k] \notin Place}
  <2>. SUFFICES ASSUME Bad # {} PROVE FALSE
    OBVIOUS
  <2>1. Bad \in SUBSET Nat
    OBVIOUS
  <2>2. PICK k \in Bad : \A j \in Bad : k <= j
    BY <2>1, LeastOf
  <2>3. k \in 2..Inodes /\ k - 1 \in 1..Inodes /\ k - 1 \notin Bad
    BY <1>1, <1>7, <2>2, InodesIs
  <2>4. x[k - 1] \in Place
    BY <2>3
  <2>5. x[k - 1] # None => NextOf(v, x[k - 1]) \in Place
    BY <2>4 DEF Volume, Inode, NextOf
  <2>. QED
    BY <1>7, <2>2, <2>3, <2>5 DEF NextOf
<1>. QED
  BY <1>7, <1>8, InodesIs DEF NextOf

\* The walk along the list finds just the inodes without a link.
LEMMA WalkFindsAll ==
  ASSUME NEW v, v \in Volume, List(v)
  PROVE  Unlinked(v) = {Walk(v)[k] : k \in 1..Inodes} \ {None}
<1>. PICK w : w = Walk(v)
  OBVIOUS
<1>1. /\ w[1] = v.head
      /\ \A k \in 2..Inodes : w[k] = IF w[k - 1] = None THEN None ELSE NextOf(v, w[k - 1])
  BY WalkIs
<1>2. None \notin Unlinked(v) /\ Unlinked(v) \in SUBSET Ino
  BY InodesIs DEF Unlinked, Allocated
<1>3. PICK rank \in [Ino -> Nat] : Ranks(v, rank)
  BY DEF List
<1>4. ASSUME NEW k \in 1..Inodes, w[k] \notin Unlinked(v), w[k] # None
      PROVE  FALSE
  <2>. DEFINE Bad == {j \in 1..Inodes : w[j] \notin Unlinked(v) /\ w[j] # None}
  <2>1. Bad \in SUBSET Nat /\ Bad # {}
    BY <1>4
  <2>2. PICK m \in Bad : \A j \in Bad : m <= j
    BY <2>1, LeastOf
  <2>3. m \in 2..Inodes /\ m - 1 \in 1..Inodes /\ m - 1 \notin Bad
    BY <1>1, <2>2, InodesIs DEF List, Ends
  <2>4. w[m - 1] \in Unlinked(v) /\ w[m] = NextOf(v, w[m - 1]) /\ w[m] # None
    BY <1>1, <2>2, <2>3
  <2>. QED
    BY <2>2, <2>4 DEF List, Chained
<1>5. ASSUME NEW k \in 1..Inodes, w[k] # None, NEW j \in 1..k, w[j] = None
      PROVE  FALSE
  <2>. DEFINE Bad == {m \in 1..Inodes : w[m] # None /\ \E l \in 1..m : w[l] = None}
  <2>1. Bad \in SUBSET Nat /\ Bad # {}
    BY <1>5
  <2>2. PICK m \in Bad : \A l \in Bad : m <= l
    BY <2>1, LeastOf
  <2>3. PICK l \in 1..m : w[l] = None
    BY <2>2
  <2>4. /\ m \in 2..Inodes /\ m - 1 \in 1..Inodes /\ l \in 1..(m - 1)
        /\ m - 1 \notin Bad
    <3>1. m \in 1..Inodes /\ l # m
      BY <2>2, <2>3, InodesIs
    <3>. QED
      BY <2>2, <2>3, <3>1, InodesIs
  <2>5. w[m - 1] # None
    BY <1>1, <2>2, <2>4
  <2>. QED
    BY <2>3, <2>4, <2>5
<1>6. ASSUME NEW k \in 1..Inodes
      PROVE  w[k] \in Unlinked(v) => \A j \in 1..k : w[j] \in Unlinked(v)
  <2>. SUFFICES ASSUME w[k] \in Unlinked(v), NEW j \in 1..k
                PROVE  w[j] \in Unlinked(v)
    OBVIOUS
  <2>1. w[k] # None /\ j \in 1..Inodes
    BY <1>2, InodesIs
  <2>2. w[j] # None
    BY <1>5, <2>1
  <2>. QED
    BY <1>4, <2>1, <2>2
<1>. DEFINE Missed == {i \in Unlinked(v) : \A k \in 1..Inodes : w[k] # i}
<1>7. Missed = {}
  <2>. SUFFICES ASSUME Missed # {} PROVE FALSE
    OBVIOUS
  <2>1. PICK i \in Missed : \A j \in Missed : rank[i] <= rank[j]
    <3>. DEFINE Rank == {rank[j] : j \in Missed}
    <3>1. Rank \in SUBSET Nat /\ Rank # {}
      BY <1>2
    <3>2. PICK r \in Rank : \A s \in Rank : r <= s
      BY <3>1, LeastOf
    <3>. QED
      BY <3>2
  <2>2. i \in Unlinked(v) /\ i # v.head
    BY <1>1, <2>1, InodesIs
  <2>. PICK p : p = Last(v, i)
    OBVIOUS
  <2>3. p \in Unlinked(v) /\ NextOf(v, p) = i /\ rank[p] < rank[i]
    <3>1. p \in Unlinked(v) /\ NextOf(v, p) = i
      BY <2>2 DEF List, Chained
    <3>. QED
      BY <1>2, <1>3, <2>2, <3>1 DEF Ranks
  <2>4. p \notin Missed
    BY <1>2, <2>1, <2>3
  <2>5. PICK k \in 1..Inodes : w[k] = p
    BY <2>3, <2>4
  <2>6. k = Inodes
    <3>. SUFFICES ASSUME k # Inodes PROVE FALSE
      OBVIOUS
    <3>1. k + 1 \in 2..Inodes /\ k + 1 \in 1..Inodes /\ (k + 1) - 1 = k
      BY InodesIs
    <3>2. w[k + 1] = i
      BY <1>1, <1>2, <2>3, <2>5, <3>1
    <3>. QED
      BY <2>1, <3>1, <3>2
  <2>7. \A j \in 1..Inodes : w[j] \in Unlinked(v)
    BY <1>6, <2>3, <2>5, <2>6
  <2>. DEFINE f == [j \in 0..Inodes |-> IF j = 0 THEN i ELSE w[Inodes + 1 - j]]
  <2>8. f \in [0..Inodes -> Ino]
    BY <1>2, <2>2, <2>7, InodesIs
  <2>9. ASSUME NEW j \in 1..Inodes
        PROVE  rank[f[j]] < rank[f[j - 1]]
    <3>1. CASE j = 1
      BY <2>3, <2>5, <2>6, <3>1, InodesIs
    <3>2. CASE j > 1
      <4>. PICK l : l = Inodes + 1 - j
        OBVIOUS
      <4>1. l \in 1..Inodes /\ l + 1 \in 2..Inodes /\ (l + 1) - 1 = l
        BY <3>2, InodesIs
      <4>2. w[l + 1] = NextOf(v, w[l]) /\ w[l] \in Unlinked(v) /\ w[l + 1] # None
        BY <1>1, <1>2, <2>7, <4>1
      <4>3. f[j] = w[l] /\ f[j - 1] = w[l + 1]
        BY <3>2, InodesIs
      <4>. QED
        BY <1>3, <4>2, <4>3 DEF Ranks
    <3>. QED
      BY <3>1, <3>2
  <2>10. Inodes < Inodes
    <3>. HIDE DEF f
    <3>. QED
      BY <2>8, <2>9, WalkIsShort, InodesIs
  <2>. QED
    BY <2>10, InodesIs
<1>. QED
  BY <1>2, <1>4, <1>7

\* The invariant is what the properties say of a volume.
LEMMA GoodIsSound ==
  ASSUME NEW v, Good(v)
  PROVE  VolumeType(v) /\ TreeOf(v) /\ ListOf(v)
<1>1. VolumeType(v) /\ v \in Volume /\ Tree(v) /\ List(v)
  BY DEF Good, VolumeType
<1>2. TreeOf(v)
  <2>1. \A d \in Ino, n \in Name : v.entry[d][n] # None =>
          IsDir(v, d) /\ v.entry[d][n] \in Linked(v) \ {Root}
    BY <1>1 DEF Tree, NamesAreLinked, LinkedDirs
  <2>2. \A i \in Linked(v) :
          IF IsDir(v, i)
          THEN /\ v.inode[i].links = 2 + Cardinality(Subdirectories(v, i))
               /\ v.inode[i].dirents = 2 + Cardinality(Children(v, i))
          ELSE v.inode[i].links = Cardinality(NamesOf(v, i))
    BY <1>1 DEF Tree, Counted
  <2>3. \A i \in Linked(v) : IsDir(v, i) => IsBelow(v, i, Root)
    BY <1>1, RootIsAbove DEF LinkedDirs
  <2>4. \A i \in Linked(v) : IsDir(v, i) /\ i # Root =>
          \E n \in Name : NamesOf(v, i) = {<<v.parent[i], n>>}
    BY <1>1 DEF Tree, OnePlace, LinkedDirs
  <2>. QED
    BY <2>1, <2>2, <2>3, <2>4 DEF TreeOf
<1>3. ListOf(v)
  <2>1. Unlinked(v) = {Walk(v)[k] : k \in 1..Inodes} \ {None}
    BY <1>1, WalkFindsAll
  <2>2. v.head = None <=> v.tail = None
    BY <1>1 DEF List, Ends
  <2>3. \A i \in Unlinked(v) :
          /\ v.inode[i].last = None <=> i = v.head
          /\ v.inode[i].next = None <=> i = v.tail
          /\ v.inode[i].next # None => v.inode[v.inode[i].next].last = i
    BY <1>1 DEF List, Chained, Last, NextOf
  <2>4. \A i \in Ino \ Unlinked(v) : v.inode[i].last = None /\ v.inode[i].next = None
    BY <1>1 DEF List, Unchained, Last, NextOf
  <2>. QED
    BY <2>1, <2>2, <2>3, <2>4, Zenon DEF ListOf
<1>. QED
  BY <1>1, <1>2, <1>3

(***************************************************************************)
(* The three things that happen to the list: nothing, an inode is added at   *)
(* its end, an inode is taken out of it.                                    *)
(***************************************************************************)
SameChain(v, w) ==
  /\ w.head = v.head /\ w.tail = v.tail /\ Unlinked(w) = Unlinked(v)
  /\ \A i \in Ino : Last(w, i) = Last(v, i) /\ NextOf(w, i) = NextOf(v, i)

Appended(v, w, i) ==
  /\ i \in Ino \ Unlinked(v) /\ Unlinked(w) = Unlinked(v) \union {i}
  /\ w.tail = i /\ w.head = (IF v.tail = None THEN i ELSE v.head)
  /\ \A j \in Ino : /\ Last(w, j) = IF j = i THEN v.tail ELSE Last(v, j)
                    /\ NextOf(w, j) = IF j = v.tail THEN i ELSE NextOf(v, j)

TakenOut(v, w, i) ==
  /\ i \in Unlinked(v) /\ Unlinked(w) = Unlinked(v) \ {i}
  /\ w.head = (IF Last(v, i) = None THEN NextOf(v, i) ELSE v.head)
  /\ w.tail = (IF NextOf(v, i) = None THEN Last(v, i) ELSE v.tail)
  /\ Last(w, i) = None /\ NextOf(w, i) = None
  /\ \A j \in Ino \ {i} :
       /\ Last(w, j) = IF j = NextOf(v, i) THEN Last(v, i) ELSE Last(v, j)
       /\ NextOf(w, j) = IF j = Last(v, i) THEN NextOf(v, i) ELSE NextOf(v, j)

LEMMA UnlinkedAreInodes ==
  ASSUME NEW v
  PROVE  Unlinked(v) \in SUBSET Ino /\ None \notin Unlinked(v) /\ None \notin Ino
BY InodesIs DEF Unlinked, Allocated

\* A list that is not empty has a head.
LEMMA HeadExists ==
  ASSUME NEW v, Chained(v), NEW rank \in [Ino -> Nat], Ranks(v, rank), Unlinked(v) # {}
  PROVE  v.head \in Unlinked(v)
<1>. DEFINE Rank == {rank[k] : k \in Unlinked(v)}
<1>1. Rank \in SUBSET Nat /\ Rank # {}
  BY UnlinkedAreInodes
<1>2. PICK r \in Rank : \A s \in Rank : r <= s
  BY <1>1, LeastOf
<1>3. PICK k \in Unlinked(v) : \A l \in Unlinked(v) : rank[k] <= rank[l]
  BY <1>2
<1>. SUFFICES ASSUME k # v.head PROVE FALSE
  BY <1>3
<1>4. Last(v, k) \in Unlinked(v) /\ NextOf(v, Last(v, k)) = k /\ k \in Ino
  BY UnlinkedAreInodes DEF Chained
<1>5. rank[Last(v, k)] < rank[k] /\ rank[k] <= rank[Last(v, k)]
  BY <1>3, <1>4, UnlinkedAreInodes DEF Ranks
<1>6. rank[Last(v, k)] \in Nat /\ rank[k] \in Nat
  BY <1>4, UnlinkedAreInodes
<1>. QED
  BY <1>5, <1>6

LEMMA SameList ==
  ASSUME NEW v, NEW w, List(v), SameChain(v, w)
  PROVE  List(w)
<1>1. Ends(w) /\ Chained(w) /\ Unchained(w)
  BY UnlinkedAreInodes DEF List, SameChain, Ends, Chained, Unchained
<1>2. PICK rank \in [Ino -> Nat] : Ranks(v, rank)
  BY DEF List
<1>3. Ranks(w, rank)
  BY <1>2, UnlinkedAreInodes DEF Ranks, SameChain
<1>. QED
  BY <1>1, <1>3 DEF List

LEMMA AppendedList ==
  ASSUME NEW v, NEW w, NEW i, List(v), Appended(v, w, i)
  PROVE  List(w)
<1>1. i \in Ino /\ i \notin Unlinked(v) /\ Last(v, i) = None /\ NextOf(v, i) = None
  BY DEF List, Unchained, Appended
<1>2. v.tail # None => v.tail \in Unlinked(v) /\ v.tail \in Ino /\ v.tail # i
                       /\ NextOf(v, v.tail) = None /\ v.head # None
  BY <1>1, UnlinkedAreInodes DEF List, Ends, Chained
<1>3. Ends(w)
  BY <1>1, <1>2, UnlinkedAreInodes DEF Ends, List, Appended
<1>4. ASSUME NEW j \in Unlinked(w)
      PROVE  /\ Last(w, j) = None <=> j = w.head
             /\ NextOf(w, j) = None <=> j = w.tail
             /\ NextOf(w, j) # None => NextOf(w, j) \in Unlinked(w) /\ Last(w, NextOf(w, j)) = j
             /\ Last(w, j) # None => Last(w, j) \in Unlinked(w) /\ NextOf(w, Last(w, j)) = j
  <2>1. j \in Ino
    BY UnlinkedAreInodes
  <2>2. CASE j = i
    <3>1. Last(w, i) = v.tail /\ NextOf(w, i) = None
      BY <1>1, <1>2, UnlinkedAreInodes DEF Appended
    <3>2. v.tail # None => NextOf(w, v.tail) = i /\ v.tail \in Unlinked(w) /\ v.head # i
      BY <1>1, <1>2 DEF Appended, List, Ends
    <3>. QED
      BY <1>1, <2>2, <3>1, <3>2, UnlinkedAreInodes DEF Appended
  <2>3. CASE j # i
    <3>1. j \in Unlinked(v) /\ v.tail # None
      <4>1. j \in Unlinked(v)
        BY <2>3 DEF Appended
      <4>2. NextOf(v, j) = None \/ NextOf(v, j) \in Unlinked(v)
        BY <4>1 DEF List, Chained
      <4>3. v.head # None
        <5>1. v.head \in Unlinked(v)
          BY <4>1, HeadExists DEF List
        <5>. QED
          BY <5>1, UnlinkedAreInodes
      <4>. QED
        BY <4>1, <4>3 DEF List, Ends
    <3>2. Last(w, j) = Last(v, j) /\ w.head = v.head /\ j # w.tail
      BY <2>1, <2>3, <3>1 DEF Appended
    <3>3. Last(v, j) # None => /\ Last(v, j) \in Unlinked(v) /\ Last(v, j) # v.tail
                               /\ NextOf(v, Last(v, j)) = j
      BY <1>2, <2>1, <3>1, UnlinkedAreInodes DEF List, Chained
    <3>4. Last(v, j) # None => Last(v, j) \in Unlinked(w) /\ NextOf(w, Last(v, j)) = j
      BY <3>3, UnlinkedAreInodes DEF Appended
    <3>5. CASE j = v.tail
      BY <1>1, <2>1, <3>1, <3>2, <3>4, <3>5, UnlinkedAreInodes DEF Appended, List, Chained
    <3>6. CASE j # v.tail
      <4>1. NextOf(w, j) = NextOf(v, j) /\ NextOf(v, j) # None
        BY <2>1, <3>1, <3>6 DEF Appended, List, Chained
      <4>2. NextOf(v, j) \in Unlinked(v) /\ Last(v, NextOf(v, j)) = j
        BY <3>1, <4>1 DEF List, Chained
      <4>3. NextOf(v, j) \in Unlinked(w) /\ Last(w, NextOf(v, j)) = j
        BY <1>1, <4>2, UnlinkedAreInodes DEF Appended
      <4>4. Last(v, j) = None <=> j = v.head
        BY <3>1 DEF List, Chained
      <4>. QED
        BY <3>2, <3>4, <4>1, <4>3, <4>4
    <3>. QED
      BY <3>5, <3>6
  <2>. QED
    BY <2>2, <2>3
<1>5. Chained(w)
  BY <1>4 DEF Chained
<1>6. Unchained(w)
  <2>1. ASSUME NEW j \in Ino \ Unlinked(w)
        PROVE  Last(w, j) = None /\ NextOf(w, j) = None
    <3>1. j \in Ino \ Unlinked(v) /\ j # i /\ j # v.tail
      BY <1>2, <2>1, UnlinkedAreInodes DEF Appended
    <3>. QED
      BY <3>1 DEF Appended, List, Unchained
  <2>. QED
    BY <2>1 DEF Unchained
<1>7. \E rank \in [Ino -> Nat] : Ranks(w, rank)
  <2>1. PICK rank \in [Ino -> Nat] : Ranks(v, rank)
    BY DEF List
  <2>. DEFINE new == [rank EXCEPT ![i] = IF v.tail = None THEN 0 ELSE rank[v.tail] + 1]
  <2>2. new \in [Ino -> Nat]
    BY <1>1, <1>2
  <2>3. ASSUME NEW j \in Unlinked(w), NextOf(w, j) # None
        PROVE  new[j] < new[NextOf(w, j)]
    <3>1. j \in Ino /\ j # i
      BY <1>1, <1>2, <2>3, UnlinkedAreInodes DEF Appended
    <3>2. j \in Unlinked(v)
      BY <3>1 DEF Appended
    <3>3. CASE j = v.tail
      <4>1. NextOf(w, j) = i /\ v.tail # None /\ v.tail \in Ino
        BY <3>1, <3>3, UnlinkedAreInodes DEF Appended
      <4>2. new[i] = rank[j] + 1 /\ new[j] = rank[j] /\ rank[j] \in Nat
        BY <1>1, <3>1, <3>3, <4>1
      <4>. QED
        BY <4>1, <4>2
    <3>4. CASE j # v.tail
      <4>1. NextOf(w, j) = NextOf(v, j)
        BY <3>1, <3>4 DEF Appended
      <4>2. NextOf(v, j) \in Unlinked(v) /\ rank[j] < rank[NextOf(v, j)]
        BY <2>1, <2>3, <3>2, <4>1 DEF List, Chained, Ranks
      <4>. QED
        BY <1>1, <3>1, <4>1, <4>2, UnlinkedAreInodes
    <3>. QED
      BY <3>3, <3>4
  <2>4. Ranks(w, new)
    <3>. HIDE DEF new
    <3>. QED
      BY <2>3 DEF Ranks
  <2>. QED
    BY <2>2, <2>4
<1>. QED
  BY <1>3, <1>5, <1>6, <1>7 DEF List

LEMMA TakenOutList ==
  ASSUME NEW v, NEW w, NEW i, List(v), TakenOut(v, w, i)
  PROVE  List(w)
<1>. PICK last : last = Last(v, i)
  OBVIOUS
<1>. PICK next : next = NextOf(v, i)
  OBVIOUS
<1>1. PICK rank \in [Ino -> Nat] : Ranks(v, rank)
  BY DEF List
<1>2. i \in Unlinked(v) /\ i \in Ino /\ v.head \in Unlinked(v) /\ v.tail \in Unlinked(v)
  <2>1. i \in Unlinked(v)
    BY DEF TakenOut
  <2>2. v.head \in Unlinked(v)
    BY <1>1, <2>1, HeadExists DEF List
  <2>. QED
    BY <2>1, <2>2, UnlinkedAreInodes DEF List, Ends
<1>3. /\ last = None <=> i = v.head
      /\ next = None <=> i = v.tail
      /\ next # None => next \in Unlinked(v) /\ Last(v, next) = i /\ rank[i] < rank[next]
      /\ last # None => last \in Unlinked(v) /\ NextOf(v, last) = i /\ rank[last] < rank[i]
  <2>1. /\ last = None <=> i = v.head
        /\ next = None <=> i = v.tail
        /\ next # None => next \in Unlinked(v) /\ Last(v, next) = i
        /\ last # None => last \in Unlinked(v) /\ NextOf(v, last) = i
    BY <1>2 DEF List, Chained
  <2>. QED
    BY <1>1, <1>2, <2>1, UnlinkedAreInodes DEF Ranks
<1>4. next # i /\ last # i
  <2>1. rank[i] \in Nat
    BY <1>2
  <2>. QED
    BY <1>2, <1>3, <2>1, UnlinkedAreInodes
<1>5. w.head = (IF last = None THEN next ELSE v.head) /\ w.tail = (IF next = None THEN last ELSE v.tail)
  BY DEF TakenOut
<1>6. \A j \in Ino \ {i} :
        /\ Last(w, j) = IF j = next THEN last ELSE Last(v, j)
        /\ NextOf(w, j) = IF j = last THEN next ELSE NextOf(v, j)
  BY DEF TakenOut
<1>7. Unlinked(w) = Unlinked(v) \ {i} /\ Last(w, i) = None /\ NextOf(w, i) = None
  BY DEF TakenOut
<1>8. Ends(w)
  BY <1>2, <1>3, <1>4, <1>5, <1>7, UnlinkedAreInodes DEF Ends
<1>9. ASSUME NEW j \in Unlinked(w)
      PROVE  /\ Last(w, j) = None <=> j = w.head
             /\ NextOf(w, j) = None <=> j = w.tail
             /\ NextOf(w, j) # None => NextOf(w, j) \in Unlinked(w) /\ Last(w, NextOf(w, j)) = j
             /\ Last(w, j) # None => Last(w, j) \in Unlinked(w) /\ NextOf(w, Last(w, j)) = j
  <2>1. j \in Ino \ {i} /\ j \in Unlinked(v)
    BY <1>7, UnlinkedAreInodes
  <2>2. /\ Last(v, j) = None <=> j = v.head
        /\ NextOf(v, j) = None <=> j = v.tail
        /\ NextOf(v, j) # None => NextOf(v, j) \in Unlinked(v) /\ Last(v, NextOf(v, j)) = j
        /\ Last(v, j) # None => Last(v, j) \in Unlinked(v) /\ NextOf(v, Last(v, j)) = j
    BY <2>1 DEF List, Chained
  <2>3. Last(w, j) = (IF j = next THEN last ELSE Last(v, j)) /\ NextOf(w, j) = (IF j = last THEN next ELSE NextOf(v, j))
    BY <1>6, <2>1
  <2>4. Last(w, j) = None <=> j = w.head
    BY <1>2, <1>3, <1>5, <2>1, <2>2, <2>3, UnlinkedAreInodes
  <2>5. NextOf(w, j) = None <=> j = w.tail
    BY <1>2, <1>3, <1>5, <2>1, <2>2, <2>3, UnlinkedAreInodes
  <2>6. ASSUME NextOf(w, j) # None
        PROVE  NextOf(w, j) \in Unlinked(w) /\ Last(w, NextOf(w, j)) = j
    <3>1. CASE j = last
      BY <1>3, <1>4, <1>6, <1>7, <2>3, <2>6, <3>1, UnlinkedAreInodes
    <3>2. CASE j # last
      <4>1. NextOf(w, j) = NextOf(v, j) /\ NextOf(v, j) \in Unlinked(v) /\ Last(v, NextOf(v, j)) = j
        BY <2>2, <2>3, <2>6, <3>2
      <4>2. NextOf(v, j) # i /\ NextOf(v, j) # next
        BY <1>3, <2>1, <3>2, <4>1, UnlinkedAreInodes
      <4>. QED
        BY <1>6, <1>7, <4>1, <4>2, UnlinkedAreInodes
    <3>. QED
      BY <3>1, <3>2
  <2>7. ASSUME Last(w, j) # None
        PROVE  Last(w, j) \in Unlinked(w) /\ NextOf(w, Last(w, j)) = j
    <3>1. CASE j = next
      BY <1>3, <1>4, <1>6, <1>7, <2>3, <2>7, <3>1, UnlinkedAreInodes
    <3>2. CASE j # next
      <4>1. Last(w, j) = Last(v, j) /\ Last(v, j) \in Unlinked(v) /\ NextOf(v, Last(v, j)) = j
        BY <2>2, <2>3, <2>7, <3>2
      <4>2. Last(v, j) # i /\ Last(v, j) # last
        BY <1>3, <2>1, <3>2, <4>1, UnlinkedAreInodes
      <4>. QED
        BY <1>6, <1>7, <4>1, <4>2, UnlinkedAreInodes
    <3>. QED
      BY <3>1, <3>2
  <2>. QED
    BY <2>4, <2>5, <2>6, <2>7
<1>10. Chained(w)
  BY <1>9 DEF Chained
<1>11. Unchained(w)
  <2>1. ASSUME NEW j \in Ino \ Unlinked(w)
        PROVE  Last(w, j) = None /\ NextOf(w, j) = None
    <3>1. CASE j = i
      BY <1>7, <3>1
    <3>2. CASE j # i
      <4>1. j \in Ino \ Unlinked(v) /\ j # next /\ j # last
        BY <1>3, <1>7, <3>2, UnlinkedAreInodes
      <4>. QED
        BY <1>6, <3>2, <4>1 DEF List, Unchained
    <3>. QED
      BY <3>1, <3>2
  <2>. QED
    BY <2>1 DEF Unchained
<1>12. Ranks(w, rank)
  <2>1. ASSUME NEW j \in Unlinked(w), NextOf(w, j) # None
        PROVE  rank[j] < rank[NextOf(w, j)]
    <3>1. j \in Ino \ {i} /\ j \in Unlinked(v)
      BY <1>7, UnlinkedAreInodes
    <3>2. CASE j = last
      <4>1. NextOf(w, j) = next /\ next \in Ino
        BY <1>3, <1>6, <2>1, <3>1, <3>2, UnlinkedAreInodes
      <4>2. rank[j] \in Nat /\ rank[i] \in Nat /\ rank[next] \in Nat
        BY <1>2, <3>1, <4>1
      <4>. QED
        BY <1>3, <2>1, <3>1, <3>2, <4>1, <4>2, UnlinkedAreInodes
    <3>3. CASE j # last
      BY <1>1, <1>6, <2>1, <3>1, <3>3 DEF Ranks
    <3>. QED
      BY <3>2, <3>3
  <2>. QED
    BY <2>1 DEF Ranks
<1>. QED
  BY <1>1, <1>8, <1>10, <1>11, <1>12 DEF List

(***************************************************************************)
(* Names.  w has one more name than v: n in d, for i.                       *)
(***************************************************************************)
OneMore(v, w, d, n, i) ==
  /\ d \in Ino /\ n \in Name /\ i \in Ino /\ v.entry[d][n] = None
  /\ \A x \in Ino, m \in Name :
       w.entry[x][m] = IF x = d /\ m = n THEN i ELSE v.entry[x][m]
  /\ \A x \in Ino, m \in Name :
       v.entry[x][m] # None => (IsDir(w, v.entry[x][m]) <=> IsDir(v, v.entry[x][m]))

CountsMore(v, w, d, n, i) ==
  /\ NamesOf(w, i) = NamesOf(v, i) \union {<<d, n>>} /\ <<d, n>> \notin NamesOf(v, i)
  /\ Cardinality(NamesOf(w, i)) = Cardinality(NamesOf(v, i)) + 1
  /\ \A x \in Ino \ {i} : NamesOf(w, x) = NamesOf(v, x)
  /\ \A x \in Ino \ {d} : Children(w, x) = Children(v, x) /\ Subdirectories(w, x) = Subdirectories(v, x)
  /\ Cardinality(Children(w, d)) = Cardinality(Children(v, d)) + 1
  /\ IsDir(w, i) => Cardinality(Subdirectories(w, d)) = Cardinality(Subdirectories(v, d)) + 1
  /\ ~IsDir(w, i) => Subdirectories(w, d) = Subdirectories(v, d)

LEMMA NamesAreFinite ==
  ASSUME NEW v, NEW x
  PROVE  /\ IsFiniteSet(NamesOf(v, x)) /\ Cardinality(NamesOf(v, x)) \in Nat
         /\ IsFiniteSet(Children(v, x)) /\ Cardinality(Children(v, x)) \in Nat
         /\ IsFiniteSet(Subdirectories(v, x)) /\ Cardinality(Subdirectories(v, x)) \in Nat
<1>1. IsFiniteSet(Name) /\ IsFiniteSet(Ino)
  BY NamespaceAssumption, InodesIs, FS_Interval DEF Ino
<1>2. IsFiniteSet(Ino \X Name)
  BY <1>1, FS_Product, Zenon
<1>3. NamesOf(v, x) \in SUBSET (Ino \X Name) /\ Children(v, x) \in SUBSET Name
      /\ Subdirectories(v, x) \in SUBSET Name
  BY DEF NamesOf, Children, Subdirectories
<1>. QED
  BY <1>1, <1>2, <1>3, FS_Subset, FS_CardinalityType, Zenon

LEMMA OneMoreCounts ==
  ASSUME NEW v, NEW w, NEW d, NEW n, NEW i, OneMore(v, w, d, n, i)
  PROVE  CountsMore(v, w, d, n, i)
<1>0. d \in Ino /\ n \in Name /\ i \in Ino /\ i # None
  BY InodesIs DEF OneMore
<1>1. NamesOf(w, i) = NamesOf(v, i) \union {<<d, n>>} /\ <<d, n>> \notin NamesOf(v, i)
  <2>1. ASSUME NEW p
        PROVE  p \in NamesOf(w, i) <=> p \in NamesOf(v, i) \/ p = <<d, n>>
    BY <1>0 DEF NamesOf, OneMore
  <2>2. <<d, n>> \notin NamesOf(v, i)
    BY <1>0 DEF NamesOf, OneMore
  <2>. QED
    BY <2>1, <2>2
<1>2. \A x \in Ino \ {i} : NamesOf(w, x) = NamesOf(v, x)
  BY <1>0, InodesIs DEF NamesOf, OneMore
<1>3. Children(w, d) = Children(v, d) \union {n} /\ n \notin Children(v, d)
  BY <1>0 DEF Children, OneMore
<1>4. \A x \in Ino \ {d} : Children(w, x) = Children(v, x)
  BY <1>0 DEF Children, OneMore
<1>5. ASSUME NEW x \in Ino \ {d}
      PROVE  Subdirectories(w, x) = Subdirectories(v, x)
  <2>1. \A m \in Name : w.entry[x][m] = v.entry[x][m]
    BY DEF OneMore
  <2>2. ASSUME NEW m
        PROVE  m \in Subdirectories(w, x) <=> m \in Subdirectories(v, x)
    BY <2>1 DEF Subdirectories, Children, OneMore
  <2>. QED
    BY <2>2
<1>6. ASSUME NEW m \in Name, m # n
      PROVE  m \in Subdirectories(w, d) <=> m \in Subdirectories(v, d)
  BY <1>0, <1>6 DEF Subdirectories, Children, OneMore
<1>7. n \notin Subdirectories(v, d) /\ (n \in Subdirectories(w, d) <=> IsDir(w, i))
      /\ Subdirectories(w, d) \in SUBSET Name /\ Subdirectories(v, d) \in SUBSET Name
  BY <1>0 DEF Subdirectories, Children, OneMore
<1>8. IsDir(w, i) => Subdirectories(w, d) = Subdirectories(v, d) \union {n}
  BY <1>6, <1>7
<1>9. ~IsDir(w, i) => Subdirectories(w, d) = Subdirectories(v, d)
  BY <1>6, <1>7
<1>10. Cardinality(NamesOf(w, i)) = Cardinality(NamesOf(v, i)) + 1
  BY <1>1, NamesAreFinite, FS_AddElement
<1>11. Cardinality(Children(w, d)) = Cardinality(Children(v, d)) + 1
  BY <1>3, NamesAreFinite, FS_AddElement
<1>12. IsDir(w, i) => Cardinality(Subdirectories(w, d)) = Cardinality(Subdirectories(v, d)) + 1
  BY <1>7, <1>8, NamesAreFinite, FS_AddElement
<1>. QED
  BY <1>1, <1>2, <1>4, <1>5, <1>9, <1>10, <1>11, <1>12 DEF CountsMore

(***************************************************************************)
(* What happens to the tree.  An inode that has its own counts: type, links  *)
(* and dirents.                                                             *)
(***************************************************************************)
SameCounts(v, w, x) ==
  /\ w.inode[x].type = v.inode[x].type
  /\ w.inode[x].links = v.inode[x].links
  /\ w.inode[x].dirents = v.inode[x].dirents

SameTree(v, w) ==
  /\ w.entry = v.entry
  /\ \A x \in Linked(v) : SameCounts(v, w, x)
  /\ \A x \in Ino \ Linked(v) : x \notin Linked(w)
  /\ \A x \in LinkedDirs(v) : w.parent[x] = v.parent[x]

LEMMA SameCountsIs ==
  ASSUME NEW v, NEW w, NEW x \in Ino, SameCounts(v, w, x)
  PROVE  /\ x \in Linked(w) <=> x \in Linked(v)
         /\ x \in Allocated(w) <=> x \in Allocated(v)
         /\ x \in Unlinked(w) <=> x \in Unlinked(v)
         /\ IsDir(w, x) <=> IsDir(v, x)
         /\ x \in LinkedDirs(w) <=> x \in LinkedDirs(v)
BY DEF SameCounts, Linked, Unlinked, Allocated, IsUnlinked, IsDir, LinkedDirs

LEMMA SameTreeIs ==
  ASSUME NEW v, NEW w, Tree(v), SameTree(v, w)
  PROVE  Tree(w)
<1>1. Linked(v) \in SUBSET Ino /\ Linked(w) \in SUBSET Ino
  BY DEF Linked, Allocated
<1>2. Linked(w) = Linked(v) /\ LinkedDirs(w) = LinkedDirs(v)
  BY <1>1, SameCountsIs DEF SameTree, LinkedDirs
<1>3. \A x \in Linked(v) : IsDir(w, x) <=> IsDir(v, x)
  BY <1>1, SameCountsIs DEF SameTree
<1>4. \A x : NamesOf(w, x) = NamesOf(v, x) /\ Children(w, x) = Children(v, x)
  BY DEF NamesOf, Children, SameTree
<1>5. ASSUME NEW x \in Ino
      PROVE  Subdirectories(w, x) = Subdirectories(v, x)
  BY <1>3, <1>4 DEF Subdirectories, Children, SameTree, Tree, NamesAreLinked
<1>6. NamesAreLinked(w)
  BY <1>2 DEF Tree, NamesAreLinked, SameTree
<1>7. OnePlace(w)
  BY <1>2, <1>4 DEF Tree, OnePlace, SameTree
<1>8. Counted(w)
  BY <1>1, <1>2, <1>3, <1>4, <1>5 DEF Tree, Counted, SameTree, SameCounts
<1>9. PICK depth \in [Ino -> Nat] : Deepens(v, depth)
  BY DEF Tree
<1>10. Deepens(w, depth)
  BY <1>2, <1>9 DEF Deepens, SameTree
<1>. QED
  BY <1>2, <1>6, <1>7, <1>8, <1>10 DEF Tree

\* The name n of d goes, and what it names with it if that was its last link.
NameGone(v, w, d, n, i) ==
  /\ OneMore(w, v, d, n, i)
  /\ \A x \in Ino \ {i, d} : SameCounts(v, w, x)
  /\ i # d
  /\ /\ w.inode[d].type = v.inode[d].type
     /\ w.inode[d].dirents = v.inode[d].dirents - 1
     /\ w.inode[d].links = IF IsDir(v, i) THEN v.inode[d].links - 1 ELSE v.inode[d].links
  /\ IF ~IsDir(v, i) /\ v.inode[i].links > 1
     THEN w.inode[i].type = v.inode[i].type /\ w.inode[i].links = v.inode[i].links - 1
     ELSE i \notin Linked(w)
  /\ \A x \in LinkedDirs(v) \ {i} : w.parent[x] = v.parent[x]

\* An inode that has one name only.
LEMMA OnlyName ==
  ASSUME NEW v, Tree(v), NEW i \in Linked(v) \ {Root},
         IsDir(v, i) \/ v.inode[i].links <= 1,
         NEW d \in Ino, NEW n \in Name, v.entry[d][n] = i
  PROVE  NamesOf(v, i) = {<<d, n>>}
<1>1. <<d, n>> \in NamesOf(v, i)
  BY DEF NamesOf
<1>2. CASE IsDir(v, i)
  BY <1>1, <1>2 DEF Tree, OnePlace, LinkedDirs
<1>3. CASE ~IsDir(v, i)
  <2>1. Cardinality(NamesOf(v, i)) <= 1
    BY <1>3 DEF Tree, Counted
  <2>2. IsFiniteSet({<<d, n>>}) /\ Cardinality({<<d, n>>}) = 1
    BY FS_Singleton
  <2>3. {<<d, n>>} \in SUBSET NamesOf(v, i)
    BY <1>1
  <2>4. /\ Cardinality({<<d, n>>}) <= Cardinality(NamesOf(v, i))
        /\ Cardinality(NamesOf(v, i)) = Cardinality({<<d, n>>}) => NamesOf(v, i) = {<<d, n>>}
    BY <2>3, NamesAreFinite, FS_Subset, Zenon
  <2>. QED
    BY <2>1, <2>2, <2>4, NamesAreFinite
<1>. QED
  BY <1>2, <1>3

LEMMA NameGoneIs ==
  ASSUME NEW v, NEW w, Tree(v), NEW d, NEW n, NEW i, NameGone(v, w, d, n, i),
         IsDir(v, i) => Children(v, i) = {}
  PROVE  Tree(w)
<1>0. /\ d \in Ino /\ n \in Name /\ i \in Ino /\ i # None /\ i # d
      /\ v.entry[d][n] = i /\ w.entry[d][n] = None
      /\ \A x \in Ino, m \in Name : ~(x = d /\ m = n) => w.entry[x][m] = v.entry[x][m]
  BY InodesIs DEF NameGone, OneMore
<1>1. d \in LinkedDirs(v) /\ i \in Linked(v) /\ i # Root
  BY <1>0 DEF Tree, NamesAreLinked
<1>. DEFINE Stays == ~IsDir(v, i) /\ v.inode[i].links > 1
<1>2. \A x \in Ino \ {i} : /\ x \in Linked(w) <=> x \in Linked(v)
                           /\ IsDir(w, x) <=> IsDir(v, x)
  <2>1. CountsMore(w, v, d, n, i)
    BY OneMoreCounts DEF NameGone
  <2>2. v.inode[d].links \in Nat /\ v.inode[d].links # 0 /\ w.inode[d].links \in Nat /\ w.inode[d].links # 0
    <3>1. v.inode[d].links = 2 + Cardinality(Subdirectories(v, d))
      BY <1>1 DEF Tree, Counted, LinkedDirs
    <3>2. Cardinality(Subdirectories(v, d)) \in Nat
      BY NamesAreFinite
    <3>3. w.inode[d].links = v.inode[d].links - 1 \/ w.inode[d].links = v.inode[d].links
      BY DEF NameGone
    <3>. QED
      BY <3>1, <3>2, <3>3
  <2>3. \A x \in Ino \ {i, d} : SameCounts(v, w, x)
    BY DEF NameGone
  <2>4. w.inode[d].type = v.inode[d].type
    BY DEF NameGone
  <2>. QED
    BY <2>2, <2>3, <2>4, SameCountsIs DEF Linked, Allocated, IsUnlinked, IsDir
<1>3. Linked(v) \in SUBSET Ino /\ Linked(w) \in SUBSET Ino
  BY DEF Linked, Allocated
<1>4. /\ Stays => /\ i \in Linked(w) /\ ~IsDir(w, i)
                  /\ w.inode[i].links = v.inode[i].links - 1
      /\ ~Stays => i \notin Linked(w)
  <2>1. Stays => v.inode[i].links \in Nat
    BY <1>1, NamesAreFinite DEF Tree, Counted
  <2>. QED
    BY <1>0, <1>1, <2>1 DEF NameGone, Linked, Allocated, IsUnlinked, IsDir
<1>5. CountsMore(w, v, d, n, i)
  BY OneMoreCounts DEF NameGone
<1>6. ~Stays => NamesOf(v, i) = {<<d, n>>} /\ NamesOf(w, i) = {}
  <2>1. ~Stays => IsDir(v, i) \/ v.inode[i].links <= 1
    BY <1>1, NamesAreFinite DEF Tree, Counted
  <2>2. ~Stays => NamesOf(v, i) = {<<d, n>>}
    BY <1>0, <1>1, <2>1, OnlyName
  <2>. QED
    BY <1>5, <2>2 DEF CountsMore
<1>7. NamesAreLinked(w)
  <2>1. ASSUME NEW x \in Ino, NEW m \in Name, w.entry[x][m] # None
        PROVE  x \in LinkedDirs(w) /\ w.entry[x][m] \in Linked(w) \ {Root}
    <3>1. ~(x = d /\ m = n) /\ w.entry[x][m] = v.entry[x][m]
      BY <1>0, <2>1
    <3>2. x \in LinkedDirs(v) /\ v.entry[x][m] \in Linked(v) \ {Root}
      BY <2>1, <3>1 DEF Tree, NamesAreLinked
    <3>3. x # i
      <4>1. m \in Children(v, x)
        BY <2>1, <3>1 DEF Children
      <4>. QED
        BY <3>2, <4>1 DEF LinkedDirs
    <3>4. v.entry[x][m] \in Linked(w)
      <4>1. CASE v.entry[x][m] = i
        <5>1. <<x, m>> \in NamesOf(w, i)
          BY <3>1, <4>1 DEF NamesOf
        <5>. QED
          BY <1>4, <1>6, <4>1, <5>1
      <4>2. CASE v.entry[x][m] # i
        BY <1>2, <1>3, <3>2, <4>2
      <4>. QED
        BY <4>1, <4>2
    <3>. QED
      BY <1>2, <3>1, <3>2, <3>3, <3>4 DEF LinkedDirs
  <2>. QED
    BY <2>1 DEF NamesAreLinked
<1>8. ASSUME NEW x \in LinkedDirs(w)
      PROVE  x \in LinkedDirs(v) /\ x # i /\ w.parent[x] = v.parent[x]
  <2>1. x # i
    BY <1>4 DEF LinkedDirs
  <2>2. x \in LinkedDirs(v)
    BY <1>2, <1>3, <2>1 DEF LinkedDirs
  <2>. QED
    BY <2>1, <2>2 DEF NameGone
<1>9. OnePlace(w)
  BY <1>3, <1>5, <1>8 DEF Tree, OnePlace, CountsMore, LinkedDirs
<1>10. Counted(w)
  <2>1. ASSUME NEW x \in Linked(w), x # i, x # d
        PROVE  IF IsDir(w, x)
               THEN /\ w.inode[x].links = 2 + Cardinality(Subdirectories(w, x))
                    /\ w.inode[x].dirents = 2 + Cardinality(Children(w, x))
               ELSE w.inode[x].links = Cardinality(NamesOf(w, x))
    <3>1. x \in Ino /\ x \in Linked(v) /\ SameCounts(v, w, x) /\ (IsDir(w, x) <=> IsDir(v, x))
      BY <1>2, <1>3, <2>1 DEF NameGone
    <3>2. NamesOf(v, x) = NamesOf(w, x) /\ Children(v, x) = Children(w, x)
          /\ Subdirectories(v, x) = Subdirectories(w, x)
      BY <1>5, <2>1, <3>1 DEF CountsMore
    <3>. QED
      BY <3>1, <3>2 DEF Tree, Counted, SameCounts
  <2>2. IsDir(w, d) /\ w.inode[d].links = 2 + Cardinality(Subdirectories(w, d))
        /\ w.inode[d].dirents = 2 + Cardinality(Children(w, d))
    <3>1. /\ v.inode[d].links = 2 + Cardinality(Subdirectories(v, d))
          /\ v.inode[d].dirents = 2 + Cardinality(Children(v, d))
      BY <1>1 DEF Tree, Counted, LinkedDirs
    <3>2. /\ Cardinality(Subdirectories(w, d)) \in Nat /\ Cardinality(Children(w, d)) \in Nat
      BY NamesAreFinite
    <3>3. Cardinality(Children(v, d)) = Cardinality(Children(w, d)) + 1
          /\ (IsDir(v, i) => Cardinality(Subdirectories(v, d)) = Cardinality(Subdirectories(w, d)) + 1)
          /\ (~IsDir(v, i) => Subdirectories(v, d) = Subdirectories(w, d))
      BY <1>5 DEF CountsMore
    <3>4. /\ w.inode[d].dirents = v.inode[d].dirents - 1
          /\ w.inode[d].links = IF IsDir(v, i) THEN v.inode[d].links - 1 ELSE v.inode[d].links
      BY DEF NameGone
    <3>5. IsDir(w, d)
      BY <1>0, <1>1, <1>2 DEF LinkedDirs
    <3>. QED
      BY <3>1, <3>2, <3>3, <3>4, <3>5
  <2>3. i \in Linked(w) => ~IsDir(w, i) /\ w.inode[i].links = Cardinality(NamesOf(w, i))
    <3>1. Stays => v.inode[i].links = Cardinality(NamesOf(v, i))
      BY <1>1 DEF Tree, Counted
    <3>2. Cardinality(NamesOf(v, i)) = Cardinality(NamesOf(w, i)) + 1 /\ Cardinality(NamesOf(w, i)) \in Nat
      BY <1>5, NamesAreFinite DEF CountsMore
    <3>. QED
      BY <1>4, <3>1, <3>2
  <2>. QED
    BY <2>1, <2>2, <2>3 DEF Counted
<1>11. PICK depth \in [Ino -> Nat] : Deepens(v, depth)
  BY DEF Tree
<1>12. Deepens(w, depth)
  BY <1>8, <1>11 DEF Deepens
<1>13. Root \in LinkedDirs(w)
  BY <1>1, <1>2, InodesIs DEF Tree, LinkedDirs
<1>. QED
  BY <1>7, <1>9, <1>10, <1>11, <1>12, <1>13 DEF Tree

\* An inode gets the name n in d: a new one, or a file that has others.
NameAdded(v, w, d, n, i) ==
  /\ OneMore(v, w, d, n, i)
  /\ d \in LinkedDirs(v) /\ i # d /\ i # Root /\ i \in Linked(w)
  /\ \A x \in Ino \ {i, d} : SameCounts(v, w, x)
  /\ /\ w.inode[d].type = v.inode[d].type
     /\ w.inode[d].dirents = v.inode[d].dirents + 1
     /\ w.inode[d].links = IF IsDir(w, i) THEN v.inode[d].links + 1 ELSE v.inode[d].links
  /\ i \in Linked(v) => ~IsDir(v, i) /\ ~IsDir(w, i) /\ w.inode[i].links = v.inode[i].links + 1
  /\ i \notin Linked(v) =>
       IF IsDir(w, i) THEN w.inode[i].links = 2 /\ w.inode[i].dirents = 2 /\ w.parent[i] = d
       ELSE w.inode[i].links = 1
  /\ \A x \in LinkedDirs(v) : w.parent[x] = v.parent[x]

LEMMA NameAddedIs ==
  ASSUME NEW v, NEW w, Tree(v), NEW d, NEW n, NEW i, NameAdded(v, w, d, n, i)
  PROVE  Tree(w)
<1>0. /\ d \in Ino /\ n \in Name /\ i \in Ino /\ i # None /\ i # d /\ i # Root
      /\ v.entry[d][n] = None /\ w.entry[d][n] = i
      /\ \A x \in Ino, m \in Name : ~(x = d /\ m = n) => w.entry[x][m] = v.entry[x][m]
  BY InodesIs DEF NameAdded, OneMore
<1>1. Linked(v) \in SUBSET Ino /\ Linked(w) \in SUBSET Ino
  BY DEF Linked, Allocated
<1>2. CountsMore(v, w, d, n, i)
  BY OneMoreCounts DEF NameAdded
<1>3. \A x \in Ino \ {i} : /\ x \in Linked(w) <=> x \in Linked(v)
                           /\ IsDir(w, x) <=> IsDir(v, x)
  <2>1. v.inode[d].links # 0 /\ w.inode[d].links # 0
    <3>1. v.inode[d].links = 2 + Cardinality(Subdirectories(v, d))
      BY DEF Tree, Counted, LinkedDirs, NameAdded
    <3>2. w.inode[d].links = v.inode[d].links + 1 \/ w.inode[d].links = v.inode[d].links
      BY DEF NameAdded
    <3>. QED
      BY <3>1, <3>2, NamesAreFinite
  <2>2. \A x \in Ino \ {i, d} : SameCounts(v, w, x)
    BY DEF NameAdded
  <2>3. w.inode[d].type = v.inode[d].type
    BY DEF NameAdded
  <2>. QED
    BY <2>1, <2>2, <2>3, SameCountsIs DEF Linked, Allocated, IsUnlinked, IsDir
<1>4. i \notin Linked(v) =>
        NamesOf(v, i) = {} /\ Children(v, i) = {} /\ Subdirectories(v, i) = {}
  BY <1>0 DEF Tree, NamesAreLinked, NamesOf, Children, Subdirectories, LinkedDirs
<1>5. i \in Linked(w)
  BY DEF NameAdded
<1>6. NamesAreLinked(w)
  <2>1. ASSUME NEW x \in Ino, NEW m \in Name, w.entry[x][m] # None
        PROVE  x \in LinkedDirs(w) /\ w.entry[x][m] \in Linked(w) \ {Root}
    <3>1. CASE x = d /\ m = n
      BY <1>0, <1>3, <1>5, <3>1 DEF NameAdded, LinkedDirs
    <3>2. CASE ~(x = d /\ m = n)
      <4>1. x \in LinkedDirs(v) /\ w.entry[x][m] \in Linked(v) \ {Root}
        BY <1>0, <2>1, <3>2 DEF Tree, NamesAreLinked
      <4>2. x # i
        <5>1. m \in Children(v, x)
          BY <1>0, <2>1, <3>2 DEF Children
        <5>. QED
          BY <4>1 DEF LinkedDirs, NameAdded
      <4>. QED
        BY <1>1, <1>3, <1>5, <4>1, <4>2 DEF LinkedDirs
    <3>. QED
      BY <3>1, <3>2
  <2>. QED
    BY <2>1 DEF NamesAreLinked
<1>7. ASSUME NEW x \in LinkedDirs(w), x # i
      PROVE  x \in LinkedDirs(v) /\ w.parent[x] = v.parent[x]
  BY <1>1, <1>3, <1>7 DEF NameAdded, LinkedDirs
<1>8. ASSUME i \in LinkedDirs(w)
      PROVE  /\ i \notin Linked(v) /\ w.parent[i] = d
             /\ w.inode[i].links = 2 /\ w.inode[i].dirents = 2
  BY <1>8 DEF NameAdded, LinkedDirs
<1>9. OnePlace(w)
  <2>1. ASSUME NEW x \in LinkedDirs(w) \ {Root}
        PROVE  \E m \in Name : NamesOf(w, x) = {<<w.parent[x], m>>}
    <3>1. CASE x = i
      <4>1. NamesOf(w, i) = {<<d, n>>}
        BY <1>2, <1>4, <1>8, <3>1 DEF CountsMore
      <4>. QED
        BY <1>0, <1>8, <3>1, <4>1
    <3>2. CASE x # i
      BY <1>1, <1>2, <1>7, <3>2 DEF Tree, OnePlace, CountsMore, LinkedDirs
    <3>. QED
      BY <3>1, <3>2
  <2>. QED
    BY <2>1 DEF OnePlace
<1>10. Counted(w)
  <2>1. ASSUME NEW x \in Linked(w), x # i, x # d
        PROVE  IF IsDir(w, x)
               THEN /\ w.inode[x].links = 2 + Cardinality(Subdirectories(w, x))
                    /\ w.inode[x].dirents = 2 + Cardinality(Children(w, x))
               ELSE w.inode[x].links = Cardinality(NamesOf(w, x))
    <3>1. x \in Ino /\ x \in Linked(v) /\ SameCounts(v, w, x) /\ (IsDir(w, x) <=> IsDir(v, x))
      BY <1>1, <1>3, <2>1 DEF NameAdded
    <3>2. NamesOf(v, x) = NamesOf(w, x) /\ Children(v, x) = Children(w, x)
          /\ Subdirectories(v, x) = Subdirectories(w, x)
      BY <1>2, <2>1, <3>1 DEF CountsMore
    <3>. QED
      BY <3>1, <3>2 DEF Tree, Counted, SameCounts
  <2>2. IsDir(w, d) /\ w.inode[d].links = 2 + Cardinality(Subdirectories(w, d))
        /\ w.inode[d].dirents = 2 + Cardinality(Children(w, d))
    <3>1. /\ v.inode[d].links = 2 + Cardinality(Subdirectories(v, d))
          /\ v.inode[d].dirents = 2 + Cardinality(Children(v, d))
      BY DEF Tree, Counted, LinkedDirs, NameAdded
    <3>2. /\ Cardinality(Subdirectories(v, d)) \in Nat /\ Cardinality(Children(v, d)) \in Nat
      BY NamesAreFinite
    <3>3. Cardinality(Children(w, d)) = Cardinality(Children(v, d)) + 1
          /\ (IsDir(w, i) => Cardinality(Subdirectories(w, d)) = Cardinality(Subdirectories(v, d)) + 1)
          /\ (~IsDir(w, i) => Subdirectories(w, d) = Subdirectories(v, d))
      BY <1>2 DEF CountsMore
    <3>4. /\ w.inode[d].dirents = v.inode[d].dirents + 1
          /\ w.inode[d].links = IF IsDir(w, i) THEN v.inode[d].links + 1 ELSE v.inode[d].links
      BY DEF NameAdded
    <3>5. IsDir(w, d)
      BY <1>0, <1>3 DEF LinkedDirs, NameAdded
    <3>. QED
      BY <3>1, <3>2, <3>3, <3>4, <3>5
  <2>3. IF IsDir(w, i)
        THEN /\ w.inode[i].links = 2 + Cardinality(Subdirectories(w, i))
             /\ w.inode[i].dirents = 2 + Cardinality(Children(w, i))
        ELSE w.inode[i].links = Cardinality(NamesOf(w, i))
    <3>1. Children(w, i) = Children(v, i) /\ Subdirectories(w, i) = Subdirectories(v, i)
          /\ Cardinality(NamesOf(w, i)) = Cardinality(NamesOf(v, i)) + 1
      BY <1>0, <1>2 DEF CountsMore
    <3>2. Cardinality({}) = 0
      BY FS_EmptySet
    <3>3. CASE i \in Linked(v)
      <4>1. ~IsDir(v, i) /\ ~IsDir(w, i) /\ w.inode[i].links = v.inode[i].links + 1
        BY <3>3 DEF NameAdded
      <4>2. v.inode[i].links = Cardinality(NamesOf(v, i))
        BY <3>3, <4>1 DEF Tree, Counted
      <4>. QED
        BY <3>1, <4>1, <4>2
    <3>4. CASE i \notin Linked(v)
      <4>1. IF IsDir(w, i) THEN w.inode[i].links = 2 /\ w.inode[i].dirents = 2
            ELSE w.inode[i].links = 1
        BY <3>4 DEF NameAdded
      <4>. QED
        BY <1>4, <3>1, <3>2, <3>4, <4>1
    <3>. QED
      BY <3>3, <3>4
  <2>. QED
    BY <2>1, <2>2, <2>3 DEF Counted
<1>11. PICK depth \in [Ino -> Nat] : Deepens(v, depth)
  BY DEF Tree
<1>. DEFINE new == [depth EXCEPT ![i] = IF i \in LinkedDirs(w) THEN depth[d] + 1 ELSE depth[i]]
<1>12. new \in [Ino -> Nat]
  BY <1>0
<1>13. ASSUME NEW x \in LinkedDirs(w) \ {Root}
       PROVE  new[w.parent[x]] < new[x]
  <2>1. CASE x = i
    <3>1. w.parent[x] = d /\ new[d] = depth[d] /\ new[x] = depth[d] + 1 /\ depth[d] \in Nat
      BY <1>0, <1>8, <2>1
    <3>. QED
      BY <3>1
  <2>2. CASE x # i
    <3>1. x \in LinkedDirs(v) \ {Root} /\ w.parent[x] = v.parent[x] /\ x \in Ino
      BY <1>1, <1>7, <2>2 DEF LinkedDirs
    <3>2. v.parent[x] \in Ino /\ v.parent[x] \in LinkedDirs(v)
      <4>1. PICK m \in Name : NamesOf(v, x) = {<<v.parent[x], m>>}
        BY <3>1 DEF Tree, OnePlace
      <4>2. <<v.parent[x], m>> \in Ino \X Name /\ v.entry[v.parent[x]][m] = x
        BY <4>1 DEF NamesOf
      <4>. QED
        BY <3>1, <4>2, InodesIs DEF Tree, NamesAreLinked
    <3>3. depth[v.parent[x]] < depth[x] /\ new[x] = depth[x]
      BY <1>11, <2>2, <3>1 DEF Deepens
    <3>4. v.parent[x] = i => i \notin LinkedDirs(w)
      BY <1>8, <3>2 DEF LinkedDirs
    <3>5. new[v.parent[x]] = depth[v.parent[x]]
      BY <1>0, <3>2, <3>4
    <3>. QED
      BY <3>1, <3>3, <3>5
  <2>. QED
    BY <2>1, <2>2
<1>14. Deepens(w, new)
  <2>. HIDE DEF new
  <2>. QED
    BY <1>13 DEF Deepens
<1>15. Root \in LinkedDirs(w)
  BY <1>0, <1>3, InodesIs DEF Tree, LinkedDirs
<1>. QED
  BY <1>6, <1>9, <1>10, <1>12, <1>14, <1>15 DEF Tree

\* The name n of d becomes the name n2 of d2, and ".." of a directory follows it.
NameMoved(v, w, d, n, d2, n2, i) ==
  /\ d \in Ino /\ n \in Name /\ d2 \in LinkedDirs(v) /\ n2 \in Name
  /\ i \in Ino /\ v.entry[d][n] = i /\ v.entry[d2][n2] = None
  /\ IsDir(v, i) => ~IsBelow(v, d2, i)
  /\ \A x \in Ino, m \in Name :
       w.entry[x][m] = IF x = d2 /\ m = n2 THEN i
                       ELSE IF x = d /\ m = n THEN None ELSE v.entry[x][m]
  /\ \A x \in Ino : w.inode[x].type = v.inode[x].type
  /\ \A x \in Ino \ {d, d2} : SameCounts(v, w, x)
  /\ d = d2 => SameCounts(v, w, d)
  /\ d # d2 => /\ w.inode[d].dirents = v.inode[d].dirents - 1
               /\ w.inode[d2].dirents = v.inode[d2].dirents + 1
               /\ w.inode[d].links = IF IsDir(v, i) THEN v.inode[d].links - 1 ELSE v.inode[d].links
               /\ w.inode[d2].links = IF IsDir(v, i) THEN v.inode[d2].links + 1 ELSE v.inode[d2].links
  /\ IsDir(v, i) => w.parent[i] = d2
  /\ \A x \in Ino \ {i} : w.parent[x] = v.parent[x]

\* The volume between the two: without a name for i.
Nameless(v, d, n) == [entry |-> [v.entry EXCEPT ![d][n] = None], inode |-> v.inode]

LEMMA NamelessIs ==
  ASSUME NEW v \in Volume, NEW w, NEW d, NEW n, NEW d2, NEW n2, NEW i,
         NameMoved(v, w, d, n, d2, n2, i)
  PROVE  /\ CountsMore(Nameless(v, d, n), v, d, n, i)
         /\ CountsMore(Nameless(v, d, n), w, d2, n2, i)
<1>. PICK u : u = Nameless(v, d, n)
  OBVIOUS
<1>0. d \in Ino /\ n \in Name /\ d2 \in Ino /\ n2 \in Name /\ i \in Ino
      /\ v.entry[d][n] = i /\ v.entry[d2][n2] = None /\ i # None
  BY InodesIs DEF NameMoved, LinkedDirs, Linked, Allocated
<1>1. \A x \in Ino, m \in Name : u.entry[x][m] = IF x = d /\ m = n THEN None ELSE v.entry[x][m]
  BY <1>0 DEF Nameless, Volume
<1>2. u.inode = v.inode
  BY DEF Nameless
<1>3. OneMore(u, v, d, n, i)
  BY <1>0, <1>1, <1>2 DEF OneMore, IsDir
<1>4. \A x \in Ino, m \in Name : v.entry[x][m] \in Ino \union {None}
  BY DEF Volume
<1>5. \A x \in Ino : IsDir(w, x) <=> IsDir(u, x)
  BY <1>2 DEF NameMoved, IsDir
<1>6. OneMore(u, w, d2, n2, i)
  <2>1. \A x \in Ino, m \in Name :
          w.entry[x][m] = IF x = d2 /\ m = n2 THEN i ELSE u.entry[x][m]
    BY <1>1 DEF NameMoved
  <2>2. \A x \in Ino, m \in Name : u.entry[x][m] \in Ino \union {None}
    BY <1>1, <1>4
  <2>3. u.entry[d2][n2] = None
    BY <1>0, <1>1
  <2>. QED
    BY <1>0, <1>5, <2>1, <2>2, <2>3 DEF OneMore
<1>. QED
  BY <1>3, <1>6, OneMoreCounts

LEMMA NameMovedIs ==
  ASSUME NEW v, v \in Volume, NEW w, Tree(v), NEW d, NEW n, NEW d2, NEW n2, NEW i,
         NameMoved(v, w, d, n, d2, n2, i)
  PROVE  Tree(w)
<1>. PICK u : u = Nameless(v, d, n)
  OBVIOUS
<1>0. /\ d \in Ino /\ n \in Name /\ d2 \in Ino /\ n2 \in Name /\ i \in Ino
      /\ v.entry[d][n] = i /\ v.entry[d2][n2] = None /\ i # None /\ d2 \in LinkedDirs(v)
  BY InodesIs DEF NameMoved, LinkedDirs, Linked, Allocated
<1>1. d \in LinkedDirs(v) /\ i \in Linked(v) /\ i # Root
  BY <1>0 DEF Tree, NamesAreLinked
<1>2. CountsMore(u, v, d, n, i) /\ CountsMore(u, w, d2, n2, i)
  BY NamelessIs
<1>3. Linked(v) \in SUBSET Ino /\ Linked(w) \in SUBSET Ino
  BY DEF Linked, Allocated
<1>4. \A x \in Ino : IsDir(w, x) <=> IsDir(v, x)
  BY DEF NameMoved, IsDir
<1>5. PICK depth \in [Ino -> Nat] : Deepens(v, depth)
  BY DEF Tree
<1>6. IsDir(v, i) => v.parent[i] = d /\ i # d /\ i # d2
  <2>1. IsDir(v, i) => NamesOf(v, i) = {<<d, n>>}
    BY <1>0, <1>1, OnlyName
  <2>2. ASSUME IsDir(v, i)
        PROVE  v.parent[i] = d
    <3>1. PICK m \in Name : NamesOf(v, i) = {<<v.parent[i], m>>}
      BY <1>1, <2>2 DEF Tree, OnePlace, LinkedDirs
    <3>2. <<v.parent[i], m>> = <<d, n>>
      BY <2>1, <2>2, <3>1
    <3>. QED
      BY <3>2
  <2>3. IsDir(v, i) => depth[v.parent[i]] < depth[i] /\ depth[i] \in Nat
    BY <1>0, <1>1, <1>5 DEF Deepens, LinkedDirs
  <2>4. IsDir(v, i) => i # d2
    BY <1>0, BelowItself DEF NameMoved
  <2>. QED
    BY <2>2, <2>3, <2>4
<1>7. i # d /\ i # d2
  BY <1>0, <1>1, <1>6 DEF LinkedDirs
<1>8. \A x \in Ino : x \in Linked(w) <=> x \in Linked(v)
  <2>1. \A x \in {d, d2} : w.inode[x].links # 0 /\ v.inode[x].links # 0
    <3>1. ASSUME NEW x \in {d, d2}
          PROVE  w.inode[x].links # 0 /\ v.inode[x].links # 0
      <4>1. v.inode[x].links = 2 + Cardinality(Subdirectories(v, x))
        BY <1>0, <1>1 DEF Tree, Counted, LinkedDirs
      <4>2. w.inode[x].links \in {v.inode[x].links - 1, v.inode[x].links, v.inode[x].links + 1}
        BY <3>1 DEF NameMoved, SameCounts
      <4>. QED
        BY <4>1, <4>2, NamesAreFinite
    <3>. QED
      BY <3>1
  <2>2. \A x \in Ino : w.inode[x].type = v.inode[x].type
    BY DEF NameMoved
  <2>3. \A x \in Ino \ {d, d2} : w.inode[x].links = v.inode[x].links
    BY DEF NameMoved, SameCounts
  <2>. QED
    BY <2>1, <2>2, <2>3 DEF Linked, Allocated, IsUnlinked
<1>9. LinkedDirs(w) = LinkedDirs(v) /\ Linked(w) = Linked(v)
  BY <1>3, <1>4, <1>8 DEF LinkedDirs
<1>10. NamesAreLinked(w)
  <2>1. ASSUME NEW x \in Ino, NEW m \in Name, w.entry[x][m] # None
        PROVE  x \in LinkedDirs(w) /\ w.entry[x][m] \in Linked(w) \ {Root}
    <3>1. w.entry[x][m] = IF x = d2 /\ m = n2 THEN i
                          ELSE IF x = d /\ m = n THEN None ELSE v.entry[x][m]
      BY DEF NameMoved
    <3>2. CASE x = d2 /\ m = n2
      BY <1>0, <1>1, <1>9, <3>1, <3>2
    <3>3. CASE ~(x = d2 /\ m = n2)
      BY <1>9, <2>1, <3>1, <3>3 DEF Tree, NamesAreLinked
    <3>. QED
      BY <3>2, <3>3
  <2>. QED
    BY <2>1 DEF NamesAreLinked
<1>11. OnePlace(w)
  <2>1. ASSUME NEW x \in LinkedDirs(v) \ {Root}
        PROVE  \E m \in Name : NamesOf(w, x) = {<<w.parent[x], m>>}
    <3>1. CASE x = i
      <4>1. IsDir(v, i) /\ NamesOf(v, i) = {<<d, n>>}
        BY <1>0, <1>1, <3>1, OnlyName DEF LinkedDirs
      <4>2. NamesOf(u, i) = {}
        BY <1>2, <4>1 DEF CountsMore
      <4>3. NamesOf(w, i) = {<<d2, n2>>} /\ w.parent[i] = d2
        BY <1>2, <4>1, <4>2 DEF CountsMore, NameMoved
      <4>. QED
        BY <1>0, <3>1, <4>3
    <3>2. CASE x # i
      <4>1. x \in Ino \ {i}
        BY <1>3, <3>2 DEF LinkedDirs
      <4>2. NamesOf(w, x) = NamesOf(v, x) /\ w.parent[x] = v.parent[x]
        BY <1>2, <4>1 DEF CountsMore, NameMoved
      <4>. QED
        BY <4>2 DEF Tree, OnePlace
    <3>. QED
      BY <3>1, <3>2
  <2>. QED
    BY <1>9, <2>1 DEF OnePlace
<1>12. Counted(w)
  <2>. DEFINE Right(x) == IF IsDir(w, x)
                          THEN /\ w.inode[x].links = 2 + Cardinality(Subdirectories(w, x))
                               /\ w.inode[x].dirents = 2 + Cardinality(Children(w, x))
                          ELSE w.inode[x].links = Cardinality(NamesOf(w, x))
  <2>1. Cardinality(NamesOf(w, i)) = Cardinality(NamesOf(v, i))
    BY <1>2 DEF CountsMore
  <2>2. ASSUME NEW x \in Linked(v), x # d, x # d2
        PROVE  Right(x)
    <3>1. x \in Ino /\ SameCounts(v, w, x) /\ (IsDir(w, x) <=> IsDir(v, x))
      BY <1>3, <1>4, <2>2 DEF NameMoved
    <3>2. Cardinality(NamesOf(w, x)) = Cardinality(NamesOf(v, x))
          /\ Children(w, x) = Children(v, x) /\ Subdirectories(w, x) = Subdirectories(v, x)
      BY <1>2, <2>1, <2>2, <3>1 DEF CountsMore
    <3>. QED
      BY <3>1, <3>2 DEF Tree, Counted, SameCounts
  <2>3. ASSUME NEW x \in {d, d2}
        PROVE  /\ IsDir(w, x)
               /\ v.inode[x].links = 2 + Cardinality(Subdirectories(v, x))
               /\ v.inode[x].dirents = 2 + Cardinality(Children(v, x))
    BY <1>0, <1>1, <1>4 DEF Tree, Counted, LinkedDirs
  <2>4. CASE d = d2
    <3>1. SameCounts(v, w, d)
      BY <2>4 DEF NameMoved
    <3>2. Cardinality(Children(w, d)) = Cardinality(Children(v, d))
      BY <1>2, <2>4 DEF CountsMore
    <3>3. Cardinality(Subdirectories(w, d)) = Cardinality(Subdirectories(v, d))
      BY <1>0, <1>2, <1>4, <2>4 DEF CountsMore
    <3>4. Right(d)
      BY <2>3, <3>1, <3>2, <3>3 DEF SameCounts
    <3>. QED
      BY <1>9, <2>2, <2>4, <3>4 DEF Counted
  <2>5. CASE d # d2
    <3>1. /\ w.inode[d].dirents = v.inode[d].dirents - 1
          /\ w.inode[d2].dirents = v.inode[d2].dirents + 1
          /\ w.inode[d].links = IF IsDir(v, i) THEN v.inode[d].links - 1 ELSE v.inode[d].links
          /\ w.inode[d2].links = IF IsDir(v, i) THEN v.inode[d2].links + 1 ELSE v.inode[d2].links
      BY <2>5 DEF NameMoved
    <3>2. /\ Cardinality(Children(v, d)) = Cardinality(Children(w, d)) + 1
          /\ Cardinality(Children(w, d2)) = Cardinality(Children(v, d2)) + 1
      BY <1>0, <1>2, <2>5 DEF CountsMore
    <3>3. /\ Cardinality(Subdirectories(v, d)) = Cardinality(Subdirectories(w, d)) + (IF IsDir(v, i) THEN 1 ELSE 0)
          /\ Cardinality(Subdirectories(w, d2)) = Cardinality(Subdirectories(v, d2)) + (IF IsDir(v, i) THEN 1 ELSE 0)
      <4>1. /\ Subdirectories(u, d) = Subdirectories(w, d)
            /\ Subdirectories(u, d2) = Subdirectories(v, d2)
        BY <1>0, <1>2, <2>5 DEF CountsMore
      <4>2. /\ Cardinality(Subdirectories(w, d)) \in Nat
            /\ Cardinality(Subdirectories(v, d2)) \in Nat
        BY NamesAreFinite
      <4>3. CASE IsDir(v, i)
        BY <1>0, <1>2, <1>4, <4>1, <4>2, <4>3 DEF CountsMore
      <4>4. CASE ~IsDir(v, i)
        BY <1>0, <1>2, <1>4, <4>1, <4>2, <4>4 DEF CountsMore
      <4>. QED
        BY <4>3, <4>4
    <3>4. Right(d)
      BY <2>3, <3>1, <3>2, <3>3, NamesAreFinite
    <3>5. Right(d2)
      BY <2>3, <3>1, <3>2, <3>3, NamesAreFinite
    <3>. QED
      BY <1>9, <2>2, <3>4, <3>5 DEF Counted
  <2>. QED
    BY <2>4, <2>5
<1>. DEFINE new == [x \in Ino |-> IF IsDir(v, i) /\ x \in LinkedDirs(v) /\ IsBelow(v, x, i)
                                  THEN depth[x] + depth[d2] + 1 ELSE depth[x]]
<1>13. new \in [Ino -> Nat]
  BY <1>0
<1>14. ASSUME NEW x \in LinkedDirs(v) \ {Root}
       PROVE  new[w.parent[x]] < new[x]
  <2>0. x \in Ino /\ depth[x] \in Nat /\ depth[d2] \in Nat
    BY <1>0, <1>3 DEF LinkedDirs
  <2>1. CASE x = i
    <3>1. IsDir(v, i) /\ w.parent[i] = d2 /\ ~IsBelow(v, d2, i) /\ IsBelow(v, i, i)
      BY <1>0, <2>1, BelowItself DEF NameMoved, LinkedDirs
    <3>2. new[d2] = depth[d2] /\ new[i] = depth[i] + depth[d2] + 1
      BY <1>0, <2>1, <3>1
    <3>. QED
      BY <2>0, <2>1, <3>1, <3>2
  <2>2. CASE x # i
    <3>. PICK p : p = v.parent[x]
      OBVIOUS
    <3>1. p \in LinkedDirs(v) /\ w.parent[x] = p /\ p \in Ino
      BY <1>3, <2>0, <2>2, ParentIs DEF NameMoved, LinkedDirs
    <3>2. IsBelow(v, x, i) <=> IsBelow(v, p, i)
      BY <1>0, <2>2, BelowParent
    <3>3. depth[p] < depth[x] /\ depth[p] \in Nat
      BY <1>5, <3>1 DEF Deepens
    <3>. QED
      BY <2>0, <3>1, <3>2, <3>3
  <2>. QED
    BY <2>1, <2>2
<1>15. Deepens(w, new)
  <2>. HIDE DEF new
  <2>. QED
    BY <1>9, <1>14 DEF Deepens
<1>. QED
  BY <1>9, <1>10, <1>11, <1>12, <1>13, <1>15 DEF Tree

(***************************************************************************)
(* What the functions from volume to volume do, inode by inode.  Nothing     *)
(* changes in an inode that is not synced.                                  *)
(***************************************************************************)
Synced(v, w) ==
  v.sync \subseteq w.sync /\ \A x \in Ino \ w.sync : w.inode[x] = v.inode[x]

SameLinks(v, w, x) == Last(w, x) = Last(v, x) /\ NextOf(w, x) = NextOf(v, x)

OnlySyncs(v, S, w) ==
  /\ w \in Volume /\ w.sync = v.sync \union S
  /\ w.inode = v.inode /\ w.entry = v.entry /\ w.parent = v.parent
  /\ w.head = v.head /\ w.tail = v.tail

LEMMA InodeSyncIs ==
  ASSUME NEW v, v \in Volume, NEW S, S \subseteq Ino
  PROVE  OnlySyncs(v, S, InodeSync(v, S))
BY DEF InodeSync, Volume, OnlySyncs

LEMMA FreeIs ==
  /\ Free \in Inode /\ Free.type = "free" /\ Free.links = 0 /\ Free.last = None /\ Free.next = None
  /\ NewFile \in Inode /\ NewFile.type = "file" /\ NewFile.links = 1
  /\ NewFile.last = None /\ NewFile.next = None
  /\ NewDir \in Inode /\ NewDir.type = "dir" /\ NewDir.links = 2 /\ NewDir.dirents = 2
  /\ NewDir.last = None /\ NewDir.next = None
BY DEF Free, NewFile, NewDir, Inode

LEMMA InoFreeIs ==
  ASSUME NEW v \in Volume, NEW i \in Ino, NEW w, w = InoFree(v, i)
  PROVE  /\ w \in Volume /\ w.sync = v.sync \union {i}
         /\ w.inode[i] = Free /\ \A x \in Ino \ {i} : w.inode[x] = v.inode[x]
         /\ w.entry[i] = NoNames /\ \A x \in Ino \ {i} : w.entry[x] = v.entry[x]
         /\ w.parent[i] = None /\ \A x \in Ino \ {i} : w.parent[x] = v.parent[x]
         /\ w.head = v.head /\ w.tail = v.tail
<1>0. PICK u : u = [v EXCEPT !.inode[i] = Free, !.entry[i] = NoNames, !.parent[i] = None]
  OBVIOUS
<1>1. NoNames \in [Name -> Ino \union {None}] /\ None \in Ino \union {None}
  BY DEF NoNames
<1>2. u \in Volume
  BY <1>0, <1>1, FreeIs DEF Volume
<1>3. /\ u.inode[i] = Free /\ \A x \in Ino \ {i} : u.inode[x] = v.inode[x]
      /\ u.entry[i] = NoNames /\ \A x \in Ino \ {i} : u.entry[x] = v.entry[x]
      /\ u.parent[i] = None /\ \A x \in Ino \ {i} : u.parent[x] = v.parent[x]
      /\ u.head = v.head /\ u.tail = v.tail /\ u.sync = v.sync
  BY <1>0 DEF Volume
<1>4. w = InodeSync(u, {i}) /\ {i} \subseteq Ino
  BY <1>0 DEF InoFree
<1>5. OnlySyncs(u, {i}, w)
  BY <1>2, <1>4, InodeSyncIs
<1>. QED
  BY <1>3, <1>5 DEF OnlySyncs

LEMMA EmptiedIs ==
  ASSUME NEW v \in Volume, NEW i \in Ino, NEW w, w = Emptied(v, i)
  PROVE  /\ w \in Volume /\ w.sync = v.sync
         /\ \A x \in Ino \ {i} : w.inode[x] = v.inode[x]
         /\ w.inode[i].type = v.inode[i].type /\ w.inode[i].links = v.inode[i].links
         /\ SameLinks(v, w, i)
         /\ w.entry[i] = IF IsDir(v, i) THEN NoNames ELSE v.entry[i]
         /\ w.parent[i] = IF IsDir(v, i) THEN None ELSE v.parent[i]
         /\ \A x \in Ino \ {i} : w.entry[x] = v.entry[x] /\ w.parent[x] = v.parent[x]
         /\ w.head = v.head /\ w.tail = v.tail
<1>1. NoNames \in [Name -> Ino \union {None}] /\ None \in Ino \union {None}
  BY DEF NoNames
<1>2. CASE IsDir(v, i)
  <2>1. w = [v EXCEPT !.inode[i].dirents = 0, !.entry[i] = NoNames, !.parent[i] = None]
    BY <1>2 DEF Emptied
  <2>. PICK r : r = [v.inode[i] EXCEPT !.dirents = 0]
    OBVIOUS
  <2>2. v.inode \in [Ino -> Inode] /\ v.inode[i] \in Inode
    BY DEF Volume
  <2>3. r \in Inode /\ r.type = v.inode[i].type /\ r.links = v.inode[i].links
        /\ r.last = v.inode[i].last /\ r.next = v.inode[i].next
    BY <2>2 DEF Inode
  <2>4. w = [v EXCEPT !.inode[i] = r, !.entry[i] = NoNames, !.parent[i] = None]
    BY <2>1 DEF Volume
  <2>5. w \in Volume
    <3>. PICK f \in [Ino -> Inode] : f = [v.inode EXCEPT ![i] = r]
      BY <2>2, <2>3
    <3>. PICK g \in [Ino -> [Name -> Ino \union {None}]] : g = [v.entry EXCEPT ![i] = NoNames]
      BY <1>1 DEF Volume
    <3>. PICK h \in [Ino -> Ino \union {None}] : h = [v.parent EXCEPT ![i] = None]
      BY <1>1 DEF Volume
    <3>1. w = [v EXCEPT !.inode = f, !.entry = g, !.parent = h]
      BY <2>4 DEF Volume
    <3>. QED
      BY <3>1 DEF Volume
  <2>6. /\ w.inode[i] = r /\ w.entry[i] = NoNames /\ w.parent[i] = None /\ w.sync = v.sync
        /\ w.head = v.head /\ w.tail = v.tail
        /\ \A x \in Ino \ {i} : /\ w.inode[x] = v.inode[x]
                              /\ w.entry[x] = v.entry[x] /\ w.parent[x] = v.parent[x]
    BY <2>4 DEF Volume
  <2>. QED
    BY <1>2, <2>3, <2>5, <2>6 DEF SameLinks, Last, NextOf
<1>3. CASE ~IsDir(v, i)
  BY <1>3 DEF Emptied, SameLinks
<1>. QED
  BY <1>2, <1>3

\* Only the links of the list, the ends of the list and what is synced may change.
SameButLinks(v, w) ==
  /\ w \in Volume /\ Synced(v, w) /\ w.entry = v.entry /\ w.parent = v.parent
  /\ \A x \in Ino : SameCounts(v, w, x)

LEMMA SameButLinksTwice ==
  ASSUME NEW v, NEW u, NEW w, SameButLinks(v, u), SameButLinks(u, w)
  PROVE  SameButLinks(v, w)
<1>1. Synced(v, w)
  BY DEF SameButLinks, Synced
<1>. QED
  BY <1>1 DEF SameButLinks, SameCounts

AddedLast(v, w, i) ==
  /\ SameButLinks(v, w)
  /\ w.tail = i /\ w.head = (IF v.tail = None THEN i ELSE v.head)
  /\ Last(w, i) = (IF v.tail = None THEN Last(v, i) ELSE v.tail)
  /\ \A x \in Ino \ {i} : Last(w, x) = Last(v, x)
  /\ \A x \in Ino : NextOf(w, x) = IF x = v.tail THEN i ELSE NextOf(v, x)

LEMMA AddUnlinkedIs ==
  ASSUME NEW v, v \in Volume, NEW i, i \in Ino, v.tail # i
  PROVE  AddedLast(v, AddUnlinked(v, i), i)
<1>. PICK w : w = AddUnlinked(v, i)
  OBVIOUS
<1>1. CASE v.tail = None
  <2>1. w = [v EXCEPT !.head = i, !.tail = i]
    BY <1>1 DEF AddUnlinked
  <2>2. w \in Volume /\ w.inode = v.inode /\ w.sync = v.sync
    BY <2>1 DEF Volume
  <2>. QED
    BY <1>1, <2>1, <2>2, InodesIs
       DEF Volume, Synced, SameCounts, Last, NextOf, AddedLast, SameButLinks
<1>2. CASE v.tail # None
  <2>. PICK t \in Ino : t = v.tail /\ t # i
    BY <1>2 DEF Volume
  <2>0. PICK u : u = [v EXCEPT !.inode[t].next = i, !.inode[i].last = t, !.tail = i]
    OBVIOUS
  <2>4. v.inode[i] \in Inode /\ v.inode[t] \in Inode
    BY DEF Volume
  <2>1. u \in Volume
    <3>. PICK r : r = [v.inode[t] EXCEPT !.next = i]
      OBVIOUS
    <3>. PICK s : s = [v.inode[i] EXCEPT !.last = t]
      OBVIOUS
    <3>1. r \in Inode /\ s \in Inode
      BY <2>4 DEF Inode
    <3>. PICK f \in [Ino -> Inode] : f = [[v.inode EXCEPT ![t] = r] EXCEPT ![i] = s]
      BY <3>1 DEF Volume
    <3>2. u = [v EXCEPT !.inode = f, !.tail = i]
      BY <2>0 DEF Volume
    <3>. QED
      BY <3>2 DEF Volume
  <2>2. /\ u.entry = v.entry /\ u.parent = v.parent /\ u.tail = i /\ u.head = v.head
        /\ u.sync = v.sync
    BY <2>0 DEF Volume
  <2>3. /\ \A x \in Ino \ {i, t} : u.inode[x] = v.inode[x]
        /\ u.inode[i] = [v.inode[i] EXCEPT !.last = t]
        /\ u.inode[t] = [v.inode[t] EXCEPT !.next = i]
    BY <2>0 DEF Volume
  <2>5. \A x \in Ino : SameCounts(v, u, x)
    BY <2>3, <2>4 DEF SameCounts, Inode
  <2>6. /\ \A x \in Ino : Last(u, x) = IF x = i THEN t ELSE Last(v, x)
        /\ \A x \in Ino : NextOf(u, x) = IF x = t THEN i ELSE NextOf(v, x)
    BY <2>3, <2>4 DEF Last, NextOf, Inode
  <2>7. w = InodeSync(u, {t, i}) /\ {t, i} \subseteq Ino
    BY <1>2, <2>0 DEF AddUnlinked
  <2>10. OnlySyncs(u, {t, i}, w)
    BY <2>1, <2>7, InodeSyncIs
  <2>8. w \in Volume /\ w.sync = v.sync \union {t, i} /\ w.inode = u.inode /\ w.entry = v.entry
        /\ w.parent = v.parent /\ w.tail = i /\ w.head = v.head
    BY <2>2, <2>10 DEF OnlySyncs
  <2>9. Synced(v, w)
    BY <2>3, <2>8 DEF Synced
  <2>. QED
    BY <1>2, <2>5, <2>6, <2>8, <2>9 DEF SameCounts, Last, NextOf, AddedLast, SameButLinks
<1>. QED
  BY <1>1, <1>2

NextIsSet(v, w, x, y) ==
  /\ SameButLinks(v, w) /\ w.head = v.head /\ w.tail = v.tail
  /\ \A z \in Ino : /\ Last(w, z) = Last(v, z)
                    /\ NextOf(w, z) = IF z = x THEN y ELSE NextOf(v, z)

LEMMA SettingNext ==
  ASSUME NEW v, v \in Volume, NEW x, x \in Ino, NEW y, y \in Ino \union {None}
  PROVE  NextIsSet(v, InodeSync([v EXCEPT !.inode[x].next = y], {x}), x, y)
<1>0. PICK u : u = [v EXCEPT !.inode[x].next = y]
  OBVIOUS
<1>1. v.inode[x] \in Inode /\ v.inode \in [Ino -> Inode]
  BY DEF Volume
<1>2. PICK r : r = [v.inode[x] EXCEPT !.next = y]
  OBVIOUS
<1>3. r \in Inode /\ r.type = v.inode[x].type /\ r.links = v.inode[x].links
      /\ r.dirents = v.inode[x].dirents /\ r.last = v.inode[x].last /\ r.next = y
  BY <1>1, <1>2 DEF Inode
<1>4. PICK f \in [Ino -> Inode] : f = [v.inode EXCEPT ![x] = r]
  BY <1>1, <1>3
<1>5. u = [v EXCEPT !.inode = f]
  BY <1>0, <1>2, <1>4 DEF Volume
<1>6. /\ u \in Volume /\ u.inode = f /\ u.sync = v.sync /\ u.entry = v.entry
      /\ u.parent = v.parent /\ u.head = v.head /\ u.tail = v.tail
  BY <1>5, Zenon DEF Volume
<1>7. PICK w : w = InodeSync(u, {x})
  OBVIOUS
<1>8. OnlySyncs(u, {x}, w)
  BY <1>6, <1>7, InodeSyncIs
<1>9. /\ w \in Volume /\ w.inode = f /\ w.sync = v.sync \union {x} /\ w.entry = v.entry
      /\ w.parent = v.parent /\ w.head = v.head /\ w.tail = v.tail
  BY <1>6, <1>8 DEF OnlySyncs
<1>10. Synced(v, w)
  BY <1>4, <1>9, <1>1 DEF Synced
<1>11. \A z \in Ino : f[z] = IF z = x THEN r ELSE v.inode[z]
  BY <1>1, <1>4
<1>12. NextIsSet(v, w, x, y)
  BY <1>3, <1>9, <1>10, <1>11 DEF NextIsSet, SameButLinks, SameCounts, Last, NextOf
<1>. QED
  BY <1>0, <1>7, <1>12

LastIsSet(v, w, x, y) ==
  /\ SameButLinks(v, w) /\ w.head = v.head /\ w.tail = v.tail
  /\ \A z \in Ino : /\ NextOf(w, z) = NextOf(v, z)
                    /\ Last(w, z) = IF z = x THEN y ELSE Last(v, z)

LEMMA SettingLast ==
  ASSUME NEW v, v \in Volume, NEW x, x \in Ino, NEW y, y \in Ino \union {None}
  PROVE  LastIsSet(v, InodeSync([v EXCEPT !.inode[x].last = y], {x}), x, y)
<1>0. PICK u : u = [v EXCEPT !.inode[x].last = y]
  OBVIOUS
<1>1. v.inode[x] \in Inode /\ v.inode \in [Ino -> Inode]
  BY DEF Volume
<1>2. PICK r : r = [v.inode[x] EXCEPT !.last = y]
  OBVIOUS
<1>3. r \in Inode /\ r.type = v.inode[x].type /\ r.links = v.inode[x].links
      /\ r.dirents = v.inode[x].dirents /\ r.next = v.inode[x].next /\ r.last = y
  BY <1>1, <1>2 DEF Inode
<1>4. PICK f \in [Ino -> Inode] : f = [v.inode EXCEPT ![x] = r]
  BY <1>1, <1>3
<1>5. u = [v EXCEPT !.inode = f]
  BY <1>0, <1>2, <1>4 DEF Volume
<1>6. /\ u \in Volume /\ u.inode = f /\ u.sync = v.sync /\ u.entry = v.entry
      /\ u.parent = v.parent /\ u.head = v.head /\ u.tail = v.tail
  BY <1>5, Zenon DEF Volume
<1>7. PICK w : w = InodeSync(u, {x})
  OBVIOUS
<1>8. OnlySyncs(u, {x}, w)
  BY <1>6, <1>7, InodeSyncIs
<1>9. /\ w \in Volume /\ w.inode = f /\ w.sync = v.sync \union {x} /\ w.entry = v.entry
      /\ w.parent = v.parent /\ w.head = v.head /\ w.tail = v.tail
  BY <1>6, <1>8 DEF OnlySyncs
<1>10. Synced(v, w)
  BY <1>4, <1>9, <1>1 DEF Synced
<1>11. \A z \in Ino : f[z] = IF z = x THEN r ELSE v.inode[z]
  BY <1>1, <1>4
<1>12. LastIsSet(v, w, x, y)
  BY <1>3, <1>9, <1>10, <1>11 DEF LastIsSet, SameButLinks, SameCounts, Last, NextOf
<1>. QED
  BY <1>0, <1>7, <1>12

Relinked(v, w, i) ==
  /\ SameButLinks(v, w)
  /\ w.head = (IF Last(v, i) = None THEN NextOf(v, i) ELSE v.head)
  /\ w.tail = (IF NextOf(v, i) = None THEN Last(v, i) ELSE v.tail)
  /\ \A x \in Ino : /\ Last(w, x) = IF x = NextOf(v, i) THEN Last(v, i) ELSE Last(v, x)
                    /\ NextOf(w, x) = IF x = Last(v, i) THEN NextOf(v, i) ELSE NextOf(v, x)

LEMMA RemoveUnlinkedIs ==
  ASSUME NEW v, v \in Volume, NEW i, i \in Ino
  PROVE  Relinked(v, RemoveUnlinked(v, i), i)
<1>. DEFINE last == v.inode[i].last
            next == v.inode[i].next
            u == IF last = None THEN [v EXCEPT !.head = next]
                 ELSE InodeSync([v EXCEPT !.inode[last].next = next], {last})
            w == IF next = None THEN [u EXCEPT !.tail = last]
                 ELSE InodeSync([u EXCEPT !.inode[next].last = last], {next})
<1>4. w = RemoveUnlinked(v, i)
  BY DEF RemoveUnlinked
<1>2. u = IF last = None THEN [v EXCEPT !.head = next]
          ELSE InodeSync([v EXCEPT !.inode[last].next = next], {last})
  OBVIOUS
<1>3. w = IF next = None THEN [u EXCEPT !.tail = last]
          ELSE InodeSync([u EXCEPT !.inode[next].last = last], {next})
  OBVIOUS
<1>0. last = Last(v, i) /\ next = NextOf(v, i)
  BY DEF Last, NextOf
<1>. HIDE DEF last, next, u, w
<1>1. last \in Ino \union {None} /\ next \in Ino \union {None}
  BY <1>0 DEF Volume, Inode, Last, NextOf
<1>5. /\ SameButLinks(v, u) /\ u.tail = v.tail
      /\ u.head = (IF last = None THEN next ELSE v.head)
      /\ \A x \in Ino : /\ Last(u, x) = Last(v, x)
                        /\ NextOf(u, x) = IF x = last THEN next ELSE NextOf(v, x)
  <2>1. CASE last = None
    <3>1. u = [v EXCEPT !.head = next]
      BY <1>2, <2>1
    <3>2. SameButLinks(v, u) /\ u.head = next /\ u.tail = v.tail /\ u.inode = v.inode
      BY <1>1, <3>1 DEF SameButLinks, Synced, SameCounts, Volume
    <3>. QED
      BY <2>1, <3>2, InodesIs DEF Last, NextOf
  <2>2. CASE last # None
    <3>1. u = InodeSync([v EXCEPT !.inode[last].next = next], {last}) /\ last \in Ino
      BY <1>1, <1>2, <2>2
    <3>2. NextIsSet(v, u, last, next)
      BY <1>1, <3>1, SettingNext
    <3>. QED
      BY <2>2, <3>2 DEF NextIsSet
  <2>. QED
    BY <2>1, <2>2
<1>6. /\ SameButLinks(u, w) /\ w.head = u.head
      /\ w.tail = (IF next = None THEN last ELSE u.tail)
      /\ \A x \in Ino : /\ NextOf(w, x) = NextOf(u, x)
                        /\ Last(w, x) = IF x = next THEN last ELSE Last(u, x)
  <2>0. u \in Volume
    BY <1>5 DEF SameButLinks
  <2>1. CASE next = None
    <3>1. w = [u EXCEPT !.tail = last]
      BY <1>3, <2>1
    <3>2. SameButLinks(u, w) /\ w.tail = last /\ w.head = u.head /\ w.inode = u.inode
      BY <1>1, <2>0, <3>1 DEF SameButLinks, Synced, SameCounts, Volume
    <3>. QED
      BY <2>1, <3>2, InodesIs DEF Last, NextOf
  <2>2. CASE next # None
    <3>1. w = InodeSync([u EXCEPT !.inode[next].last = last], {next}) /\ next \in Ino
      BY <1>1, <1>3, <2>2
    <3>2. LastIsSet(u, w, next, last)
      BY <1>1, <2>0, <3>1, SettingLast
    <3>. QED
      BY <2>2, <3>2 DEF LastIsSet
  <2>. QED
    BY <2>1, <2>2
<1>7. SameButLinks(v, w)
  BY <1>5, <1>6, SameButLinksTwice
<1>. QED
  BY <1>0, <1>4, <1>5, <1>6, <1>7 DEF Relinked

(***************************************************************************)
(* An inode without a link is freed and taken off the list, when it is      *)
(* closed and when a mount purges the list.                                 *)
(***************************************************************************)
Removed(v, w, i) ==
  /\ w \in Volume /\ Synced(v, w) /\ w.inode[i] = Free
  /\ \A x \in Ino \ {i} : SameCounts(v, w, x)
  /\ SameTree(v, w) /\ TakenOut(v, w, i)

\* What a directory without a link holds.
LEMMA NothingInside ==
  ASSUME NEW v, v \in Volume, Tree(v), NEW i, i \in Ino,
         i \notin LinkedDirs(v) \/ Children(v, i) = {}
  PROVE  v.entry[i] = NoNames
<1>1. v.entry[i] \in [Name -> Ino \union {None}]
  BY DEF Volume
<1>2. \A n \in Name : v.entry[i][n] = None
  BY DEF Tree, NamesAreLinked, Children
<1>. QED
  BY <1>1, <1>2 DEF NoNames

LEMMA RemovedIs ==
  ASSUME NEW v, v \in Volume, Tree(v), NEW i, i \in Unlinked(v),
         NEW w, w \in Volume, Synced(v, w), w.inode[i] = Free,
         \A x \in Ino \ {i} : SameCounts(v, w, x),
         w.entry[i] = NoNames,
         \A x \in Ino \ {i} : w.entry[x] = v.entry[x] /\ w.parent[x] = v.parent[x],
         w.head = (IF Last(v, i) = None THEN NextOf(v, i) ELSE v.head),
         w.tail = (IF NextOf(v, i) = None THEN Last(v, i) ELSE v.tail),
         \A x \in Ino \ {i} :
           /\ Last(w, x) = IF x = NextOf(v, i) THEN Last(v, i) ELSE Last(v, x)
           /\ NextOf(w, x) = IF x = Last(v, i) THEN NextOf(v, i) ELSE NextOf(v, x)
  PROVE  Removed(v, w, i)
<1>1. i \in Ino /\ i \notin Linked(v) /\ i \notin LinkedDirs(v)
  BY DEF Unlinked, Linked, Allocated, LinkedDirs
<1>2. v.entry[i] = NoNames
  BY <1>1, NothingInside
<1>3. w.entry = v.entry
  <2>1. \A x \in Ino : w.entry[x] = v.entry[x]
    BY <1>2
  <2>2. w.entry \in [Ino -> [Name -> Ino \union {None}]] /\ v.entry \in [Ino -> [Name -> Ino \union {None}]]
    BY DEF Volume
  <2>. QED
    BY <2>1, <2>2
<1>4. i \notin Linked(w) /\ i \notin Unlinked(w)
  BY FreeIs DEF Linked, Unlinked, Allocated
<1>5. \A x \in Ino \ {i} : (x \in Linked(w) <=> x \in Linked(v)) /\ (x \in Unlinked(w) <=> x \in Unlinked(v))
  BY SameCountsIs
<1>6. SameTree(v, w)
  <2>1. \A x \in Linked(v) : x \in Ino \ {i}
    BY <1>1 DEF Linked, Allocated
  <2>2. \A x \in LinkedDirs(v) : x \in Ino \ {i}
    BY <2>1 DEF LinkedDirs
  <2>. QED
    BY <1>3, <1>4, <1>5, <2>1, <2>2 DEF SameTree
<1>7. Unlinked(w) = Unlinked(v) \ {i}
  BY <1>4, <1>5, UnlinkedAreInodes
<1>8. Last(w, i) = None /\ NextOf(w, i) = None
  BY FreeIs DEF Last, NextOf
<1>9. TakenOut(v, w, i)
  BY <1>7, <1>8 DEF TakenOut
<1>. QED
  BY <1>6, <1>9 DEF Removed

\* An inode of the list is neither its own predecessor nor its own successor.
LEMMA NextIsAnother ==
  ASSUME NEW v, List(v), NEW i, i \in Unlinked(v)
  PROVE  NextOf(v, i) # i /\ Last(v, i) # i
<1>1. PICK rank \in [Ino -> Nat] : Ranks(v, rank)
  BY DEF List
<1>2. i \in Ino /\ i # None /\ rank[i] \in Nat
  BY <1>1, UnlinkedAreInodes
<1>3. NextOf(v, i) # i
  BY <1>1, <1>2 DEF Ranks
<1>. QED
  BY <1>2, <1>3 DEF List, Chained

LEMMA ClosedIs ==
  ASSUME NEW v, v \in Volume, Tree(v), NEW i, i \in Unlinked(v)
  PROVE  Removed(v, InoFree(RemoveUnlinked(v, i), i), i)
<1>0. i \in Ino
  BY UnlinkedAreInodes
<1>1. PICK u : u = RemoveUnlinked(v, i)
  OBVIOUS
<1>2. PICK w : w = InoFree(u, i)
  OBVIOUS
<1>3. Relinked(v, u, i) /\ u \in Volume
  BY <1>0, <1>1, RemoveUnlinkedIs DEF Relinked, SameButLinks
<1>4. /\ w \in Volume /\ w.sync = u.sync \union {i}
      /\ w.inode[i] = Free /\ \A x \in Ino \ {i} : w.inode[x] = u.inode[x]
      /\ w.entry[i] = NoNames /\ \A x \in Ino \ {i} : w.entry[x] = u.entry[x]
      /\ \A x \in Ino \ {i} : w.parent[x] = u.parent[x]
      /\ w.head = u.head /\ w.tail = u.tail
  BY <1>0, <1>2, <1>3, InoFreeIs
<1>5. Synced(v, w)
  BY <1>3, <1>4 DEF Synced, Relinked, SameButLinks
<1>6. \A x \in Ino \ {i} : SameCounts(v, w, x)
  BY <1>3, <1>4 DEF SameCounts, Relinked, SameButLinks
<1>7. \A x \in Ino \ {i} : w.entry[x] = v.entry[x] /\ w.parent[x] = v.parent[x]
  BY <1>3, <1>4 DEF Relinked, SameButLinks
<1>8. /\ w.head = (IF Last(v, i) = None THEN NextOf(v, i) ELSE v.head)
      /\ w.tail = (IF NextOf(v, i) = None THEN Last(v, i) ELSE v.tail)
  BY <1>3, <1>4 DEF Relinked
<1>9. \A x \in Ino \ {i} :
        /\ Last(w, x) = IF x = NextOf(v, i) THEN Last(v, i) ELSE Last(v, x)
        /\ NextOf(w, x) = IF x = Last(v, i) THEN NextOf(v, i) ELSE NextOf(v, x)
  BY <1>3, <1>4 DEF Relinked, Last, NextOf
<1>10. Removed(v, w, i)
  BY <1>4, <1>5, <1>6, <1>7, <1>8, <1>9, RemovedIs
<1>. QED
  BY <1>1, <1>2, <1>10

LEMMA PurgedIs ==
  ASSUME NEW v, v \in Volume, Tree(v), List(v), v.head # None
  PROVE  v.head \in Unlinked(v) /\ Removed(v, Purged(v), v.head)
<1>. DEFINE i == v.head
            next == v.inode[i].next
            u == [InoFree(v, i) EXCEPT !.head = next]
            w == IF next = None THEN [u EXCEPT !.tail = None]
                 ELSE InodeSync([u EXCEPT !.inode[next].last = None], {next})
<1>1. w = Purged(v)
  BY DEF Purged
<1>2. w = IF next = None THEN [u EXCEPT !.tail = None]
          ELSE InodeSync([u EXCEPT !.inode[next].last = None], {next})
  OBVIOUS
<1>3. u = [InoFree(v, i) EXCEPT !.head = next]
  OBVIOUS
<1>4. next = NextOf(v, i) /\ i = v.head
  BY DEF NextOf
<1>. HIDE DEF i, next, u, w
<1>5. i \in Unlinked(v) /\ i \in Ino /\ Last(v, i) = None
  BY <1>4, UnlinkedAreInodes DEF List, Ends, Chained
<1>6. next \in Ino \union {None} /\ next # i
  BY <1>4, <1>5, NextIsAnother DEF Volume, Inode, NextOf
<1>7. PICK f : f = InoFree(v, i)
  OBVIOUS
<1>8. /\ f \in Volume /\ f.sync = v.sync \union {i}
      /\ f.inode[i] = Free /\ \A x \in Ino \ {i} : f.inode[x] = v.inode[x]
      /\ f.entry[i] = NoNames /\ \A x \in Ino \ {i} : f.entry[x] = v.entry[x]
      /\ \A x \in Ino \ {i} : f.parent[x] = v.parent[x]
      /\ f.head = v.head /\ f.tail = v.tail
  BY <1>5, <1>7, InoFreeIs
<1>9. /\ u \in Volume /\ u.head = next /\ u.tail = f.tail /\ u.inode = f.inode
      /\ u.entry = f.entry /\ u.parent = f.parent /\ u.sync = f.sync
  BY <1>3, <1>6, <1>7, <1>8 DEF Volume
<1>10. /\ SameButLinks(u, w) /\ w.head = next
       /\ w.tail = (IF next = None THEN None ELSE v.tail)
       /\ \A x \in Ino : /\ NextOf(w, x) = NextOf(u, x)
                         /\ Last(w, x) = IF x = next THEN None ELSE Last(u, x)
       /\ w.inode[i] = Free
  <2>1. CASE next = None
    <3>1. w = [u EXCEPT !.tail = None]
      BY <1>2, <2>1
    <3>2. SameButLinks(u, w) /\ w.tail = None /\ w.head = u.head /\ w.inode = u.inode
      BY <1>9, <3>1 DEF SameButLinks, Synced, SameCounts, Volume
    <3>. QED
      BY <1>8, <1>9, <2>1, <3>2, InodesIs DEF Last, NextOf
  <2>2. CASE next # None
    <3>1. w = InodeSync([u EXCEPT !.inode[next].last = None], {next}) /\ next \in Ino
      BY <1>2, <1>6, <2>2
    <3>2. LastIsSet(u, w, next, None)
      BY <1>9, <3>1, SettingLast
    <3>3. w.inode[i] = Free
      BY <1>5, <1>6, <1>8, <1>9, <3>1 DEF InodeSync, Volume
    <3>. QED
      BY <1>8, <1>9, <2>2, <3>2, <3>3 DEF LastIsSet
  <2>. QED
    BY <2>1, <2>2
<1>11. Synced(v, w)
  BY <1>8, <1>9, <1>10 DEF Synced, SameButLinks
<1>12. \A x \in Ino \ {i} : SameCounts(v, w, x)
  BY <1>8, <1>9, <1>10 DEF SameCounts, SameButLinks
<1>13. w.entry[i] = NoNames /\ \A x \in Ino \ {i} : w.entry[x] = v.entry[x] /\ w.parent[x] = v.parent[x]
  BY <1>8, <1>9, <1>10 DEF SameButLinks
<1>14. /\ w.head = (IF Last(v, i) = None THEN NextOf(v, i) ELSE v.head)
       /\ w.tail = (IF NextOf(v, i) = None THEN Last(v, i) ELSE v.tail)
  BY <1>4, <1>5, <1>10
<1>15. \A x \in Ino \ {i} :
         /\ Last(w, x) = IF x = NextOf(v, i) THEN Last(v, i) ELSE Last(v, x)
         /\ NextOf(w, x) = IF x = Last(v, i) THEN NextOf(v, i) ELSE NextOf(v, x)
  BY <1>4, <1>5, <1>8, <1>9, <1>10, InodesIs DEF Last, NextOf
<1>16. w \in Volume
  BY <1>10 DEF SameButLinks
<1>17. Removed(v, w, i)
  BY <1>5, <1>10, <1>11, <1>12, <1>13, <1>14, <1>15, <1>16, RemovedIs
<1>. QED
  BY <1>1, <1>4, <1>5, <1>17

(***************************************************************************)
(* The name n of d becomes i, and with it d's own inode r.                  *)
(***************************************************************************)
DirChanged(v, w, d, n, i, r) ==
  /\ w \in Volume /\ w.sync = v.sync /\ w.parent = v.parent
  /\ w.head = v.head /\ w.tail = v.tail
  /\ \A x \in Ino, m \in Name :
       w.entry[x][m] = IF x = d /\ m = n THEN i ELSE v.entry[x][m]
  /\ w.inode[d] = r /\ \A x \in Ino \ {d} : w.inode[x] = v.inode[x]

LEMMA DirChangedIs ==
  ASSUME NEW v, v \in Volume, NEW d, d \in Ino, NEW n, n \in Name,
         NEW i, i \in Ino \union {None}, NEW r, r \in Inode
  PROVE  DirChanged(v, [v EXCEPT !.entry[d][n] = i, !.inode[d] = r], d, n, i, r)
<1>1. v.entry \in [Ino -> [Name -> Ino \union {None}]] /\ v.inode \in [Ino -> Inode]
  BY DEF Volume
<1>2. PICK e \in [Name -> Ino \union {None}] : e = [v.entry[d] EXCEPT ![n] = i]
  BY <1>1
<1>3. PICK g \in [Ino -> [Name -> Ino \union {None}]] : g = [v.entry EXCEPT ![d] = e]
  BY <1>1
<1>4. PICK f \in [Ino -> Inode] : f = [v.inode EXCEPT ![d] = r]
  BY <1>1
<1>5. PICK w : w = [v EXCEPT !.entry[d][n] = i, !.inode[d] = r]
  OBVIOUS
<1>6. w = [v EXCEPT !.entry = g, !.inode = f]
  BY <1>2, <1>3, <1>4, <1>5 DEF Volume
<1>7. /\ w \in Volume /\ w.entry = g /\ w.inode = f /\ w.sync = v.sync
      /\ w.parent = v.parent /\ w.head = v.head /\ w.tail = v.tail
  BY <1>6, Zenon DEF Volume
<1>8. \A x \in Ino, m \in Name : g[x][m] = IF x = d /\ m = n THEN i ELSE v.entry[x][m]
  BY <1>1, <1>2, <1>3
<1>9. f[d] = r /\ \A x \in Ino \ {d} : f[x] = v.inode[x]
  BY <1>1, <1>4
<1>10. DirChanged(v, w, d, n, i, r)
  BY <1>7, <1>8, <1>9 DEF DirChanged
<1>. QED
  BY <1>5, <1>10

\* Only the name n of d changes.
LEMMA NameSetIs ==
  ASSUME NEW b, b \in Volume, NEW d, d \in Ino, NEW n, n \in Name, NEW i, i \in Ino
  PROVE  DirChanged(b, [b EXCEPT !.entry[d][n] = i], d, n, i, b.inode[d])
<1>1. PICK s : s = [b EXCEPT !.entry[d][n] = i]
  OBVIOUS
<1>2. PICK q : q = b.inode[d]
  OBVIOUS
<1>3. PICK y : y = [b EXCEPT !.entry[d][n] = i, !.inode[d] = q]
  OBVIOUS
<1>4. [b.inode EXCEPT ![d] = q] = b.inode /\ b.inode \in [Ino -> Inode]
  BY <1>2 DEF Volume
<1>5. y = [s EXCEPT !.inode = [b.inode EXCEPT ![d] = q]]
  BY <1>1, <1>3 DEF Volume
<1>6. y = s
  BY <1>1, <1>4, <1>5 DEF Volume
<1>7. q \in Inode /\ i \in Ino \union {None}
  BY <1>2, <1>4
<1>8. DirChanged(b, y, d, n, i, q)
  BY <1>3, <1>7, DirChangedIs
<1>. QED
  BY <1>1, <1>2, <1>6, <1>8

Entered(v, w, d, n, i) ==
  /\ w \in Volume /\ Synced(v, w) /\ w.sync = v.sync \union {d} /\ w.parent = v.parent
  /\ w.head = v.head /\ w.tail = v.tail
  /\ \A x \in Ino, m \in Name :
       w.entry[x][m] = IF x = d /\ m = n THEN i ELSE v.entry[x][m]
  /\ \A x \in Ino \ {d} : w.inode[x] = v.inode[x]
  /\ w.inode[d].type = v.inode[d].type
  /\ w.inode[d].dirents = v.inode[d].dirents + 1
  /\ w.inode[d].links = (IF IsDir(v, i) THEN v.inode[d].links + 1 ELSE v.inode[d].links)
  /\ SameLinks(v, w, d)

Recounted(a, r, dirents, links) ==
  /\ r \in Inode /\ r.type = a.type /\ r.dirents = dirents /\ r.links = links
  /\ r.last = a.last /\ r.next = a.next

LEMMA RecountedIs ==
  ASSUME NEW a, a \in Inode, NEW dirents, dirents \in Nat, NEW links, links \in Nat
  PROVE  Recounted(a, [a EXCEPT !.dirents = dirents, !.links = links], dirents, links)
BY DEF Inode, Recounted

LEMMA AppendDirentIs ==
  ASSUME NEW v, v \in Volume, NEW d, d \in Ino, NEW n, n \in Name, NEW i, i \in Ino
  PROVE  Entered(v, AppendDirent(v, d, n, i), d, n, i)
<1>1. v.inode[d] \in Inode
  BY DEF Volume
<1>. DEFINE more == IF IsDir(v, i) THEN v.inode[d].links + 1 ELSE v.inode[d].links
            r == [v.inode[d] EXCEPT !.dirents = v.inode[d].dirents + 1, !.links = more]
<1>0. more = (IF IsDir(v, i) THEN v.inode[d].links + 1 ELSE v.inode[d].links)
  OBVIOUS
<1>11. more \in Nat
  BY <1>1 DEF Inode
<1>. HIDE DEF more
<1>2. /\ r \in Inode /\ r.type = v.inode[d].type /\ r.dirents = v.inode[d].dirents + 1
      /\ r.links = more /\ r.last = v.inode[d].last /\ r.next = v.inode[d].next
  <2>1. v.inode[d].dirents + 1 \in Nat
    BY <1>1 DEF Inode
  <2>2. Recounted(v.inode[d], r, v.inode[d].dirents + 1, more)
    BY <1>1, <1>11, <2>1, RecountedIs
  <2>. QED
    BY <2>2 DEF Recounted
<1>3. PICK u : u = [v EXCEPT !.entry[d][n] = i,
                             !.inode[d].dirents = @ + 1,
                             !.inode[d].links = IF IsDir(v, i) THEN @ + 1 ELSE @]
  OBVIOUS
<1>4. u = [v EXCEPT !.entry[d][n] = i, !.inode[d] = r]
  <2>1. v.inode \in [Ino -> Inode]
    BY DEF Volume
  <2>2. PICK f : f = [v.inode EXCEPT ![d].dirents = @ + 1]
    OBVIOUS
  <2>3. f = [v.inode EXCEPT ![d] = [v.inode[d] EXCEPT !.dirents = @ + 1]]
    BY <2>1, <2>2
  <2>4. f[d] = [v.inode[d] EXCEPT !.dirents = @ + 1] /\ f[d].links = v.inode[d].links
    BY <2>1, <2>3, <1>1 DEF Inode
  <2>5. PICK g : g = [f EXCEPT ![d].links = IF IsDir(v, i) THEN @ + 1 ELSE @]
    OBVIOUS
  <2>6. g = [f EXCEPT ![d] = [f[d] EXCEPT !.links = more]]
    BY <1>0, <2>1, <2>3, <2>4, <2>5
  <2>7. g = [v.inode EXCEPT ![d] = r]
    BY <2>1, <2>3, <2>4, <2>6, <1>1 DEF Inode
  <2>. DEFINE a == [v EXCEPT !.entry[d][n] = i]
              b == [a EXCEPT !.inode[d].dirents = @ + 1]
  <2>9. u = [b EXCEPT !.inode[d].links = IF IsDir(v, i) THEN @ + 1 ELSE @]
    BY <1>3
  <2>8. a = [v EXCEPT !.entry[d][n] = i]
    OBVIOUS
  <2>11. b = [a EXCEPT !.inode[d].dirents = @ + 1]
    OBVIOUS
  <2>. HIDE DEF a, b
  <2>10. a.inode = v.inode
    BY <2>8 DEF Volume
  <2>12. b = [a EXCEPT !.inode = f]
    BY <2>2, <2>8, <2>10, <2>11 DEF Volume
  <2>13. b.inode = f
    BY <2>8, <2>12 DEF Volume
  <2>14. [b EXCEPT !.inode[d].links = IF IsDir(v, i) THEN @ + 1 ELSE @] = [b EXCEPT !.inode = g]
    BY <2>5, <2>8, <2>12, <2>13 DEF Volume
  <2>15. u = [v EXCEPT !.entry[d][n] = i, !.inode = g]
    <3>2. u = [b EXCEPT !.inode = g]
      BY <2>9, <2>14
    <3>3. [b EXCEPT !.inode = g] = [a EXCEPT !.inode = g]
      BY <2>8, <2>12 DEF Volume
    <3>. QED
      BY <2>8, <3>2, <3>3
  <2>. QED
    BY <2>7, <2>15 DEF Volume
<1>. HIDE DEF r
<1>5. DirChanged(v, u, d, n, i, r)
  BY <1>2, <1>4, DirChangedIs
<1>6. PICK w : w = InodeSync(u, {d})
  OBVIOUS
<1>7. OnlySyncs(u, {d}, w)
  BY <1>5, <1>6, InodeSyncIs DEF DirChanged
<1>8. Synced(v, w)
  BY <1>5, <1>7 DEF Synced, OnlySyncs, DirChanged
<1>9. Entered(v, w, d, n, i)
  BY <1>0, <1>2, <1>5, <1>7, <1>8 DEF Entered, OnlySyncs, DirChanged, SameLinks, Last, NextOf
<1>10. w = AppendDirent(v, d, n, i)
  BY <1>3, <1>6 DEF AppendDirent
<1>. QED
  BY <1>9, <1>10

\* The name n of d goes from the directory, before the inode loses its link.
NameCleared(v, d, n) ==
  [v EXCEPT !.entry[d][n] = None,
            !.inode[d].dirents = @ - 1,
            !.inode[d].links = IF IsDir(v, v.entry[d][n]) THEN @ - 1 ELSE @]

Left(v, w, d, n, i) ==
  /\ w \in Volume /\ w.sync = v.sync /\ w.parent = v.parent
  /\ w.head = v.head /\ w.tail = v.tail
  /\ \A x \in Ino, m \in Name :
       w.entry[x][m] = IF x = d /\ m = n THEN None ELSE v.entry[x][m]
  /\ \A x \in Ino \ {d} : w.inode[x] = v.inode[x]
  /\ w.inode[d].type = v.inode[d].type
  /\ w.inode[d].dirents = v.inode[d].dirents - 1
  /\ w.inode[d].links = (IF IsDir(v, i) THEN v.inode[d].links - 1 ELSE v.inode[d].links)
  /\ SameLinks(v, w, d)

LEMMA NameClearedIs ==
  ASSUME NEW v, v \in Volume, NEW d, d \in Ino, NEW n, n \in Name,
         v.inode[d].dirents > 0, v.inode[d].links > 0
  PROVE  Left(v, NameCleared(v, d, n), d, n, v.entry[d][n])
<1>1. v.inode[d] \in Inode
  BY DEF Volume
<1>20. PICK i : i = v.entry[d][n]
  OBVIOUS
<1>. DEFINE less == IF IsDir(v, i) THEN v.inode[d].links - 1 ELSE v.inode[d].links
            r == [v.inode[d] EXCEPT !.dirents = v.inode[d].dirents - 1, !.links = less]
<1>0. less = (IF IsDir(v, i) THEN v.inode[d].links - 1 ELSE v.inode[d].links)
  OBVIOUS
<1>11. less \in Nat
  BY <1>1 DEF Inode
<1>. HIDE DEF less
<1>2. /\ r \in Inode /\ r.type = v.inode[d].type /\ r.dirents = v.inode[d].dirents - 1
      /\ r.links = less /\ r.last = v.inode[d].last /\ r.next = v.inode[d].next
  <2>1. v.inode[d].dirents - 1 \in Nat
    BY <1>1 DEF Inode
  <2>2. Recounted(v.inode[d], r, v.inode[d].dirents - 1, less)
    BY <1>1, <1>11, <2>1, RecountedIs
  <2>. QED
    BY <2>2 DEF Recounted
<1>3. PICK u : u = [v EXCEPT !.entry[d][n] = None,
                             !.inode[d].dirents = @ - 1,
                             !.inode[d].links = IF IsDir(v, i) THEN @ - 1 ELSE @]
  OBVIOUS
<1>4. u = [v EXCEPT !.entry[d][n] = None, !.inode[d] = r]
  <2>1. v.inode \in [Ino -> Inode]
    BY DEF Volume
  <2>2. PICK f : f = [v.inode EXCEPT ![d].dirents = @ - 1]
    OBVIOUS
  <2>3. f = [v.inode EXCEPT ![d] = [v.inode[d] EXCEPT !.dirents = @ - 1]]
    BY <2>1, <2>2
  <2>4. f[d] = [v.inode[d] EXCEPT !.dirents = @ - 1] /\ f[d].links = v.inode[d].links
    BY <2>1, <2>3, <1>1 DEF Inode
  <2>5. PICK g : g = [f EXCEPT ![d].links = IF IsDir(v, i) THEN @ - 1 ELSE @]
    OBVIOUS
  <2>6. g = [f EXCEPT ![d] = [f[d] EXCEPT !.links = less]]
    BY <1>0, <2>1, <2>3, <2>4, <2>5
  <2>7. g = [v.inode EXCEPT ![d] = r]
    BY <2>1, <2>3, <2>4, <2>6, <1>1 DEF Inode
  <2>. DEFINE a == [v EXCEPT !.entry[d][n] = None]
              b == [a EXCEPT !.inode[d].dirents = @ - 1]
  <2>9. u = [b EXCEPT !.inode[d].links = IF IsDir(v, i) THEN @ - 1 ELSE @]
    BY <1>3
  <2>8. a = [v EXCEPT !.entry[d][n] = None]
    OBVIOUS
  <2>11. b = [a EXCEPT !.inode[d].dirents = @ - 1]
    OBVIOUS
  <2>. HIDE DEF a, b
  <2>10. a.inode = v.inode
    BY <2>8 DEF Volume
  <2>12. b = [a EXCEPT !.inode = f]
    BY <2>2, <2>8, <2>10, <2>11 DEF Volume
  <2>13. b.inode = f
    BY <2>8, <2>12 DEF Volume
  <2>14. [b EXCEPT !.inode[d].links = IF IsDir(v, i) THEN @ - 1 ELSE @] = [b EXCEPT !.inode = g]
    BY <2>5, <2>8, <2>12, <2>13 DEF Volume
  <2>15. u = [v EXCEPT !.entry[d][n] = None, !.inode = g]
    <3>2. u = [b EXCEPT !.inode = g]
      BY <2>9, <2>14
    <3>3. [b EXCEPT !.inode = g] = [a EXCEPT !.inode = g]
      BY <2>8, <2>12 DEF Volume
    <3>. QED
      BY <2>8, <3>2, <3>3
  <2>. QED
    BY <2>7, <2>15 DEF Volume
<1>. HIDE DEF r
<1>5. DirChanged(v, u, d, n, None, r)
  BY <1>2, <1>4, DirChangedIs
<1>6. Left(v, u, d, n, i)
  BY <1>0, <1>2, <1>5 DEF Left, DirChanged, SameLinks, Last, NextOf
<1>7. u = NameCleared(v, d, n)
  BY <1>3, <1>20 DEF NameCleared
<1>. QED
  BY <1>6, <1>7, <1>20

\* Only the number of links of i changes.
LinksAre(v, w, i, l) ==
  /\ w \in Volume /\ w.sync = v.sync /\ w.entry = v.entry /\ w.parent = v.parent
  /\ w.head = v.head /\ w.tail = v.tail
  /\ \A x \in Ino \ {i} : w.inode[x] = v.inode[x]
  /\ w.inode[i].type = v.inode[i].type /\ w.inode[i].dirents = v.inode[i].dirents
  /\ w.inode[i].links = l
  /\ SameLinks(v, w, i)

LEMMA LinksAreSet ==
  ASSUME NEW v, v \in Volume, NEW i, i \in Ino, NEW l, l \in Nat
  PROVE  LinksAre(v, [v EXCEPT !.inode[i].links = l], i, l)
<1>1. v.inode[i] \in Inode /\ v.inode \in [Ino -> Inode]
  BY DEF Volume
<1>2. PICK r : r = [v.inode[i] EXCEPT !.links = l]
  OBVIOUS
<1>3. r \in Inode /\ r.type = v.inode[i].type /\ r.dirents = v.inode[i].dirents
      /\ r.links = l /\ r.last = v.inode[i].last /\ r.next = v.inode[i].next
  BY <1>1, <1>2 DEF Inode
<1>4. PICK f \in [Ino -> Inode] : f = [v.inode EXCEPT ![i] = r]
  BY <1>1, <1>3
<1>5. PICK w : w = [v EXCEPT !.inode[i].links = l]
  OBVIOUS
<1>6. w = [v EXCEPT !.inode = f]
  BY <1>2, <1>4, <1>5 DEF Volume
<1>7. /\ w \in Volume /\ w.inode = f /\ w.sync = v.sync /\ w.entry = v.entry
      /\ w.parent = v.parent /\ w.head = v.head /\ w.tail = v.tail
  BY <1>6, Zenon DEF Volume
<1>8. f[i] = r /\ \A x \in Ino \ {i} : f[x] = v.inode[x]
  BY <1>1, <1>4
<1>9. LinksAre(v, w, i, l)
  BY <1>3, <1>7, <1>8 DEF LinksAre, SameLinks, Last, NextOf
<1>. QED
  BY <1>5, <1>9

(***************************************************************************)
(* An inode loses a link: it keeps others, or it is freed, or it goes on the *)
(* list for those who have it open.                                         *)
(***************************************************************************)
SameEnds(v, w) ==
  w.head = v.head /\ w.tail = v.tail /\ \A x \in Ino : SameLinks(v, w, x)

PutLast(v, w, i) ==
  /\ w.tail = i /\ w.head = (IF v.tail = None THEN i ELSE v.head)
  /\ \A x \in Ino : /\ Last(w, x) = IF x = i THEN v.tail ELSE Last(v, x)
                    /\ NextOf(w, x) = IF x = v.tail THEN i ELSE NextOf(v, x)

Dropped(v, w, i, l) ==
  /\ w \in Volume /\ Synced(v, w) /\ i \in w.sync
  /\ \A x \in Ino \ {i} :
       SameCounts(v, w, x) /\ w.entry[x] = v.entry[x] /\ w.parent[x] = v.parent[x]
  /\ l > 0 => /\ w.inode[i].type = v.inode[i].type /\ w.inode[i].links = l
              /\ w.inode[i].dirents = v.inode[i].dirents
              /\ w.entry[i] = v.entry[i] /\ w.parent[i] = v.parent[i]
  /\ l = 0 => /\ i \notin Linked(w)
              /\ w.entry[i] \in {v.entry[i], NoNames} /\ w.parent[i] \in {v.parent[i], None}
  /\ l = 0 /\ open[i] = 0 => i \notin Allocated(w)
  /\ IF l = 0 /\ open[i] > 0
     THEN PutLast(v, w, i) /\ w.inode[i].type = v.inode[i].type /\ w.inode[i].links = 0
     ELSE SameEnds(v, w)

LEMMA RemoveInodeLinkIs ==
  ASSUME NEW v, v \in Volume, NEW i, i \in Ino, LinksLeft(v, i) \in Nat,
         Last(v, i) = None, NextOf(v, i) = None, v.tail # i, open[i] \in Nat
  PROVE  Dropped(v, RemoveInodeLink(v, i), i, LinksLeft(v, i))
<1>. DEFINE l == LinksLeft(v, i)
            a == [v EXCEPT !.inode[i].links = l]
            u == InodeSync(a, {i})
            w == RemoveInodeLink(v, i)
<1>1. w = CASE ~IsUnlinked(u, i) -> u
            [] IsUnlinked(u, i) /\ open[i] = 0 -> InoFree(u, i)
            [] IsUnlinked(u, i) /\ open[i] > 0 -> Emptied(AddUnlinked(u, i), i)
  BY DEF RemoveInodeLink
<1>2. LinksAre(v, a, i, l)
  BY LinksAreSet
<1>3. OnlySyncs(a, {i}, u)
  BY <1>2, InodeSyncIs DEF LinksAre
<1>. HIDE DEF l, a, u, w
<1>4. l \in Nat
  BY DEF l
<1>6. /\ u \in Volume /\ u.sync = v.sync \union {i} /\ u.entry = v.entry /\ u.parent = v.parent
      /\ u.head = v.head /\ u.tail = v.tail
      /\ \A x \in Ino \ {i} : u.inode[x] = v.inode[x]
      /\ u.inode[i].type = v.inode[i].type /\ u.inode[i].dirents = v.inode[i].dirents
      /\ u.inode[i].links = l
      /\ \A x \in Ino : SameLinks(v, u, x)
  BY <1>2, <1>3 DEF LinksAre, OnlySyncs, SameLinks, Last, NextOf
<1>7. CASE l > 0
  <2>1. w = u
    BY <1>1, <1>6, <1>7 DEF IsUnlinked
  <2>. QED
    BY <1>4, <1>6, <1>7, <2>1 DEF Dropped, Synced, SameCounts, SameEnds, l, w
<1>8. CASE l = 0 /\ open[i] = 0
  <2>1. w = InoFree(u, i)
    BY <1>1, <1>6, <1>8 DEF IsUnlinked
  <2>2. /\ w \in Volume /\ w.sync = u.sync \union {i}
        /\ w.inode[i] = Free /\ \A x \in Ino \ {i} : w.inode[x] = u.inode[x]
        /\ w.entry[i] = NoNames /\ \A x \in Ino \ {i} : w.entry[x] = u.entry[x]
        /\ w.parent[i] = None /\ \A x \in Ino \ {i} : w.parent[x] = u.parent[x]
        /\ w.head = u.head /\ w.tail = u.tail
    BY <1>6, <2>1, InoFreeIs
  <2>3. SameEnds(v, w)
    BY <1>6, <2>2, FreeIs DEF SameEnds, SameLinks, Last, NextOf
  <2>4. Synced(v, w)
    BY <1>6, <2>2 DEF Synced
  <2>5. i \notin Allocated(w) /\ i \notin Linked(w)
    BY <2>2, FreeIs DEF Allocated, Linked
  <2>6. \A x \in Ino \ {i} :
          SameCounts(v, w, x) /\ w.entry[x] = v.entry[x] /\ w.parent[x] = v.parent[x]
    BY <1>6, <2>2 DEF SameCounts
  <2>7. Dropped(v, w, i, l)
    BY <1>6, <1>8, <2>2, <2>3, <2>4, <2>5, <2>6 DEF Dropped
  <2>. QED
    BY <2>7 DEF l, w
<1>9. CASE l = 0 /\ open[i] > 0
  <2>1. w = Emptied(AddUnlinked(u, i), i)
    BY <1>1, <1>6, <1>9 DEF IsUnlinked
  <2>2. PICK b : b = AddUnlinked(u, i)
    OBVIOUS
  <2>3. AddedLast(u, b, i)
    BY <1>6, <2>2, AddUnlinkedIs
  <2>4. b \in Volume /\ w = Emptied(b, i)
    BY <2>1, <2>2, <2>3 DEF AddedLast, SameButLinks
  <2>5. /\ w \in Volume /\ w.sync = b.sync
        /\ \A x \in Ino \ {i} : w.inode[x] = b.inode[x]
        /\ w.inode[i].type = b.inode[i].type /\ w.inode[i].links = b.inode[i].links
        /\ SameLinks(b, w, i)
        /\ w.entry[i] = IF IsDir(b, i) THEN NoNames ELSE b.entry[i]
        /\ w.parent[i] = IF IsDir(b, i) THEN None ELSE b.parent[i]
        /\ \A x \in Ino \ {i} : w.entry[x] = b.entry[x] /\ w.parent[x] = b.parent[x]
        /\ w.head = b.head /\ w.tail = b.tail
    BY <2>4, EmptiedIs
  <2>6. PutLast(v, w, i)
    <3>1. Last(b, i) = v.tail
      BY <1>6, <2>3 DEF AddedLast, SameLinks
    <3>2. \A x \in Ino : Last(w, x) = Last(b, x) /\ NextOf(w, x) = NextOf(b, x)
      BY <2>5 DEF SameLinks, Last, NextOf
    <3>. QED
      BY <1>6, <2>3, <2>5, <3>1, <3>2 DEF AddedLast, PutLast, SameLinks
  <2>7. Synced(v, w) /\ i \in w.sync
    BY <1>6, <2>3, <2>5 DEF Synced, AddedLast, SameButLinks
  <2>8. w.inode[i].type = v.inode[i].type /\ w.inode[i].links = 0 /\ i \notin Linked(w)
    BY <1>6, <1>9, <2>3, <2>5 DEF AddedLast, SameButLinks, SameCounts, Linked, IsUnlinked
  <2>9. \A x \in Ino \ {i} :
          SameCounts(v, w, x) /\ w.entry[x] = v.entry[x] /\ w.parent[x] = v.parent[x]
    BY <1>6, <2>3, <2>5 DEF AddedLast, SameButLinks, SameCounts
  <2>10. w.entry[i] \in {v.entry[i], NoNames} /\ w.parent[i] \in {v.parent[i], None}
    BY <1>6, <2>3, <2>5 DEF AddedLast, SameButLinks
  <2>11. Dropped(v, w, i, l)
    BY <1>9, <2>5, <2>6, <2>7, <2>8, <2>9, <2>10 DEF Dropped
  <2>. QED
    BY <2>11 DEF l, w
<1>. QED
  BY <1>4, <1>7, <1>8, <1>9

ChildUnlinked(v, w, d, n, i, l) ==
  /\ w \in Volume /\ Synced(v, w) /\ i \in w.sync
  /\ \A x \in Ino \ {i, d} : SameCounts(v, w, x)
  /\ w.inode[d].type = v.inode[d].type
  /\ w.inode[d].dirents = v.inode[d].dirents - 1
  /\ w.inode[d].links = (IF IsDir(v, i) THEN v.inode[d].links - 1 ELSE v.inode[d].links)
  /\ \A x \in Ino \ {i}, m \in Name :
       w.entry[x][m] = IF x = d /\ m = n THEN None ELSE v.entry[x][m]
  /\ \A x \in Ino \ {i} : w.parent[x] = v.parent[x]
  /\ l > 0 => /\ w.inode[i].type = v.inode[i].type /\ w.inode[i].links = l
              /\ w.inode[i].dirents = v.inode[i].dirents
              /\ w.entry[i] = v.entry[i] /\ w.parent[i] = v.parent[i]
  /\ l = 0 => /\ i \notin Linked(w)
              /\ w.entry[i] \in {v.entry[i], NoNames} /\ w.parent[i] \in {v.parent[i], None}
  /\ l = 0 /\ open[i] = 0 => i \notin Allocated(w)
  /\ IF l = 0 /\ open[i] > 0
     THEN PutLast(v, w, i) /\ w.inode[i].type = v.inode[i].type /\ w.inode[i].links = 0
     ELSE SameEnds(v, w)

LEMMA UnlinkChildIs ==
  ASSUME NEW v, v \in Volume, NEW d, d \in Ino, NEW n, n \in Name,
         v.inode[d].dirents > 0, v.inode[d].links > 0,
         NEW i, i = v.entry[d][n], i \in Ino, i # d, LinksLeft(v, i) \in Nat,
         Last(v, i) = None, NextOf(v, i) = None, v.tail # i, open[i] \in Nat
  PROVE  ChildUnlinked(v, UnlinkChild(v, d, n), d, n, i, LinksLeft(v, i))
<1>1. PICK u : u = NameCleared(v, d, n)
  OBVIOUS
<1>2. Left(v, u, d, n, i)
  BY <1>1, NameClearedIs
<1>3. u \in Volume /\ u.inode[i] = v.inode[i] /\ u.tail = v.tail
  BY <1>2 DEF Left
<1>4. PICK l : l = LinksLeft(v, i)
  OBVIOUS
<1>5. LinksLeft(u, i) = l
  BY <1>3, <1>4 DEF LinksLeft, IsDir
<1>6. PICK b : b = RemoveInodeLink(u, i)
  OBVIOUS
<1>7. Dropped(u, b, i, l)
  <2>1. Last(u, i) = None /\ NextOf(u, i) = None
    BY <1>3 DEF Last, NextOf
  <2>. QED
    BY <1>3, <1>4, <1>5, <1>6, <2>1, RemoveInodeLinkIs
<1>8. PICK w : w = InodeSync(b, {d})
  OBVIOUS
<1>9. w = UnlinkChild(v, d, n)
  BY <1>1, <1>6, <1>8 DEF UnlinkChild, NameCleared
<1>10. OnlySyncs(b, {d}, w)
  BY <1>7, <1>8, InodeSyncIs DEF Dropped
<1>11. /\ w \in Volume /\ w.sync = b.sync \union {d} /\ w.inode = b.inode /\ w.entry = b.entry
       /\ w.parent = b.parent /\ w.head = b.head /\ w.tail = b.tail
  BY <1>10 DEF OnlySyncs
<1>12. \A x \in Ino : SameLinks(v, u, x)
  BY <1>2 DEF Left, SameLinks, Last, NextOf
<1>13. Synced(v, w)
  BY <1>2, <1>7, <1>11 DEF Left, Dropped, Synced
<1>14. /\ \A x \in Ino \ {i, d} : SameCounts(v, w, x)
       /\ w.inode[d].type = v.inode[d].type
       /\ w.inode[d].dirents = v.inode[d].dirents - 1
       /\ w.inode[d].links = (IF IsDir(v, i) THEN v.inode[d].links - 1 ELSE v.inode[d].links)
  BY <1>2, <1>7, <1>11 DEF Left, Dropped, SameCounts
<1>15. /\ \A x \in Ino \ {i}, m \in Name :
            w.entry[x][m] = IF x = d /\ m = n THEN None ELSE v.entry[x][m]
       /\ \A x \in Ino \ {i} : w.parent[x] = v.parent[x]
  BY <1>2, <1>7, <1>11 DEF Left, Dropped
<1>16. u.entry[i] = v.entry[i] /\ u.parent[i] = v.parent[i]
  <2>1. \A m \in Name : u.entry[i][m] = v.entry[i][m]
    BY <1>2 DEF Left
  <2>2. u.entry[i] \in [Name -> Ino \union {None}] /\ v.entry[i] \in [Name -> Ino \union {None}]
    BY <1>3 DEF Volume
  <2>3. u.entry[i] = v.entry[i]
    BY <2>1, <2>2
  <2>. QED
    BY <1>2, <2>3 DEF Left
<1>17. l > 0 => /\ w.inode[i].type = v.inode[i].type /\ w.inode[i].links = l
                /\ w.inode[i].dirents = v.inode[i].dirents
                /\ w.entry[i] = v.entry[i] /\ w.parent[i] = v.parent[i]
  BY <1>3, <1>7, <1>11, <1>16 DEF Dropped
<1>18. l = 0 => /\ i \notin Linked(w)
                /\ w.entry[i] \in {v.entry[i], NoNames} /\ w.parent[i] \in {v.parent[i], None}
  BY <1>7, <1>11, <1>16 DEF Dropped, Linked, Allocated, IsUnlinked
<1>19. l = 0 /\ open[i] = 0 => i \notin Allocated(w)
  BY <1>7, <1>11 DEF Dropped, Allocated
<1>20. IF l = 0 /\ open[i] > 0
       THEN PutLast(v, w, i) /\ w.inode[i].type = v.inode[i].type /\ w.inode[i].links = 0
       ELSE SameEnds(v, w)
  <2>1. \A x \in Ino : SameLinks(b, w, x)
    BY <1>11 DEF SameLinks, Last, NextOf
  <2>2. CASE l = 0 /\ open[i] > 0
    BY <1>2, <1>3, <1>7, <1>11, <1>12, <2>1, <2>2 DEF Left, Dropped, PutLast, SameLinks
  <2>3. CASE ~(l = 0 /\ open[i] > 0)
    BY <1>2, <1>7, <1>11, <1>12, <2>1, <2>3 DEF Left, Dropped, SameEnds, SameLinks
  <2>. QED
    BY <2>2, <2>3
<1>21. i \in w.sync
  BY <1>7, <1>11 DEF Dropped
<1>22. ChildUnlinked(v, w, d, n, i, l)
  BY <1>11, <1>13, <1>14, <1>15, <1>17, <1>18, <1>19, <1>20, <1>21 DEF ChildUnlinked
<1>. QED
  BY <1>4, <1>9, <1>22

(***************************************************************************)
(* A volume in memory that can be committed: names, links and list are as    *)
(* they should be, and what has changed is synced.                          *)
(***************************************************************************)
Sound(v, w) == w \in Volume /\ Synced(v, w) /\ Tree(w) /\ List(w)

\* What is open stays allocated, and what loses its last link is open.
KeepsOpen(v, w) ==
  \A x \in Ino : /\ x \in Unlinked(w) => x \in Unlinked(v) \/ open[x] > 0
                 /\ open[x] > 0 /\ x \in Allocated(v) => x \in Allocated(w)

\* What a name says of the directory it is in and of the inode it names.
NameIs(v, d, i) ==
  /\ d \in LinkedDirs(v) /\ i \in Linked(v) \ {Root} /\ i # d /\ i \in Ino
  /\ v.inode[d].dirents > 0 /\ v.inode[d].links > 1 /\ v.inode[i].links > 0
  /\ IsDir(v, i) => v.inode[i].links = 2 + Cardinality(Subdirectories(v, i)) /\ v.inode[d].links > 2
  /\ LinksLeft(v, i) \in Nat
  /\ i \notin Unlinked(v) /\ Last(v, i) = None /\ NextOf(v, i) = None /\ v.tail # i

LEMMA CountsAreNumbers ==
  ASSUME NEW v, v \in Volume, NEW x, x \in Ino
  PROVE  v.inode[x].links \in Nat /\ v.inode[x].dirents \in Nat
BY DEF Volume, Inode

LEMMA NamedIs ==
  ASSUME NEW v, v \in Volume, Tree(v), List(v), NEW d, d \in Ino, NEW n, n \in Name,
         NEW i, i = v.entry[d][n], i # None
  PROVE  NameIs(v, d, i)
<1>1. d \in LinkedDirs(v) /\ i \in Linked(v) \ {Root} /\ i \in Ino
  BY DEF Tree, NamesAreLinked, Linked, Allocated
<1>2. i # d
  <2>. SUFFICES ASSUME i = d PROVE FALSE
    OBVIOUS
  <2>1. PICK m \in Name : NamesOf(v, i) = {<<v.parent[i], m>>}
    BY <1>1 DEF Tree, OnePlace
  <2>2. <<d, n>> \in NamesOf(v, i)
    BY DEF NamesOf
  <2>3. v.parent[i] = i
    BY <2>1, <2>2
  <2>4. PICK depth \in [Ino -> Nat] : depth[v.parent[i]] < depth[i]
    BY <1>1 DEF Tree, Deepens
  <2>. QED
    BY <1>1, <2>3, <2>4
<1>3. Cardinality(Subdirectories(v, d)) \in Nat /\ Cardinality(Children(v, d)) \in Nat
      /\ Cardinality(Subdirectories(v, i)) \in Nat
  BY NamesAreFinite
<1>4. d \in Linked(v) /\ IsDir(v, d)
  BY <1>1 DEF LinkedDirs
<1>5. /\ v.inode[d].links = 2 + Cardinality(Subdirectories(v, d))
      /\ v.inode[d].dirents = 2 + Cardinality(Children(v, d))
  BY <1>4 DEF Tree, Counted
<1>6. v.inode[d].dirents > 0 /\ v.inode[d].links > 1
  BY <1>3, <1>5
<1>7. v.inode[i].links > 0 /\ v.inode[i].links \in Nat
  BY <1>1, CountsAreNumbers DEF Linked, IsUnlinked
<1>8. IsDir(v, i) => v.inode[i].links = 2 + Cardinality(Subdirectories(v, i)) /\ v.inode[d].links > 2
  <2>. SUFFICES ASSUME IsDir(v, i)
                PROVE  v.inode[i].links = 2 + Cardinality(Subdirectories(v, i)) /\ v.inode[d].links > 2
    OBVIOUS
  <2>1. n \in Subdirectories(v, d)
    BY DEF Subdirectories, Children
  <2>2. IsFiniteSet(Subdirectories(v, d))
    BY NamesAreFinite
  <2>3. Cardinality(Subdirectories(v, d)) > 0
    BY <1>3, <2>1, <2>2, FS_EmptySet
  <2>4. v.inode[i].links = 2 + Cardinality(Subdirectories(v, i))
    BY <1>1 DEF Tree, Counted
  <2>. QED
    BY <1>3, <1>5, <2>3, <2>4
<1>9. LinksLeft(v, i) \in Nat
  BY <1>7 DEF LinksLeft
<1>10. i \notin Unlinked(v)
  BY <1>1 DEF Linked, Unlinked
<1>11. Last(v, i) = None /\ NextOf(v, i) = None
  BY <1>1, <1>10 DEF List, Unchained
<1>12. v.tail # i
  BY <1>1, <1>10, InodesIs DEF List, Ends
<1>. QED
  BY <1>1, <1>2, <1>6, <1>7, <1>8, <1>9, <1>10, <1>11, <1>12 DEF NameIs

\* A directory that may be unlinked is empty.
LEMMA EmptyDirs ==
  ASSUME NEW v, v \in Volume, Tree(v), NEW i, i \in Linked(v), IsDir(v, i), v.inode[i].dirents = 2
  PROVE  Children(v, i) = {} /\ Cardinality(Subdirectories(v, i)) = 0 /\ LinksLeft(v, i) = 0
<1>1. /\ v.inode[i].links = 2 + Cardinality(Subdirectories(v, i))
      /\ v.inode[i].dirents = 2 + Cardinality(Children(v, i))
  BY DEF Tree, Counted
<1>2. IsFiniteSet(Children(v, i)) /\ Cardinality(Children(v, i)) \in Nat
  BY NamesAreFinite
<1>3. Cardinality(Children(v, i)) = 0
  BY <1>1, <1>2
<1>4. Children(v, i) = {}
  BY <1>2, <1>3, FS_EmptySet
<1>5. Subdirectories(v, i) = {}
  BY <1>4 DEF Subdirectories
<1>6. Cardinality(Subdirectories(v, i)) = 0
  BY <1>5, FS_EmptySet
<1>7. LinksLeft(v, i) = 0
  BY <1>1, <1>6 DEF LinksLeft
<1>. QED
  BY <1>4, <1>6, <1>7

LEMMA ChildUnlinkedIs ==
  ASSUME NEW v, v \in Volume, Tree(v), List(v), open \in [Ino -> Nat],
         NEW d, d \in Ino, NEW n, n \in Name, NEW i, i = v.entry[d][n], i # None,
         IsDir(v, i) => v.inode[i].dirents = 2,
         NEW w, ChildUnlinked(v, w, d, n, i, LinksLeft(v, i))
  PROVE  Sound(v, w) /\ KeepsOpen(v, w) /\ OneMore(w, v, d, n, i)
<1>1. NameIs(v, d, i)
  BY NamedIs
<1>2. PICK l : l = LinksLeft(v, i)
  OBVIOUS
<1>0. i \in Ino /\ open[i] \in Nat /\ l \in Nat /\ i # d /\ d \in LinkedDirs(v) /\ i \in Linked(v)
  BY <1>1, <1>2 DEF NameIs
<1>3. ChildUnlinked(v, w, d, n, i, l)
  BY <1>2
<1>4. IsDir(v, i) => Children(v, i) = {} /\ l = 0 /\ v.inode[i].links = 2
  BY <1>0, <1>1, <1>2, EmptyDirs DEF NameIs
<1>5. ~IsDir(v, i) => l = v.inode[i].links - 1 /\ v.inode[i].links \in Nat
  BY <1>0, <1>2, CountsAreNumbers DEF LinksLeft
<1>6. l = 0 => NamesOf(v, i) = {<<d, n>>}
  <2>. SUFFICES ASSUME l = 0 PROVE NamesOf(v, i) = {<<d, n>>}
    OBVIOUS
  <2>1. IsDir(v, i) \/ v.inode[i].links <= 1
    BY <1>5
  <2>2. i \in Linked(v) \ {Root}
    BY <1>1 DEF NameIs
  <2>. QED
    BY <2>1, <2>2, OnlyName
<1>7. \A x \in Ino, m \in Name :
        w.entry[x][m] = IF x = d /\ m = n THEN None ELSE v.entry[x][m]
  <2>1. l = 0 => v.entry[i] = NoNames
    <3>. SUFFICES ASSUME l = 0 PROVE v.entry[i] = NoNames
      OBVIOUS
    <3>1. i \notin LinkedDirs(v) \/ Children(v, i) = {}
      BY <1>4 DEF LinkedDirs
    <3>. QED
      BY <1>0, <3>1, NothingInside
  <2>2. w.entry[i] = v.entry[i]
    BY <1>0, <1>3, <2>1 DEF ChildUnlinked
  <2>. QED
    BY <1>0, <1>3, <2>2 DEF ChildUnlinked
<1>8. \A x \in Ino \ {i} : w.inode[x].type = v.inode[x].type
  BY <1>3 DEF ChildUnlinked, SameCounts
<1>9. OneMore(w, v, d, n, i)
  <2>1. w.entry[d][n] = None
    BY <1>7
  <2>2. \A x \in Ino, m \in Name :
          v.entry[x][m] = IF x = d /\ m = n THEN i ELSE w.entry[x][m]
    BY <1>7
  <2>3. ASSUME NEW x \in Ino, NEW m \in Name, w.entry[x][m] # None
        PROVE  IsDir(v, w.entry[x][m]) <=> IsDir(w, w.entry[x][m])
    <3>1. v.entry[x][m] = w.entry[x][m] /\ ~(x = d /\ m = n)
      BY <1>7, <2>3
    <3>. PICK y : y = v.entry[x][m]
      OBVIOUS
    <3>2. y \in Ino
      BY <2>3, <3>1 DEF Tree, NamesAreLinked, Linked, Allocated
    <3>3. CASE y # i
      BY <1>8, <3>1, <3>2, <3>3 DEF IsDir
    <3>4. CASE y = i
      <4>1. <<x, m>> \in NamesOf(v, i) /\ <<x, m>> # <<d, n>>
        BY <3>1, <3>4 DEF NamesOf
      <4>2. l > 0
        BY <1>0, <1>6, <4>1
      <4>. QED
        BY <1>3, <3>1, <3>4, <4>2 DEF IsDir, ChildUnlinked
    <3>. QED
      BY <3>3, <3>4
  <2>. QED
    BY <1>0, <2>1, <2>2, <2>3 DEF OneMore
<1>10. NameGone(v, w, d, n, i)
  <2>1. IF ~IsDir(v, i) /\ v.inode[i].links > 1
        THEN w.inode[i].type = v.inode[i].type /\ w.inode[i].links = v.inode[i].links - 1
        ELSE i \notin Linked(w)
    <3>1. CASE ~IsDir(v, i) /\ v.inode[i].links > 1
      <4>1. l > 0 /\ l = v.inode[i].links - 1
        BY <1>5, <3>1
      <4>. QED
        BY <1>3, <3>1, <4>1 DEF ChildUnlinked
    <3>2. CASE IsDir(v, i)
      BY <1>3, <1>4, <3>2 DEF ChildUnlinked
    <3>3. CASE ~IsDir(v, i) /\ ~(v.inode[i].links > 1)
      <4>1. l = 0
        BY <1>0, <1>5, <3>3
      <4>. QED
        BY <1>3, <3>3, <4>1 DEF ChildUnlinked
    <3>. QED
      BY <3>1, <3>2, <3>3
  <2>2. \A x \in LinkedDirs(v) \ {i} : w.parent[x] = v.parent[x]
    BY <1>3 DEF ChildUnlinked, LinkedDirs, Linked, Allocated
  <2>. QED
    BY <1>0, <1>3, <1>9, <2>1, <2>2 DEF NameGone, ChildUnlinked
<1>11. Tree(w)
  BY <1>4, <1>10, NameGoneIs
<1>12. \A x \in Ino \ {i} : (x \in Unlinked(w) <=> x \in Unlinked(v))
                           /\ (x \in Allocated(w) <=> x \in Allocated(v))
  <2>1. \A x \in Ino \ {i, d} : (x \in Unlinked(w) <=> x \in Unlinked(v))
                               /\ (x \in Allocated(w) <=> x \in Allocated(v))
    BY <1>3, SameCountsIs DEF ChildUnlinked
  <2>2. w.inode[d].links > 0 /\ v.inode[d].links > 0
    <3>1. v.inode[d].links \in Nat /\ v.inode[d].links > 1
      BY <1>1, CountsAreNumbers DEF NameIs
    <3>. QED
      BY <1>3, <3>1 DEF ChildUnlinked
  <2>3. d \notin Unlinked(w) /\ d \notin Unlinked(v) /\ (d \in Allocated(w) <=> d \in Allocated(v))
    BY <1>0, <1>8, <2>2 DEF Unlinked, IsUnlinked, Allocated
  <2>. QED
    BY <2>1, <2>3
<1>13. i \notin Unlinked(v) /\ i \in Allocated(v)
  BY <1>1 DEF NameIs, Linked
<1>14. l = 0 /\ open[i] > 0 => i \in Unlinked(w) /\ i \in Allocated(w)
  BY <1>0, <1>3, <1>13 DEF ChildUnlinked, Unlinked, Allocated, IsUnlinked
<1>15. l = 0 /\ open[i] = 0 => i \notin Unlinked(w)
  BY <1>3 DEF ChildUnlinked, Unlinked
<1>16. l > 0 => i \notin Unlinked(w) /\ i \in Allocated(w)
  <2>1. SUFFICES ASSUME l > 0
                 PROVE  i \notin Unlinked(w) /\ i \in Allocated(w)
    OBVIOUS
  <2>2. w.inode[i].links = l /\ w.inode[i].type = v.inode[i].type
    BY <1>3, <2>1 DEF ChildUnlinked
  <2>3. v.inode[i].type # "free"
    BY <1>13 DEF Allocated
  <2>4. w.inode[i].links # 0
    BY <2>1, <2>2
  <2>. QED
    BY <1>0, <2>2, <2>3, <2>4 DEF Unlinked, Allocated, IsUnlinked
<1>17. List(w)
  <2>1. CASE l = 0 /\ open[i] > 0
    <3>1. Unlinked(w) = Unlinked(v) \union {i}
      BY <1>0, <1>12, <1>14, <2>1, UnlinkedAreInodes
    <3>2. Appended(v, w, i)
      BY <1>0, <1>3, <1>13, <2>1, <3>1 DEF Appended, ChildUnlinked, PutLast
    <3>. QED
      BY <3>2, AppendedList
  <2>2. CASE ~(l = 0 /\ open[i] > 0)
    <3>1. Unlinked(w) = Unlinked(v)
      BY <1>0, <1>12, <1>13, <1>15, <1>16, <2>2, UnlinkedAreInodes
    <3>2. SameChain(v, w)
      BY <1>0, <1>3, <2>2, <3>1 DEF SameChain, ChildUnlinked, SameEnds, SameLinks
    <3>. QED
      BY <3>2, SameList
  <2>. QED
    BY <2>1, <2>2
<1>18. KeepsOpen(v, w)
  <2>1. ASSUME NEW x \in Ino
        PROVE  /\ x \in Unlinked(w) => x \in Unlinked(v) \/ open[x] > 0
               /\ open[x] > 0 /\ x \in Allocated(v) => x \in Allocated(w)
    <3>1. CASE x # i
      BY <1>12, <3>1
    <3>2. CASE x = i
      BY <1>0, <1>14, <1>15, <1>16, <3>2
    <3>. QED
      BY <3>1, <3>2
  <2>. QED
    BY <2>1 DEF KeepsOpen
<1>19. Sound(v, w)
  BY <1>3, <1>11, <1>17 DEF Sound, ChildUnlinked
<1>. QED
  BY <1>9, <1>18, <1>19

LEMMA UnlinkIs ==
  ASSUME NEW v, v \in Volume, Tree(v), List(v), open \in [Ino -> Nat],
         NEW d, d \in Ino, NEW n, n \in Name, NEW i, i = v.entry[d][n], i # None,
         IsDir(v, i) => v.inode[i].dirents = 2
  PROVE  Sound(v, UnlinkChild(v, d, n)) /\ KeepsOpen(v, UnlinkChild(v, d, n))
<1>1. NameIs(v, d, i)
  BY NamedIs
<1>2. i \in Ino /\ open[i] \in Nat /\ i # d /\ LinksLeft(v, i) \in Nat
  BY <1>1 DEF NameIs
<1>3. /\ v.inode[d].dirents > 0 /\ v.inode[d].links > 0
      /\ Last(v, i) = None /\ NextOf(v, i) = None /\ v.tail # i
  BY <1>1, CountsAreNumbers DEF NameIs
<1>4. ChildUnlinked(v, UnlinkChild(v, d, n), d, n, i, LinksLeft(v, i))
  BY <1>2, <1>3, UnlinkChildIs
<1>. QED
  BY <1>4, ChildUnlinkedIs

\* An inode that gets a name changes nothing of the list.
Adds(v, w, i) ==
  /\ Sound(v, w) /\ KeepsOpen(v, w) /\ Unlinked(w) = Unlinked(v)
  /\ Allocated(v) \subseteq Allocated(w) /\ i \in Allocated(w)

LEMMA AddingIs ==
  ASSUME NEW v, v \in Volume, Tree(v), List(v), NEW w, w \in Volume, Synced(v, w),
         NEW d, NEW n, NEW i, NameAdded(v, w, d, n, i), SameEnds(v, w), i \notin Unlinked(v)
  PROVE  Adds(v, w, i)
<1>1. Tree(w)
  BY NameAddedIs
<1>2. i \in Ino /\ d \in Ino /\ d \in LinkedDirs(v) /\ i \in Linked(w) /\ i \notin Unlinked(w)
  BY DEF NameAdded, OneMore, Linked, Unlinked
<1>3. v.inode[d].links \in Nat /\ v.inode[d].links # 0 /\ d \in Allocated(v)
  BY <1>2, CountsAreNumbers DEF LinkedDirs, Linked, IsUnlinked
<1>4. d \notin Unlinked(v) /\ d \notin Unlinked(w) /\ d \in Allocated(w)
  BY <1>2, <1>3 DEF NameAdded, Unlinked, IsUnlinked, Allocated
<1>5. \A x \in Ino \ {i, d} : (x \in Unlinked(w) <=> x \in Unlinked(v))
                             /\ (x \in Allocated(w) <=> x \in Allocated(v))
  BY SameCountsIs DEF NameAdded
<1>6. Unlinked(w) = Unlinked(v)
  BY <1>2, <1>4, <1>5, UnlinkedAreInodes
<1>7. Allocated(v) \subseteq Allocated(w) /\ i \in Allocated(w)
  <2>1. i \in Allocated(w) /\ Allocated(v) \subseteq Ino
    BY <1>2 DEF Linked, Allocated
  <2>. QED
    BY <1>4, <1>5, <2>1
<1>8. SameChain(v, w)
  BY <1>6 DEF SameEnds, SameChain, SameLinks
<1>9. List(w)
  BY <1>8, SameList
<1>. QED
  BY <1>1, <1>6, <1>7, <1>9 DEF Sound, KeepsOpen, Adds

LEMMA LinkIs ==
  ASSUME NEW v, v \in Volume, Tree(v), List(v), NEW d, d \in LinkedDirs(v), NEW n, n \in Name,
         NEW i, i \in Linked(v), v.inode[i].type = "file", v.entry[d][n] = None,
         NEW u, u = AppendDirent(v, d, n, i),
         NEW w, w = InodeSync([u EXCEPT !.inode[i].links = @ + 1], {i})
  PROVE  Sound(v, w) /\ KeepsOpen(v, w)
<1>1. d \in Ino /\ i \in Ino /\ d # i /\ ~IsDir(v, i) /\ i \notin Unlinked(v)
  BY DEF LinkedDirs, Linked, Allocated, IsDir, Unlinked
<1>20. Entered(v, AppendDirent(v, d, n, i), d, n, i)
  BY <1>1, AppendDirentIs
<1>2. Entered(v, u, d, n, i) /\ u \in Volume
  BY <1>20 DEF Entered
<1>21. /\ \A x \in Ino \ {d} : u.inode[x] = v.inode[x]
       /\ u.inode[d].type = v.inode[d].type /\ u.sync = v.sync \union {d}
       /\ u.head = v.head /\ u.tail = v.tail
       /\ \A x \in Ino : SameLinks(v, u, x)
  BY <1>2 DEF Entered, SameLinks, Last, NextOf
<1>3. u.inode[i] = v.inode[i] /\ v.inode[i].links \in Nat
  BY <1>1, <1>2, CountsAreNumbers DEF Entered
<1>4. PICK l \in Nat : l = v.inode[i].links + 1
  BY <1>3
<1>5. PICK a : a = [u EXCEPT !.inode[i].links = l]
  OBVIOUS
<1>6. w = InodeSync(a, {i})
  <2>1. [u EXCEPT !.inode[i].links = @ + 1] = a
    BY <1>1, <1>2, <1>3, <1>4, <1>5 DEF Volume
  <2>. QED
    BY <2>1
<1>7. LinksAre(u, a, i, l)
  BY <1>1, <1>2, <1>5, LinksAreSet
<1>8. OnlySyncs(a, {i}, w)
  BY <1>1, <1>6, <1>7, InodeSyncIs DEF LinksAre
<1>9. /\ w \in Volume /\ w.sync = v.sync \union {d, i} /\ w.parent = v.parent
      /\ w.entry = u.entry
  <2>1. u.parent = v.parent /\ u.sync = v.sync \union {d}
    BY <1>2 DEF Entered
  <2>2. a.sync = u.sync /\ a.parent = u.parent /\ a.entry = u.entry
    BY <1>7 DEF LinksAre
  <2>3. /\ w \in Volume /\ w.sync = a.sync \union {i}
        /\ w.parent = a.parent /\ w.entry = a.entry
    BY <1>8 DEF OnlySyncs
  <2>. QED
    BY <2>1, <2>2, <2>3
<1>10. /\ \A x \in Ino \ {i} : w.inode[x] = u.inode[x]
       /\ w.inode[i].type = v.inode[i].type /\ w.inode[i].links = l
  BY <1>3, <1>7, <1>8 DEF LinksAre, OnlySyncs
<1>11. Synced(v, w)
  <2>1. v.sync \subseteq w.sync /\ i \in w.sync /\ d \in w.sync
    BY <1>9
  <2>2. \A x \in Ino \ w.sync : w.inode[x] = v.inode[x]
    BY <1>10, <1>21, <2>1
  <2>. QED
    BY <2>1, <2>2 DEF Synced
<1>12. SameEnds(v, w)
  <2>2. /\ a.head = u.head /\ a.tail = u.tail
        /\ \A x \in Ino : SameLinks(u, a, x)
    BY <1>7 DEF SameLinks, Last, NextOf, LinksAre
  <2>3. w.head = a.head /\ w.tail = a.tail /\ w.inode = a.inode
    BY <1>8 DEF OnlySyncs
  <2>1. /\ w.head = u.head /\ w.tail = u.tail
        /\ \A x \in Ino : SameLinks(u, w, x)
    BY <2>2, <2>3 DEF SameLinks, Last, NextOf
  <2>. QED
    BY <1>21, <2>1 DEF SameEnds, SameLinks
<1>13. \A x \in Ino : w.inode[x].type = v.inode[x].type
  <2>1. ASSUME NEW x \in Ino, x # i
        PROVE  w.inode[x].type = v.inode[x].type
    <3>1. w.inode[x] = u.inode[x]
      BY <1>10, <2>1
    <3>2. u.inode[x].type = v.inode[x].type
      BY <1>21
    <3>. QED
      BY <3>1, <3>2
  <2>2. w.inode[i].type = v.inode[i].type
    BY <1>10
  <2>. QED
    BY <2>1, <2>2
<1>14. OneMore(v, w, d, n, i)
  <2>1. \A x \in Ino, m \in Name :
          w.entry[x][m] = IF x = d /\ m = n THEN i ELSE v.entry[x][m]
    BY <1>2, <1>9 DEF Entered
  <2>2. \A x \in Ino, m \in Name : v.entry[x][m] # None => v.entry[x][m] \in Ino
    BY DEF Tree, NamesAreLinked, Linked, Allocated
  <2>. QED
    BY <1>1, <1>13, <2>1, <2>2 DEF OneMore, IsDir
<1>15. NameAdded(v, w, d, n, i)
  <2>1. i # Root
    BY <1>1 DEF Tree, LinkedDirs
  <2>2. i \in Linked(w) /\ ~IsDir(w, i)
    BY <1>1, <1>3, <1>4, <1>10 DEF Linked, Allocated, IsUnlinked, IsDir
  <2>3. \A x \in Ino \ {i, d} : SameCounts(v, w, x)
    <3>1. \A x \in Ino \ {i, d} : w.inode[x] = v.inode[x]
      BY <1>10, <1>21
    <3>. QED
      BY <3>1 DEF SameCounts
  <2>4. /\ w.inode[d].type = v.inode[d].type
        /\ w.inode[d].dirents = v.inode[d].dirents + 1
        /\ w.inode[d].links = v.inode[d].links
    BY <1>1, <1>2, <1>10 DEF Entered
  <2>. QED
    BY <1>1, <1>4, <1>9, <1>10, <1>14, <2>1, <2>2, <2>3, <2>4 DEF NameAdded
<1>. QED
  BY <1>1, <1>9, <1>11, <1>12, <1>15, AddingIs DEF Adds

LEMMA CreateIs ==
  ASSUME NEW v, v \in Volume, Tree(v), List(v), NEW d, d \in LinkedDirs(v), NEW n, n \in Name,
         NEW k, k \in Ino, v.inode[k].type = "free", v.entry[d][n] = None,
         NEW new, new \in {NewFile, NewDir},
         NEW u, u = [v EXCEPT !.inode[k] = new, !.parent[k] = IF new = NewDir THEN d ELSE None],
         NEW w, w = AppendDirent(InodeSync(u, {k}), d, n, k)
  PROVE  Adds(v, w, k)
<1>1. d \in Ino /\ k \notin Allocated(v) /\ k \notin Linked(v) /\ k # d /\ k \notin Unlinked(v)
  BY DEF LinkedDirs, Linked, Allocated, Unlinked
<1>2. k # Root
  BY <1>1 DEF Tree, LinkedDirs
<1>3. /\ new \in Inode /\ new.last = None /\ new.next = None
      /\ new.type # "free" /\ new.links # 0
  <2>1. CASE new = NewDir
    BY <2>1, FreeIs
  <2>2. CASE new = NewFile
    BY <2>2, FreeIs
  <2>. QED
    BY <2>1, <2>2
<1>4. PICK p \in Ino \union {None} : p = IF new = NewDir THEN d ELSE None
  BY <1>1
<1>5. PICK f \in [Ino -> Inode] : f = [v.inode EXCEPT ![k] = new]
  BY <1>3 DEF Volume
<1>6. PICK h \in [Ino -> Ino \union {None}] : h = [v.parent EXCEPT ![k] = p]
  BY <1>4 DEF Volume
<1>7. u = [v EXCEPT !.inode = f, !.parent = h]
  BY <1>4, <1>5, <1>6 DEF Volume
<1>8. /\ u \in Volume /\ u.sync = v.sync /\ u.inode = f /\ u.parent = h /\ u.entry = v.entry
      /\ u.head = v.head /\ u.tail = v.tail
  BY <1>7, Zenon DEF Volume
<1>9. /\ f[k] = new /\ \A x \in Ino \ {k} : f[x] = v.inode[x]
      /\ h[k] = p /\ \A x \in Ino \ {k} : h[x] = v.parent[x]
  BY <1>5, <1>6 DEF Volume
<1>10. PICK a : a = InodeSync(u, {k})
  OBVIOUS
<1>11. OnlySyncs(u, {k}, a)
  BY <1>8, <1>10, InodeSyncIs
<1>12. /\ a \in Volume /\ a.sync = v.sync \union {k} /\ a.inode = f /\ a.parent = h
       /\ a.entry = v.entry /\ a.head = v.head /\ a.tail = v.tail
  BY <1>8, <1>11 DEF OnlySyncs
<1>13. Entered(a, w, d, n, k)
  BY <1>1, <1>10, <1>12, AppendDirentIs
<1>14. /\ w \in Volume /\ w.sync = v.sync \union {k, d} /\ w.parent = h
       /\ w.head = v.head /\ w.tail = v.tail
       /\ \A x \in Ino, m \in Name :
            w.entry[x][m] = IF x = d /\ m = n THEN k ELSE v.entry[x][m]
       /\ \A x \in Ino \ {d, k} : w.inode[x] = v.inode[x]
       /\ w.inode[k] = new
  <2>1. /\ w \in Volume /\ w.sync = a.sync \union {d} /\ w.parent = a.parent
        /\ w.head = a.head /\ w.tail = a.tail
        /\ \A x \in Ino, m \in Name :
             w.entry[x][m] = IF x = d /\ m = n THEN k ELSE a.entry[x][m]
        /\ \A x \in Ino \ {d} : w.inode[x] = a.inode[x]
    BY <1>13 DEF Entered
  <2>2. w.sync = v.sync \union {k, d}
    BY <1>12, <2>1
  <2>3. /\ \A x \in Ino \ {d, k} : w.inode[x] = v.inode[x]
        /\ w.inode[k] = new
    BY <1>1, <1>9, <1>12, <2>1
  <2>4. \A x \in Ino, m \in Name :
          w.entry[x][m] = IF x = d /\ m = n THEN k ELSE v.entry[x][m]
    <3>1. a.entry = v.entry
      BY <1>12
    <3>2. \A x \in Ino, m \in Name :
            w.entry[x][m] = IF x = d /\ m = n THEN k ELSE a.entry[x][m]
      BY <1>13 DEF Entered
    <3>. QED
      BY <3>1, <3>2
  <2>5. w \in Volume /\ w.parent = h /\ w.head = v.head /\ w.tail = v.tail
    BY <1>12, <2>1
  <2>. QED
    BY <2>2, <2>3, <2>4, <2>5
<1>15. /\ w.inode[d].type = v.inode[d].type
       /\ w.inode[d].dirents = v.inode[d].dirents + 1
       /\ w.inode[d].links = (IF IsDir(w, k) THEN v.inode[d].links + 1 ELSE v.inode[d].links)
       /\ SameLinks(v, w, d)
  <2>1. a.inode[d] = v.inode[d] /\ a.inode[k] = new
    BY <1>1, <1>9, <1>12
  <2>2. IsDir(a, k) <=> IsDir(w, k)
    BY <1>14, <2>1 DEF IsDir
  <2>. QED
    BY <1>13, <2>1, <2>2 DEF Entered, SameLinks, Last, NextOf
<1>16. Synced(v, w)
  BY <1>14 DEF Synced
<1>17. SameEnds(v, w)
  <2>1. SameLinks(v, w, k)
    BY <1>1, <1>3, <1>14 DEF List, Unchained, SameLinks, Last, NextOf
  <2>. QED
    BY <1>14, <1>15, <2>1 DEF SameEnds, SameLinks, Last, NextOf
<1>18. \A x \in Ino \ {k} : w.inode[x].type = v.inode[x].type
  BY <1>14, <1>15
<1>19. OneMore(v, w, d, n, k)
  <2>2. \A x \in Ino, m \in Name : v.entry[x][m] # None => v.entry[x][m] \in Ino \ {k}
    BY <1>1 DEF Tree, NamesAreLinked, Linked, Allocated
  <2>. QED
    BY <1>1, <1>14, <1>18, <2>2 DEF OneMore, IsDir
<1>20. NameAdded(v, w, d, n, k)
  <2>1. k \in Linked(w)
    BY <1>3, <1>14 DEF Linked, Allocated, IsUnlinked
  <2>2. \A x \in Ino \ {k, d} : SameCounts(v, w, x)
    BY <1>14 DEF SameCounts
  <2>3. IF IsDir(w, k) THEN w.inode[k].links = 2 /\ w.inode[k].dirents = 2 /\ w.parent[k] = d
        ELSE w.inode[k].links = 1
    <3>1. CASE new = NewDir
      <4>1. w.parent[k] = d
        BY <1>4, <1>9, <1>14, <3>1
      <4>2. w.inode[k] = NewDir
        BY <1>14, <3>1
      <4>. QED
        BY <4>1, <4>2, FreeIs DEF IsDir
    <3>2. CASE new = NewFile
      BY <1>14, <3>2, FreeIs DEF IsDir
    <3>. QED
      BY <3>1, <3>2
  <2>4. \A x \in LinkedDirs(v) : w.parent[x] = v.parent[x]
    BY <1>1, <1>9, <1>14 DEF LinkedDirs, Linked, Allocated
  <2>. QED
    BY <1>1, <1>2, <1>15, <1>19, <2>1, <2>2, <2>3, <2>4 DEF NameAdded
<1>21. w \in Volume
  BY <1>14
<1>. QED
  BY <1>1, <1>16, <1>17, <1>20, <1>21, AddingIs

LEMMA RemovedSound ==
  ASSUME NEW v, Tree(v), List(v), NEW w, NEW i, i \in Ino, Removed(v, w, i)
  PROVE  /\ Sound(v, w) /\ Unlinked(w) = Unlinked(v) \ {i}
         /\ \A x \in Ino \ {i} : x \in Allocated(w) <=> x \in Allocated(v)
<1>1. Tree(w) /\ List(w)
  BY SameTreeIs, TakenOutList DEF Removed
<1>2. \A x \in Ino \ {i} : x \in Allocated(w) <=> x \in Allocated(v)
  BY SameCountsIs DEF Removed
<1>. QED
  BY <1>1, <1>2 DEF Sound, Removed, TakenOut

(***************************************************************************)
(* A name that moves.  u is the volume without what the new name named; a is *)
(* that volume with the new name for i.                                     *)
(***************************************************************************)
MovingFrom(v, u, a, d, n, d2, n2, i) ==
  /\ u \in Volume /\ Tree(u) /\ List(u) /\ KeepsOpen(v, u)
  /\ a \in Volume /\ Synced(v, a) /\ SameEnds(u, a) /\ a.parent = u.parent
  /\ \A x \in Ino \ {d2} : a.inode[x] = u.inode[x]
  /\ a.inode[d2].type = u.inode[d2].type
  /\ a.inode[d2].dirents = u.inode[d2].dirents + 1
  /\ a.inode[d2].links = (IF IsDir(u, i) THEN u.inode[d2].links + 1 ELSE u.inode[d2].links)
  /\ \A x \in Ino, m \in Name :
       a.entry[x][m] = IF x = d2 /\ m = n2 THEN i ELSE u.entry[x][m]
  /\ u.entry[d2][n2] = None /\ u.entry[d][n] = i /\ i # None
  /\ d2 \in LinkedDirs(u) /\ (IsDir(u, i) => ~IsBelow(u, d2, i))

UnderIs(a, c, i, d2) ==
  /\ c \in Volume /\ c.sync = a.sync /\ c.inode = a.inode /\ c.entry = a.entry
  /\ c.head = a.head /\ c.tail = a.tail
  /\ c.parent[i] = (IF IsDir(a, i) THEN d2 ELSE a.parent[i])
  /\ \A x \in Ino \ {i} : c.parent[x] = a.parent[x]

LEMMA MovedUnderIs ==
  ASSUME NEW a, a \in Volume, NEW i, i \in Ino, NEW d2, d2 \in Ino
  PROVE  UnderIs(a, MovedUnder(a, i, d2), i, d2)
<1>1. PICK c : c = MovedUnder(a, i, d2)
  OBVIOUS
<1>2. PICK h \in [Ino -> Ino \union {None}] : h = [a.parent EXCEPT ![i] = d2]
  BY DEF Volume
<1>3. CASE IsDir(a, i)
  <2>1. c = [a EXCEPT !.parent = h]
    BY <1>1, <1>2, <1>3 DEF MovedUnder, Volume
  <2>2. /\ c \in Volume /\ c.sync = a.sync /\ c.inode = a.inode /\ c.entry = a.entry
        /\ c.head = a.head /\ c.tail = a.tail /\ c.parent = h
    BY <2>1, Zenon DEF Volume
  <2>3. h[i] = d2 /\ \A x \in Ino \ {i} : h[x] = a.parent[x]
    BY <1>2 DEF Volume
  <2>. QED
    BY <1>1, <1>3, <2>2, <2>3 DEF UnderIs
<1>4. CASE ~IsDir(a, i)
  BY <1>1, <1>4 DEF MovedUnder, UnderIs
<1>. QED
  BY <1>3, <1>4

LEMMA AddLinkIs ==
  ASSUME NEW c, c \in Volume, NEW i, i \in Ino
  PROVE  LinksAre(c, AddLink(c, i), i, c.inode[i].links + 1)
<1>1. PICK l \in Nat : l = c.inode[i].links + 1
  BY CountsAreNumbers
<1>2. AddLink(c, i) = [c EXCEPT !.inode[i].links = l]
  BY <1>1 DEF AddLink, Volume
<1>. QED
  BY <1>1, <1>2, LinksAreSet

\* The old name goes; the inode is linked still, by the new one.
LEMMA MovedIs ==
  ASSUME NEW v, v \in Volume, NEW u, NEW a, NEW d, d \in Ino, NEW n, n \in Name,
         NEW d2, d2 \in Ino, NEW n2, n2 \in Name, NEW i, i \in Ino,
         open \in [Ino -> Nat], <<d, n>> # <<d2, n2>>, MovingFrom(v, u, a, d, n, d2, n2, i)
  PROVE  /\ Sound(v, UnlinkChild(AddLink(MovedUnder(a, i, d2), i), d, n))
         /\ KeepsOpen(v, UnlinkChild(AddLink(MovedUnder(a, i, d2), i), d, n))
<1>1. /\ u \in Volume /\ Tree(u) /\ List(u) /\ KeepsOpen(v, u)
      /\ a \in Volume /\ Synced(v, a) /\ SameEnds(u, a) /\ a.parent = u.parent
      /\ u.entry[d2][n2] = None /\ u.entry[d][n] = i /\ i # None
      /\ d2 \in LinkedDirs(u) /\ (IsDir(u, i) => ~IsBelow(u, d2, i))
  BY DEF MovingFrom
<1>2. /\ \A x \in Ino \ {d2} : a.inode[x] = u.inode[x]
      /\ a.inode[d2].type = u.inode[d2].type
      /\ a.inode[d2].dirents = u.inode[d2].dirents + 1
      /\ a.inode[d2].links = (IF IsDir(u, i) THEN u.inode[d2].links + 1 ELSE u.inode[d2].links)
  BY DEF MovingFrom
<1>3. \A x \in Ino, m \in Name :
        a.entry[x][m] = IF x = d2 /\ m = n2 THEN i ELSE u.entry[x][m]
  BY DEF MovingFrom
<1>4. NameIs(u, d, i)
  BY <1>1, NamedIs
<1>5. d \in LinkedDirs(u) /\ i \in Linked(u) /\ i # d
  BY <1>4 DEF NameIs
<1>6. i # d2
  <2>. SUFFICES ASSUME i = d2 PROVE FALSE
    OBVIOUS
  <2>1. IsDir(u, i) /\ i \in LinkedDirs(u)
    BY <1>1 DEF LinkedDirs
  <2>2. IsBelow(u, i, i)
    BY <1>1, <2>1, BelowItself
  <2>. QED
    BY <1>1, <2>1, <2>2
<1>7. /\ u.inode[d].links \in Nat /\ u.inode[d].dirents \in Nat
      /\ u.inode[d2].links \in Nat /\ u.inode[d2].dirents \in Nat
      /\ u.inode[i].links \in Nat /\ u.inode[i].dirents \in Nat
      /\ u.inode[d].links > 1 /\ u.inode[d].dirents > 0
      /\ u.inode[i].links > 0
      /\ (IsDir(u, i) => u.inode[i].links > 1 /\ u.inode[d].links > 2)
      /\ u.inode[d2].links > 0
  <2>1. Cardinality(Subdirectories(u, i)) \in Nat
    BY NamesAreFinite
  <2>2. u.inode[d2].links # 0
    BY <1>1 DEF LinkedDirs, Linked, IsUnlinked
  <2>. QED
    BY <1>1, <1>4, <2>1, <2>2, CountsAreNumbers DEF NameIs
<1>8. PICK c : c = MovedUnder(a, i, d2)
  OBVIOUS
<1>9. /\ c \in Volume /\ c.sync = a.sync /\ c.inode = a.inode /\ c.entry = a.entry
      /\ c.head = a.head /\ c.tail = a.tail
      /\ c.parent[i] = (IF IsDir(a, i) THEN d2 ELSE a.parent[i])
      /\ \A x \in Ino \ {i} : c.parent[x] = a.parent[x]
  <2>1. UnderIs(a, c, i, d2)
    BY <1>1, <1>8, MovedUnderIs
  <2>. QED
    BY <2>1 DEF UnderIs
<1>10. a.inode[i] = u.inode[i] /\ (IsDir(a, i) <=> IsDir(u, i))
  BY <1>2, <1>6 DEF IsDir
<1>11. PICK e : e = AddLink(c, i)
  OBVIOUS
<1>12. LinksAre(c, e, i, u.inode[i].links + 1)
  BY <1>9, <1>10, <1>11, AddLinkIs
<1>13. /\ e \in Volume /\ e.sync = a.sync /\ e.entry = a.entry /\ e.tail = u.tail /\ e.head = u.head
       /\ \A x \in Ino \ {i} : e.inode[x] = a.inode[x] /\ e.parent[x] = u.parent[x]
       /\ e.inode[i].type = u.inode[i].type /\ e.inode[i].dirents = u.inode[i].dirents
       /\ e.inode[i].links = u.inode[i].links + 1
       /\ e.parent[i] = (IF IsDir(u, i) THEN d2 ELSE u.parent[i])
  BY <1>1, <1>9, <1>10, <1>12 DEF LinksAre, SameEnds
<1>14. \A x \in Ino : SameLinks(u, e, x)
  BY <1>1, <1>9, <1>12 DEF LinksAre, SameEnds, SameLinks, Last, NextOf
<1>15. e.entry[d][n] = i
  BY <1>1, <1>3, <1>13
<1>16. LinksLeft(e, i) = u.inode[i].links
  BY <1>7, <1>13 DEF LinksLeft, IsDir
<1>17. e.inode[d].dirents > 0 /\ e.inode[d].links > 0
  <2>1. CASE d = d2
    BY <1>2, <1>5, <1>7, <1>13, <2>1
  <2>2. CASE d # d2
    BY <1>2, <1>5, <1>7, <1>13, <2>2
  <2>. QED
    BY <2>1, <2>2
<1>18. Last(e, i) = None /\ NextOf(e, i) = None /\ e.tail # i
  BY <1>4, <1>13, <1>14 DEF SameLinks, NameIs
<1>19. PICK w : w = UnlinkChild(e, d, n)
  OBVIOUS
<1>20. PICK l : l = u.inode[i].links
  OBVIOUS
<1>21. ChildUnlinked(e, w, d, n, i, l) /\ l > 0
  <2>1. LinksLeft(e, i) \in Nat /\ open[i] \in Nat
    BY <1>7, <1>16
  <2>2. ChildUnlinked(e, UnlinkChild(e, d, n), d, n, i, LinksLeft(e, i))
    BY <1>5, <1>13, <1>15, <1>17, <1>18, <2>1, UnlinkChildIs
  <2>. QED
    BY <1>7, <1>16, <1>19, <1>20, <2>2
<1>22. /\ w \in Volume /\ Synced(e, w) /\ i \in w.sync
       /\ \A x \in Ino \ {i, d} : SameCounts(e, w, x)
       /\ w.inode[d].type = e.inode[d].type
       /\ w.inode[d].dirents = e.inode[d].dirents - 1
       /\ w.inode[d].links = (IF IsDir(u, i) THEN e.inode[d].links - 1 ELSE e.inode[d].links)
       /\ w.inode[i].type = u.inode[i].type /\ w.inode[i].links = l
       /\ w.inode[i].dirents = u.inode[i].dirents
       /\ SameEnds(e, w)
  BY <1>13, <1>21 DEF ChildUnlinked, IsDir
<1>23. /\ \A x \in Ino, m \in Name :
            w.entry[x][m] = IF x = d /\ m = n THEN None ELSE e.entry[x][m]
       /\ \A x \in Ino : w.parent[x] = e.parent[x]
  BY <1>5, <1>21 DEF ChildUnlinked
<1>24. \A x \in Ino, m \in Name :
         w.entry[x][m] = IF x = d2 /\ m = n2 THEN i
                         ELSE IF x = d /\ m = n THEN None ELSE u.entry[x][m]
  BY <1>3, <1>13, <1>23
<1>25. \A x \in Ino \ {i, d, d2} : SameCounts(u, w, x)
  BY <1>2, <1>13, <1>22 DEF SameCounts
<1>26. SameCounts(u, w, i)
  BY <1>20, <1>22 DEF SameCounts
<1>27. \A x \in Ino : w.inode[x].type = u.inode[x].type
  BY <1>2, <1>13, <1>22 DEF SameCounts
<1>28. e.inode[d] = a.inode[d] /\ e.inode[d2] = a.inode[d2]
  BY <1>5, <1>6, <1>13
<1>29. d = d2 => SameCounts(u, w, d)
  BY <1>2, <1>7, <1>22, <1>28 DEF SameCounts
<1>30. d # d2 => /\ w.inode[d].dirents = u.inode[d].dirents - 1
                 /\ w.inode[d2].dirents = u.inode[d2].dirents + 1
                 /\ w.inode[d].links = IF IsDir(u, i) THEN u.inode[d].links - 1 ELSE u.inode[d].links
                 /\ w.inode[d2].links = IF IsDir(u, i) THEN u.inode[d2].links + 1 ELSE u.inode[d2].links
  <2>. SUFFICES ASSUME d # d2
                PROVE  /\ w.inode[d].dirents = u.inode[d].dirents - 1
                       /\ w.inode[d2].dirents = u.inode[d2].dirents + 1
                       /\ w.inode[d].links = IF IsDir(u, i) THEN u.inode[d].links - 1 ELSE u.inode[d].links
                       /\ w.inode[d2].links = IF IsDir(u, i) THEN u.inode[d2].links + 1 ELSE u.inode[d2].links
    OBVIOUS
  <2>1. a.inode[d] = u.inode[d] /\ SameCounts(e, w, d2)
    BY <1>2, <1>6, <1>22
  <2>2. w.inode[d2].dirents = a.inode[d2].dirents /\ w.inode[d2].links = a.inode[d2].links
    BY <1>28, <2>1 DEF SameCounts
  <2>. QED
    BY <1>2, <1>22, <1>28, <2>1, <2>2
<1>31. NameMoved(u, w, d, n, d2, n2, i)
  <2>1. \A x \in Ino \ {d, d2} : SameCounts(u, w, x)
    BY <1>25, <1>26
  <2>2. (IsDir(u, i) => w.parent[i] = d2) /\ \A x \in Ino \ {i} : w.parent[x] = u.parent[x]
    BY <1>13, <1>23
  <2>. QED
    BY <1>1, <1>24, <1>27, <1>29, <1>30, <2>1, <2>2 DEF NameMoved
<1>32. \A x \in Ino : (x \in Unlinked(w) <=> x \in Unlinked(u)) /\ (x \in Allocated(w) <=> x \in Allocated(u))
  <2>1. \A x \in Ino : x \in Allocated(w) <=> x \in Allocated(u)
    BY <1>27 DEF Allocated
  <2>2. \A x \in Ino \ {d, d2} : x \in Unlinked(w) <=> x \in Unlinked(u)
    BY <1>25, <1>26, SameCountsIs
  <2>3. d \notin Unlinked(u) /\ d2 \notin Unlinked(u)
    BY <1>7 DEF Unlinked, IsUnlinked
  <2>4. w.inode[d].links > 0 /\ w.inode[d2].links > 0
    <3>1. CASE d = d2
      BY <1>7, <1>29, <3>1 DEF SameCounts
    <3>2. CASE d # d2
      BY <1>7, <1>30, <3>2
    <3>. QED
      BY <3>1, <3>2
  <2>5. d \notin Unlinked(w) /\ d2 \notin Unlinked(w)
    BY <2>4 DEF Unlinked, IsUnlinked
  <2>. QED
    BY <2>1, <2>2, <2>3, <2>5
<1>33. List(w)
  <2>1. Unlinked(w) = Unlinked(u)
    BY <1>32, UnlinkedAreInodes
  <2>2. w.head = u.head /\ w.tail = u.tail
    BY <1>13, <1>22 DEF SameEnds
  <2>3. \A x \in Ino : SameLinks(u, w, x)
    BY <1>14, <1>22 DEF SameEnds, SameLinks
  <2>4. SameChain(u, w)
    BY <2>1, <2>2, <2>3 DEF SameChain, SameLinks
  <2>. QED
    BY <1>1, <2>4, SameList
<1>34. Tree(w)
  BY <1>1, <1>31, NameMovedIs
<1>35. Synced(v, w)
  <2>1. v.sync \subseteq w.sync /\ a.sync \subseteq w.sync
    BY <1>1, <1>13, <1>22 DEF Synced
  <2>2. \A x \in Ino \ w.sync : w.inode[x] = v.inode[x]
    BY <1>1, <1>13, <1>22, <2>1 DEF Synced
  <2>. QED
    BY <2>1, <2>2 DEF Synced
<1>36. KeepsOpen(v, w)
  BY <1>1, <1>32 DEF KeepsOpen
<1>37. Sound(v, w) /\ KeepsOpen(v, w)
  BY <1>22, <1>33, <1>34, <1>35, <1>36 DEF Sound
<1>. QED
  BY <1>8, <1>11, <1>19, <1>37

\* Where directories lose their parent nothing new comes to be below another.
LEMMA BelowStays ==
  ASSUME NEW v, NEW u, u \in Volume, NEW d, d \in Ino, NEW i,
         \A x \in Ino : u.parent[x] \in {v.parent[x], None}, IsBelow(u, d, i)
  PROVE  IsBelow(v, d, i)
<1>. PICK a : a = Above(u, d)
  OBVIOUS
<1>. PICK b : b = Above(v, d)
  OBVIOUS
<1>1. PICK k \in 0..Inodes :
        a[k] = i /\ \A j \in 0..k : a[j] # None /\ (j < k => a[j] # Root)
  BY DEF IsBelow
<1>2. a[0] = d /\ \A j \in 1..Inodes : a[j] = u.parent[a[j - 1]]
  BY AboveIs
<1>3. b[0] = d /\ \A j \in 1..Inodes : b[j] = v.parent[b[j - 1]]
  BY AboveIs
<1>. DEFINE Bad == {m \in 0..k : a[m] # b[m] \/ a[m] \notin Ino}
<1>4. Bad = {}
  <2>. SUFFICES ASSUME Bad # {} PROVE FALSE
    OBVIOUS
  <2>1. Bad \in SUBSET Nat
    OBVIOUS
  <2>2. PICK m \in Bad : \A j \in Bad : m <= j
    BY <2>1, LeastOf
  <2>3. m \in 1..k /\ m - 1 \in 0..k /\ m - 1 \notin Bad /\ m \in 1..Inodes
    BY <1>2, <1>3, <2>2, InodesIs
  <2>4. a[m - 1] = b[m - 1] /\ a[m - 1] \in Ino
    BY <2>3
  <2>5. a[m] = u.parent[a[m - 1]] /\ b[m] = v.parent[b[m - 1]] /\ a[m] # None
    BY <1>1, <1>2, <1>3, <2>3
  <2>6. a[m] \in Ino /\ a[m] = b[m]
    BY <2>4, <2>5 DEF Volume
  <2>. QED
    BY <2>2, <2>6
<1>5. \A m \in 0..k : a[m] = b[m]
  BY <1>4
<1>6. b[k] = i /\ \A j \in 0..k : b[j] # None /\ (j < k => b[j] # Root)
  BY <1>1, <1>5, InodesIs
<1>. QED
  BY <1>6 DEF IsBelow

LEMMA NewNameIs ==
  ASSUME NEW v, v \in Volume, Tree(v), List(v), NEW d, d \in Ino, NEW n, n \in Name,
         NEW d2, d2 \in LinkedDirs(v), NEW n2, n2 \in Name, NEW i, i \in Ino,
         v.entry[d][n] = i, i # None, v.entry[d2][n2] = None,
         IsDir(v, i) => ~IsBelow(v, d2, i)
  PROVE  MovingFrom(v, v, AppendDirent(v, d2, n2, i), d, n, d2, n2, i)
<1>1. d2 \in Ino
  BY DEF LinkedDirs, Linked, Allocated
<1>2. PICK a : a = AppendDirent(v, d2, n2, i)
  OBVIOUS
<1>3. Entered(v, a, d2, n2, i)
  BY <1>1, <1>2, AppendDirentIs
<1>4. SameEnds(v, a)
  BY <1>3 DEF Entered, SameEnds, SameLinks, Last, NextOf
<1>5. KeepsOpen(v, v)
  BY DEF KeepsOpen
<1>6. MovingFrom(v, v, a, d, n, d2, n2, i)
  BY <1>3, <1>4, <1>5 DEF MovingFrom, Entered
<1>. QED
  BY <1>2, <1>6

LEMMA ReplacedIs ==
  ASSUME NEW v, v \in Volume, Tree(v), List(v), open \in [Ino -> Nat],
         NEW d, d \in Ino, NEW n, n \in Name,
         NEW d2, d2 \in Ino, NEW n2, n2 \in Name, NEW i, i \in Ino,
         v.entry[d][n] = i, i # None, <<d, n>> # <<d2, n2>>,
         NEW j, j = v.entry[d2][n2], j # None, i # j, v.inode[i].type = v.inode[j].type,
         IsDir(v, j) => v.inode[j].dirents = 2,
         IsDir(v, i) => ~IsBelow(v, d2, i)
  PROVE  \E u : MovingFrom(v, u, InodeSync([RemoveInodeLink(v, j) EXCEPT !.entry[d2][n2] = i], {d2}),
                           d, n, d2, n2, i)
<1>1. NameIs(v, d2, j)
  BY NamedIs
<1>2. PICK l : l = LinksLeft(v, j)
  OBVIOUS
<1>3. /\ j \in Ino /\ d2 # j /\ open[j] \in Nat /\ l \in Nat
      /\ v.inode[d2].dirents > 0 /\ v.inode[d2].links > 1
      /\ v.inode[d2].dirents \in Nat /\ v.inode[d2].links \in Nat
  BY <1>1, <1>2, CountsAreNumbers DEF NameIs
<1>4. PICK b : b = RemoveInodeLink(v, j)
  OBVIOUS
<1>5. Dropped(v, b, j, l)
  <2>1. LinksLeft(v, j) \in Nat /\ Last(v, j) = None /\ NextOf(v, j) = None /\ v.tail # j
    BY <1>1 DEF NameIs
  <2>. QED
    BY <1>2, <1>3, <1>4, <2>1, RemoveInodeLinkIs
<1>6. b \in Volume /\ b.inode[d2] \in Inode /\ SameCounts(v, b, d2)
      /\ b.entry[d2] = v.entry[d2]
  BY <1>3, <1>5 DEF Dropped, Volume
<1>. DEFINE less == IF IsDir(v, j) THEN v.inode[d2].links - 1 ELSE v.inode[d2].links
            fewer == v.inode[d2].dirents - 1
            r == [b.inode[d2] EXCEPT !.dirents = fewer, !.links = less]
<1>7. less \in Nat /\ fewer \in Nat /\ less > 0
  BY <1>3
<1>8. /\ less = (IF IsDir(v, j) THEN v.inode[d2].links - 1 ELSE v.inode[d2].links)
      /\ fewer = v.inode[d2].dirents - 1
  OBVIOUS
<1>. HIDE DEF less, fewer
<1>9. Recounted(b.inode[d2], r, fewer, less)
  BY <1>6, <1>7, RecountedIs
<1>. HIDE DEF r
<1>10. PICK t : t = [b EXCEPT !.entry[d2][n2] = None, !.inode[d2] = r]
  OBVIOUS
<1>11. DirChanged(b, t, d2, n2, None, r)
  BY <1>6, <1>9, <1>10, DirChangedIs DEF Recounted
<1>12. PICK u : u = InodeSync(t, {d2})
  OBVIOUS
<1>13. OnlySyncs(t, {d2}, u)
  BY <1>11, <1>12, InodeSyncIs DEF DirChanged
<1>14. /\ u \in Volume /\ u.sync = b.sync \union {d2} /\ u.parent = b.parent
       /\ u.head = b.head /\ u.tail = b.tail
       /\ u.inode[d2] = r /\ \A x \in Ino \ {d2} : u.inode[x] = b.inode[x]
       /\ \A x \in Ino, m \in Name :
            u.entry[x][m] = IF x = d2 /\ m = n2 THEN None ELSE b.entry[x][m]
  BY <1>11, <1>13 DEF OnlySyncs, DirChanged
<1>15. /\ r.type = v.inode[d2].type /\ r.links = less /\ r.dirents = fewer
       /\ r.last = b.inode[d2].last /\ r.next = b.inode[d2].next
  BY <1>6, <1>9 DEF Recounted, SameCounts
<1>16. \A x \in Ino : SameLinks(b, u, x)
  BY <1>14, <1>15 DEF SameLinks, Last, NextOf
<1>17. ChildUnlinked(v, u, d2, n2, j, l)
  <2>1. u.entry[j] = b.entry[j]
    <3>1. \A m \in Name : u.entry[j][m] = b.entry[j][m]
      BY <1>3, <1>14
    <3>2. u.entry[j] \in [Name -> Ino \union {None}] /\ b.entry[j] \in [Name -> Ino \union {None}]
      BY <1>3, <1>6, <1>14 DEF Volume
    <3>. QED
      BY <3>1, <3>2
  <2>2. u.inode[j] = b.inode[j]
    BY <1>3, <1>14
  <2>3. Synced(v, u) /\ j \in u.sync
    BY <1>5, <1>14 DEF Synced, Dropped
  <2>4. \A x \in Ino \ {j, d2} : SameCounts(v, u, x)
    BY <1>5, <1>14 DEF Dropped, SameCounts
  <2>5. /\ u.inode[d2].type = v.inode[d2].type
        /\ u.inode[d2].dirents = v.inode[d2].dirents - 1
        /\ u.inode[d2].links = (IF IsDir(v, j) THEN v.inode[d2].links - 1 ELSE v.inode[d2].links)
    BY <1>8, <1>14, <1>15
  <2>6. /\ \A x \in Ino \ {j}, m \in Name :
             u.entry[x][m] = IF x = d2 /\ m = n2 THEN None ELSE v.entry[x][m]
        /\ \A x \in Ino \ {j} : u.parent[x] = v.parent[x]
    BY <1>5, <1>14 DEF Dropped
  <2>7. l > 0 => /\ u.inode[j].type = v.inode[j].type /\ u.inode[j].links = l
                 /\ u.inode[j].dirents = v.inode[j].dirents
                 /\ u.entry[j] = v.entry[j] /\ u.parent[j] = v.parent[j]
    BY <1>5, <1>14, <2>1, <2>2 DEF Dropped
  <2>8. l = 0 => /\ j \notin Linked(u)
                 /\ u.entry[j] \in {v.entry[j], NoNames} /\ u.parent[j] \in {v.parent[j], None}
    BY <1>5, <1>14, <2>1, <2>2 DEF Dropped, Linked, Allocated, IsUnlinked
  <2>9. l = 0 /\ open[j] = 0 => j \notin Allocated(u)
    BY <1>5, <2>2 DEF Dropped, Allocated
  <2>10. IF l = 0 /\ open[j] > 0
         THEN PutLast(v, u, j) /\ u.inode[j].type = v.inode[j].type /\ u.inode[j].links = 0
         ELSE SameEnds(v, u)
    <3>1. CASE l = 0 /\ open[j] > 0
      BY <1>5, <1>14, <1>16, <2>2, <3>1 DEF Dropped, PutLast, SameLinks
    <3>2. CASE ~(l = 0 /\ open[j] > 0)
      BY <1>5, <1>14, <1>16, <3>2 DEF Dropped, SameEnds, SameLinks
    <3>. QED
      BY <3>1, <3>2
  <2>11. u \in Volume
    BY <1>14
  <2>. QED
    BY <2>3, <2>4, <2>5, <2>6, <2>7, <2>8, <2>9, <2>10, <2>11 DEF ChildUnlinked
<1>18. Sound(v, u) /\ KeepsOpen(v, u) /\ OneMore(u, v, d2, n2, j)
  BY <1>2, <1>17, ChildUnlinkedIs
<1>19. PICK s : s = [b EXCEPT !.entry[d2][n2] = i]
  OBVIOUS
<1>20. DirChanged(b, s, d2, n2, i, b.inode[d2])
  BY <1>6, <1>19, NameSetIs
<1>21. PICK a : a = InodeSync(s, {d2})
  OBVIOUS
<1>22. OnlySyncs(s, {d2}, a)
  BY <1>20, <1>21, InodeSyncIs DEF DirChanged
<1>23. /\ a \in Volume /\ a.sync = b.sync \union {d2} /\ a.parent = b.parent
       /\ a.head = b.head /\ a.tail = b.tail
       /\ \A x \in Ino : a.inode[x] = b.inode[x]
       /\ \A x \in Ino, m \in Name :
            a.entry[x][m] = IF x = d2 /\ m = n2 THEN i ELSE b.entry[x][m]
  BY <1>20, <1>22 DEF OnlySyncs, DirChanged
<1>24. Synced(v, a)
  BY <1>5, <1>23 DEF Dropped, Synced
<1>25. SameEnds(u, a)
  BY <1>14, <1>16, <1>23 DEF SameEnds, SameLinks, Last, NextOf
<1>26. IsDir(u, i) <=> IsDir(v, i)
  <2>1. u.inode[i].type = v.inode[i].type
    <3>1. CASE i = d2
      BY <1>14, <1>15, <3>1
    <3>2. CASE i # d2
      BY <1>5, <1>14, <3>2 DEF Dropped, SameCounts
    <3>. QED
      BY <3>1, <3>2
  <2>. QED
    BY <2>1 DEF IsDir
<1>27. /\ \A x \in Ino \ {d2} : a.inode[x] = u.inode[x]
       /\ a.inode[d2].type = u.inode[d2].type
       /\ a.inode[d2].dirents = u.inode[d2].dirents + 1
       /\ a.inode[d2].links = (IF IsDir(u, i) THEN u.inode[d2].links + 1 ELSE u.inode[d2].links)
  <2>1. a.inode[d2] = b.inode[d2] /\ u.inode[d2] = r
    BY <1>14, <1>23
  <2>2. /\ b.inode[d2].type = v.inode[d2].type /\ b.inode[d2].dirents = v.inode[d2].dirents
        /\ b.inode[d2].links = v.inode[d2].links
    BY <1>6 DEF SameCounts
  <2>3. IsDir(u, i) <=> IsDir(v, j)
    BY <1>26 DEF IsDir
  <2>4. v.inode[d2].dirents = fewer + 1
    BY <1>3, <1>8
  <2>5. v.inode[d2].links = IF IsDir(v, j) THEN less + 1 ELSE less
    BY <1>3, <1>8
  <2>. QED
    BY <1>14, <1>15, <1>23, <2>1, <2>2, <2>3, <2>4, <2>5
<1>28. \A x \in Ino, m \in Name :
         a.entry[x][m] = IF x = d2 /\ m = n2 THEN i ELSE u.entry[x][m]
  BY <1>14, <1>23
<1>29. u.entry[d2][n2] = None /\ u.entry[d][n] = i
  BY <1>18 DEF OneMore
<1>30. d2 \in LinkedDirs(u)
  <2>1. d2 \in LinkedDirs(v)
    BY <1>1 DEF NameIs
  <2>. QED
    BY <1>7, <1>14, <1>15, <2>1 DEF LinkedDirs, Linked, Allocated, IsUnlinked, IsDir
<1>31. IsDir(u, i) => ~IsBelow(u, d2, i)
  <2>1. \A x \in Ino : u.parent[x] \in {v.parent[x], None}
    BY <1>3, <1>5, <1>14 DEF Dropped
  <2>. QED
    BY <1>14, <1>26, <2>1, BelowStays
<1>32. MovingFrom(v, u, a, d, n, d2, n2, i)
  BY <1>14, <1>18, <1>23, <1>24, <1>25, <1>27, <1>28, <1>29, <1>30, <1>31 DEF MovingFrom, Sound
<1>. QED
  BY <1>4, <1>19, <1>21, <1>32

LEMMA RenamedIs ==
  ASSUME vol \in Volume, Tree(vol), List(vol), open \in [Ino -> Nat],
         NEW d, d \in Ino, NEW n, n \in Name, NEW d2, d2 \in Ino, NEW n2, n2 \in Name,
         NEW i, i = vol.entry[d][n], i # None, d2 \in LinkedDirs(vol), NotBelowItself(i, d2),
         <<d, n>> # <<d2, n2>>,
         vol.entry[d2][n2] # None => MayReplace(i, vol.entry[d2][n2]),
         NEW w, w = UnlinkChild(AddLink(MovedUnder(Named(i, d2, n2), i, d2), i), d, n)
  PROVE  Sound(vol, w) /\ KeepsOpen(vol, w)
<1>1. i \in Ino
  BY NamedIs DEF NameIs
<1>2. IsDir(vol, i) => ~IsBelow(vol, d2, i)
  BY DEF NotBelowItself
<1>3. \E u : MovingFrom(vol, u, Named(i, d2, n2), d, n, d2, n2, i)
  <2>1. CASE vol.entry[d2][n2] = None
    <3>1. MovingFrom(vol, vol, AppendDirent(vol, d2, n2, i), d, n, d2, n2, i)
      BY <1>1, <1>2, <2>1, NewNameIs
    <3>2. Named(i, d2, n2) = AppendDirent(vol, d2, n2, i)
      BY <2>1 DEF Named
    <3>. QED
      BY <3>1, <3>2
  <2>2. CASE vol.entry[d2][n2] # None
    <3>. PICK j : j = vol.entry[d2][n2]
      OBVIOUS
    <3>1. i # j /\ vol.inode[i].type = vol.inode[j].type /\ (IsDir(vol, j) => vol.inode[j].dirents = 2)
      BY <2>2 DEF MayReplace, CanUnlink
    <3>2. \E u : MovingFrom(vol, u, InodeSync([RemoveInodeLink(vol, j) EXCEPT !.entry[d2][n2] = i], {d2}),
                            d, n, d2, n2, i)
      BY <1>1, <1>2, <2>2, <3>1, ReplacedIs
    <3>3. Named(i, d2, n2) = InodeSync([RemoveInodeLink(vol, j) EXCEPT !.entry[d2][n2] = i], {d2})
      BY <2>2 DEF Named
    <3>. QED
      BY <3>2, <3>3
  <2>. QED
    BY <2>1, <2>2
<1>4. PICK u : MovingFrom(vol, u, Named(i, d2, n2), d, n, d2, n2, i)
  BY <1>3
<1>. QED
  BY <1>1, <1>4, MovedIs

(***************************************************************************)
(* A sound volume is committed: nothing that is not synced has changed, so   *)
(* the entry, applied to what memory was, makes what memory is.             *)
(***************************************************************************)
Committed(v) == [v EXCEPT !.sync = {}]

LEMMA CommitIs ==
  ASSUME NEW v, Good(v), NEW w, Sound(v, w)
  PROVE  /\ Good(Committed(w)) /\ Apply(Entry(w), v) = Committed(w)
         /\ Unlinked(Committed(w)) = Unlinked(w) /\ Allocated(Committed(w)) = Allocated(w)
         /\ Committed(w).head = w.head
<1>1. w \in Volume /\ v \in Volume
  BY DEF Sound, Good, VolumeType
<1>2. PICK c : c = Committed(w)
  OBVIOUS
<1>3. /\ c \in Volume /\ c.sync = {} /\ c.inode = w.inode /\ c.entry = w.entry
      /\ c.parent = w.parent /\ c.head = w.head /\ c.tail = w.tail
  BY <1>1, <1>2 DEF Committed, Volume
<1>4. Unlinked(c) = Unlinked(w) /\ Allocated(c) = Allocated(w)
  BY <1>3 DEF Unlinked, Allocated, IsUnlinked
<1>5. Tree(c)
  <2>1. SameTree(w, c)
    BY <1>3 DEF SameTree, SameCounts, Linked, Allocated, IsUnlinked
  <2>. QED
    BY <2>1, SameTreeIs DEF Sound
<1>6. List(c)
  <2>1. SameChain(w, c)
    BY <1>3, <1>4 DEF SameChain, Last, NextOf
  <2>. QED
    BY <2>1, SameList DEF Sound
<1>7. Good(c)
  BY <1>3, <1>5, <1>6 DEF Good, VolumeType
<1>8. Apply(Entry(w), v) = c
  <2>1. PICK f : f = [i \in Ino |-> IF i \in w.sync THEN w.inode[i] ELSE v.inode[i]]
    OBVIOUS
  <2>2. f = w.inode
    <3>1. w.inode \in [Ino -> Inode]
      BY <1>1 DEF Volume
    <3>2. \A i \in Ino \ w.sync : w.inode[i] = v.inode[i]
      BY DEF Sound, Synced
    <3>3. \A i \in Ino : f[i] = w.inode[i]
      BY <2>1, <3>2
    <3>. QED
      BY <2>1, <3>1, <3>3
  <2>3. PICK g : g = [i \in w.sync |-> w.inode[i]]
    OBVIOUS
  <2>4. DOMAIN g = w.sync /\ \A i \in w.sync : g[i] = w.inode[i]
    BY <2>3
  <2>5. Entry(w) = [inode |-> g, entry |-> w.entry, parent |-> w.parent, head |-> w.head, tail |-> w.tail]
    BY <2>3 DEF Entry
  <2>6. PICK h : h = [i \in Ino |-> IF i \in DOMAIN g THEN g[i] ELSE v.inode[i]]
    OBVIOUS
  <2>7. h = f
    BY <2>1, <2>4, <2>6
  <2>8. Apply(Entry(w), v) = [inode |-> h, entry |-> w.entry, parent |-> w.parent,
                              head |-> w.head, tail |-> w.tail, sync |-> {}]
    BY <2>5, <2>6 DEF Apply
  <2>9. c = [inode |-> w.inode, entry |-> w.entry, parent |-> w.parent,
             head |-> w.head, tail |-> w.tail, sync |-> {}]
    BY <1>3 DEF Volume
  <2>. QED
    BY <2>2, <2>7, <2>8, <2>9
<1>. QED
  BY <1>2, <1>3, <1>4, <1>7, <1>8

(***************************************************************************)
(* The invariant holds initially.                                          *)
(***************************************************************************)
LEMMA EmptyIs ==
  /\ Empty \in Volume /\ Empty.sync = {} /\ Empty.head = None /\ Empty.tail = None
  /\ \A i \in Ino : Empty.inode[i] = IF i = Root THEN NewDir ELSE Free
  /\ \A d \in Ino, n \in Name : Empty.entry[d][n] = None
<1>1. NoNames \in [Name -> Ino \union {None}] /\ \A n \in Name : NoNames[n] = None
  BY DEF NoNames
<1>2. PICK f \in [Ino -> Inode] : f = [i \in Ino |-> IF i = Root THEN NewDir ELSE Free]
  BY FreeIs
<1>3. PICK g \in [Ino -> [Name -> Ino \union {None}]] : g = [i \in Ino |-> NoNames]
  BY <1>1
<1>4. PICK h \in [Ino -> Ino \union {None}] : h = [i \in Ino |-> IF i = Root THEN Root ELSE None]
  OBVIOUS
<1>5. Empty = [inode |-> f, entry |-> g, parent |-> h, head |-> None, tail |-> None, sync |-> {}]
  BY <1>2, <1>3, <1>4 DEF Empty
<1>6. /\ Empty \in Volume /\ Empty.sync = {} /\ Empty.head = None /\ Empty.tail = None
      /\ Empty.inode = f /\ Empty.entry = g
  BY <1>5 DEF Volume
<1>. QED
  BY <1>1, <1>2, <1>3, <1>6

LEMMA EmptyIsGood == Good(Empty)
<1>1. Linked(Empty) = {Root} /\ LinkedDirs(Empty) = {Root} /\ Unlinked(Empty) = {}
  <2>1. /\ Allocated(Empty) = {Root} /\ Empty.inode[Root] = NewDir
    BY EmptyIs, FreeIs, InodesIs DEF Allocated
  <2>. QED
    BY <2>1, FreeIs DEF Linked, LinkedDirs, Unlinked, IsUnlinked, IsDir
<1>2. Children(Empty, Root) = {} /\ Subdirectories(Empty, Root) = {}
  BY EmptyIs, InodesIs DEF Children, Subdirectories
<1>3. Cardinality(Children(Empty, Root)) = 0 /\ Cardinality(Subdirectories(Empty, Root)) = 0
  BY <1>2, FS_EmptySet
<1>4. Empty.inode[Root] = NewDir
  BY EmptyIs, InodesIs
<1>5. NamesAreLinked(Empty) /\ OnePlace(Empty)
  BY <1>1, EmptyIs DEF NamesAreLinked, OnePlace
<1>6. Counted(Empty)
  BY <1>1, <1>3, <1>4, FreeIs DEF Counted, IsDir
<1>7. PICK zero \in [Ino -> Nat] : zero = [i \in Ino |-> 0]
  OBVIOUS
<1>8. Deepens(Empty, zero) /\ Ranks(Empty, zero)
  BY <1>1 DEF Deepens, Ranks
<1>9. Tree(Empty)
  BY <1>1, <1>5, <1>6, <1>7, <1>8 DEF Tree
<1>10. Ends(Empty) /\ Chained(Empty)
  BY <1>1, EmptyIs DEF Ends, Chained
<1>11. Unchained(Empty)
  BY <1>1, EmptyIs, FreeIs DEF Unchained, Last, NextOf
<1>12. List(Empty)
  BY <1>7, <1>8, <1>10, <1>11 DEF List
<1>. QED
  BY <1>9, <1>12, EmptyIs DEF Good, VolumeType

LEMMA InitInv == Init => Inv
<1>. SUFFICES ASSUME Init PROVE Inv
  OBVIOUS
<1>1. vol = Empty /\ disk = Empty /\ entries = <<>> /\ Len(entries) = 0
  BY DEF Init
<1>2. PICK h : h = [k \in 0..0 |-> Empty]
  OBVIOUS
<1>3. History(h)
  BY <1>1, <1>2, EmptyIsGood DEF History
<1>4. Counters
  <2>1. open \in [Ino -> 0..MaxOpen] /\ mounting \in BOOLEAN /\ crashes \in 0..MaxCrashes
    <3>1. 0 \in 0..MaxOpen /\ 0 \in 0..MaxCrashes
      BY NamespaceAssumption
    <3>2. open = [i \in Ino |-> 0] /\ mounting = FALSE /\ crashes = 0
      BY DEF Init
    <3>. QED
      BY <3>1, <3>2
  <2>2. entries \in Seq({Entry(v) : v \in Volume})
    <3>1. PICK S : S = {Entry(v) : v \in Volume}
      OBVIOUS
    <3>2. entries \in Seq(S)
      BY <1>1
    <3>. QED
      BY <3>1, <3>2
  <2>3. Len(entries) <= MaxEntries
    BY <1>1, NamespaceAssumption
  <2>. QED
    BY <2>1, <2>2, <2>3 DEF Counters
<1>5. OpenInv
  <2>1. Unlinked(vol) = {}
    BY <1>1, EmptyIs, FreeIs DEF Unlinked, Allocated, IsUnlinked
  <2>. QED
    BY <2>1 DEF OpenInv, Init
<1>. QED
  BY <1>3, <1>4, <1>5 DEF Inv

(***************************************************************************)
(* What a step does to the history: a commit adds to its end, the journal    *)
(* takes from its beginning, a crash leaves the beginning only.             *)
(***************************************************************************)
LEMMA HistoryHolds ==
  ASSUME NEW h, History(h), Counters
  PROVE  /\ Good(vol) /\ Good(disk) /\ vol \in Volume /\ disk \in Volume
         /\ Tree(vol) /\ List(vol) /\ Tree(disk) /\ List(disk)
         /\ Len(entries) \in Nat
<1>1. Len(entries) \in Nat
  BY DEF Counters
<1>2. 0 \in 0..Len(entries) /\ Len(entries) \in 0..Len(entries)
  BY <1>1
<1>. QED
  BY <1>1, <1>2 DEF History, Good, VolumeType

HasHistory == \E h : History(h)

LEMMA CommitHistory ==
  ASSUME Counters, NEW h, History(h), NEW w, Sound(vol, w), Len(entries) < MaxEntries,
         vol' = Committed(w), entries' = Append(entries, Entry(w)), disk' = disk
  PROVE  /\ HasHistory'
         /\ entries' \in Seq({Entry(v) : v \in Volume}) /\ Len(entries') <= MaxEntries
         /\ Unlinked(vol') = Unlinked(w) /\ Allocated(vol') = Allocated(w) /\ vol'.head = w.head
<1>. DEFINE N == Len(entries)
<1>1. N \in Nat /\ Good(vol)
  BY HistoryHolds
<1>2. /\ Good(vol') /\ Apply(Entry(w), vol) = vol'
      /\ Unlinked(vol') = Unlinked(w) /\ Allocated(vol') = Allocated(w) /\ vol'.head = w.head
  BY <1>1, CommitIs
<1>3. w \in Volume /\ Entry(w) \in {Entry(v) : v \in Volume}
  BY DEF Sound
<1>4. entries \in Seq({Entry(v) : v \in Volume})
  BY DEF Counters
<1>5. PICK S : S = {Entry(v) : v \in Volume}
  OBVIOUS
<1>6. PICK e : e = Entry(w)
  OBVIOUS
<1>7. e \in S /\ entries \in Seq(S) /\ entries' = Append(entries, e)
  BY <1>3, <1>4, <1>5, <1>6
<1>8. /\ entries' \in Seq(S) /\ Len(entries') = N + 1 /\ entries'[N + 1] = e
      /\ \A k \in 1..N : entries'[k] = entries[k]
  BY <1>7
<1>9. PICK g : g = [k \in 0..(N + 1) |-> IF k <= N THEN h[k] ELSE vol']
  OBVIOUS
<1>10. /\ h[0] = disk /\ h[N] = vol /\ \A k \in 1..N : h[k] = Apply(entries[k], h[k - 1])
       /\ \A k \in 0..N : Good(h[k])
  BY DEF History
<1>. HIDE DEF N
<1>11. g[0] = disk' /\ g[N + 1] = vol'
  BY <1>1, <1>9, <1>10
<1>12. ASSUME NEW k \in 1..(N + 1)
       PROVE  g[k] = Apply(entries'[k], g[k - 1])
  <2>1. CASE k = N + 1
    <3>1. g[k] = vol' /\ g[k - 1] = vol
      BY <1>1, <1>9, <1>10, <2>1
    <3>. QED
      BY <1>2, <1>6, <1>8, <2>1, <3>1
  <2>2. CASE k <= N
    <3>1. k \in 1..N /\ g[k] = h[k] /\ g[k - 1] = h[k - 1]
      BY <1>1, <1>9, <2>2
    <3>. QED
      BY <1>8, <1>10, <3>1
  <2>3. k = N + 1 \/ k <= N
    BY <1>1
  <2>. QED
    BY <2>1, <2>2, <2>3
<1>13. ASSUME NEW k \in 0..(N + 1)
       PROVE  Good(g[k])
  <2>1. CASE k = N + 1
    BY <1>2, <1>11, <2>1
  <2>2. CASE k <= N
    BY <1>1, <1>9, <1>10, <2>2
  <2>. QED
    BY <1>1, <2>1, <2>2
<1>14. History(g)'
  BY <1>8, <1>11, <1>12, <1>13 DEF History
<1>15. N + 1 <= MaxEntries
  BY <1>1, NamespaceAssumption DEF N
<1>. QED
  BY <1>2, <1>5, <1>8, <1>14, <1>15 DEF HasHistory

LEMMA WrittenHistory ==
  ASSUME Counters, NEW h, History(h), EntryWritten
  PROVE  /\ HasHistory'
         /\ entries' \in Seq({Entry(v) : v \in Volume}) /\ Len(entries') <= MaxEntries
<1>. DEFINE N == Len(entries)
<1>1. N \in Nat
  BY HistoryHolds
<1>2. PICK S : S = {Entry(v) : v \in Volume}
  OBVIOUS
<1>3. entries \in Seq(S) /\ entries # <<>> /\ entries' = Tail(entries) /\ vol' = vol
      /\ disk' = Apply(Head(entries), disk)
  BY <1>2 DEF Counters, EntryWritten
<1>4. /\ N > 0 /\ entries' \in Seq(S) /\ Len(entries') = N - 1 /\ Head(entries) = entries[1]
      /\ \A k \in 1..(N - 1) : entries'[k] = entries[k + 1]
  BY <1>3
<1>5. /\ h[0] = disk /\ h[N] = vol /\ \A k \in 1..N : h[k] = Apply(entries[k], h[k - 1])
      /\ \A k \in 0..N : Good(h[k])
  BY DEF History
<1>6. PICK g : g = [k \in 0..(N - 1) |-> h[k + 1]]
  OBVIOUS
<1>7. N <= MaxEntries
  BY DEF Counters
<1>. HIDE DEF N
<1>8. g[0] = disk' /\ g[N - 1] = vol'
  <2>1. h[1] = Apply(entries[1], h[0])
    BY <1>1, <1>4, <1>5
  <2>. QED
    BY <1>1, <1>3, <1>4, <1>5, <1>6, <2>1
<1>9. ASSUME NEW k \in 1..(N - 1)
      PROVE  g[k] = Apply(entries'[k], g[k - 1])
  <2>1. g[k] = h[k + 1] /\ g[k - 1] = h[k] /\ k + 1 \in 1..N
    BY <1>1, <1>6
  <2>2. h[k + 1] = Apply(entries[k + 1], h[k])
    BY <1>1, <1>5, <2>1
  <2>. QED
    BY <1>4, <2>1, <2>2
<1>10. \A k \in 0..(N - 1) : Good(g[k])
  BY <1>1, <1>5, <1>6
<1>11. History(g)'
  BY <1>4, <1>8, <1>9, <1>10 DEF History
<1>12. Len(entries') <= MaxEntries
  BY <1>1, <1>4, <1>7, NamespaceAssumption
<1>. QED
  BY <1>2, <1>4, <1>11, <1>12 DEF HasHistory

LEMMA CrashHistory ==
  ASSUME Counters, NEW h, History(h), Crash
  PROVE  /\ HasHistory'
         /\ entries' \in Seq({Entry(v) : v \in Volume}) /\ Len(entries') <= MaxEntries
<1>1. PICK S : S = {Entry(v) : v \in Volume}
  OBVIOUS
<1>2. entries' = <<>> /\ vol' = disk /\ disk' = disk /\ Good(disk)
  BY HistoryHolds DEF Crash
<1>3. entries' \in Seq(S) /\ Len(entries') = 0
  BY <1>2
<1>4. PICK g : g = [k \in 0..0 |-> disk]
  OBVIOUS
<1>5. History(g)'
  BY <1>2, <1>3, <1>4 DEF History
<1>6. Len(entries') <= MaxEntries
  BY <1>3, NamespaceAssumption
<1>. QED
  BY <1>1, <1>3, <1>5, <1>6 DEF HasHistory

(***************************************************************************)
(* Every step keeps the invariant.                                         *)
(***************************************************************************)
\* The list is empty exactly when it has no head.
LEMMA EmptyList ==
  ASSUME NEW v, List(v), v.head = None
  PROVE  Unlinked(v) = {}
<1>1. PICK rank \in [Ino -> Nat] : Ranks(v, rank)
  BY DEF List
<1>2. Unlinked(v) # {} => v.head \in Unlinked(v)
  BY <1>1, HeadExists DEF List
<1>. QED
  BY <1>2, UnlinkedAreInodes

\* An operation that leaves open as it is.
LEMMA OperationInv ==
  ASSUME Inv, ~mounting, NEW w, Commit(w), UNCHANGED open, Sound(vol, w), KeepsOpen(vol, w)
  PROVE  Inv'
<1>1. PICK h : History(h)
  BY DEF Inv
<1>2. /\ HasHistory' /\ entries' \in Seq({Entry(v) : v \in Volume}) /\ Len(entries') <= MaxEntries
      /\ Unlinked(vol') = Unlinked(w) /\ Allocated(vol') = Allocated(w)
  BY <1>1, CommitHistory DEF Inv, Commit, Committed
<1>3. Counters'
  BY <1>2 DEF Inv, Counters, Commit
<1>4. OpenInv'
  BY <1>2, UnlinkedAreInodes DEF Inv, OpenInv, Commit, KeepsOpen
<1>. QED
  BY <1>2, <1>3, <1>4 DEF Inv, HasHistory

LEMMA OpenIsNat ==
  ASSUME Counters
  PROVE  open \in [Ino -> Nat] /\ open \in [Ino -> 0..MaxOpen] /\ MaxOpen \in Nat \ {0}
BY NamespaceAssumption DEF Counters

LEMMA InvHolds ==
  ASSUME Inv
  PROVE  /\ Counters /\ OpenInv /\ vol \in Volume /\ Tree(vol) /\ List(vol) /\ Good(vol)
         /\ Good(disk) /\ List(disk) /\ \E h : History(h)
BY HistoryHolds DEF Inv

LEMMA LinkedDirIs ==
  ASSUME NEW v, NEW d, d \in Ino, IsDir(v, d), ~IsUnlinked(v, d)
  PROVE  d \in LinkedDirs(v)
BY DEF LinkedDirs, Linked, Allocated, IsDir

LEMMA UnlinkInv ==
  ASSUME Inv, NEW d \in Ino, NEW n \in Name, Unlink(d, n)
  PROVE  Inv'
<1>1. PICK i : i = vol.entry[d][n]
  OBVIOUS
<1>2. ~mounting /\ i # None /\ Commit(UnlinkChild(vol, d, n)) /\ UNCHANGED open
  BY <1>1 DEF Unlink, Ready
<1>3. IsDir(vol, i) => vol.inode[i].dirents = 2
  BY <1>1 DEF Unlink, CanUnlink
<1>4. Sound(vol, UnlinkChild(vol, d, n)) /\ KeepsOpen(vol, UnlinkChild(vol, d, n))
  BY <1>1, <1>2, <1>3, InvHolds, OpenIsNat, UnlinkIs
<1>. QED
  BY <1>2, <1>4, OperationInv

LEMMA LinkInv ==
  ASSUME Inv, NEW d \in Ino, NEW n \in Name, NEW i \in Ino, Link(d, n, i)
  PROVE  Inv'
<1>1. PICK u : u = AppendDirent(vol, d, n, i)
  OBVIOUS
<1>2. PICK w : w = InodeSync([u EXCEPT !.inode[i].links = @ + 1], {i})
  OBVIOUS
<1>3. ~mounting /\ Commit(w) /\ UNCHANGED open
  BY <1>1, <1>2 DEF Link, Ready
<1>4. d \in LinkedDirs(vol)
  BY LinkedDirIs DEF Link, Ready
<1>5. i \in Linked(vol) /\ vol.inode[i].type = "file" /\ vol.entry[d][n] = None
  BY DEF Link, Linked, Allocated
<1>6. Sound(vol, w) /\ KeepsOpen(vol, w)
  BY <1>1, <1>2, <1>4, <1>5, InvHolds, LinkIs
<1>. QED
  BY <1>3, <1>6, OperationInv

LEMMA RenameInv ==
  ASSUME Inv, NEW d \in Ino, NEW n \in Name, NEW d2 \in Ino, NEW n2 \in Name, Rename(d, n, d2, n2)
  PROVE  Inv'
<1>1. PICK i : i = vol.entry[d][n]
  OBVIOUS
<1>2. PICK w : w = UnlinkChild(AddLink(MovedUnder(Named(i, d2, n2), i, d2), i), d, n)
  OBVIOUS
<1>3. ~mounting /\ Commit(w) /\ UNCHANGED open
  BY <1>1, <1>2 DEF Rename, Ready
<1>4. d2 \in LinkedDirs(vol)
  BY LinkedDirIs DEF Rename, Ready
<1>5. /\ i # None /\ NotBelowItself(i, d2) /\ <<d, n>> # <<d2, n2>>
      /\ vol.entry[d2][n2] # None => MayReplace(i, vol.entry[d2][n2])
  BY <1>1 DEF Rename
<1>6. Sound(vol, w) /\ KeepsOpen(vol, w)
  BY <1>1, <1>2, <1>4, <1>5, InvHolds, OpenIsNat, RenamedIs
<1>. QED
  BY <1>3, <1>6, OperationInv

LEMMA CreateInv ==
  ASSUME Inv, NEW d \in Ino, NEW n \in Name, NEW new \in {NewFile, NewDir}, Create(d, n, new)
  PROVE  Inv'
<1>1. PICK k : k = NewIno
  OBVIOUS
<1>2. k \in FreeIno
  <2>1. FreeIno \in SUBSET Nat /\ FreeIno # {}
    BY DEF Create, FreeIno, Ino
  <2>2. \E i \in FreeIno : \A j \in FreeIno : i <= j
    BY <2>1, LeastOf
  <2>. QED
    BY <1>1, <2>2 DEF NewIno
<1>3. PICK u : u = [vol EXCEPT !.inode[k] = new, !.parent[k] = IF new = NewDir THEN d ELSE None]
  OBVIOUS
<1>4. PICK w : w = AppendDirent(InodeSync(u, {k}), d, n, k)
  OBVIOUS
<1>5. ~mounting /\ Commit(w) /\ open' = [open EXCEPT ![k] = 1]
  BY <1>1, <1>3, <1>4 DEF Create, Ready
<1>6. d \in LinkedDirs(vol) /\ vol.entry[d][n] = None
  BY LinkedDirIs DEF Create, Ready
<1>7. k \in Ino /\ vol.inode[k].type = "free"
  BY <1>2 DEF FreeIno
<1>8. /\ Sound(vol, w) /\ KeepsOpen(vol, w) /\ Unlinked(w) = Unlinked(vol)
      /\ Allocated(vol) \subseteq Allocated(w) /\ k \in Allocated(w)
  <2>1. vol \in Volume /\ Tree(vol) /\ List(vol)
    BY InvHolds
  <2>2. Adds(vol, w, k)
    BY <1>3, <1>4, <1>6, <1>7, <2>1, CreateIs
  <2>. QED
    BY <2>2 DEF Adds
<1>9. PICK h : History(h)
  BY DEF Inv
<1>10. /\ HasHistory' /\ entries' \in Seq({Entry(v) : v \in Volume}) /\ Len(entries') <= MaxEntries
       /\ Unlinked(vol') = Unlinked(w) /\ Allocated(vol') = Allocated(w)
  BY <1>5, <1>8, <1>9, CommitHistory DEF Inv, Commit, Committed
<1>11. Counters'
  <2>1. open' \in [Ino -> 0..MaxOpen]
    BY <1>5, <1>7, InvHolds, OpenIsNat
  <2>. QED
    BY <1>5, <1>10, <2>1 DEF Inv, Counters, Commit
<1>12. \A i \in Ino : open'[i] = IF i = k THEN 1 ELSE open[i]
  BY <1>5, <1>7, InvHolds, OpenIsNat
<1>13. OpenInv'
  <2>1. mounting' = mounting
    BY <1>5 DEF Commit
  <2>2. /\ \A i \in Ino : open[i] > 0 => i \in Allocated(vol)
        /\ \A i \in Unlinked(vol) : open[i] > 0
    BY <1>5 DEF Inv, OpenInv
  <2>3. \A i \in Ino : open'[i] > 0 => i \in Allocated(vol')
    BY <1>8, <1>10, <1>12, <2>2
  <2>4. \A i \in Unlinked(vol') : open'[i] > 0
    BY <1>8, <1>10, <1>12, <2>2, UnlinkedAreInodes
  <2>. QED
    BY <1>5, <2>1, <2>3, <2>4 DEF OpenInv
<1>. QED
  BY <1>10, <1>11, <1>13 DEF Inv, HasHistory

LEMMA OpenStep ==
  ASSUME Inv, NEW i \in Ino, Open(i)
  PROVE  Inv'
<1>1. Counters'
  <2>1. open' \in [Ino -> 0..MaxOpen]
    BY InvHolds, OpenIsNat DEF Open
  <2>. QED
    BY <2>1 DEF Inv, Counters, Open
<1>2. \A x \in Ino : open'[x] = IF x = i THEN open[i] + 1 ELSE open[x]
  BY InvHolds, OpenIsNat DEF Open
<1>3. OpenInv'
  <2>1. i \in Allocated(vol) /\ ~mounting /\ mounting' = mounting /\ vol' = vol
    BY DEF Open, Allocated
  <2>2. open[i] \in Nat
    BY InvHolds, OpenIsNat
  <2>. QED
    BY <1>2, <2>1, <2>2, UnlinkedAreInodes DEF Inv, OpenInv
<1>4. PICK h : History(h)
  BY DEF Inv
<1>5. History(h)'
  BY <1>4 DEF History, Open
<1>. QED
  BY <1>1, <1>3, <1>5 DEF Inv

LEMMA CloseInv ==
  ASSUME Inv, NEW i \in Ino, Close(i)
  PROVE  Inv'
<1>1. open \in [Ino -> Nat] /\ open \in [Ino -> 0..MaxOpen] /\ MaxOpen \in Nat
  BY InvHolds, OpenIsNat
<1>2. ~mounting /\ open[i] > 0 /\ open' = [open EXCEPT ![i] = @ - 1]
  BY DEF Close
<1>3. \A x \in Ino : open'[x] = IF x = i THEN open[i] - 1 ELSE open[x]
  BY <1>1, <1>2
<1>4. open' \in [Ino -> 0..MaxOpen]
  BY <1>1, <1>2
<1>5. PICK h : History(h)
  BY DEF Inv
<1>6. i \in Allocated(vol)
  BY <1>2 DEF Inv, OpenInv
<1>7. CASE open[i] = 1 /\ IsUnlinked(vol, i)
  <2>1. PICK w : w = InoFree(RemoveUnlinked(vol, i), i)
    OBVIOUS
  <2>2. Commit(w)
    BY <1>7, <2>1 DEF Close
  <2>3. i \in Unlinked(vol)
    BY <1>6, <1>7 DEF Unlinked
  <2>4. Removed(vol, w, i)
    BY <2>1, <2>3, InvHolds, ClosedIs
  <2>5. /\ Sound(vol, w) /\ Unlinked(w) = Unlinked(vol) \ {i}
        /\ \A x \in Ino \ {i} : x \in Allocated(w) <=> x \in Allocated(vol)
    BY <2>4, InvHolds, RemovedSound
  <2>6. /\ HasHistory' /\ entries' \in Seq({Entry(v) : v \in Volume}) /\ Len(entries') <= MaxEntries
        /\ Unlinked(vol') = Unlinked(w) /\ Allocated(vol') = Allocated(w)
    BY <1>5, <2>2, <2>5, CommitHistory DEF Inv, Commit, Committed
  <2>7. Counters'
    BY <1>4, <2>2, <2>6 DEF Inv, Counters, Commit
  <2>8. mounting' = mounting
    BY <2>2 DEF Commit
  <2>9. OpenInv'
    BY <1>1, <1>2, <1>3, <1>7, <2>5, <2>6, <2>8, UnlinkedAreInodes DEF Inv, OpenInv
  <2>. QED
    BY <2>6, <2>7, <2>9 DEF Inv, HasHistory
<1>8. CASE ~(open[i] = 1 /\ IsUnlinked(vol, i))
  <2>1. UNCHANGED <<vol, entries, disk, mounting, crashes>>
    BY <1>8 DEF Close
  <2>2. Counters'
    BY <1>4, <2>1 DEF Inv, Counters
  <2>3. History(h)'
    BY <1>5, <2>1 DEF History
  <2>4. OpenInv'
    <3>1. \A x \in Ino : open'[x] > 0 => x \in Allocated(vol)
      BY <1>3, <1>6 DEF Inv, OpenInv
    <3>2. ASSUME NEW x \in Unlinked(vol) PROVE open'[x] > 0
      <4>1. x \in Ino /\ open[x] > 0 /\ IsUnlinked(vol, x) /\ open[x] \in Nat
        BY <1>1, <1>2, UnlinkedAreInodes DEF Inv, OpenInv, Unlinked
      <4>. QED
        BY <1>1, <1>3, <1>8, <4>1
    <3>. QED
      BY <1>2, <2>1, <3>1, <3>2 DEF OpenInv
  <2>. QED
    BY <2>2, <2>3, <2>4 DEF Inv
<1>. QED
  BY <1>7, <1>8

LEMMA PurgeInv ==
  ASSUME Inv, PurgeUnlinked
  PROVE  Inv'
<1>1. PICK w : w = Purged(vol)
  OBVIOUS
<1>2. /\ mounting /\ Len(entries) < MaxEntries
      /\ vol' = Committed(w) /\ entries' = Append(entries, Entry(w)) /\ mounting' = (w.head # None)
      /\ open' = open /\ disk' = disk /\ crashes' = crashes
  BY <1>1 DEF PurgeUnlinked, Committed
<1>3. vol.head # None /\ \A i \in Ino : open[i] = 0
  BY <1>2 DEF Inv, OpenInv
<1>4. PICK i : i = vol.head
  OBVIOUS
<1>5. i \in Unlinked(vol) /\ i \in Ino /\ Removed(vol, w, i)
  BY <1>1, <1>3, <1>4, InvHolds, PurgedIs, UnlinkedAreInodes
<1>6. Sound(vol, w)
  BY <1>5, InvHolds, RemovedSound
<1>7. PICK h : History(h)
  BY DEF Inv
<1>8. /\ HasHistory' /\ entries' \in Seq({Entry(v) : v \in Volume}) /\ Len(entries') <= MaxEntries
      /\ Unlinked(vol') = Unlinked(w) /\ vol'.head = w.head
  BY <1>2, <1>6, <1>7, CommitHistory DEF Inv
<1>9. Counters'
  BY <1>2, <1>8 DEF Inv, Counters
<1>10. w.head = None => Unlinked(w) = {}
  BY <1>6, EmptyList DEF Sound
<1>11. OpenInv'
  <2>1. \A x \in Ino : open'[x] = 0
    BY <1>2, <1>3
  <2>2. \A x \in Ino : ~(open'[x] > 0)
    BY <2>1
  <2>3. ~mounting' => Unlinked(vol') = {}
    BY <1>2, <1>8, <1>10
  <2>4. mounting' => vol'.head # None
    BY <1>2, <1>8
  <2>. QED
    BY <2>1, <2>2, <2>3, <2>4 DEF OpenInv
<1>. QED
  BY <1>8, <1>9, <1>11 DEF Inv, HasHistory

LEMMA CrashInv ==
  ASSUME Inv, Crash
  PROVE  Inv'
<1>1. PICK h : History(h)
  BY DEF Inv
<1>2. HasHistory' /\ entries' \in Seq({Entry(v) : v \in Volume}) /\ Len(entries') <= MaxEntries
  BY <1>1, CrashHistory DEF Inv
<1>3. /\ vol' = disk /\ open' = [i \in Ino |-> 0] /\ mounting' = (disk.head # None)
      /\ crashes < MaxCrashes /\ crashes' = crashes + 1
  BY DEF Crash
<1>4. Counters'
  <2>1. open' \in [Ino -> 0..MaxOpen]
    <3>1. 0 \in 0..MaxOpen
      BY NamespaceAssumption
    <3>. QED
      BY <1>3, <3>1
  <2>2. crashes' \in 0..MaxCrashes
    BY <1>3, NamespaceAssumption DEF Inv, Counters
  <2>. QED
    BY <1>2, <1>3, <2>1, <2>2 DEF Counters
<1>5. disk.head = None => Unlinked(disk) = {}
  BY InvHolds, EmptyList
<1>6. OpenInv'
  <2>1. \A x \in Ino : open'[x] = 0
    BY <1>3
  <2>2. \A x \in Ino : ~(open'[x] > 0)
    BY <2>1
  <2>3. ~mounting' => Unlinked(vol') = {}
    BY <1>3, <1>5
  <2>4. mounting' => vol'.head # None
    BY <1>3
  <2>. QED
    BY <2>1, <2>2, <2>3, <2>4 DEF OpenInv
<1>. QED
  BY <1>2, <1>4, <1>6 DEF Inv, HasHistory

LEMMA WrittenInv ==
  ASSUME Inv, EntryWritten
  PROVE  Inv'
<1>1. PICK h : History(h)
  BY DEF Inv
<1>2. HasHistory' /\ entries' \in Seq({Entry(v) : v \in Volume}) /\ Len(entries') <= MaxEntries
  BY <1>1, WrittenHistory DEF Inv
<1>3. vol' = vol /\ open' = open /\ mounting' = mounting /\ crashes' = crashes
  BY DEF EntryWritten
<1>4. Counters'
  BY <1>2, <1>3 DEF Inv, Counters
<1>5. OpenInv'
  BY <1>3 DEF Inv, OpenInv
<1>. QED
  BY <1>2, <1>4, <1>5 DEF Inv, HasHistory

LEMMA NextInv == Inv /\ [Next]_vars => Inv'
<1>. SUFFICES ASSUME Inv, [Next]_vars PROVE Inv'
  OBVIOUS
<1>1. ASSUME NEW d \in Ino, NEW n \in Name, NEW new \in {NewFile, NewDir}, Create(d, n, new)
      PROVE  Inv'
  BY <1>1, CreateInv
<1>2. ASSUME NEW d \in Ino, NEW n \in Name, Unlink(d, n)
      PROVE  Inv'
  BY <1>2, UnlinkInv
<1>3. ASSUME NEW d \in Ino, NEW n \in Name, NEW i \in Ino, Link(d, n, i)
      PROVE  Inv'
  BY <1>3, LinkInv
<1>4. ASSUME NEW d \in Ino, NEW n \in Name, NEW d2 \in Ino, NEW n2 \in Name, Rename(d, n, d2, n2)
      PROVE  Inv'
  BY <1>4, RenameInv
<1>5. ASSUME NEW i \in Ino, Open(i) PROVE Inv'
  BY <1>5, OpenStep
<1>6. ASSUME NEW i \in Ino, Close(i) PROVE Inv'
  BY <1>6, CloseInv
<1>7. CASE EntryWritten
  BY <1>7, WrittenInv
<1>8. CASE Crash
  BY <1>8, CrashInv
<1>9. CASE PurgeUnlinked
  BY <1>9, PurgeInv
<1>10. CASE UNCHANGED vars
  <2>1. PICK h : History(h)
    BY DEF Inv
  <2>2. History(h)'
    BY <1>10, <2>1 DEF vars, History
  <2>3. Counters' /\ OpenInv'
    BY <1>10 DEF vars, Inv, Counters, OpenInv
  <2>. QED
    BY <2>2, <2>3 DEF Inv
<1>. QED
  BY <1>1, <1>2, <1>3, <1>4, <1>5, <1>6, <1>7, <1>8, <1>9, <1>10 DEF Next

LEMMA Inductive == Spec => []Inv
<1>1. Init => Inv
  BY InitInv
<1>2. Inv /\ [Next]_vars => Inv'
  BY NextInv
<1>. QED
  BY <1>1, <1>2, PTL DEF Spec

(***************************************************************************)
(* What follows from it.                                                   *)
(***************************************************************************)
LEMMA InvType == Inv => TypeOK
<1>. SUFFICES ASSUME Inv PROVE TypeOK
  OBVIOUS
<1>1. Counters /\ Good(vol) /\ Good(disk)
  BY InvHolds
<1>. QED
  BY <1>1 DEF Counters, Good, TypeOK

\* What Replayed computes is the history.
LEMMA ReplayedIs ==
  ASSUME NEW h, History(h), Counters
  PROVE  \A k \in 0..Len(entries) : Replayed[k] = h[k]
<1>1. PICK N \in Nat : N = Len(entries)
  BY HistoryHolds
<1>2. h[0] = disk /\ \A k \in 1..N : h[k] = Apply(entries[k], h[k - 1])
  BY <1>1 DEF History
<1>. DEFINE Step(f) == [k \in 0..N |-> IF k = 0 THEN disk ELSE Apply(entries[k], f[k - 1])]
<1>3. Replayed = CHOOSE f : f = Step(f)
  BY <1>1 DEF Replayed
<1>4. PICK g : g = [k \in 0..N |-> h[k]]
  OBVIOUS
<1>5. g = Step(g)
  <2>1. \A k \in 0..N : g[k] = IF k = 0 THEN disk ELSE Apply(entries[k], g[k - 1])
    <3>1. ASSUME NEW k \in 0..N
          PROVE  g[k] = IF k = 0 THEN disk ELSE Apply(entries[k], g[k - 1])
      <4>1. CASE k = 0
        BY <1>2, <1>4, <4>1
      <4>2. CASE k # 0
        <5>1. k \in 1..N /\ k - 1 \in 0..N
          BY <4>2
        <5>. QED
          BY <1>2, <1>4, <4>2, <5>1
      <4>. QED
        BY <4>1, <4>2
    <3>. QED
      BY <3>1
  <2>. QED
    BY <1>4, <2>1
<1>6. Replayed = Step(Replayed)
  BY <1>3, <1>5
<1>. PICK f : f = Replayed
  OBVIOUS
<1>7. \A k \in 0..N : f[k] = IF k = 0 THEN disk ELSE Apply(entries[k], f[k - 1])
  <2>1. f = Step(f)
    BY <1>6
  <2>. QED
    BY <2>1, Zenon
<1>. DEFINE Bad == {k \in 0..N : f[k] # h[k]}
<1>8. Bad = {}
  <2>. SUFFICES ASSUME Bad # {} PROVE FALSE
    OBVIOUS
  <2>1. Bad \in SUBSET Nat
    OBVIOUS
  <2>2. PICK k \in Bad : \A j \in Bad : k <= j
    BY <2>1, LeastOf
  <2>3. k # 0
    BY <1>2, <1>7, <2>2
  <2>4. k \in 1..N /\ k - 1 \in 0..N /\ k - 1 \notin Bad
    BY <2>2, <2>3
  <2>5. f[k] = Apply(entries[k], f[k - 1]) /\ h[k] = Apply(entries[k], h[k - 1]) /\ f[k - 1] = h[k - 1]
    BY <1>2, <1>7, <2>3, <2>4
  <2>. QED
    BY <2>2, <2>5
<1>. QED
  BY <1>1, <1>8

(***************************************************************************)
(* The theorems.                                                           *)
(***************************************************************************)
\* In memory, and on disk whenever power may fail, the names form a tree: every
\* linked directory has one name and the root above it, and the links and dirents
\* of every inode are what is counted from the names (directory.cc's Create,
\* Unlink, Link and Rename, vnode.cc's RemoveInodeLink).
THEOREM NamesFormATree == Spec => []TreeSound
<1>1. Inv => TreeSound
  BY InvType, InvHolds, GoodIsSound DEF TreeSound
<1>. QED
  BY <1>1, Inductive, PTL

\* In memory, and on disk whenever power may fail, the list of unlinked inodes
\* holds every inode without a link and no other, linked both ways, whatever the
\* order in which they were unlinked and closed (minfs.cc's AddUnlinked and
\* RemoveUnlinked, and PurgeUnlinked after a crash).
THEOREM ListOfUnlinked == Spec => []UnlinkedListSound
<1>1. Inv => UnlinkedListSound
  BY InvHolds, GoodIsSound DEF UnlinkedListSound
<1>. QED
  BY <1>1, Inductive, PTL

\* Once mounted, an inode is kept without a link exactly as long as somebody has
\* it open (vnode.cc's RemoveInodeLink and Close, minfs.cc's PurgeUnlinked).
THEOREM KeptWhileOpen == Spec => []KeptExactlyWhileOpen
<1>1. Inv => KeptExactlyWhileOpen
  <2>. SUFFICES ASSUME Inv, ~mounting
                PROVE  Unlinked(vol) = {i \in Ino : open[i] > 0 /\ IsUnlinked(vol, i)}
    BY DEF KeptExactlyWhileOpen
  <2>1. /\ \A i \in Ino : open[i] > 0 => i \in Allocated(vol)
        /\ \A i \in Unlinked(vol) : open[i] > 0
    BY DEF Inv, OpenInv
  <2>. QED
    BY <2>1, UnlinkedAreInodes DEF Unlinked
<1>. QED
  BY <1>1, Inductive, PTL

\* No operation leaves a change in memory out of its transaction: the journal's
\* entries, applied to the disk, make what is in memory (vnode.cc's InodeSync and
\* minfs.cc's CommitTransaction).
THEOREM NothingLeftUncommitted == Spec => []MemoryIsCommitted
<1>1. Inv => MemoryIsCommitted
  <2>. SUFFICES ASSUME Inv PROVE MemoryIsCommitted
    OBVIOUS
  <2>1. PICK h : History(h)
    BY DEF Inv
  <2>2. Len(entries) \in 0..Len(entries)
    BY <2>1, HistoryHolds DEF Inv
  <2>3. Replayed[Len(entries)] = h[Len(entries)]
    BY <2>1, <2>2, ReplayedIs DEF Inv
  <2>. QED
    BY <2>1, <2>3 DEF MemoryIsCommitted, History
<1>. QED
  BY <1>1, Inductive, PTL

================================================================================
