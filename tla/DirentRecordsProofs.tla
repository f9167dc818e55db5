-------------------------- MODULE DirentRecordsProofs --------------------------
(***************************************************************************)
(* Theorems about the records of a directory, for any names and lengths,    *)
(* any size of header, block and directory, and listings in calls of any     *)
(* size.                                                                    *)
(***************************************************************************)
EXTENDS DirentRecords, FiniteSetTheorems, WellFoundedInduction, TLAPS

After(d, off) == off + ReservedSize(At(d, off), off)
Used(r) == IF r.name = Free THEN 0 ELSE DirentSize(r.name)

Word == Name \union {Free, Dot, DotDot}

(***************************************************************************)
(* The inductive invariant.  A directory is sound for a set of offsets, with *)
(* each of which the one behind it is in the set and none lies in between;   *)
(* this set is what a walk finds.  Entries are offsets with the names that  *)
(* are there: what an operation does to the directory is to add or to remove *)
(* one, and a listing that goes on from an offset has shown those before it. *)
(***************************************************************************)
DirType(d) ==
  /\ d.size \in Nat
  /\ \A off \in DOMAIN d.record : off \in Nat
  /\ \A off \in DOMAIN d.record :
       /\ d.record[off].name \in Word /\ d.record[off].reclen \in Nat
       /\ d.record[off].last \in BOOLEAN

Placed(d, V, off) ==
  LET r == At(d, off) IN
  /\ off \in DOMAIN d.record
  /\ off + Header < After(d, off) /\ After(d, off) <= MaxDirectorySize
  /\ Used(r) <= ReservedSize(r, off)
  /\ off + Header <= d.size /\ off + Used(r) <= d.size
  /\ r.last <=> After(d, off) = MaxDirectorySize
  /\ After(d, off) \in V \/ After(d, off) = MaxDirectorySize
  /\ \A p \in V : p <= off \/ After(d, off) <= p
  /\ r.name = Free /\ After(d, off) \in V => At(d, After(d, off)).name # Free

Tiles(d, V) ==
  /\ DirType(d)
  /\ V \subseteq 0..MaxDirectorySize /\ 0 \in V
  /\ \A off \in V : Placed(d, V, off)

Entries(d, V) == {e \in V \X (Word \ {Free}) : At(d, e[1]).name = e[2]}

\* Every name once, and those of the clients are the ones they have been told.
Named(E) ==
  /\ \A e, f \in E : e[2] = f[2] => e = f
  /\ \A n \in Name : n \in names <=> \E e \in E : e[2] = n

DirInv ==
  /\ Tiles(dir, Visited(dir))
  /\ names \subseteq Name /\ Named(Entries(dir, Visited(dir)))
  /\ failed = {}

ListInv ==
  /\ cookie \in [off : 0..MaxDirectorySize, changed : BOOLEAN]
  /\ ~cookie.changed => cookie.off \in Visited(dir) \union {MaxDirectorySize}
  /\ listed \in [Name -> Nat] /\ stayed \subseteq names
  /\ \A e \in Entries(dir, Visited(dir)) :
       e[2] \in stayed => listed[e[2]] = IF e[1] < cookie.off THEN 1 ELSE 0

Inv == DirInv /\ ListInv

(***************************************************************************)
(* Numbers, and functions defined by recursion towards the end of the file. *)
(***************************************************************************)
LEMMA Constants ==
  /\ Header \in Nat /\ Header > 0 /\ BlockSize \in Nat /\ BlockSize > 0
  /\ MaxCall \in Nat /\ MaxDirectorySize \in Nat /\ MaxDirectorySize >= 2 * (Header + 1)
BY DirentRecordsAssumption

LEMMA SizeOfName ==
  ASSUME NEW n \in Word
  PROVE  n # Free => DirentSize(n) \in Nat /\ DirentSize(n) > Header
BY DirentRecordsAssumption DEF DirentSize, Word

LessThan == {p \in Nat \X Nat : p[1] < p[2]}

\* A set of numbers that is not empty has a least one.
LEMMA LeastOf ==
  ASSUME NEW S \in SUBSET Nat, S # {}
  PROVE  \E k \in S : \A j \in S : k <= j
<1>1. LessThan = OpToRel(<, Nat)
  BY DEF LessThan, OpToRel
<1>2. IsWellFoundedOn(LessThan, Nat)
  BY <1>1, NatLessThanWellFounded
<1>3. \E k \in S : \A j \in S : ~(<<j, k>> \in LessThan)
  BY <1>2, WFMin
<1>4. ASSUME NEW k \in Nat, NEW j \in Nat, <<j, k>> \notin LessThan
      PROVE  k <= j
  BY <1>4 DEF LessThan
<1>. QED
  BY <1>3, <1>4

\* ... and one with a bound has a greatest.
LEMMA GreatestOf ==
  ASSUME NEW N \in Nat, NEW S \in SUBSET (0..N), S # {}
  PROVE  \E k \in S : \A j \in S : j <= k
<1>. DEFINE T == {N - k : k \in S}
<1>1. T \in SUBSET Nat /\ T # {}
  <2>1. \A k \in S : k \in 0..N
    OBVIOUS
  <2>2. \A k \in S : N - k \in Nat
    BY <2>1
  <2>. QED
    BY <2>2
<1>2. PICK t \in T : \A u \in T : t <= u
  <2>. HIDE DEF T
  <2>. QED
    BY <1>1, LeastOf
<1>3. PICK k \in S : t = N - k
  OBVIOUS
<1>4. \A j \in S : N - k <= N - j
  BY <1>2, <1>3
<1>. QED
  BY <1>4

IsVisit(f, N, S, next) == f = [x \in 0..N |-> IF x \in S THEN {} ELSE {x} \union f[next[x]]]
IsRecovery(f, N, S, T, next) ==
  f = [x \in 0..N |-> IF x \in S THEN x ELSE IF x \in T THEN -1 ELSE f[next[x]]]

\* As long as each step leads further, the functions of the walks exist.
LEMMA VisitExists ==
  ASSUME NEW N \in Nat, NEW S, NEW next, \A x \in (0..N) \ S : next[x] \in 0..N /\ x < next[x]
  PROVE  \E f : IsVisit(f, N, S, next)
<1>. DEFINE Step(g, x) == IF x \in S THEN {} ELSE {x} \union g[next[x]]
            Reached == {m \in Nat : \E g : \A x \in 0..N : m <= x => g[x] = Step(g, x)}
<1>1. N + 1 \in Reached
  OBVIOUS
<1>2. PICK m \in Reached : \A j \in Reached : m <= j
  <2>. HIDE DEF Reached
  <2>1. Reached \in SUBSET Nat /\ Reached # {}
    BY <1>1 DEF Reached
  <2>. QED
    BY <2>1, LeastOf
<1>3. m \in Nat /\ m <= N + 1
  BY <1>1, <1>2
<1>4. PICK g : \A x \in 0..N : m <= x => g[x] = Step(g, x)
  BY <1>2
<1>5. m = 0
  <2>. SUFFICES ASSUME m # 0 PROVE FALSE
    OBVIOUS
  <2>. DEFINE h == [x \in 0..N |-> IF x = m - 1 THEN Step(g, x) ELSE g[x]]
  <2>1. ASSUME NEW x \in 0..N, m - 1 <= x
        PROVE  h[x] = Step(h, x)
    <3>1. x \notin S => next[x] \in 0..N /\ next[x] # m - 1
      BY <1>3, <2>1
    <3>2. Step(h, x) = Step(g, x)
      BY <3>1
    <3>3. h[x] = Step(g, x)
      <4>1. CASE x = m - 1
        BY <4>1
      <4>2. CASE x # m - 1
        <5>1. m <= x
          BY <1>3, <2>1, <4>2
        <5>2. g[x] = Step(g, x)
          BY <1>4, <5>1
        <5>. QED
          BY <4>2, <5>2
      <4>. QED
        BY <4>1, <4>2
    <3>. QED
      BY <3>2, <3>3
  <2>2. m - 1 \in Nat
    BY <1>3
  <2>3. m - 1 \in Reached
    <3>. HIDE DEF h
    <3>. QED
      BY <2>1, <2>2
  <2>4. m <= m - 1
    BY <1>2, <2>3
  <2>. QED
    BY <1>3, <2>4
<1>6. \A x \in 0..N : g[x] = Step(g, x)
  BY <1>4, <1>5
<1>. DEFINE f == [x \in 0..N |-> g[x]]
<1>7. \A x \in 0..N : Step(f, x) = Step(g, x)
  OBVIOUS
<1>8. f = [x \in 0..N |-> Step(f, x)]
  <2>1. \A x \in 0..N : f[x] = Step(f, x)
    BY <1>6, <1>7
  <2>. HIDE DEF Step
  <2>. QED
    BY <2>1
<1>. QED
  BY <1>8 DEF IsVisit

LEMMA RecoverExists ==
  ASSUME NEW N \in Nat, NEW S, NEW T, NEW next,
         \A x \in ((0..N) \ S) \ T : next[x] \in 0..N /\ x < next[x]
  PROVE  \E f : IsRecovery(f, N, S, T, next)
<1>. DEFINE Step(g, x) == IF x \in S THEN x ELSE IF x \in T THEN -1 ELSE g[next[x]]
            Reached == {m \in Nat : \E g : \A x \in 0..N : m <= x => g[x] = Step(g, x)}
<1>1. N + 1 \in Reached
  OBVIOUS
<1>2. PICK m \in Reached : \A j \in Reached : m <= j
  <2>. HIDE DEF Reached
  <2>1. Reached \in SUBSET Nat /\ Reached # {}
    BY <1>1 DEF Reached
  <2>. QED
    BY <2>1, LeastOf
<1>3. m \in Nat /\ m <= N + 1
  BY <1>1, <1>2
<1>4. PICK g : \A x \in 0..N : m <= x => g[x] = Step(g, x)
  BY <1>2
<1>5. m = 0
  <2>. SUFFICES ASSUME m # 0 PROVE FALSE
    OBVIOUS
  <2>. DEFINE h == [x \in 0..N |-> IF x = m - 1 THEN Step(g, x) ELSE g[x]]
  <2>1. ASSUME NEW x \in 0..N, m - 1 <= x
        PROVE  h[x] = Step(h, x)
    <3>1. x \notin S /\ x \notin T => next[x] \in 0..N /\ next[x] # m - 1
      BY <1>3, <2>1
    <3>2. Step(h, x) = Step(g, x)
      BY <3>1
    <3>3. h[x] = Step(g, x)
      <4>1. CASE x = m - 1
        BY <4>1
      <4>2. CASE x # m - 1
        <5>1. m <= x
          BY <1>3, <2>1, <4>2
        <5>2. g[x] = Step(g, x)
          BY <1>4, <5>1
        <5>. QED
          BY <4>2, <5>2
      <4>. QED
        BY <4>1, <4>2
    <3>. QED
      BY <3>2, <3>3
  <2>2. m - 1 \in Nat
    BY <1>3
  <2>3. m - 1 \in Reached
    <3>. HIDE DEF h
    <3>. QED
      BY <2>1, <2>2
  <2>4. m <= m - 1
    BY <1>2, <2>3
  <2>. QED
    BY <1>3, <2>4
<1>6. \A x \in 0..N : g[x] = Step(g, x)
  BY <1>4, <1>5
<1>. DEFINE f == [x \in 0..N |-> g[x]]
<1>7. \A x \in 0..N : Step(f, x) = Step(g, x)
  OBVIOUS
<1>8. f = [x \in 0..N |-> Step(f, x)]
  <2>1. \A x \in 0..N : f[x] = Step(f, x)
    BY <1>6, <1>7
  <2>. HIDE DEF Step
  <2>. QED
    BY <2>1
<1>. QED
  BY <1>8 DEF IsRecovery

LEMMA RecordIs ==
  ASSUME NEW d, DirType(d), NEW off
  PROVE  At(d, off).name \in Word /\ At(d, off).reclen \in Nat /\ At(d, off).last \in BOOLEAN
BY DEF DirType, At, Record, Word

LEMMA ValidLeadsOn ==
  ASSUME NEW d, DirType(d), NEW off \in 0..MaxDirectorySize, Valid(d, off)
  PROVE  After(d, off) \in 0..MaxDirectorySize /\ off < After(d, off)
<1>1. ReservedSize(At(d, off), off) \in Int
  BY Constants, RecordIs DEF ReservedSize
<1>. QED
  BY <1>1, Constants DEF After, Valid

LEMMA VisitedFromIs ==
  ASSUME NEW d, DirType(d), NEW x \in 0..MaxDirectorySize
  PROVE  VisitedFrom(d)[x] =
           IF x + Header >= MaxDirectorySize \/ x >= d.size \/ ~Valid(d, x) THEN {}
           ELSE {x} \union VisitedFrom(d)[After(d, x)]
<1>. DEFINE N == MaxDirectorySize
            Stops(y) == y + Header >= N \/ y >= d.size \/ ~Valid(d, y)
            S == {y \in 0..N : Stops(y)}
            next == [y \in 0..N |-> After(d, y)]
            Is(f) == f = [y \in 0..N |-> IF Stops(y) THEN {} ELSE {y} \union f[After(d, y)]]
<1>1. \A y \in (0..N) \ S : next[y] \in 0..N /\ y < next[y]
  BY ValidLeadsOn
<1>2. N \in Nat
  BY Constants
<1>3. PICK f : IsVisit(f, N, S, next)
  <2>. HIDE DEF S, next, N
  <2>. QED
    BY <1>1, <1>2, VisitExists
<1>4. Is(f)
  <2>1. \A y \in 0..N : (IF y \in S THEN {} ELSE {y} \union f[next[y]])
                        = IF Stops(y) THEN {} ELSE {y} \union f[After(d, y)]
    <3>. HIDE DEF Stops
    <3>. QED
      OBVIOUS
  <2>. HIDE DEF Stops, S, next, N
  <2>. QED
    BY <1>3, <2>1 DEF IsVisit
<1>5. VisitedFrom(d) = CHOOSE g : Is(g)
  BY DEF VisitedFrom, After
<1>6. Is(VisitedFrom(d))
  <2>. HIDE DEF Is
  <2>. QED
    BY <1>4, <1>5
<1>. PICK g : g = VisitedFrom(d)
  OBVIOUS
<1>7. g[x] = IF Stops(x) THEN {} ELSE {x} \union g[After(d, x)]
  <2>1. Is(g)
    BY <1>6
  <2>. HIDE DEF Stops
  <2>. QED
    BY <2>1, Zenon
<1>. QED
  BY <1>7

LEMMA RecoveredFromIs ==
  ASSUME NEW d, DirType(d), NEW off \in Nat, NEW x \in 0..MaxDirectorySize
  PROVE  RecoveredFrom(d, off)[x] =
           IF x >= off THEN x
           ELSE IF x + Header >= MaxDirectorySize \/ ~Valid(d, x) THEN -1
           ELSE RecoveredFrom(d, off)[After(d, x)]
<1>. DEFINE N == MaxDirectorySize
            Stops(y) == y + Header >= N \/ ~Valid(d, y)
            S == {y \in 0..N : y >= off}
            T == {y \in 0..N : Stops(y)}
            next == [y \in 0..N |-> After(d, y)]
            Is(f) == f = [y \in 0..N |-> IF y >= off THEN y ELSE IF Stops(y) THEN -1 ELSE f[After(d, y)]]
<1>1. \A y \in ((0..N) \ S) \ T : next[y] \in 0..N /\ y < next[y]
  BY ValidLeadsOn
<1>2. N \in Nat
  BY Constants
<1>3. PICK f : IsRecovery(f, N, S, T, next)
  <2>. HIDE DEF S, T, next, N
  <2>. QED
    BY <1>1, <1>2, RecoverExists
<1>4. Is(f)
  <2>1. \A y \in 0..N : (IF y \in S THEN y ELSE IF y \in T THEN -1 ELSE f[next[y]])
                        = IF y >= off THEN y ELSE IF Stops(y) THEN -1 ELSE f[After(d, y)]
    <3>. HIDE DEF Stops
    <3>. QED
      OBVIOUS
  <2>. HIDE DEF Stops, S, T, next, N
  <2>. QED
    BY <1>3, <2>1 DEF IsRecovery
<1>5. RecoveredFrom(d, off) = CHOOSE g : Is(g)
  BY DEF RecoveredFrom, After
<1>6. Is(RecoveredFrom(d, off))
  <2>. HIDE DEF Is
  <2>. QED
    BY <1>4, <1>5
<1>. PICK g : g = RecoveredFrom(d, off)
  OBVIOUS
<1>7. g[x] = IF x >= off THEN x ELSE IF Stops(x) THEN -1 ELSE g[After(d, x)]
  <2>1. Is(g)
    BY <1>6
  <2>. HIDE DEF Stops
  <2>. QED
    BY <2>1, Zenon
<1>. QED
  BY <1>7

(***************************************************************************)
(* What the walks find in a sound directory.                                *)
(***************************************************************************)
LEMMA PlacedIs ==
  ASSUME NEW d, NEW V, Tiles(d, V), NEW off \in V
  PROVE  /\ off \in Nat /\ After(d, off) \in Nat /\ off + Header < After(d, off)
         /\ After(d, off) <= MaxDirectorySize
         /\ After(d, off) \in V \union {MaxDirectorySize}
         /\ off + Header < MaxDirectorySize /\ off < d.size /\ Valid(d, off)
         /\ \A p \in V : p <= off \/ After(d, off) <= p
<1>1. Placed(d, V, off) /\ DirType(d) /\ off \in 0..MaxDirectorySize
  BY DEF Tiles
<1>2. d.size \in Nat
  BY <1>1 DEF DirType
<1>3. At(d, off).name \in Word /\ ReservedSize(At(d, off), off) \in Int
  BY <1>1, Constants, RecordIs DEF ReservedSize
<1>. DEFINE k == ReservedSize(At(d, off), off)
            u == Used(At(d, off))
<1>4. After(d, off) = off + k
  BY DEF After
<1>5. /\ off + Header < off + k /\ off + k <= MaxDirectorySize /\ u <= k
      /\ off + Header <= d.size
      /\ After(d, off) \in V \/ After(d, off) = MaxDirectorySize
      /\ \A p \in V : p <= off \/ After(d, off) <= p
  BY <1>1, <1>4 DEF Placed
<1>6. At(d, off).name # Free => u = DirentSize(At(d, off).name)
  BY DEF Used
<1>7. Valid(d, off)
  <2>. HIDE DEF u
  <2>1. off + k <= MaxDirectorySize /\ k >= Header /\ d.size >= off + Header
    BY <1>1, <1>2, <1>3, <1>5, Constants
  <2>2. At(d, off).name # Free => DirentSize(At(d, off).name) <= k
    BY <1>5, <1>6
  <2>. QED
    BY <2>1, <2>2 DEF Valid
<1>. HIDE DEF u, k
<1>8. off \in Nat /\ k \in Int /\ Header \in Nat /\ Header > 0 /\ MaxDirectorySize \in Nat
  BY <1>1, <1>3, Constants DEF k
<1>9. off < d.size /\ off + Header < MaxDirectorySize
  BY <1>2, <1>5, <1>8
<1>10. off + k \in Nat /\ off + Header < off + k
  BY <1>5, <1>8
<1>. QED
  BY <1>4, <1>5, <1>7, <1>8, <1>9, <1>10

LEMMA VisitedIs ==
  ASSUME NEW d, NEW V, Tiles(d, V)
  PROVE  Visited(d) = V
<1>. DEFINE N == MaxDirectorySize
            Bad == {off \in V \union {N} : VisitedFrom(d)[off] # {x \in V : off <= x}}
<1>1. DirType(d) /\ V \subseteq 0..N /\ 0 \in V /\ N \in Nat
  BY Constants DEF Tiles
<1>2. Bad = {}
  <2>. SUFFICES ASSUME Bad # {} PROVE FALSE
    OBVIOUS
  <2>1. PICK m \in Bad : \A j \in Bad : j <= m
    <3>1. Bad \in SUBSET (0..N)
      <4>1. N \in 0..N
        BY <1>1
      <4>. QED
        BY <1>1, <4>1
    <3>. HIDE DEF Bad
    <3>. QED
      BY <1>1, <3>1, GreatestOf
  <2>2. m \in V \union {N} /\ m \in 0..N /\ VisitedFrom(d)[m] # {x \in V : m <= x}
    BY <1>1, <2>1
  <2>3. CASE m = N
    <3>1. VisitedFrom(d)[m] = {}
      <4>1. m + Header >= MaxDirectorySize
        BY <2>2, <2>3, Constants
      <4>. QED
        BY <1>1, <2>2, <4>1, VisitedFromIs
    <3>2. \A x \in V : ~(m <= x)
      <4>1. \A x \in V : x + Header < N /\ x \in Nat
        BY PlacedIs
      <4>. QED
        BY <2>3, <4>1, Constants
    <3>. QED
      BY <2>2, <3>1, <3>2
  <2>4. CASE m \in V
    <3>. PICK a : a = After(d, m)
      OBVIOUS
    <3>1. /\ a \in Nat /\ m < a /\ a \in V \union {N}
          /\ \A p \in V : p <= m \/ a <= p
          /\ m + Header < N /\ m < d.size /\ Valid(d, m)
      BY <2>4, PlacedIs, Constants
    <3>2. VisitedFrom(d)[m] = {m} \union VisitedFrom(d)[a]
      <4>1. ~(m + Header >= N \/ m >= d.size \/ ~Valid(d, m))
        BY <2>2, <3>1, <1>1, Constants DEF DirType
      <4>. QED
        BY <1>1, <2>2, <4>1, VisitedFromIs
    <3>3. a \notin Bad
      BY <2>1, <2>2, <3>1
    <3>4. VisitedFrom(d)[a] = {x \in V : a <= x}
      BY <3>1, <3>3
    <3>5. {m} \union {x \in V : a <= x} = {x \in V : m <= x}
      <4>1. ASSUME NEW x \in V
            PROVE  m <= x <=> x = m \/ a <= x
        <5>1. x \in Nat /\ m \in Nat /\ a \in Nat /\ m < a
          BY <1>1, <2>2, <3>1
        <5>2. x <= m \/ a <= x
          BY <3>1
        <5>. QED
          BY <5>1, <5>2
      <4>. QED
        BY <2>4, <4>1
    <3>. QED
      BY <2>2, <3>2, <3>4, <3>5
  <2>. QED
    BY <2>2, <2>3, <2>4
<1>3. VisitedFrom(d)[0] = {x \in V : 0 <= x}
  BY <1>1, <1>2
<1>. QED
  BY <1>1, <1>3 DEF Visited

\* A listing resumes at the first record at or behind the place it had kept.
Resumes(V, off, r) ==
  /\ r \in V \union {MaxDirectorySize} /\ off <= r
  /\ \A p \in V : p < off \/ r <= p

LEMMA RecoveredIs ==
  ASSUME NEW d, NEW V, Tiles(d, V), NEW off \in 0..MaxDirectorySize
  PROVE  Resumes(V, off, Recovered(d, off))
<1>. DEFINE N == MaxDirectorySize
            P(m, r) == /\ r \in V \union {N} /\ off <= r
                       /\ \A p \in V : p < off \/ p < m \/ r <= p
            Bad == {m \in V \union {N} : ~P(m, RecoveredFrom(d, off)[m])}
<1>1. DirType(d) /\ V \subseteq 0..N /\ 0 \in V /\ N \in Nat /\ off \in Nat /\ off <= N
  BY Constants DEF Tiles
<1>2. Bad = {}
  <2>. SUFFICES ASSUME Bad # {} PROVE FALSE
    OBVIOUS
  <2>1. PICK m \in Bad : \A j \in Bad : j <= m
    <3>1. Bad \in SUBSET (0..N)
      <4>1. N \in 0..N
        BY <1>1
      <4>. QED
        BY <1>1, <4>1
    <3>. HIDE DEF Bad
    <3>. QED
      BY <1>1, <3>1, GreatestOf
  <2>2. m \in V \union {N} /\ m \in 0..N /\ ~P(m, RecoveredFrom(d, off)[m])
    BY <1>1, <2>1
  <2>3. CASE off <= m
    <3>1. RecoveredFrom(d, off)[m] = m
      BY <1>1, <2>2, <2>3, RecoveredFromIs
    <3>2. \A p \in V : p < m \/ m <= p
      BY <1>1, <2>2
    <3>. QED
      BY <2>2, <2>3, <3>1, <3>2
  <2>4. CASE m < off
    <3>. PICK a : a = After(d, m)
      OBVIOUS
    <3>1. m \in V
      BY <1>1, <2>2, <2>4
    <3>2. /\ a \in Nat /\ m < a /\ a \in V \union {N}
          /\ \A p \in V : p <= m \/ a <= p
          /\ m + Header < N /\ Valid(d, m)
      BY <3>1, PlacedIs, Constants
    <3>3. RecoveredFrom(d, off)[m] = RecoveredFrom(d, off)[a]
      <4>1. ~(m + Header >= N \/ ~Valid(d, m)) /\ ~(m >= off)
        BY <1>1, <2>2, <2>4, <3>2, Constants
      <4>. QED
        BY <1>1, <2>2, <4>1, RecoveredFromIs
    <3>4. a \notin Bad
      BY <2>1, <2>2, <3>2
    <3>5. P(a, RecoveredFrom(d, off)[a])
      BY <3>2, <3>4
    <3>6. \A p \in V : p < a => p < off
      BY <1>1, <2>2, <2>4, <3>2
    <3>7. P(m, RecoveredFrom(d, off)[a])
      BY <3>5, <3>6
    <3>. QED
      BY <2>2, <3>3, <3>7
  <2>. QED
    BY <1>1, <2>2, <2>3, <2>4
<1>3. P(0, Recovered(d, off))
  BY <1>1, <1>2 DEF Recovered
<1>4. \A p \in V : ~(p < 0)
  BY <1>1
<1>. QED
  BY <1>3, <1>4 DEF Resumes

(***************************************************************************)
(* One call of a listing.                                                   *)
(***************************************************************************)
IsReading(f, N, K, S, T, U, next, name) ==
  f = [x \in 0..N |->
         [l \in 0..K |->
            IF x \in S THEN [end |-> x, shows |-> {}]
            ELSE IF x \in T THEN [end |-> -1, shows |-> {}]
            ELSE IF x \in U THEN f[next[x]][l]
            ELSE IF l = 0 THEN [end |-> x, shows |-> {}]
            ELSE [end |-> f[next[x]][l - 1].end,
                  shows |-> {name[x]} \union f[next[x]][l - 1].shows]]]

LEMMA ReadingExists ==
  ASSUME NEW N \in Nat, NEW K \in Nat, NEW S, NEW T, NEW U, NEW next, NEW name,
         \A x \in ((0..N) \ S) \ T : next[x] \in 0..N /\ x < next[x]
  PROVE  \E f : IsReading(f, N, K, S, T, U, next, name)
<1>. DEFINE From(x, r) ==
              [l \in 0..K |->
                 IF x \in S THEN [end |-> x, shows |-> {}]
                 ELSE IF x \in T THEN [end |-> -1, shows |-> {}]
                 ELSE IF x \in U THEN r[l]
                 ELSE IF l = 0 THEN [end |-> x, shows |-> {}]
                 ELSE [end |-> r[l - 1].end, shows |-> {name[x]} \union r[l - 1].shows]]
            Step(g, x) == From(x, g[next[x]])
            Reached == {m \in Nat : \E g : \A x \in 0..N : m <= x => g[x] = Step(g, x)}
<1>0. ASSUME NEW x \in (0..N), NEW g, NEW h, x \notin S /\ x \notin T => g[next[x]] = h[next[x]]
      PROVE  Step(g, x) = Step(h, x)
  <2>1. CASE x \in S \/ x \in T
    <3>1. \A r, q : From(x, r) = From(x, q)
      BY <2>1
    <3>. HIDE DEF From
    <3>. QED
      BY <3>1
  <2>2. CASE x \notin S /\ x \notin T
    <3>. HIDE DEF From
    <3>. QED
      BY <1>0, <2>2
  <2>. QED
    BY <2>1, <2>2
<1>1. N + 1 \in Reached
  OBVIOUS
<1>. HIDE DEF From
<1>2. PICK m \in Reached : \A j \in Reached : m <= j
  <2>. HIDE DEF Reached
  <2>1. Reached \in SUBSET Nat /\ Reached # {}
    BY <1>1 DEF Reached
  <2>. QED
    BY <2>1, LeastOf
<1>3. m \in Nat /\ m <= N + 1
  BY <1>1, <1>2
<1>. HIDE DEF Step
<1>4. PICK g : \A x \in 0..N : m <= x => g[x] = Step(g, x)
  BY <1>2
<1>5. m = 0
  <2>. SUFFICES ASSUME m # 0 PROVE FALSE
    OBVIOUS
  <2>. DEFINE h == [x \in 0..N |-> IF x = m - 1 THEN Step(g, x) ELSE g[x]]
  <2>1. ASSUME NEW x \in 0..N, m - 1 <= x
        PROVE  h[x] = Step(h, x)
    <3>1. x \notin S /\ x \notin T => next[x] \in 0..N /\ next[x] # m - 1
      BY <1>3, <2>1
    <3>2. Step(h, x) = Step(g, x)
      <4>1. x \notin S /\ x \notin T => h[next[x]] = g[next[x]]
        BY <3>1
      <4>. HIDE DEF h
      <4>. QED
        BY <1>0, <4>1
    <3>3. h[x] = Step(g, x)
      <4>1. CASE x = m - 1
        BY <4>1
      <4>2. CASE x # m - 1
        <5>1. m <= x
          BY <1>3, <2>1, <4>2
        <5>2. g[x] = Step(g, x)
          BY <1>4, <5>1
        <5>. QED
          BY <4>2, <5>2
      <4>. QED
        BY <4>1, <4>2
    <3>. QED
      BY <3>2, <3>3
  <2>2. m - 1 \in Nat
    BY <1>3
  <2>3. m - 1 \in Reached
    <3>. HIDE DEF h
    <3>. QED
      BY <2>1, <2>2
  <2>4. m <= m - 1
    BY <1>2, <2>3
  <2>. QED
    BY <1>3, <2>4
<1>6. \A x \in 0..N : g[x] = Step(g, x)
  BY <1>4, <1>5
<1>. DEFINE f == [x \in 0..N |-> g[x]]
<1>7. ASSUME NEW x \in 0..N
      PROVE  Step(f, x) = Step(g, x)
  <2>1. x \notin S /\ x \notin T => next[x] \in 0..N
    OBVIOUS
  <2>2. x \notin S /\ x \notin T => f[next[x]] = g[next[x]]
    BY <2>1
  <2>. HIDE DEF f
  <2>. QED
    BY <1>0, <2>2
<1>8. f = [x \in 0..N |-> Step(f, x)]
  <2>1. \A x \in 0..N : f[x] = Step(f, x)
    BY <1>6, <1>7
  <2>. QED
    BY <2>1
<1>. QED
  BY <1>8 DEF IsReading, Step, From

LEMMA ReadFromIs ==
  ASSUME NEW d, DirType(d), NEW k \in Nat, NEW x \in 0..MaxDirectorySize, NEW l \in 0..k
  PROVE  Read(d, k)[x][l] =
           IF x + Header >= MaxDirectorySize THEN [end |-> x, shows |-> {}]
           ELSE IF ~Valid(d, x) THEN [end |-> -1, shows |-> {}]
           ELSE IF At(d, x).name \in {Free, DotDot} THEN Read(d, k)[After(d, x)][l]
           ELSE IF l = 0 THEN [end |-> x, shows |-> {}]
           ELSE [end |-> Read(d, k)[After(d, x)][l - 1].end,
                 shows |-> {At(d, x).name} \union Read(d, k)[After(d, x)][l - 1].shows]
<1>. DEFINE N == MaxDirectorySize
            Ends(y) == y + Header >= N
            Fails(y) == ~Valid(d, y)
            Skips(y) == At(d, y).name \in {Free, DotDot}
            S == {y \in 0..N : Ends(y)}
            T == {y \in 0..N : Fails(y)}
            U == {y \in 0..N : Skips(y)}
            next == [y \in 0..N |-> After(d, y)]
            name == [y \in 0..N |-> At(d, y).name]
            From(y, r) ==
              [j \in 0..k |->
                 IF Ends(y) THEN [end |-> y, shows |-> {}]
                 ELSE IF Fails(y) THEN [end |-> -1, shows |-> {}]
                 ELSE IF Skips(y) THEN r[j]
                 ELSE IF j = 0 THEN [end |-> y, shows |-> {}]
                 ELSE [end |-> r[j - 1].end, shows |-> {At(d, y).name} \union r[j - 1].shows]]
            Is(f) == f = [y \in 0..N |-> From(y, f[After(d, y)])]
<1>1. \A y \in ((0..N) \ S) \ T : next[y] \in 0..N /\ y < next[y]
  BY ValidLeadsOn
<1>2. N \in Nat
  BY Constants
<1>3. PICK f : IsReading(f, N, k, S, T, U, next, name)
  <2>. HIDE DEF S, T, U, next, name, N
  <2>. QED
    BY <1>1, <1>2, ReadingExists
<1>4. Is(f)
  <2>1. ASSUME NEW y \in 0..N
        PROVE  /\ y \in S <=> Ends(y)
               /\ y \in T <=> Fails(y)
               /\ y \in U <=> Skips(y)
               /\ next[y] = After(d, y) /\ name[y] = At(d, y).name
    <3>. HIDE DEF Ends, Fails, Skips
    <3>. QED
      OBVIOUS
  <2>. HIDE DEF Ends, Fails, Skips, S, T, U, next, name, N
  <2>2. ASSUME NEW y \in 0..N
        PROVE  [j \in 0..k |->
                  IF y \in S THEN [end |-> y, shows |-> {}]
                  ELSE IF y \in T THEN [end |-> -1, shows |-> {}]
                  ELSE IF y \in U THEN f[next[y]][j]
                  ELSE IF j = 0 THEN [end |-> y, shows |-> {}]
                  ELSE [end |-> f[next[y]][j - 1].end,
                        shows |-> {name[y]} \union f[next[y]][j - 1].shows]]
               = From(y, f[After(d, y)])
    BY <2>1
  <2>. HIDE DEF From
  <2>. QED
    BY <1>3, <2>2 DEF IsReading
<1>5. Read(d, k) = CHOOSE g : Is(g)
  BY DEF Read, After
<1>6. Is(Read(d, k))
  <2>. HIDE DEF Is
  <2>. QED
    BY <1>4, <1>5
<1>. PICK g : g = Read(d, k)
  OBVIOUS
<1>7. g[x] = From(x, g[After(d, x)])
  <2>1. Is(g)
    BY <1>6
  <2>. HIDE DEF From
  <2>. QED
    BY <2>1, Zenon
<1>. QED
  BY <1>7

LEMMA EntryIs ==
  ASSUME NEW d, NEW V, Tiles(d, V), NEW e \in Entries(d, V)
  PROVE  /\ e[1] \in V /\ e[1] \in Nat /\ e[2] \in Word \ {Free}
         /\ At(d, e[1]).name = e[2] /\ e = <<e[1], e[2]>>
<1>1. e \in V \X (Word \ {Free}) /\ At(d, e[1]).name = e[2]
  BY DEF Entries
<1>2. e[1] \in V /\ e[2] \in Word \ {Free} /\ e = <<e[1], e[2]>>
  BY <1>1
<1>3. \A x \in V : x \in 0..MaxDirectorySize
  BY DEF Tiles
<1>4. e[1] \in 0..MaxDirectorySize
  BY <1>2, <1>3
<1>. QED
  BY <1>1, <1>2, <1>4, Constants

\* A call that begins at the record at off ends at a record or at the end of the
\* directory, and shows the names in between.
Shows(d, V, off, r) ==
  /\ r.end \in V \union {MaxDirectorySize} /\ off <= r.end
  /\ \A n \in Name : n \in r.shows <=>
       \E e \in Entries(d, V) : e[2] = n /\ off <= e[1] /\ e[1] < r.end

LEMMA ReadIs ==
  ASSUME NEW d, NEW V, Tiles(d, V), NEW k \in Nat,
         NEW off \in V \union {MaxDirectorySize}, NEW l \in 0..k
  PROVE  Shows(d, V, off, Read(d, k)[off][l])
<1>. DEFINE N == MaxDirectorySize
            Bad == {m \in V \union {N} : \E j \in 0..k : ~Shows(d, V, m, Read(d, k)[m][j])}
<1>1. DirType(d) /\ V \subseteq 0..N /\ N \in Nat /\ N \in 0..N
  BY Constants DEF Tiles
<1>2. Bad = {}
  <2>. SUFFICES ASSUME Bad # {} PROVE FALSE
    OBVIOUS
  <2>0. \A x \in V \union {N} : x \in Nat
    BY <1>1
  <2>1. PICK m \in Bad : \A j \in Bad : j <= m
    <3>1. Bad \in SUBSET (0..N)
      BY <1>1
    <3>. HIDE DEF Bad
    <3>. QED
      BY <1>1, <3>1, GreatestOf
  <2>2. m \in V \union {N} /\ m \in 0..N
    BY <1>1, <2>1
  <2>3. PICK j \in 0..k : ~Shows(d, V, m, Read(d, k)[m][j])
    BY <2>1
  <2>. HIDE DEF Bad
  <2>4. \A e \in Entries(d, V) : e[1] \in V /\ e[1] \in Nat /\ At(d, e[1]).name = e[2]
    BY <1>1, EntryIs
  <2>14. Read(d, k)[m][j] =
           IF m + Header >= MaxDirectorySize THEN [end |-> m, shows |-> {}]
           ELSE IF ~Valid(d, m) THEN [end |-> -1, shows |-> {}]
           ELSE IF At(d, m).name \in {Free, DotDot} THEN Read(d, k)[After(d, m)][j]
           ELSE IF j = 0 THEN [end |-> m, shows |-> {}]
           ELSE [end |-> Read(d, k)[After(d, m)][j - 1].end,
                 shows |-> {At(d, m).name} \union Read(d, k)[After(d, m)][j - 1].shows]
    BY <1>1, <2>2, ReadFromIs
  <2>5. ASSUME Read(d, k)[m][j] = [end |-> m, shows |-> {}]
        PROVE  FALSE
    <3>1. \A e \in Entries(d, V) : ~(m <= e[1] /\ e[1] < m)
      BY <2>2, <2>4
    <3>. QED
      BY <1>1, <2>2, <2>3, <2>5, <3>1 DEF Shows
  <2>6. m + Header < N
    <3>1. ~(m + Header >= N)
      BY <2>5, <2>14
    <3>. QED
      BY <2>2, <3>1, Constants
  <2>7. m \in V
    BY <2>2, <2>6, Constants
  <2>. PICK a : a = After(d, m)
    OBVIOUS
  <2>8. /\ a \in Nat /\ m < a /\ a \in V \union {N}
        /\ \A p \in V : p <= m \/ a <= p
        /\ Valid(d, m)
    BY <2>7, PlacedIs, Constants
  <2>9. \A i \in 0..k : Shows(d, V, a, Read(d, k)[a][i])
    <3>1. a \notin Bad
      BY <2>1, <2>2, <2>8
    <3>. QED
      BY <2>8, <3>1 DEF Bad
  <2>10. ~(m + Header >= N)
    BY <2>2, <2>6, Constants
  <2>11. \A e \in Entries(d, V) : m <= e[1] <=> e[1] = m \/ a <= e[1]
    BY <2>2, <2>4, <2>8
  <2>12. CASE At(d, m).name \in {Free, DotDot}
    <3>. PICK r : r = Read(d, k)[a][j]
      OBVIOUS
    <3>1. Read(d, k)[m][j] = r
      BY <2>8, <2>10, <2>12, <2>14
    <3>2. Shows(d, V, a, r)
      BY <2>9
    <3>3. r.end \in V \union {N} /\ m <= r.end
      <4>1. r.end \in V \union {N} /\ a <= r.end
        BY <3>2 DEF Shows
      <4>2. r.end \in Nat
        BY <2>0, <4>1
      <4>. QED
        BY <2>2, <2>8, <4>1, <4>2
    <3>4. \A e \in Entries(d, V) : e[2] \in Name => e[1] # m
      BY <2>4, <2>12, DirentRecordsAssumption
    <3>5. ASSUME NEW n \in Name
          PROVE  n \in r.shows <=> \E e \in Entries(d, V) : e[2] = n /\ m <= e[1] /\ e[1] < r.end
      BY <2>11, <3>2, <3>4 DEF Shows
    <3>. QED
      BY <2>3, <3>1, <3>3, <3>5 DEF Shows
  <2>13. CASE At(d, m).name \notin {Free, DotDot}
    <3>1. j # 0
      BY <2>5, <2>8, <2>10, <2>13, <2>14
    <3>2. j - 1 \in 0..k
      BY <3>1
    <3>. PICK r : r = Read(d, k)[a][j - 1]
      OBVIOUS
    <3>3. Read(d, k)[m][j] = [end |-> r.end, shows |-> {At(d, m).name} \union r.shows]
      BY <2>8, <2>10, <2>13, <2>14, <3>1
    <3>4. Shows(d, V, a, r)
      BY <2>9, <3>2
    <3>5. r.end \in V \union {N} /\ m < r.end
      <4>1. r.end \in V \union {N} /\ a <= r.end
        BY <3>4 DEF Shows
      <4>2. r.end \in Nat
        BY <2>0, <4>1
      <4>. QED
        BY <2>2, <2>8, <4>1, <4>2
    <3>6. <<m, At(d, m).name>> \in Entries(d, V)
      BY <1>1, <2>7, <2>13, RecordIs DEF Entries
    <3>7. ASSUME NEW n \in Name
          PROVE  n \in {At(d, m).name} \union r.shows <=>
                   \E e \in Entries(d, V) : e[2] = n /\ m <= e[1] /\ e[1] < r.end
      <4>1. \A e \in Entries(d, V) : e[1] = m => e[2] = At(d, m).name
        BY <2>4
      <4>2. n \in r.shows <=> \E e \in Entries(d, V) : e[2] = n /\ a <= e[1] /\ e[1] < r.end
        BY <3>4 DEF Shows
      <4>3. m <= m
        BY <2>2
      <4>. QED
        BY <2>11, <3>5, <3>6, <4>1, <4>2, <4>3
    <3>8. m <= r.end
      BY <1>1, <2>2, <3>5
    <3>. QED
      BY <2>3, <3>3, <3>5, <3>7, <3>8 DEF Shows
  <2>. QED
    BY <2>12, <2>13
<1>. QED
  BY <1>2

(***************************************************************************)
(* Writing records.                                                         *)
(***************************************************************************)
IsRecord(r) == r.name \in Word /\ r.reclen \in Nat /\ r.last \in BOOLEAN

Wrote(d, w, off, r, n) ==
  /\ DirType(w) /\ w.size = IF off + n > d.size THEN off + n ELSE d.size
  /\ At(w, off) = r /\ off \in DOMAIN w.record
  /\ \A p \in Nat : p < off \/ off + n <= p =>
       At(w, p) = At(d, p) /\ (p \in DOMAIN d.record => p \in DOMAIN w.record)

LEMMA WrittenIs ==
  ASSUME NEW d, DirType(d), NEW off \in Nat, NEW r, IsRecord(r), NEW n \in Nat, n > 0
  PROVE  Wrote(d, Written(d, off, r, n), off, r, n)
<1>. PICK w : w = Written(d, off, r, n)
  OBVIOUS
<1>. DEFINE D == {off} \union {p \in DOMAIN d.record : p < off \/ p >= off + n}
<1>1. w.size = (IF off + n > d.size THEN off + n ELSE d.size)
      /\ w.record = [o \in D |-> IF o = off THEN r ELSE d.record[o]]
  BY DEF Written
<1>2. DOMAIN w.record = D /\ \A o \in D : w.record[o] = IF o = off THEN r ELSE d.record[o]
  BY <1>1, Zenon
<1>3. d.size \in Nat /\ \A p \in DOMAIN d.record : p \in Nat /\ IsRecord(d.record[p])
  BY DEF DirType, IsRecord
<1>4. w.size \in Nat
  BY <1>1, <1>3
<1>5. \A p \in D : p \in Nat /\ IsRecord(w.record[p])
  BY <1>2, <1>3
<1>6. DirType(w)
  BY <1>2, <1>4, <1>5 DEF DirType, IsRecord
<1>7. off \in D /\ At(w, off) = r
  BY <1>2 DEF At
<1>8. ASSUME NEW p \in Nat, p < off \/ off + n <= p
      PROVE  At(w, p) = At(d, p) /\ (p \in DOMAIN d.record => p \in DOMAIN w.record)
  <2>1. p # off
    BY <1>8
  <2>2. p \in D <=> p \in DOMAIN d.record
    BY <1>8, <2>1
  <2>. QED
    BY <1>2, <2>1, <2>2 DEF At
<1>. HIDE DEF D
<1>. QED
  BY <1>1, <1>2, <1>6, <1>7, <1>8 DEF Wrote

LEMMA TruncatedIs ==
  ASSUME NEW d, DirType(d), NEW len \in Nat
  PROVE  LET w == Truncated(d, len) IN
         /\ DirType(w) /\ w.size = len
         /\ \A p \in Nat : p < len => At(w, p) = At(d, p) /\ (p \in DOMAIN d.record => p \in DOMAIN w.record)
<1>. PICK w : w = Truncated(d, len)
  OBVIOUS
<1>. DEFINE D == {o \in DOMAIN d.record : o < len}
<1>1. w.size = len /\ w.record = [o \in D |-> d.record[o]]
  BY DEF Truncated, Restrict
<1>2. DOMAIN w.record = D /\ \A o \in D : w.record[o] = d.record[o]
  BY <1>1, Zenon
<1>3. \A p \in DOMAIN d.record : p \in Nat /\ IsRecord(d.record[p])
  BY DEF DirType, IsRecord
<1>4. \A p \in D : p \in Nat /\ IsRecord(w.record[p])
  BY <1>2, <1>3
<1>5. DirType(w)
  BY <1>1, <1>2, <1>4 DEF DirType, IsRecord
<1>6. ASSUME NEW p \in Nat, p < len
      PROVE  At(w, p) = At(d, p) /\ (p \in DOMAIN d.record => p \in DOMAIN w.record)
  <2>1. p \in D <=> p \in DOMAIN d.record
    BY <1>6
  <2>. QED
    BY <1>2, <2>1 DEF At
<1>. QED
  BY <1>1, <1>5, <1>6

\* What is used of a record.
LEMMA UsedIs ==
  ASSUME NEW d, DirType(d), NEW off
  PROVE  /\ Used(At(d, off)) \in Nat
         /\ At(d, off).name = Free <=> Used(At(d, off)) = 0
         /\ At(d, off).name # Free => Used(At(d, off)) > Header
<1>1. At(d, off).name \in Word
  BY RecordIs
<1>. QED
  BY <1>1, SizeOfName, Constants DEF Used

\* The parts of Placed.
LEMMA PlacedParts ==
  ASSUME NEW d, NEW V, Tiles(d, V), NEW off \in V
  PROVE  LET k == ReservedSize(At(d, off), off)
             u == Used(At(d, off))
         IN /\ off \in Nat /\ off \in DOMAIN d.record /\ d.size \in Nat
            /\ k \in Nat /\ u \in Nat /\ After(d, off) = off + k
            /\ Header < k /\ off + k <= MaxDirectorySize /\ u <= k
            /\ off + Header <= d.size /\ off + u <= d.size
            /\ At(d, off).last <=> off + k = MaxDirectorySize
<1>. PICK k : k = ReservedSize(At(d, off), off)
  OBVIOUS
<1>. PICK u : u = Used(At(d, off))
  OBVIOUS
<1>1. Placed(d, V, off) /\ DirType(d) /\ off \in 0..MaxDirectorySize
  BY DEF Tiles
<1>2. d.size \in Nat /\ off \in Nat
  BY <1>1, Constants DEF DirType
<1>3. k \in Int /\ u \in Nat
  BY <1>1, <1>2, Constants, RecordIs, UsedIs DEF ReservedSize
<1>4. After(d, off) = off + k
  BY DEF After
<1>5. /\ off \in DOMAIN d.record
      /\ off + Header < off + k /\ off + k <= MaxDirectorySize /\ u <= k
      /\ off + Header <= d.size /\ off + u <= d.size
      /\ At(d, off).last <=> off + k = MaxDirectorySize
  BY <1>1, <1>4 DEF Placed
<1>6. Header < k /\ k \in Nat
  BY <1>2, <1>3, <1>5, Constants
<1>. QED
  BY <1>2, <1>3, <1>4, <1>5, <1>6

(***************************************************************************)
(* Adding a name.  The record at off is split behind what it uses, at; if it *)
(* is free, nothing is left of it.                                          *)
(***************************************************************************)
Splits(d, V, w, off, at, n) ==
  /\ DirType(w)
  /\ d.size <= w.size /\ at + DirentSize(n) <= w.size /\ w.size <= d.size + DirentSize(n)
  /\ at \in DOMAIN w.record /\ At(w, at).name = n /\ After(w, at) = After(d, off)
  /\ At(w, at).last = At(d, off).last
  /\ at # off => /\ off \in DOMAIN w.record /\ At(w, off).name = At(d, off).name
                 /\ After(w, off) = at /\ At(w, off).last = FALSE
  /\ \A p \in V \ {off} : At(w, p) = At(d, p) /\ p \in DOMAIN w.record

LEMMA AppendSplits ==
  ASSUME NEW d, NEW V, Tiles(d, V), NEW off \in V, NEW n \in Name,
         DirentSize(n) <= Spare(At(d, off), off)
  PROVE  Splits(d, V, AppendDirent(d, off, n), off, off + Used(At(d, off)), n)
<1>. PICK r : r = At(d, off)
  OBVIOUS
<1>. PICK k : k = ReservedSize(r, off)
  OBVIOUS
<1>. PICK u : u = Used(r)
  OBVIOUS
<1>. PICK z : z = DirentSize(n)
  OBVIOUS
<1>. PICK w : w = AppendDirent(d, off, n)
  OBVIOUS
<1>1. DirType(d) /\ IsRecord(r)
  BY RecordIs DEF Tiles, IsRecord
<1>2. /\ off \in Nat /\ d.size \in Nat /\ k \in Nat /\ u \in Nat
      /\ off \in DOMAIN d.record /\ After(d, off) = off + k
      /\ Header < k /\ off + k <= MaxDirectorySize /\ u <= k
      /\ off + Header <= d.size /\ off + u <= d.size
      /\ r.last <=> off + k = MaxDirectorySize
  BY PlacedParts
<1>3. n \in Word /\ n # Free /\ n # Dot /\ n # DotDot
  BY DirentRecordsAssumption DEF Word
<1>4. z \in Nat /\ z > Header /\ z > 0
  BY <1>3, SizeOfName, Constants
<1>5. /\ r.name = Free <=> u = 0
      /\ r.name # Free => u > Header /\ u = DirentSize(r.name)
  BY <1>1, UsedIs DEF Used
<1>6. Spare(r, off) = k - u
  BY <1>2, <1>5 DEF Spare, Used
<1>7. z <= k - u /\ k - (k - u) = u
  BY <1>2, <1>6
<1>. PICK shrunk : shrunk = IF u = 0 THEN d ELSE Written(d, off, Record(r.name, u, FALSE), u)
  OBVIOUS
<1>. PICK new : new = Record(n, k - u, r.last)
  OBVIOUS
<1>8. w = Written(shrunk, off + u, new, z)
  BY <1>6, <1>7 DEF AppendDirent
<1>9. IsRecord(new) /\ new.name = n /\ new.last = r.last /\ (~r.last => new.reclen = k - u)
  BY <1>1, <1>2, <1>3 DEF Record, IsRecord
<1>10. \A p \in V \ {off} : p \in Nat /\ (p < off \/ off + k <= p) /\ p \in DOMAIN d.record
  <2>1. ASSUME NEW p \in V \ {off}
        PROVE  p \in Nat /\ (p < off \/ off + k <= p) /\ p \in DOMAIN d.record
    <3>1. p \in Nat /\ p \in DOMAIN d.record
      BY PlacedParts
    <3>2. p <= off \/ After(d, off) <= p
      BY PlacedIs
    <3>. QED
      BY <1>2, <3>1, <3>2
  <2>. QED
    BY <2>1
\* The record that is split.
<1>11. /\ DirType(shrunk) /\ shrunk.size = d.size
       /\ \A p \in V \ {off} : At(shrunk, p) = At(d, p) /\ p \in DOMAIN shrunk.record
       /\ u # 0 => off \in DOMAIN shrunk.record /\ At(shrunk, off) = Record(r.name, u, FALSE)
  <2>1. CASE u = 0
    BY <1>1, <1>10, <2>1
  <2>2. CASE u # 0
    <3>. PICK old : old = Record(r.name, u, FALSE)
      OBVIOUS
    <3>1. IsRecord(old)
      BY <1>1, <1>2 DEF Record, IsRecord
    <3>2. Wrote(d, shrunk, off, old, u)
      <4>1. shrunk = Written(d, off, old, u)
        BY <2>2
      <4>2. u \in Nat /\ u > 0 /\ off \in Nat
        BY <1>2, <2>2
      <4>. QED
        BY <1>1, <3>1, <4>1, <4>2, WrittenIs
    <3>3. /\ DirType(shrunk) /\ shrunk.size = IF off + u > d.size THEN off + u ELSE d.size
          /\ At(shrunk, off) = old /\ off \in DOMAIN shrunk.record
      BY <3>2 DEF Wrote
    <3>4. shrunk.size = d.size
      <4>1. ~(off + u > d.size)
        BY <1>2
      <4>. QED
        BY <3>3, <4>1
    <3>5. \A p \in V \ {off} : p < off \/ off + u <= p
      BY <1>2, <1>10
    <3>6. \A p \in V \ {off} : At(shrunk, p) = At(d, p) /\ p \in DOMAIN shrunk.record
      BY <1>10, <3>2, <3>5 DEF Wrote
    <3>. QED
      BY <3>3, <3>4, <3>6
  <2>. QED
    BY <2>1, <2>2
\* The new record.
<1>12. off + u \in Nat
  BY <1>2
<1>13. Wrote(shrunk, w, off + u, new, z)
  <2>. PICK at : at = off + u
    OBVIOUS
  <2>1. at \in Nat /\ z \in Nat /\ z > 0 /\ IsRecord(new) /\ DirType(shrunk)
    BY <1>4, <1>9, <1>11, <1>12
  <2>2. w = Written(shrunk, at, new, z)
    BY <1>8
  <2>3. Wrote(shrunk, w, at, new, z)
    BY ONLY <2>1, <2>2, WrittenIs
  <2>. QED
    BY <2>3
<1>14. /\ DirType(w) /\ w.size = IF off + u + z > d.size THEN off + u + z ELSE d.size
       /\ At(w, off + u) = new /\ off + u \in DOMAIN w.record
  BY <1>11, <1>13 DEF Wrote
<1>15. d.size <= w.size /\ off + u + z <= w.size /\ w.size <= d.size + z
  BY <1>2, <1>4, <1>14
<1>16. After(w, off + u) = After(d, off)
  <2>1. CASE r.last
    <3>1. At(w, off + u).last /\ off + k = MaxDirectorySize
      BY <1>2, <1>9, <1>14, <2>1
    <3>2. After(w, off + u) = off + u + (MaxDirectorySize - (off + u))
      BY <3>1 DEF After, ReservedSize
    <3>. QED
      BY <1>2, <3>1, <3>2, Constants
  <2>2. CASE ~r.last
    BY <1>2, <1>9, <1>14, <2>2, Constants DEF After, ReservedSize
  <2>. QED
    BY <2>1, <2>2
<1>17. \A p \in V \ {off} : At(w, p) = At(d, p) /\ p \in DOMAIN w.record
  <2>1. \A p \in V \ {off} : p < off + u \/ off + u + z <= p
    BY <1>2, <1>4, <1>7, <1>10
  <2>. QED
    BY <1>10, <1>11, <1>13, <2>1 DEF Wrote
<1>18. u # 0 => /\ off \in DOMAIN w.record /\ At(w, off).name = r.name
                /\ After(w, off) = off + u /\ At(w, off).last = FALSE
  <2>. SUFFICES ASSUME u # 0
                PROVE  /\ off \in DOMAIN w.record /\ At(w, off).name = r.name
                       /\ After(w, off) = off + u /\ At(w, off).last = FALSE
    OBVIOUS
  <2>1. off < off + u
    BY <1>2
  <2>2. At(w, off) = Record(r.name, u, FALSE) /\ off \in DOMAIN w.record
    BY <1>2, <1>11, <1>13, <2>1 DEF Wrote
  <2>. QED
    BY <2>2 DEF Record, After, ReservedSize
<1>19. off + u # off <=> u # 0
  BY <1>2
<1>. QED
  BY <1>9, <1>14, <1>15, <1>16, <1>17, <1>18, <1>19 DEF Splits

\* A record of a sound directory is one whose parts are in place.
LEMMA PlacedFrom ==
  ASSUME NEW w, DirType(w), NEW W, NEW p, p \in Nat, p \in DOMAIN w.record,
         p + Header < After(w, p), After(w, p) <= MaxDirectorySize,
         p + Used(At(w, p)) <= After(w, p),
         p + Header <= w.size, p + Used(At(w, p)) <= w.size,
         At(w, p).last <=> After(w, p) = MaxDirectorySize,
         After(w, p) \in W \/ After(w, p) = MaxDirectorySize,
         \A q \in W : q <= p \/ After(w, p) <= q,
         At(w, p).name = Free /\ After(w, p) \in W => At(w, After(w, p)).name # Free
  PROVE  Placed(w, W, p)
<1>1. ReservedSize(At(w, p), p) \in Int /\ Used(At(w, p)) \in Nat
  BY Constants, RecordIs, UsedIs DEF ReservedSize
<1>2. Used(At(w, p)) <= ReservedSize(At(w, p), p)
  BY <1>1 DEF After
<1>. QED
  BY <1>2 DEF Placed

LEMMA AppendTiles ==
  ASSUME NEW d, NEW V, Tiles(d, V), NEW off \in V, NEW n \in Name,
         DirentSize(n) <= Spare(At(d, off), off),
         NEW w, NEW at, at = off + Used(At(d, off)), Splits(d, V, w, off, at, n)
  PROVE  Tiles(w, V \union {at})
<1>. PICK W : W = V \union {at}
  OBVIOUS
<1>. PICK k : k = ReservedSize(At(d, off), off)
  OBVIOUS
<1>. PICK u : u = Used(At(d, off))
  OBVIOUS
<1>. PICK z : z = DirentSize(n)
  OBVIOUS
<1>1. /\ off \in Nat /\ d.size \in Nat /\ k \in Nat /\ u \in Nat
      /\ off \in DOMAIN d.record /\ After(d, off) = off + k
      /\ Header < k /\ off + k <= MaxDirectorySize /\ u <= k
      /\ off + Header <= d.size /\ off + u <= d.size
      /\ At(d, off).last <=> off + k = MaxDirectorySize
  BY PlacedParts
<1>2. /\ off + k \in V \union {MaxDirectorySize}
      /\ \A p \in V : p <= off \/ off + k <= p
  BY <1>1, PlacedIs
<1>3. n \in Word /\ n # Free /\ z \in Nat /\ z > Header
  BY SizeOfName, DirentRecordsAssumption DEF Word
<1>4. DirType(d) /\ V \subseteq 0..MaxDirectorySize /\ 0 \in V
  BY DEF Tiles
<1>5. At(d, off).name = Free <=> u = 0
  BY <1>4, UsedIs
<1>6. z <= k - u
  BY <1>1, <1>5 DEF Spare, Used
<1>7. at = off + u /\ at \in Nat /\ at + z <= off + k /\ at < off + k
  <2>1. at = off + u
    OBVIOUS
  <2>. QED
    BY <1>1, <1>3, <1>6, <2>1, Constants
<1>8. /\ DirType(w) /\ w.size \in Nat
      /\ d.size <= w.size /\ at + z <= w.size
      /\ at \in DOMAIN w.record /\ At(w, at).name = n /\ After(w, at) = off + k
      /\ At(w, at).last = At(d, off).last
  BY <1>1 DEF Splits, DirType
<1>9. Used(At(w, at)) = z
  BY <1>3, <1>8 DEF Used
<1>10. \A p \in V : p \in 0..MaxDirectorySize
  BY <1>4
<1>11. at \in 0..MaxDirectorySize
  BY <1>1, <1>7, Constants
<1>12. W \subseteq 0..MaxDirectorySize /\ 0 \in W
  BY <1>4, <1>11
\* The new record,
<1>13. Placed(w, W, at)
  <2>1. at + Header < off + k
    BY <1>1, <1>3, <1>7, Constants
  <2>2. at + Header <= w.size
    BY <1>3, <1>7, <1>8, Constants
  <2>3. \A q \in W : q <= at \/ off + k <= q
    <3>1. \A q \in V : q <= at \/ off + k <= q
      BY <1>1, <1>2, <1>7, <1>10
    <3>. QED
      BY <1>7, <3>1
  <2>. QED
    BY <1>1, <1>2, <1>3, <1>7, <1>8, <1>9, <2>1, <2>2, <2>3, PlacedFrom
\* what is left of the one that was split,
<1>14. ASSUME at # off
       PROVE  Placed(w, W, off)
  <2>1. u # 0 /\ u > Header /\ At(d, off).name # Free
    BY <1>4, <1>5, <1>7, <1>14, <1>1, UsedIs
  <2>2. /\ off \in DOMAIN w.record /\ At(w, off).name = At(d, off).name
        /\ After(w, off) = at /\ At(w, off).last = FALSE
    BY <1>14 DEF Splits
  <2>3. Used(At(w, off)) = u
    BY <2>2 DEF Used
  <2>4. off + Header < at /\ at <= MaxDirectorySize /\ at # MaxDirectorySize
    BY <1>1, <1>7, <2>1, Constants
  <2>5. off + Header <= w.size /\ off + u <= w.size
    BY <1>1, <1>8, Constants
  <2>6. \A q \in W : q <= off \/ at <= q
    <3>1. \A q \in V : q <= off \/ at <= q
      BY <1>1, <1>2, <1>7, <1>10
    <3>. QED
      BY <1>7, <3>1
  <2>7. off + u <= at
    BY <1>7
  <2>. QED
    BY <1>1, <1>8, <2>1, <2>2, <2>3, <2>4, <2>5, <2>6, <2>7, PlacedFrom
\* and the others, one of which may lead to it.
<1>15. ASSUME NEW p \in V \ {off}
       PROVE  Placed(w, W, p)
  <2>1. At(w, p) = At(d, p) /\ p \in DOMAIN w.record
    BY DEF Splits
  <2>2. After(w, p) = After(d, p)
    BY <2>1 DEF After
  <2>. PICK a : a = After(d, p)
    OBVIOUS
  <2>. PICK t : t = Used(At(d, p))
    OBVIOUS
  <2>3. /\ p \in Nat /\ a \in Nat /\ t \in Nat /\ p + Header < a /\ a <= MaxDirectorySize
        /\ p + t <= a /\ p + Header <= d.size /\ p + t <= d.size
        /\ At(d, p).last <=> a = MaxDirectorySize
    BY PlacedParts, Constants
  <2>4. a \in V \/ a = MaxDirectorySize
    BY PlacedIs
  <2>5. \A q \in V : q <= p \/ a <= q
    BY PlacedIs
  <2>6. at <= p \/ a <= at
    <3>1. CASE p < off
      BY <1>1, <1>7, <2>3, <2>5, <3>1
    <3>2. CASE off < p
      BY <1>1, <1>2, <1>7, <2>3, <3>2
    <3>. QED
      BY <1>1, <2>3, <3>1, <3>2
  <2>7. \A q \in W : q <= p \/ a <= q
    BY <2>5, <2>6
  <2>8. p + Header <= w.size /\ p + t <= w.size
    BY <1>1, <1>8, <2>3, Constants
  <2>9. At(d, p).name = Free /\ a \in W => At(w, a).name # Free
    <3>1. SUFFICES ASSUME At(d, p).name = Free, a \in W
                   PROVE  At(w, a).name # Free
      OBVIOUS
    <3>2. CASE a = at
      BY <1>3, <1>8, <3>2
    <3>3. CASE a # at
      <4>1. a \in V
        BY <3>1, <3>3
      <4>2. Placed(d, V, p)
        BY DEF Tiles
      <4>3. At(d, a).name # Free
        BY <3>1, <4>1, <4>2 DEF Placed
      <4>4. CASE a = off
        <5>1. At(w, off).name = At(d, off).name
          BY <3>3, <4>4 DEF Splits
        <5>. QED
          BY <4>3, <4>4, <5>1
      <4>5. CASE a # off
        <5>1. At(w, a) = At(d, a)
          BY <4>1, <4>5 DEF Splits
        <5>. QED
          BY <4>3, <5>1
      <4>. QED
        BY <4>4, <4>5
    <3>. QED
      BY <3>2, <3>3
  <2>10. a \in W \/ a = MaxDirectorySize
    BY <2>4
  <2>. QED
    BY <1>8, <2>1, <2>2, <2>3, <2>7, <2>8, <2>9, <2>10, PlacedFrom
<1>16. \A p \in W : Placed(w, W, p)
  BY <1>13, <1>14, <1>15
<1>. QED
  BY <1>8, <1>12, <1>16 DEF Tiles

LEMMA AppendEntries ==
  ASSUME NEW d, NEW V, Tiles(d, V), NEW off \in V, NEW n \in Name,
         NEW w, NEW at, at = off + Used(At(d, off)), Splits(d, V, w, off, at, n),
         Tiles(w, V \union {at})
  PROVE  /\ Entries(w, V \union {at}) = Entries(d, V) \union {<<at, n>>}
         /\ \A e \in Entries(d, V) : e[1] # at
<1>. PICK W : W = V \union {at}
  OBVIOUS
<1>1. DirType(d) /\ off \in Nat /\ Used(At(d, off)) \in Nat
  BY PlacedParts, UsedIs DEF Tiles
<1>2. n \in Word \ {Free} /\ At(w, at).name = n
  BY DirentRecordsAssumption DEF Word, Splits
<1>3. at = off <=> At(d, off).name = Free
  BY <1>1, UsedIs
<1>4. at \in V => at = off
  <2>. SUFFICES ASSUME at \in V, at # off PROVE FALSE
    OBVIOUS
  <2>1. off < at
    BY <1>1
  <2>2. After(d, off) <= at /\ After(d, off) \in Nat /\ at \in Nat
    BY <1>1, <2>1, PlacedIs
  <2>3. at \in W /\ After(w, at) = After(d, off)
    BY DEF Splits
  <2>4. at + Header < After(d, off)
    BY <2>3, PlacedIs
  <2>. QED
    BY <2>2, <2>4, Constants
<1>5. \A p \in V : p # at => At(w, p).name = At(d, p).name
  <2>1. at # off => At(w, off).name = At(d, off).name
    BY DEF Splits
  <2>2. \A p \in V \ {off} : At(w, p) = At(d, p)
    BY DEF Splits
  <2>. QED
    BY <2>1, <2>2
<1>6. at \in V => At(d, at).name = Free
  BY <1>3, <1>4
<1>7. \A e \in Entries(d, V) : e[1] # at
  BY <1>6, EntryIs
<1>8. Entries(w, W) \subseteq Entries(d, V) \union {<<at, n>>}
  <2>1. ASSUME NEW e \in Entries(w, W)
        PROVE  e \in Entries(d, V) \union {<<at, n>>}
    <3>1. e[1] \in W /\ e[2] \in Word \ {Free} /\ At(w, e[1]).name = e[2] /\ e = <<e[1], e[2]>>
      BY EntryIs
    <3>2. CASE e[1] = at
      BY <1>2, <3>1, <3>2
    <3>3. CASE e[1] # at
      <4>1. e[1] \in V /\ At(d, e[1]).name = e[2]
        BY <1>5, <3>1, <3>3
      <4>2. e \in V \X (Word \ {Free})
        BY <3>1, <4>1
      <4>. QED
        BY <4>1, <4>2 DEF Entries
    <3>. QED
      BY <3>2, <3>3
  <2>. QED
    BY <2>1
<1>9. Entries(d, V) \subseteq Entries(w, W)
  <2>1. ASSUME NEW e \in Entries(d, V)
        PROVE  e \in Entries(w, W)
    <3>1. e[1] \in V /\ e[2] \in Word \ {Free} /\ At(d, e[1]).name = e[2] /\ e = <<e[1], e[2]>>
      BY EntryIs
    <3>2. At(w, e[1]).name = e[2]
      BY <1>5, <1>7, <3>1
    <3>3. e \in W \X (Word \ {Free})
      BY <3>1
    <3>. QED
      BY <3>2, <3>3 DEF Entries
  <2>. QED
    BY <2>1
<1>10. <<at, n>> \in Entries(w, W)
  <2>1. <<at, n>> \in W \X (Word \ {Free})
    BY <1>2
  <2>. QED
    BY <1>2, <2>1 DEF Entries
<1>. QED
  BY <1>7, <1>8, <1>9, <1>10

(***************************************************************************)
(* Removing a name.  Its record and the free ones beside it become one, from *)
(* start to end.                                                            *)
(***************************************************************************)
LEMMA PreviousIs ==
  ASSUME NEW d, NEW V, Tiles(d, V), NEW off \in V
  PROVE  LET q == Previous(d, off) IN
         \/ q = off /\ \A p \in V : off <= p
         \/ q \in V /\ q < off /\ After(d, q) = off
<1>. PICK q : q = Previous(d, off)
  OBVIOUS
<1>. DEFINE before == {o \in V : o < off}
<1>1. Visited(d) = V
  BY VisitedIs
<1>2. q = IF before = {} THEN off ELSE CHOOSE x \in before : \A y \in before : y <= x
  BY <1>1 DEF Previous
<1>3. off \in Nat /\ \A p \in V : p \in 0..MaxDirectorySize
  BY PlacedIs DEF Tiles
<1>4. CASE before = {}
  BY <1>2, <1>3, <1>4
<1>5. CASE before # {}
  <2>1. before \in SUBSET (0..MaxDirectorySize)
    BY <1>3
  <2>. HIDE DEF before
  <2>2. \E x \in before : \A y \in before : y <= x
    BY <1>5, <2>1, Constants, GreatestOf
  <2>3. q \in before /\ \A y \in before : y <= q
    BY <1>2, <1>5, <2>2
  <2>4. q \in V /\ q < off /\ \A p \in V : p < off => p <= q
    BY <2>3 DEF before
  <2>. PICK a : a = After(d, q)
    OBVIOUS
  <2>5. /\ a \in Nat /\ q < a /\ a \in V \union {MaxDirectorySize} /\ a <= MaxDirectorySize
        /\ \A p \in V : p <= q \/ a <= p
    BY <2>4, PlacedIs, Constants
  <2>6. q \in Nat /\ a <= off
    BY <1>3, <2>4, <2>5, Constants
  <2>7. a \in V
    <3>1. off + Header < MaxDirectorySize
      BY PlacedIs
    <3>. QED
      BY <1>3, <2>5, <2>6, <3>1, Constants
  <2>8. ~(a < off)
    BY <2>4, <2>5, <2>6, <2>7
  <2>9. a = off
    BY <1>3, <2>5, <2>6, <2>8
  <2>. QED
    BY <2>4, <2>9
<1>. QED
  BY <1>4, <1>5

Merges(d, V, off, start, end, last) ==
  /\ start \in V /\ start <= off /\ end \in V \union {MaxDirectorySize}
  /\ After(d, off) <= end /\ end <= MaxDirectorySize
  /\ last <=> end = MaxDirectorySize
  /\ start # off => At(d, start).name = Free
  /\ \A p \in V : start < p /\ p < end => p = off \/ At(d, p).name = Free
  /\ end \in V => At(d, end).name # Free
  /\ \A p \in V : After(d, p) = start => At(d, p).name # Free
  /\ last \in BOOLEAN

LEMMA UnlinkMerges ==
  ASSUME NEW d, NEW V, Tiles(d, V), NEW off \in V, At(d, off).name # Free,
         NEW next, next = At(d, After(d, off)),
         NEW merges, merges = (~At(d, off).last /\ next.name = Free),
         NEW start, start = IF MergesPrevious(d, off) THEN Previous(d, off) ELSE off,
         NEW end, end = IF merges THEN After(d, After(d, off)) ELSE After(d, off),
         NEW last, last = IF merges THEN LastIfMerged(At(d, off), next) ELSE At(d, off).last
  PROVE  Merges(d, V, off, start, end, last)
<1>. PICK b : b = After(d, off)
  OBVIOUS
<1>0. DirType(d)
  BY DEF Tiles
<1>1. /\ off \in Nat /\ b \in Nat /\ off + Header < b /\ b <= MaxDirectorySize
      /\ b \in V \union {MaxDirectorySize}
      /\ \A p \in V : p <= off \/ b <= p
  BY PlacedIs
<1>2. At(d, off).last <=> b = MaxDirectorySize
  BY PlacedParts
<1>3. \A p \in V : p \in Nat /\ p + Header < MaxDirectorySize
  BY PlacedIs
<1>4. MaxDirectorySize \notin V
  BY <1>3, Constants
<1>5. At(d, off).last \in BOOLEAN /\ next.last \in BOOLEAN
  BY <1>0, RecordIs
\* Behind it.
<1>6. /\ end \in V \union {MaxDirectorySize} /\ b <= end /\ end <= MaxDirectorySize
      /\ last <=> end = MaxDirectorySize
      /\ last \in BOOLEAN
      /\ end \in V => At(d, end).name # Free
      /\ \A p \in V : off < p /\ p < end => At(d, p).name = Free
  <2>1. CASE merges
    <3>1. b \in V /\ At(d, b).name = Free
      BY <1>1, <1>2, <2>1
    <3>2. /\ end \in Nat /\ b + Header < end /\ end <= MaxDirectorySize
          /\ end \in V \union {MaxDirectorySize}
          /\ \A p \in V : p <= b \/ end <= p
      BY <2>1, <3>1, PlacedIs
    <3>3. At(d, b).last <=> end = MaxDirectorySize
      BY <2>1, <3>1, PlacedParts
    <3>4. last = next.last
      BY <1>5, <2>1 DEF LastIfMerged
    <3>5. end \in V => At(d, end).name # Free
      <4>1. Placed(d, V, b)
        BY <3>1 DEF Tiles
      <4>. QED
        BY <2>1, <3>1, <4>1 DEF Placed
    <3>6. ASSUME NEW p \in V, off < p, p < end
          PROVE  At(d, p).name = Free
      <4>1. p = b
        BY <1>1, <1>3, <3>2, <3>6
      <4>. QED
        BY <3>1, <4>1
    <3>7. b <= end
      BY <1>1, <3>2, Constants
    <3>. QED
      BY <1>5, <3>2, <3>3, <3>4, <3>5, <3>6, <3>7
  <2>2. CASE ~merges
    <3>1. end = b /\ last = At(d, off).last
      BY <2>2
    <3>2. b \in V => At(d, b).name # Free
      BY <1>2, <1>4, <2>2
    <3>3. \A p \in V : ~(off < p /\ p < b)
      BY <1>1, <1>3
    <3>. QED
      BY <1>1, <1>2, <1>5, <3>1, <3>2, <3>3
  <2>. QED
    BY <2>1, <2>2
\* Before it.
<1>. PICK q : q = Previous(d, off)
  OBVIOUS
<1>7. \/ q = off /\ \A p \in V : off <= p
      \/ q \in V /\ q < off /\ After(d, q) = off
  BY PreviousIs
<1>8. CASE MergesPrevious(d, off)
  <2>1. start = q /\ q # off /\ At(d, q).name = Free /\ q \in V /\ q < off /\ After(d, q) = off
    BY <1>7, <1>8 DEF MergesPrevious
  <2>2. \A p \in V : p <= q \/ off <= p
    BY <2>1, PlacedIs
  <2>3. \A p \in V : q < p /\ p < end => p = off \/ At(d, p).name = Free
    BY <1>1, <1>3, <1>6, <2>1, <2>2
  <2>4. ASSUME NEW p \in V, After(d, p) = q
        PROVE  At(d, p).name # Free
    <3>1. Placed(d, V, p)
      BY DEF Tiles
    <3>. QED
      BY <2>1, <2>4, <3>1 DEF Placed
  <2>5. q <= off
    BY <1>1, <1>3, <2>1
  <2>. QED
    BY <1>6, <2>1, <2>3, <2>4, <2>5 DEF Merges
<1>9. CASE ~MergesPrevious(d, off)
  <2>1. start = off
    BY <1>9
  <2>2. ASSUME NEW p \in V, After(d, p) = off
        PROVE  At(d, p).name # Free
    <3>1. p < off /\ p \in Nat
      BY <1>1, <2>2, PlacedIs, Constants
    <3>2. q \in V /\ q < off /\ After(d, q) = off
      BY <1>1, <1>7, <3>1
    <3>3. q <= p \/ off <= q
      BY <2>2, <3>2, PlacedIs
    <3>4. p <= q \/ off <= p
      BY <3>2, PlacedIs
    <3>5. p = q
      BY <1>1, <1>3, <3>1, <3>2, <3>3, <3>4
    <3>. QED
      BY <1>9, <3>2, <3>5 DEF MergesPrevious
  <2>3. off <= off
    BY <1>1
  <2>. QED
    BY <1>6, <2>1, <2>2, <2>3 DEF Merges
<1>. QED
  BY <1>8, <1>9

KeptBy(V, start, end) == {p \in V : p <= start \/ end <= p}

Joins(d, V, w, start, end, last) ==
  /\ DirType(w) /\ w.size <= d.size /\ start + Header <= w.size /\ (~last => w.size = d.size)
  /\ start \in DOMAIN w.record /\ At(w, start).name = Free /\ After(w, start) = end
  /\ At(w, start).last = last
  /\ \A p \in KeptBy(V, start, end) \ {start} : At(w, p) = At(d, p) /\ p \in DOMAIN w.record

LEMMA UnlinkJoins ==
  ASSUME NEW d, NEW V, Tiles(d, V), NEW off \in V, NEW start, NEW end, NEW last,
         Merges(d, V, off, start, end, last),
         NEW e, e = Written(d, start, Record(Free, end - start, last), Header),
         NEW w, w = IF last THEN CutUnused(e, start) ELSE e
  PROVE  Joins(d, V, w, start, end, last)
<1>. PICK r : r = Record(Free, end - start, last)
  OBVIOUS
<1>1. /\ start \in V /\ start <= off /\ end \in V \union {MaxDirectorySize}
      /\ After(d, off) <= end /\ end <= MaxDirectorySize
      /\ last <=> end = MaxDirectorySize
      /\ last \in BOOLEAN
  BY DEF Merges
<1>2. \A p \in V : p \in Nat /\ p \in DOMAIN d.record /\ p + Header < MaxDirectorySize
  BY PlacedIs, PlacedParts
<1>3. start \in Nat /\ off \in Nat /\ end \in Nat
  BY <1>1, <1>2, Constants
<1>4. off + Header < end
  <2>1. After(d, off) \in Nat /\ off + Header < After(d, off)
    BY PlacedIs
  <2>. QED
    BY <1>1, <1>3, <2>1, Constants
<1>5. end - start \in Nat /\ start + Header < end
  BY <1>1, <1>3, <1>4, Constants
<1>6. IsRecord(r) /\ r.name = Free /\ r.last = last /\ (~last => r.reclen = end - start)
  BY <1>1, <1>5 DEF IsRecord, Record, Word
<1>7. DirType(d) /\ d.size \in Nat /\ start + Header <= d.size
  BY <1>1, PlacedParts DEF Tiles
<1>8. Wrote(d, e, start, r, Header)
  BY <1>3, <1>6, <1>7, Constants, WrittenIs
<1>9. /\ DirType(e) /\ At(e, start) = r /\ start \in DOMAIN e.record
      /\ e.size = IF start + Header > d.size THEN start + Header ELSE d.size
  BY <1>8 DEF Wrote
<1>10. e.size = d.size
  <2>1. ~(start + Header > d.size)
    BY <1>3, <1>7, Constants
  <2>. QED
    BY <1>9, <2>1
<1>11. \A p \in KeptBy(V, start, end) \ {start} : p \in V /\ (p < start \/ start + Header <= p)
  BY <1>2, <1>3, <1>5, Constants DEF KeptBy
<1>12. \A p \in KeptBy(V, start, end) \ {start} : At(e, p) = At(d, p) /\ p \in DOMAIN e.record
  BY <1>2, <1>8, <1>11 DEF Wrote
<1>13. start + (end - start) = end
  BY <1>3
<1>14. CASE ~last
  <2>1. After(e, start) = end
    BY <1>6, <1>9, <1>13, <1>14 DEF After, ReservedSize
  <2>. QED
    BY <1>6, <1>7, <1>9, <1>10, <1>12, <1>14, <2>1 DEF Joins
<1>15. CASE last
  <2>. PICK len \in Nat : len = start + Header
    BY <1>3, Constants
  <2>1. w = Truncated(e, len)
    BY <1>15 DEF CutUnused
  <2>2. /\ DirType(w) /\ w.size = len
        /\ \A p \in Nat : p < len => At(w, p) = At(e, p) /\ (p \in DOMAIN e.record => p \in DOMAIN w.record)
    BY <1>9, <2>1, TruncatedIs
  <2>3. \A p \in KeptBy(V, start, end) : p < len /\ p \in Nat
    <3>1. ASSUME NEW p \in KeptBy(V, start, end)
          PROVE  p < len /\ p \in Nat
      <4>1. p \in V /\ p \in Nat /\ (p <= start \/ end <= p) /\ p + Header < end
        BY <1>1, <1>2, <1>15 DEF KeptBy
      <4>2. p <= start
        BY <1>3, <4>1, Constants
      <4>. QED
        BY <1>3, <4>1, <4>2, Constants
    <3>. QED
      BY <3>1
  <2>4. start < len
    BY <1>3, Constants
  <2>5. At(w, start) = r /\ start \in DOMAIN w.record
    BY <1>3, <1>9, <2>2, <2>4
  <2>6. After(w, start) = end
    <3>1. After(w, start) = start + (MaxDirectorySize - start)
      BY <1>6, <1>15, <2>5 DEF After, ReservedSize
    <3>2. end = MaxDirectorySize
      BY <1>1, <1>15
    <3>. QED
      BY <1>3, <3>1, <3>2, Constants
  <2>7. w.size <= d.size /\ start + Header <= w.size
    BY <1>3, <1>7, <2>2, Constants
  <2>8. \A p \in KeptBy(V, start, end) \ {start} : At(w, p) = At(d, p) /\ p \in DOMAIN w.record
    BY <1>12, <2>2, <2>3
  <2>. QED
    BY <1>6, <1>15, <2>2, <2>5, <2>6, <2>7, <2>8 DEF Joins
<1>. QED
  BY <1>1, <1>14, <1>15

LEMMA UnlinkTiles ==
  ASSUME NEW d, NEW V, Tiles(d, V), NEW off \in V, NEW start, NEW end, NEW last,
         Merges(d, V, off, start, end, last), NEW w, Joins(d, V, w, start, end, last)
  PROVE  Tiles(w, KeptBy(V, start, end))
<1>. PICK W : W = KeptBy(V, start, end)
  OBVIOUS
<1>1. /\ start \in V /\ start <= off /\ end \in V \union {MaxDirectorySize}
      /\ After(d, off) <= end /\ end <= MaxDirectorySize
      /\ last <=> end = MaxDirectorySize
      /\ last \in BOOLEAN
      /\ end \in V => At(d, end).name # Free
      /\ \A p \in V : After(d, p) = start => At(d, p).name # Free
  BY DEF Merges
<1>2. \A p \in V : p \in Nat /\ p + Header < MaxDirectorySize
  BY PlacedIs
<1>3. start \in Nat /\ off \in Nat /\ end \in Nat
  BY <1>1, <1>2, Constants
<1>4. start + Header < end
  <2>1. After(d, off) \in Nat /\ off + Header < After(d, off)
    BY PlacedIs
  <2>. QED
    BY <1>1, <1>3, <2>1, Constants
<1>5. /\ DirType(w) /\ w.size \in Nat /\ d.size \in Nat
      /\ start + Header <= w.size /\ (~last => w.size = d.size)
      /\ start \in DOMAIN w.record /\ At(w, start).name = Free /\ After(w, start) = end
      /\ At(w, start).last = last
  BY DEF Joins, DirType, Tiles
<1>6. \A p \in W : p \in V /\ (p <= start \/ end <= p)
  BY DEF KeptBy
<1>7. start \in W /\ (end \in V => end \in W)
  BY <1>1, <1>3 DEF KeptBy
<1>8. V \subseteq 0..MaxDirectorySize /\ 0 \in V
  BY DEF Tiles
<1>9. W \subseteq 0..MaxDirectorySize /\ 0 \in W
  <2>1. W \subseteq V
    BY <1>6
  <2>2. 0 <= start
    BY <1>3
  <2>3. 0 \in W
    BY <1>8, <2>2 DEF KeptBy
  <2>. QED
    BY <1>8, <2>1, <2>3
<1>10. Placed(w, W, start)
  <2>1. Used(At(w, start)) = 0
    BY <1>5 DEF Used
  <2>2. \A q \in W : q <= start \/ end <= q
    BY <1>6
  <2>3. end \in W => At(w, end).name # Free
    <3>1. SUFFICES ASSUME end \in W PROVE At(w, end).name # Free
      OBVIOUS
    <3>2. end # start
      BY <1>3, <1>4, Constants
    <3>3. At(w, end) = At(d, end)
      BY <3>1, <3>2 DEF Joins
    <3>. QED
      BY <1>1, <1>6, <3>1, <3>3
  <2>4. start + 0 <= end /\ start + 0 <= w.size
    BY <1>3, <1>4, <1>5, Constants
  <2>. QED
    BY <1>1, <1>3, <1>4, <1>5, <1>7, <2>1, <2>2, <2>3, <2>4, PlacedFrom
<1>11. ASSUME NEW p \in W \ {start}
       PROVE  Placed(w, W, p)
  <2>1. At(w, p) = At(d, p) /\ p \in DOMAIN w.record
    BY DEF Joins
  <2>2. After(w, p) = After(d, p)
    BY <2>1 DEF After
  <2>. PICK a : a = After(d, p)
    OBVIOUS
  <2>. PICK t : t = Used(At(d, p))
    OBVIOUS
  <2>0. p \in V /\ (p <= start \/ end <= p)
    BY <1>6
  <2>3. /\ p \in Nat /\ a \in Nat /\ t \in Nat /\ p + Header < a /\ a <= MaxDirectorySize
        /\ p + t <= a /\ p + Header <= d.size /\ p + t <= d.size
        /\ At(d, p).last <=> a = MaxDirectorySize
    BY <2>0, PlacedParts, Constants
  <2>4. a \in V \union {MaxDirectorySize} /\ \A q \in V : q <= p \/ a <= q
    BY <2>0, PlacedIs
  <2>5. p < start => a <= start
    BY <1>1, <1>3, <2>3, <2>4
  <2>6. a <= start \/ end <= a
    BY <1>3, <2>0, <2>3, <2>5, Constants
  <2>7. a \in W \/ a = MaxDirectorySize
    BY <2>4, <2>6 DEF KeptBy
  <2>8. \A q \in W : q <= p \/ a <= q
    BY <1>6, <2>4
  <2>9. p + Header <= w.size /\ p + t <= w.size
    <3>1. CASE last
      <4>1. p <= start
        BY <1>1, <1>2, <2>0, <2>3, <3>1, Constants
      <4>2. a <= start
        BY <1>3, <2>3, <2>5, <4>1
      <4>. QED
        BY <1>3, <1>5, <2>3, <4>2, Constants
    <3>2. CASE ~last
      BY <1>5, <2>3, <3>2
    <3>. QED
      BY <1>1, <3>1, <3>2
  <2>10. At(d, p).name = Free /\ a \in W => At(w, a).name # Free
    <3>1. SUFFICES ASSUME At(d, p).name = Free, a \in W PROVE At(w, a).name # Free
      OBVIOUS
    <3>2. a # start
      BY <1>1, <2>0, <3>1
    <3>3. At(w, a) = At(d, a)
      BY <3>1, <3>2 DEF Joins
    <3>4. Placed(d, V, p) /\ a \in V
      BY <1>6, <2>0, <3>1 DEF Tiles
    <3>. QED
      BY <3>1, <3>3, <3>4 DEF Placed
  <2>. QED
    BY <1>5, <2>1, <2>2, <2>3, <2>7, <2>8, <2>9, <2>10, PlacedFrom
<1>12. \A p \in W : Placed(w, W, p)
  BY <1>10, <1>11
<1>. QED
  BY <1>5, <1>9, <1>12 DEF Tiles

LEMMA UnlinkEntries ==
  ASSUME NEW d, NEW V, Tiles(d, V), NEW off \in V, NEW start, NEW end, NEW last,
         At(d, off).name # Free,
         Merges(d, V, off, start, end, last), NEW w, Joins(d, V, w, start, end, last),
         Tiles(w, KeptBy(V, start, end))
  PROVE  Entries(w, KeptBy(V, start, end)) = Entries(d, V) \ {<<off, At(d, off).name>>}
<1>. PICK W : W = KeptBy(V, start, end)
  OBVIOUS
<1>1. /\ start \in V /\ start <= off /\ After(d, off) <= end
      /\ end \in V \union {MaxDirectorySize}
      /\ start # off => At(d, start).name = Free
      /\ \A p \in V : start < p /\ p < end => p = off \/ At(d, p).name = Free
  BY DEF Merges
<1>2. \A p \in V : p \in Nat
  BY PlacedIs
<1>3. off < end /\ end \in Nat
  <2>1. After(d, off) \in Nat /\ off + Header < After(d, off) /\ end \in Nat
    BY <1>1, <1>2, PlacedIs, Constants
  <2>. QED
    BY <1>1, <1>2, <2>1, Constants
<1>4. At(w, start).name = Free
  BY DEF Joins
<1>5. \A p \in W \ {start} : p \in V /\ At(w, p) = At(d, p) /\ p # off
  <2>1. \A p \in W : p \in V /\ (p <= start \/ end <= p)
    BY DEF KeptBy
  <2>2. off \in W => off = start
    BY <1>1, <1>2, <1>3, <2>1
  <2>. QED
    BY <2>1, <2>2 DEF Joins
<1>6. \A p \in V : At(d, p).name # Free /\ p # off => p \in W \ {start}
  <2>1. ASSUME NEW p \in V, At(d, p).name # Free, p # off
        PROVE  p \in W \ {start}
    <3>1. p # start
      BY <1>1, <2>1
    <3>2. ~(start < p /\ p < end)
      BY <1>1, <2>1
    <3>3. p <= start \/ end <= p
      BY <1>1, <1>2, <1>3, <3>2
    <3>. QED
      BY <3>1, <3>3 DEF KeptBy
  <2>. QED
    BY <2>1
<1>7. ASSUME NEW e \in Entries(w, W)
      PROVE  e \in Entries(d, V) /\ e # <<off, At(d, off).name>>
  <2>1. e[1] \in W /\ e[2] \in Word \ {Free} /\ At(w, e[1]).name = e[2] /\ e = <<e[1], e[2]>>
    BY EntryIs
  <2>2. e[1] \in W \ {start}
    BY <1>4, <2>1
  <2>3. e[1] \in V /\ At(d, e[1]).name = e[2] /\ e[1] # off
    BY <1>5, <2>1, <2>2
  <2>4. e \in V \X (Word \ {Free})
    BY <2>1, <2>3
  <2>. QED
    BY <2>3, <2>4 DEF Entries
<1>8. ASSUME NEW e \in Entries(d, V), e # <<off, At(d, off).name>>
      PROVE  e \in Entries(w, W)
  <2>1. e[1] \in V /\ e[2] \in Word \ {Free} /\ At(d, e[1]).name = e[2] /\ e = <<e[1], e[2]>>
    BY EntryIs
  <2>2. e[1] # off
    BY <1>8, <2>1
  <2>3. e[1] \in W \ {start}
    BY <1>6, <2>1, <2>2
  <2>4. At(w, e[1]).name = e[2]
    BY <1>5, <2>1, <2>3
  <2>5. e \in W \X (Word \ {Free})
    BY <2>1, <2>3
  <2>. QED
    BY <2>4, <2>5 DEF Entries
<1>. QED
  BY <1>7, <1>8

(***************************************************************************)
(* What the operations on names come to.                                    *)
(***************************************************************************)
LEMMA FirstOf ==
  ASSUME NEW d, NEW V, Tiles(d, V), NEW S \in SUBSET V, S # {}
  PROVE  First(S) \in S
<1>1. S \in SUBSET Nat
  BY PlacedIs
<1>2. \E x \in S : \A y \in S : x <= y
  BY <1>1, LeastOf
<1>. QED
  BY <1>2 DEF First

\* A name that is looked for is found exactly where an entry says so.
LEMMA MatchingIs ==
  ASSUME NEW d, NEW V, Tiles(d, V), NEW n \in Name
  PROVE  \A off : off \in Matching(d, n) <=> off \in V /\ <<off, n>> \in Entries(d, V)
<1>1. Visited(d) = V
  BY VisitedIs
<1>2. n \in Word \ {Free}
  BY DirentRecordsAssumption DEF Word
<1>3. ASSUME NEW off
      PROVE  off \in Matching(d, n) <=> off \in V /\ <<off, n>> \in Entries(d, V)
  <2>1. off \in Matching(d, n) <=> off \in V /\ At(d, off).name = n
    BY <1>1 DEF Matching
  <2>2. off \in V => <<off, n>> \in V \X (Word \ {Free})
    BY <1>2
  <2>3. off \in V => (<<off, n>> \in Entries(d, V) <=> At(d, off).name = n)
    BY <2>2 DEF Entries
  <2>. QED
    BY <2>1, <2>3
<1>. QED
  BY <1>3

IsAdded(d, w, n) ==
  /\ Tiles(w, Visited(w)) /\ w.size \in Nat
  /\ d.size <= w.size /\ w.size <= d.size + DirentSize(n)
  /\ \E at : /\ Entries(w, Visited(w)) = Entries(d, Visited(d)) \union {<<at, n>>}
             /\ \A e \in Entries(d, Visited(d)) : e[1] # at

IsRemoved(d, w, n) ==
  /\ Tiles(w, Visited(w))
  /\ \E off : /\ <<off, n>> \in Entries(d, Visited(d))
              /\ Entries(w, Visited(w)) = Entries(d, Visited(d)) \ {<<off, n>>}

LEMMA AppendIs ==
  ASSUME NEW d, NEW V, Tiles(d, V), NEW n \in Name, WithSpace(d, n) # {}
  PROVE  IsAdded(d, AppendDirent(d, First(WithSpace(d, n)), n), n)
<1>1. Visited(d) = V
  BY VisitedIs
<1>2. WithSpace(d, n) \in SUBSET V
  BY <1>1 DEF WithSpace
<1>. PICK off : off = First(WithSpace(d, n))
  OBVIOUS
<1>3. off \in V /\ DirentSize(n) <= Spare(At(d, off), off)
  <2>1. off \in WithSpace(d, n)
    BY <1>2, FirstOf
  <2>. QED
    BY <1>1, <2>1 DEF WithSpace
<1>. PICK w : w = AppendDirent(d, off, n)
  OBVIOUS
<1>. PICK at : at = off + Used(At(d, off))
  OBVIOUS
<1>4. Splits(d, V, w, off, at, n)
  BY <1>3, AppendSplits
<1>5. Tiles(w, V \union {at})
  BY <1>3, <1>4, AppendTiles
<1>6. /\ Entries(w, V \union {at}) = Entries(d, V) \union {<<at, n>>}
      /\ \A e \in Entries(d, V) : e[1] # at
  BY <1>3, <1>4, <1>5, AppendEntries
<1>7. Visited(w) = V \union {at}
  BY <1>5, VisitedIs
<1>8. w.size \in Nat /\ d.size <= w.size /\ w.size <= d.size + DirentSize(n)
  BY <1>4 DEF Splits, DirType
<1>. QED
  BY <1>1, <1>5, <1>6, <1>7, <1>8 DEF IsAdded

LEMMA UnlinkIs ==
  ASSUME NEW d, NEW V, Tiles(d, V), NEW n \in Name, Matching(d, n) # {}
  PROVE  IsRemoved(d, UnlinkChild(d, First(Matching(d, n))), n)
<1>1. Visited(d) = V
  BY VisitedIs
<1>2. Matching(d, n) \in SUBSET V
  BY <1>1 DEF Matching
<1>. PICK off : off = First(Matching(d, n))
  OBVIOUS
<1>3. off \in V /\ At(d, off).name = n /\ <<off, n>> \in Entries(d, V)
  <2>1. off \in Matching(d, n)
    BY <1>2, FirstOf
  <2>. QED
    BY <1>1, <2>1, MatchingIs DEF Matching
<1>4. n # Free
  BY DirentRecordsAssumption
<1>. PICK w : w = UnlinkChild(d, off)
  OBVIOUS
<1>. PICK next : next = At(d, After(d, off))
  OBVIOUS
<1>. PICK merges : merges = (~At(d, off).last /\ next.name = Free)
  OBVIOUS
<1>. PICK start : start = IF MergesPrevious(d, off) THEN Previous(d, off) ELSE off
  OBVIOUS
<1>. PICK end : end = IF merges THEN After(d, After(d, off)) ELSE After(d, off)
  OBVIOUS
<1>. PICK last : last = IF merges THEN LastIfMerged(At(d, off), next) ELSE At(d, off).last
  OBVIOUS
<1>. PICK e : e = Written(d, start, Record(Free, end - start, last), Header)
  OBVIOUS
<1>5. w = IF last THEN CutUnused(e, start) ELSE e
  BY DEF UnlinkChild, After
<1>6. Merges(d, V, off, start, end, last)
  BY <1>3, <1>4, UnlinkMerges
<1>7. Joins(d, V, w, start, end, last)
  BY <1>3, <1>5, <1>6, UnlinkJoins
<1>8. Tiles(w, KeptBy(V, start, end))
  BY <1>3, <1>6, <1>7, UnlinkTiles
<1>9. Entries(w, KeptBy(V, start, end)) = Entries(d, V) \ {<<off, n>>}
  BY <1>3, <1>4, <1>6, <1>7, <1>8, UnlinkEntries
<1>10. Visited(w) = KeptBy(V, start, end)
  BY <1>8, VisitedIs
<1>. QED
  BY <1>1, <1>3, <1>8, <1>9, <1>10 DEF IsRemoved

(***************************************************************************)
(* Blocks.                                                                  *)
(***************************************************************************)
LEMMA Divides ==
  ASSUME NEW n \in Nat \ {0}, NEW x \in Nat
  PROVE  /\ x \div n \in Nat /\ (x \div n) * n \in Nat
         /\ (x \div n) * n <= x /\ x < (x \div n) * n + n
OBVIOUS

LEMMA FewerMultiples ==
  ASSUME NEW n \in Nat \ {0}, NEW x \in Nat, NEW y \in Nat, x * n < y * n + n
  PROVE  x <= y
<1>. SUFFICES ASSUME y + 1 <= x PROVE FALSE
  OBVIOUS
<1>1. PICK z \in Nat : x = (y + 1) + z
  <2>1. x - (y + 1) \in Nat /\ x = (y + 1) + (x - (y + 1))
    OBVIOUS
  <2>. QED
    BY <2>1
<1>2. x * n = y * n + n + z * n
  BY <1>1
<1>3. z * n \in Nat /\ y * n \in Nat
  OBVIOUS
<1>. QED
  BY <1>2, <1>3

\* The blocks reserved as if the record went to the end of the file are enough.
LEMMA ReservedSuffice ==
  ASSUME NEW s \in Nat, NEW t \in Nat, NEW len \in Nat, len > 0, s <= t, t <= s + len
  PROVE  /\ BlocksFor(t) - BlocksFor(s) <= GetRequiredBlockCount(s, len)
         /\ BlocksFor(s) - BlocksFor(s) = 0 /\ 0 <= GetRequiredBlockCount(s, len)
<1>1. BlockSize \in Nat \ {0}
  BY Constants
<1>. PICK a : a = (t + BlockSize - 1) \div BlockSize
  OBVIOUS
<1>. PICK b : b = (s + BlockSize - 1) \div BlockSize
  OBVIOUS
<1>. PICK c : c = (s + len - 1) \div BlockSize
  OBVIOUS
<1>. PICK e : e = s \div BlockSize
  OBVIOUS
<1>2. t + BlockSize - 1 \in Nat /\ s + BlockSize - 1 \in Nat /\ s + len - 1 \in Nat
  BY <1>1
<1>3. a \in Nat /\ a * BlockSize \in Nat /\ a * BlockSize <= t + BlockSize - 1
  BY <1>1, <1>2, Divides
<1>4. b \in Nat /\ b * BlockSize \in Nat /\ s + BlockSize - 1 < b * BlockSize + BlockSize
  BY <1>1, <1>2, Divides
<1>5. c \in Nat /\ c * BlockSize \in Nat /\ s + len - 1 < c * BlockSize + BlockSize
  BY <1>1, <1>2, Divides
<1>6. e \in Nat /\ e * BlockSize \in Nat /\ e * BlockSize <= s
  BY <1>1, Divides
<1>7. a <= c + 1
  <2>1. (c + 1) * BlockSize = c * BlockSize + BlockSize
    BY <1>1, <1>5
  <2>2. a * BlockSize < (c + 1) * BlockSize + BlockSize
    BY <1>1, <1>3, <1>5, <2>1
  <2>. QED
    BY <1>1, <1>3, <1>5, <2>2, FewerMultiples
<1>8. e <= b
  <2>1. e * BlockSize < b * BlockSize + BlockSize
    BY <1>1, <1>4, <1>6
  <2>. QED
    BY <1>1, <1>4, <1>6, <2>1, FewerMultiples
<1>9. e <= c
  <2>1. e * BlockSize < c * BlockSize + BlockSize
    BY <1>1, <1>5, <1>6
  <2>. QED
    BY <1>1, <1>5, <1>6, <2>1, FewerMultiples
<1>10. /\ BlocksFor(t) = a /\ BlocksFor(s) = b
       /\ GetRequiredBlockCount(s, len) = c - e + 1
  BY DEF BlocksFor, GetRequiredBlockCount
<1>. QED
  BY <1>3, <1>4, <1>5, <1>6, <1>7, <1>8, <1>9, <1>10

(***************************************************************************)
(* Steps.                                                                   *)
(***************************************************************************)
\* A listing is not disturbed by a change that adds or removes other names.
LEMMA ChangeKeepsListing ==
  ASSUME DirInv, ListInv, Tiles(dir', Visited(dir')),
         cookie' = [cookie EXCEPT !.changed = TRUE], listed' = listed,
         stayed' \subseteq stayed, stayed' \subseteq names',
         \A e \in Entries(dir', Visited(dir')) : e[2] \in stayed' => e \in Entries(dir, Visited(dir))
  PROVE  ListInv'
<1>1. cookie' \in [off : 0..MaxDirectorySize, changed : BOOLEAN] /\ cookie'.changed
      /\ cookie'.off = cookie.off
  BY DEF ListInv
<1>2. \A e \in Entries(dir', Visited(dir')) :
        e[2] \in stayed' => listed'[e[2]] = IF e[1] < cookie'.off THEN 1 ELSE 0
  BY <1>1 DEF ListInv
<1>3. listed' \in [Name -> Nat]
  BY DEF ListInv
<1>. QED
  BY <1>1, <1>2, <1>3 DEF ListInv

LEMMA NothingFailed ==
  ASSUME failed = {}, NEW g, NEW reserved, NEW d,
         BlocksFor(g.size) - BlocksFor(dir.size) <= reserved,
         BlocksFor(g.size) - BlocksFor(dir.size) \in Int, reserved \in Int,
         Changed(d, g, reserved)
  PROVE  failed' = {} /\ dir' = d /\ cookie' = [cookie EXCEPT !.changed = TRUE]
<1>1. ~(BlocksFor(g.size) - BlocksFor(dir.size) > reserved)
  OBVIOUS
<1>. QED
  BY <1>1 DEF Changed

LEMMA BlockNumbers ==
  ASSUME NEW s \in Nat, NEW t \in Nat, NEW len \in Nat, len > 0
  PROVE  /\ BlocksFor(s) \in Int /\ GetRequiredBlockCount(t, len) \in Int
<1>1. BlockSize \in Nat \ {0}
  BY Constants
<1>2. s + BlockSize - 1 \in Nat /\ t + len - 1 \in Nat
  BY <1>1
<1>3. /\ (s + BlockSize - 1) \div BlockSize \in Nat /\ (t + len - 1) \div BlockSize \in Nat
      /\ t \div BlockSize \in Nat
  BY <1>1, <1>2, Divides
<1>. QED
  BY <1>3 DEF BlocksFor, GetRequiredBlockCount

LEMMA DirIs ==
  ASSUME DirInv
  PROVE  dir.size \in Nat /\ \A n \in Name : DirentSize(n) \in Nat /\ DirentSize(n) > 0
<1>1. dir.size \in Nat
  BY DEF DirInv, Tiles, DirType
<1>2. \A n \in Name : DirentSize(n) \in Nat /\ DirentSize(n) > 0
  BY SizeOfName, DirentRecordsAssumption, Constants DEF Word
<1>. QED
  BY <1>1, <1>2

LEMMA AddInv ==
  ASSUME Inv, NEW n \in Name, Add(n)
  PROVE  Inv'
<1>. PICK w : w = Appended(n)
  OBVIOUS
<1>. PICK V : V = Visited(dir)
  OBVIOUS
<1>. PICK E : E = Entries(dir, V)
  OBVIOUS
<1>1. /\ Tiles(dir, V) /\ names \subseteq Name /\ Named(E) /\ failed = {} /\ stayed \subseteq names
  BY DEF Inv, DirInv, ListInv
<1>2. /\ Matching(dir, n) = {} /\ WithSpace(dir, n) # {}
      /\ Changed(w, w, Required(n)) /\ names' = names \union {n}
      /\ UNCHANGED <<listed, stayed>>
  BY DEF Add, Found, HasSpace
<1>3. IsAdded(dir, w, n)
  BY <1>1, <1>2, AppendIs DEF Appended
<1>4. PICK at : /\ Entries(w, Visited(w)) = E \union {<<at, n>>}
                /\ \A e \in E : e[1] # at
  BY <1>3 DEF IsAdded
<1>5. /\ w.size \in Nat /\ dir.size \in Nat /\ DirentSize(n) \in Nat /\ DirentSize(n) > 0
      /\ dir.size <= w.size /\ w.size <= dir.size + DirentSize(n)
  BY <1>3, DirIs DEF IsAdded, Inv
<1>6. failed' = {} /\ dir' = w /\ cookie' = [cookie EXCEPT !.changed = TRUE]
  <2>1. BlocksFor(w.size) - BlocksFor(dir.size) <= Required(n)
    BY <1>5, ReservedSuffice DEF Required
  <2>2. BlocksFor(w.size) - BlocksFor(dir.size) \in Int /\ Required(n) \in Int
    BY <1>5, BlockNumbers DEF Required
  <2>. QED
    BY <1>1, <1>2, <2>1, <2>2, NothingFailed
<1>7. n \notin names
  <2>1. \A e \in E : e[2] # n
    BY <1>1, <1>2, MatchingIs, EntryIs
  <2>. QED
    BY <1>1, <2>1 DEF Named
<1>8. DirInv'
  <2>1. Tiles(w, Visited(w))
    BY <1>3 DEF IsAdded
  <2>2. names' \subseteq Name
    BY <1>1, <1>2
  <2>3. Named(E \union {<<at, n>>})'
    <3>. DEFINE F == E \union {<<at, n>>}
    <3>1. \A e \in E : e[2] # n
      BY <1>1, <1>7, EntryIs DEF Named
    <3>2. \A e, f \in F : e[2] = f[2] => e = f
      BY <1>1, <3>1 DEF Named
    <3>3. \A m \in Name : m \in names' <=> \E e \in F : e[2] = m
      <4>1. \A m \in Name : m \in names <=> \E e \in E : e[2] = m
        BY <1>1 DEF Named
      <4>2. <<at, n>>[2] = n
        OBVIOUS
      <4>. QED
        BY <1>2, <4>1, <4>2
    <3>. QED
      BY <3>2, <3>3 DEF Named
  <2>. QED
    BY <1>4, <1>6, <2>1, <2>2, <2>3 DEF DirInv
<1>9. ListInv'
  <2>1. Tiles(dir', Visited(dir'))
    BY <1>3, <1>6 DEF IsAdded
  <2>2. \A e \in Entries(dir', Visited(dir')) : e[2] \in stayed' => e \in E
    BY <1>1, <1>2, <1>4, <1>6, <1>7
  <2>3. stayed' \subseteq stayed /\ stayed' \subseteq names' /\ listed' = listed
    BY <1>1, <1>2
  <2>. QED
    BY <1>6, <2>1, <2>2, <2>3, ChangeKeepsListing DEF Inv
<1>. QED
  BY <1>8, <1>9 DEF Inv

LEMMA RemoveInv ==
  ASSUME Inv, NEW n \in Name, Remove(n)
  PROVE  Inv'
<1>. PICK w : w = UnlinkChild(dir, First(Matching(dir, n)))
  OBVIOUS
<1>. PICK V : V = Visited(dir)
  OBVIOUS
<1>. PICK E : E = Entries(dir, V)
  OBVIOUS
<1>1. /\ Tiles(dir, V) /\ names \subseteq Name /\ Named(E) /\ failed = {} /\ stayed \subseteq names
  BY DEF Inv, DirInv, ListInv
<1>2. /\ Matching(dir, n) # {}
      /\ Changed(w, dir, 0) /\ names' = names \ {n}
      /\ stayed' = stayed \ {n} /\ UNCHANGED listed
  BY DEF Remove, Found
<1>3. IsRemoved(dir, w, n)
  BY <1>1, <1>2, UnlinkIs
<1>4. PICK off : <<off, n>> \in E /\ Entries(w, Visited(w)) = E \ {<<off, n>>}
  BY <1>3 DEF IsRemoved
<1>5. failed' = {} /\ dir' = w /\ cookie' = [cookie EXCEPT !.changed = TRUE]
  <2>1. dir.size \in Nat /\ DirentSize(n) \in Nat /\ DirentSize(n) > 0
    BY DirIs DEF Inv
  <2>2. BlocksFor(dir.size) - BlocksFor(dir.size) = 0
    BY <2>1, ReservedSuffice
  <2>. QED
    BY <1>1, <1>2, <2>2, NothingFailed
<1>6. \A e \in E \ {<<off, n>>} : e[2] # n
  BY <1>1, <1>4 DEF Named
<1>7. DirInv'
  <2>1. Tiles(w, Visited(w))
    BY <1>3 DEF IsRemoved
  <2>2. Named(E \ {<<off, n>>})'
    <3>1. \A m \in Name : m \in names <=> \E e \in E : e[2] = m
      BY <1>1 DEF Named
    <3>2. \A m \in Name : m \in names' <=> \E e \in E \ {<<off, n>>} : e[2] = m
      <4>1. \A e \in E : e[2] # n => e # <<off, n>>
        OBVIOUS
      <4>. QED
        BY <1>2, <1>6, <3>1, <4>1
    <3>. QED
      BY <1>1, <3>2 DEF Named
  <2>. QED
    BY <1>1, <1>2, <1>4, <1>5, <2>1, <2>2 DEF DirInv
<1>8. ListInv'
  <2>1. Tiles(dir', Visited(dir'))
    BY <1>3, <1>5 DEF IsRemoved
  <2>2. \A e \in Entries(dir', Visited(dir')) : e \in E
    BY <1>4, <1>5
  <2>3. stayed' \subseteq stayed /\ stayed' \subseteq names' /\ listed' = listed
    BY <1>1, <1>2
  <2>. QED
    BY <1>5, <2>1, <2>2, <2>3, ChangeKeepsListing DEF Inv
<1>. QED
  BY <1>7, <1>8 DEF Inv

LEMMA RenameInv ==
  ASSUME Inv, NEW old \in Name, NEW new \in Name, Rename(old, new)
  PROVE  Inv'
<1>. PICK V : V = Visited(dir)
  OBVIOUS
<1>. PICK E : E = Entries(dir, V)
  OBVIOUS
<1>. PICK d : d = IF Found(new) THEN dir ELSE Appended(new)
  OBVIOUS
<1>. PICK F : F = Entries(d, Visited(d))
  OBVIOUS
<1>. PICK w : w = UnlinkChild(d, First(Matching(d, old)))
  OBVIOUS
<1>1. /\ Tiles(dir, V) /\ names \subseteq Name /\ Named(E) /\ failed = {} /\ stayed \subseteq names
  BY DEF Inv, DirInv, ListInv
<1>2. /\ old # new /\ Matching(dir, old) # {} /\ WithSpace(dir, new) # {}
      /\ Changed(w, d, Required(new)) /\ names' = (names \ {old}) \union {new}
      /\ stayed' = stayed \ {old} /\ UNCHANGED listed
  BY DEF Rename, Found, HasSpace
<1>3. /\ \A e, f \in E : e[2] = f[2] => e = f
      /\ \A m \in Name : m \in names <=> \E e \in E : e[2] = m
  BY <1>1 DEF Named
<1>4. Found(new) <=> new \in names
  <2>1. Found(new) <=> \E e \in E : e[2] = new
    <3>1. \A e \in E : e[1] \in V /\ e = <<e[1], e[2]>>
      BY <1>1, EntryIs
    <3>2. \A off : off \in Matching(dir, new) <=> off \in V /\ <<off, new>> \in E
      BY <1>1, MatchingIs
    <3>3. \A off : <<off, new>>[2] = new
      OBVIOUS
    <3>. QED
      BY <3>1, <3>2, <3>3 DEF Found
  <2>. QED
    BY <1>3, <2>1
\* With the new name the directory is sound,
<1>5. /\ Tiles(d, Visited(d)) /\ E \subseteq F
      /\ \A e \in F : e \in E \/ e[2] = new
      /\ \E e \in F : e[2] = new
      /\ \A e, f \in F : e[2] = f[2] => e = f
      /\ dir.size <= d.size /\ d.size <= dir.size + DirentSize(new) /\ d.size \in Nat
  <2>1. CASE Found(new)
    <3>1. d = dir /\ F = E /\ new \in names
      BY <1>4, <2>1
    <3>2. dir.size \in Nat /\ DirentSize(new) \in Nat
      BY DirIs DEF Inv
    <3>3. dir.size <= dir.size /\ dir.size <= dir.size + DirentSize(new)
      BY <3>2
    <3>. QED
      BY <1>1, <1>3, <3>1, <3>2, <3>3
  <2>2. CASE ~Found(new)
    <3>1. d = AppendDirent(dir, First(WithSpace(dir, new)), new)
      BY <2>2 DEF Appended
    <3>2. IsAdded(dir, d, new)
      BY <1>1, <1>2, <3>1, AppendIs
    <3>3. PICK at : F = E \union {<<at, new>>} /\ \A e \in E : e[1] # at
      BY <3>2 DEF IsAdded
    <3>4. \A e \in E : e[2] # new
      BY <1>3, <1>4, <2>2
    <3>5. <<at, new>>[2] = new
      OBVIOUS
    <3>6. \A e, f \in F : e[2] = f[2] => e = f
      BY <1>3, <3>3, <3>4, <3>5
    <3>. QED
      BY <3>2, <3>3, <3>5, <3>6 DEF IsAdded
  <2>. QED
    BY <2>1, <2>2
\* and the old one is still there.
<1>6. Matching(d, old) # {}
  <2>1. PICK off : off \in Matching(dir, old)
    BY <1>2
  <2>2. <<off, old>> \in F
    BY <1>1, <1>5, <2>1, MatchingIs
  <2>3. off \in Visited(d)
    <3>1. <<off, old>>[1] \in Visited(d)
      BY <1>5, <2>2, EntryIs
    <3>. QED
      BY <3>1
  <2>. QED
    BY <1>5, <2>2, <2>3, MatchingIs
<1>7. IsRemoved(d, w, old)
  BY <1>5, <1>6, UnlinkIs
<1>8. PICK off : <<off, old>> \in F /\ Entries(w, Visited(w)) = F \ {<<off, old>>}
  BY <1>7 DEF IsRemoved
<1>9. failed' = {} /\ dir' = w /\ cookie' = [cookie EXCEPT !.changed = TRUE]
  <2>1. dir.size \in Nat /\ DirentSize(new) \in Nat /\ DirentSize(new) > 0
    BY DirIs DEF Inv
  <2>2. BlocksFor(d.size) - BlocksFor(dir.size) <= Required(new)
    BY <1>5, <2>1, ReservedSuffice DEF Required
  <2>3. BlocksFor(d.size) - BlocksFor(dir.size) \in Int /\ Required(new) \in Int
    BY <1>5, <2>1, BlockNumbers DEF Required
  <2>. QED
    BY <1>1, <1>2, <2>2, <2>3, NothingFailed
<1>. PICK G : G = F \ {<<off, old>>}
  OBVIOUS
<1>10. \A e \in G : e \in F /\ e[2] # old
  <2>1. <<off, old>>[2] = old
    OBVIOUS
  <2>. QED
    BY <1>5, <1>8, <2>1
<1>11. \A e \in F : e[2] # old => e \in G
  OBVIOUS
<1>12. DirInv'
  <2>1. Tiles(w, Visited(w))
    BY <1>7 DEF IsRemoved
  <2>2. names' \subseteq Name
    BY <1>1, <1>2
  <2>3. \A m \in Name : m \in names' <=> \E e \in G : e[2] = m
    <3>1. ASSUME NEW m \in Name, m \in names'
          PROVE  \E e \in G : e[2] = m
      <4>1. m # old
        BY <1>2, <3>1
      <4>2. \E e \in F : e[2] = m
        BY <1>2, <1>3, <1>5, <3>1
      <4>. QED
        BY <1>11, <4>1, <4>2
    <3>2. ASSUME NEW m \in Name, NEW e \in G, e[2] = m
          PROVE  m \in names'
      <4>1. m # old /\ (e \in E \/ m = new)
        BY <1>5, <1>10, <3>2
      <4>. QED
        BY <1>2, <1>3, <3>2, <4>1
    <3>. QED
      BY <3>1, <3>2
  <2>4. \A e, f \in G : e[2] = f[2] => e = f
    BY <1>5, <1>10
  <2>5. Named(G)'
    BY <2>3, <2>4 DEF Named
  <2>. QED
    BY <1>8, <1>9, <2>1, <2>2, <2>5 DEF DirInv
<1>13. ListInv'
  <2>1. Tiles(dir', Visited(dir'))
    BY <1>7, <1>9 DEF IsRemoved
  <2>2. \A e \in G : e[2] \in stayed' => e \in E
    <3>1. ASSUME NEW e \in G, e[2] \in stayed', e \notin E
          PROVE  FALSE
      <4>1. e[2] = new /\ new \in stayed
        BY <1>2, <1>5, <1>10, <3>1
      <4>2. Found(new)
        BY <1>1, <1>4, <4>1
      <4>3. F = E
        BY <4>2
      <4>. QED
        BY <1>10, <3>1, <4>3
    <3>. QED
      BY <3>1
  <2>3. stayed' \subseteq stayed /\ stayed' \subseteq names' /\ listed' = listed
    BY <1>1, <1>2
  <2>. QED
    BY <1>8, <1>9, <2>1, <2>2, <2>3, ChangeKeepsListing DEF Inv
<1>. QED
  BY <1>12, <1>13 DEF Inv

LEMMA RestartInv ==
  ASSUME Inv, Restart
  PROVE  Inv'
<1>1. /\ cookie' = [off |-> 0, changed |-> FALSE] /\ listed' = [n \in Name |-> 0]
      /\ stayed' = names /\ UNCHANGED <<dir, names, failed>>
  BY DEF Restart, Start
<1>2. DirInv'
  <2>1. DirInv
    BY DEF Inv
  <2>. QED
    BY <1>1, <2>1 DEF DirInv, Named
<1>3. 0 \in Visited(dir) /\ names \subseteq Name /\ Tiles(dir, Visited(dir))
  BY DEF Inv, DirInv, Tiles
<1>4. \A e \in Entries(dir, Visited(dir)) : ~(e[1] < 0)
  BY <1>3, EntryIs
<1>5. ListInv'
  <2>1. cookie' \in [off : 0..MaxDirectorySize, changed : BOOLEAN] /\ cookie'.off = 0
    BY <1>1, Constants
  <2>2. cookie'.off \in Visited(dir') \union {MaxDirectorySize}
    BY <1>1, <1>3, <2>1
  <2>3. listed' \in [Name -> Nat] /\ stayed' \subseteq names'
    BY <1>1
  <2>4. \A e \in Entries(dir', Visited(dir')) :
          e[2] \in stayed' => listed'[e[2]] = IF e[1] < cookie'.off THEN 1 ELSE 0
    BY <1>1, <1>3, <1>4, <2>1
  <2>. QED
    BY <2>1, <2>2, <2>3, <2>4 DEF ListInv
<1>. QED
  BY <1>2, <1>5 DEF Inv

LEMMA ReaddirInv ==
  ASSUME Inv, NEW k \in 1..MaxCall, Readdir(k)
  PROVE  Inv'
<1>. PICK V : V = Visited(dir)
  OBVIOUS
<1>. PICK E : E = Entries(dir, V)
  OBVIOUS
<1>. PICK start : start = IF cookie.off # 0 /\ cookie.changed THEN Recovered(dir, cookie.off) ELSE cookie.off
  OBVIOUS
<1>. PICK result : result = IF start < 0 THEN [end |-> -1, shows |-> {}] ELSE Read(dir, k)[start][k]
  OBVIOUS
<1>1. /\ Tiles(dir, V) /\ DirInv /\ names \subseteq Name /\ stayed \subseteq names
      /\ cookie \in [off : 0..MaxDirectorySize, changed : BOOLEAN]
      /\ ~cookie.changed => cookie.off \in V \union {MaxDirectorySize}
      /\ listed \in [Name -> Nat]
      /\ \A e \in E : e[2] \in stayed => listed[e[2]] = IF e[1] < cookie.off THEN 1 ELSE 0
  BY DEF Inv, DirInv, ListInv
<1>2. /\ IF result.end < 0
         THEN cookie' = Start /\ failed' = failed \union {"Readdir: Corrupt dirent"}
         ELSE cookie' = [off |-> result.end, changed |-> FALSE] /\ UNCHANGED failed
      /\ listed' = [n \in Name |-> listed[n] + (IF n \in result.shows THEN 1 ELSE 0)]
      /\ UNCHANGED <<dir, names, stayed>>
  BY DEF Readdir
<1>3. cookie.off \in Nat /\ \A p \in V : p \in Nat /\ p <= MaxDirectorySize
  BY <1>1, Constants DEF Tiles
<1>4. Resumes(V, cookie.off, start)
  <2>1. CASE cookie.off # 0 /\ cookie.changed
    BY <1>1, <2>1, RecoveredIs
  <2>2. CASE ~(cookie.off # 0 /\ cookie.changed)
    <3>1. start = cookie.off /\ start \in V \union {MaxDirectorySize}
      BY <1>1, <2>2 DEF Tiles
    <3>2. \A p \in V : p < start \/ start <= p
      BY <1>3, <3>1
    <3>. QED
      BY <1>3, <3>1, <3>2 DEF Resumes
  <2>. QED
    BY <2>1, <2>2
<1>5. /\ start \in V \union {MaxDirectorySize} /\ start \in Nat /\ cookie.off <= start
      /\ \A p \in V : p < cookie.off \/ start <= p
  BY <1>3, <1>4, Constants DEF Resumes
<1>6. Shows(dir, V, start, result)
  <2>1. result = Read(dir, k)[start][k]
    BY <1>5
  <2>2. k \in Nat /\ k \in 0..k
    BY Constants
  <2>. QED
    BY <1>1, <1>5, <2>1, <2>2, ReadIs
<1>7. /\ result.end \in V \union {MaxDirectorySize} /\ start <= result.end /\ result.end \in Nat
      /\ result.end <= MaxDirectorySize
      /\ \A n \in Name : n \in result.shows <=>
           \E e \in E : e[2] = n /\ start <= e[1] /\ e[1] < result.end
  BY <1>3, <1>6, Constants DEF Shows
<1>8. cookie' = [off |-> result.end, changed |-> FALSE] /\ failed' = failed
  <2>1. ~(result.end < 0)
    BY <1>7
  <2>. QED
    BY <1>2, <2>1
<1>9. DirInv'
  BY <1>1, <1>2, <1>8 DEF DirInv, Named
<1>10. ListInv'
  <2>1. cookie' \in [off : 0..MaxDirectorySize, changed : BOOLEAN] /\ cookie'.off = result.end
    BY <1>7, <1>8, Constants
  <2>2. listed' \in [Name -> Nat]
    <3>1. \A n \in Name : listed[n] + (IF n \in result.shows THEN 1 ELSE 0) \in Nat
      BY <1>1
    <3>. QED
      BY <1>2, <3>1
  <2>3. ASSUME NEW e \in E, e[2] \in stayed
        PROVE  listed'[e[2]] = IF e[1] < result.end THEN 1 ELSE 0
    <3>1. e[2] \in Name /\ e[1] \in V /\ e[1] \in Nat
      BY <1>1, <2>3, EntryIs
    <3>2. listed[e[2]] = IF e[1] < cookie.off THEN 1 ELSE 0
      BY <1>1, <2>3
    <3>3. listed'[e[2]] = listed[e[2]] + (IF e[2] \in result.shows THEN 1 ELSE 0)
      BY <1>2, <3>1
    <3>4. e[2] \in result.shows <=> start <= e[1] /\ e[1] < result.end
      <4>1. \A f \in E : f[2] = e[2] => f = e
        BY <1>1 DEF DirInv, Named
      <4>. QED
        BY <1>7, <3>1, <4>1
    <3>5. e[1] < cookie.off \/ start <= e[1]
      BY <1>5, <3>1
    <3>6. CASE e[1] < cookie.off
      BY <1>3, <1>5, <1>7, <3>1, <3>2, <3>3, <3>4, <3>6
    <3>7. CASE ~(e[1] < cookie.off)
      BY <1>3, <1>5, <1>7, <3>1, <3>2, <3>3, <3>4, <3>5, <3>7
    <3>. QED
      BY <3>6, <3>7
  <2>4. /\ cookie'.off \in Visited(dir') \union {MaxDirectorySize} /\ stayed' \subseteq names'
        /\ Entries(dir', Visited(dir')) = E
    BY <1>1, <1>2, <1>7, <2>1
  <2>. QED
    BY <1>2, <2>1, <2>2, <2>3, <2>4 DEF ListInv
<1>. QED
  BY <1>9, <1>10 DEF Inv

LEMMA InitInv ==
  ASSUME Init
  PROVE  Inv
<1>. PICK s \in Nat : s = Header + 1
  BY Constants
<1>. PICK V : V = {0, s}
  OBVIOUS
<1>0. dir = InitializeDirectory /\ names = {} /\ cookie = Start
      /\ listed = [n \in Name |-> 0] /\ stayed = {} /\ failed = {}
  BY DEF Init
<1>1. DirentSize(Dot) = s /\ DirentSize(DotDot) = s
  BY DEF DirentSize
<1>2. /\ dir.size = s + s
      /\ dir.record = [off \in {0, s} |->
           IF off = 0 THEN Record(Dot, s, FALSE) ELSE Record(DotDot, 0, TRUE)]
  BY <1>0, <1>1 DEF InitializeDirectory
<1>3. s # 0 /\ s + s \in Nat /\ s > Header /\ s + s <= MaxDirectorySize
  BY Constants
<1>4. At(dir, 0) = [name |-> Dot, reclen |-> s, last |-> FALSE]
      /\ At(dir, s) = [name |-> DotDot, reclen |-> 0, last |-> TRUE]
      /\ DOMAIN dir.record = V
  BY <1>2, <1>3 DEF At, Record
<1>5. /\ At(dir, 0).name = Dot /\ At(dir, 0).reclen = s /\ ~At(dir, 0).last
      /\ At(dir, s).name = DotDot /\ At(dir, s).reclen = 0 /\ At(dir, s).last
      /\ At(dir, 0).last \in BOOLEAN /\ At(dir, s).last \in BOOLEAN
  <2>1. /\ At(dir, 0).name = Dot /\ At(dir, 0).reclen = s
        /\ At(dir, s).name = DotDot /\ At(dir, s).reclen = 0
    BY <1>4
  <2>2. At(dir, 0).last = FALSE /\ At(dir, s).last = TRUE
    BY <1>4
  <2>3. At(dir, 0).last \in BOOLEAN /\ At(dir, s).last \in BOOLEAN
    BY <2>2
  <2>4. ~At(dir, 0).last
    BY <2>2
  <2>5. At(dir, s).last
    BY <2>2
  <2>. QED
    BY <2>1, <2>3, <2>4, <2>5
<1>6. After(dir, 0) = s /\ After(dir, s) = MaxDirectorySize
  <2>1. After(dir, 0) = 0 + s /\ After(dir, s) = s + (MaxDirectorySize - s)
    BY <1>5 DEF After, ReservedSize
  <2>. QED
    BY <1>3, <2>1, Constants
<1>7. DirType(dir)
  <2>1. \A off \in V : /\ dir.record[off] = At(dir, off)
                       /\ At(dir, off).name \in Word /\ At(dir, off).reclen \in Nat
                       /\ At(dir, off).last \in BOOLEAN
    BY <1>4, <1>5 DEF At, Word
  <2>2. dir.size \in Nat /\ \A off \in V : off \in Nat
    BY <1>2, <1>3
  <2>. QED
    BY <1>4, <2>1, <2>2 DEF DirType
<1>8. Used(At(dir, 0)) = s /\ Used(At(dir, s)) = s /\ Dot # Free /\ DotDot # Free
  BY <1>1, <1>5 DEF Used, Dot, DotDot, Free
<1>9. Placed(dir, V, 0)
  <2>1. /\ 0 + Header < s /\ s <= MaxDirectorySize /\ 0 + s <= s
        /\ 0 + Header <= dir.size /\ 0 + s <= dir.size
        /\ s # MaxDirectorySize /\ s \in V
        /\ \A q \in V : q <= 0 \/ s <= q
    BY <1>2, <1>3, Constants
  <2>. QED
    BY <1>4, <1>5, <1>6, <1>7, <1>8, <2>1, PlacedFrom
<1>10. Placed(dir, V, s)
  <2>1. /\ s + Header < MaxDirectorySize /\ s + s <= MaxDirectorySize
        /\ s + Header <= dir.size /\ s + s <= dir.size
        /\ MaxDirectorySize <= MaxDirectorySize
        /\ \A q \in V : q <= s \/ MaxDirectorySize <= q
    BY <1>2, <1>3, Constants
  <2>. QED
    BY <1>4, <1>5, <1>6, <1>7, <1>8, <2>1, PlacedFrom
<1>11. Tiles(dir, V)
  <2>1. V \subseteq 0..MaxDirectorySize /\ 0 \in V
    BY <1>3, Constants
  <2>. QED
    BY <1>7, <1>9, <1>10, <2>1 DEF Tiles
<1>12. Visited(dir) = V
  BY <1>11, VisitedIs
<1>. PICK E : E = Entries(dir, V)
  OBVIOUS
<1>13. \A e \in E : \/ e = <<0, Dot>>
                    \/ e = <<s, DotDot>>
  <2>1. ASSUME NEW e \in E
        PROVE  e = <<0, Dot>> \/ e = <<s, DotDot>>
    <3>1. e[1] \in V /\ At(dir, e[1]).name = e[2] /\ e = <<e[1], e[2]>>
      BY <1>11, EntryIs
    <3>. QED
      BY <1>5, <3>1
  <2>. QED
    BY <2>1
<1>14. Named(E)
  <2>1. Dot # DotDot /\ \A n \in Name : n # Dot /\ n # DotDot
    BY DirentRecordsAssumption DEF Dot, DotDot
  <2>2. \A e \in E : e[2] = Dot \/ e[2] = DotDot
    BY <1>13
  <2>3. \A e, f \in E : e[2] = f[2] => e = f
    <3>1. <<0, Dot>>[2] = Dot /\ <<s, DotDot>>[2] = DotDot
      OBVIOUS
    <3>. QED
      BY <1>13, <2>1, <3>1
  <2>. QED
    BY <1>0, <2>1, <2>2, <2>3 DEF Named
<1>15. DirInv
  BY <1>0, <1>11, <1>12, <1>14 DEF DirInv
<1>16. ListInv
  <2>1. cookie \in [off : 0..MaxDirectorySize, changed : BOOLEAN] /\ cookie.off = 0
    BY <1>0, Constants DEF Start
  <2>2. listed \in [Name -> Nat]
    BY <1>0
  <2>. QED
    BY <1>0, <1>12, <2>1, <2>2 DEF ListInv
<1>. QED
  BY <1>15, <1>16 DEF Inv

\* The inductive invariant holds: sound records, exact names and an exact place of
\* the listing (directory.cc).
LEMMA Inductive == Spec => []Inv
<1>1. Init => Inv
  BY InitInv
<1>2. Inv /\ [Next]_vars => Inv'
  <2>. SUFFICES ASSUME Inv, [Next]_vars PROVE Inv'
    OBVIOUS
  <2>1. CASE UNCHANGED vars
    BY <2>1 DEF vars, Inv, DirInv, ListInv, Named
  <2>2. CASE \E n \in Name : Add(n) \/ Remove(n)
    BY <2>2, AddInv, RemoveInv
  <2>3. CASE \E old, new \in Name : Rename(old, new)
    BY <2>3, RenameInv
  <2>4. CASE Restart
    BY <2>4, RestartInv
  <2>5. CASE \E k \in 1..MaxCall : ~Done /\ Readdir(k)
    BY <2>5, ReaddirInv
  <2>. QED
    BY <2>1, <2>2, <2>3, <2>4, <2>5 DEF Next
<1>. QED
  BY <1>1, <1>2, PTL DEF Spec

\* Through any additions, removals and renames the records tile the directory: each
\* is valid and leads to the next, the last one, and no other, is flagged and
\* reaches to the largest size, the file reaches to what is used, and no two free
\* records are neighbours (directory.cc's UnlinkChild and AppendDirent).
THEOREM RecordsAlwaysTile == Spec => []RecordsTile
<1>1. ASSUME Inv
      PROVE  RecordsTile
  <2>. PICK V : V = Visited(dir)
    OBVIOUS
  <2>1. Tiles(dir, V)
    BY <1>1 DEF Inv, DirInv
  <2>2. ASSUME NEW off \in V
        PROVE  /\ Valid(dir, off)
               /\ After(dir, off) \in V \/ After(dir, off) = MaxDirectorySize
               /\ At(dir, off).last <=> After(dir, off) = MaxDirectorySize
               /\ dir.size >= off + (IF At(dir, off).name = Free THEN Header
                                     ELSE DirentSize(At(dir, off).name))
               /\ At(dir, off).name = Free /\ After(dir, off) \in V => At(dir, After(dir, off)).name # Free
    <3>1. Placed(dir, V, off)
      BY <2>1 DEF Tiles
    <3>2. Valid(dir, off)
      BY <2>1, PlacedIs
    <3>3. /\ off \in Nat /\ dir.size \in Nat /\ Used(At(dir, off)) \in Nat
          /\ off + Header <= dir.size /\ off + Used(At(dir, off)) <= dir.size
      BY <2>1, PlacedParts
    <3>4. dir.size >= off + (IF At(dir, off).name = Free THEN Header ELSE DirentSize(At(dir, off).name))
      <4>1. CASE At(dir, off).name = Free
        BY <3>3, <4>1, Constants
      <4>2. CASE At(dir, off).name # Free
        <5>1. Used(At(dir, off)) = DirentSize(At(dir, off).name)
          BY <4>2 DEF Used
        <5>. QED
          BY <3>3, <4>2, <5>1
      <4>. QED
        BY <4>1, <4>2
    <3>. QED
      BY <3>1, <3>2, <3>4 DEF Placed
  <2>. QED
    BY <2>2 DEF RecordsTile, After
<1>. QED
  BY <1>1, Inductive, PTL

\* A lookup finds exactly the names that have been put into the directory and not
\* taken out again, each once (directory.cc's DirentCallbackFind).
THEOREM NamesAreAlwaysFound == Spec => []NamesAreFound
<1>1. ASSUME Inv
      PROVE  NamesAreFound
  <2>. PICK V : V = Visited(dir)
    OBVIOUS
  <2>. PICK E : E = Entries(dir, V)
    OBVIOUS
  <2>1. Tiles(dir, V) /\ Named(E)
    BY <1>1 DEF Inv, DirInv
  <2>2. ASSUME NEW n \in Name
        PROVE  Cardinality(Matching(dir, n)) = IF n \in names THEN 1 ELSE 0
    <3>1. \A off : off \in Matching(dir, n) <=> off \in V /\ <<off, n>> \in E
      BY <2>1, MatchingIs
    <3>2. \A e \in E : e[1] \in V /\ e = <<e[1], e[2]>>
      BY <2>1, EntryIs
    <3>3. CASE n \in names
      <4>1. PICK e \in E : e[2] = n
        BY <2>1, <3>3 DEF Named
      <4>2. e = <<e[1], n>> /\ e[1] \in V
        BY <3>2, <4>1
      <4>3. \A off : <<off, n>> \in E => off = e[1]
        <5>1. ASSUME NEW off, <<off, n>> \in E
              PROVE  off = e[1]
          <6>1. <<off, n>>[2] = e[2]
            BY <4>1
          <6>2. <<off, n>> = e
            BY <2>1, <5>1, <6>1 DEF Named
          <6>. QED
            BY <4>2, <6>2
        <5>. QED
          BY <5>1
      <4>4. Matching(dir, n) = {e[1]}
        BY <3>1, <4>1, <4>2, <4>3
      <4>. QED
        BY <3>3, <4>4, FS_Singleton
    <3>4. CASE n \notin names
      <4>1. \A e \in E : e[2] # n
        BY <2>1, <3>4 DEF Named
      <4>2. \A off : <<off, n>> \notin E
        <5>1. \A off : <<off, n>>[2] = n
          OBVIOUS
        <5>. QED
          BY <4>1, <5>1
      <4>3. Matching(dir, n) = {}
        BY <3>1, <4>2
      <4>. QED
        BY <3>4, <4>3, FS_EmptySet
    <3>. QED
      BY <3>3, <3>4
  <2>. QED
    BY <2>2 DEF NamesAreFound
<1>. QED
  BY <1>1, Inductive, PTL

\* A listing shows what stays in the directory all through it, once, into however many
\* calls it is cut and whatever is added, removed and merged between them
\* (directory.cc's Readdir).
THEOREM ListingsAreComplete == Spec => []ListingIsComplete
<1>1. ASSUME Inv
      PROVE  ListingIsComplete
  <2>. PICK V : V = Visited(dir)
    OBVIOUS
  <2>. PICK E : E = Entries(dir, V)
    OBVIOUS
  <2>1. /\ Tiles(dir, V) /\ Named(E) /\ names \subseteq Name /\ stayed \subseteq names
        /\ cookie.off \in Nat
        /\ \A e \in E : e[2] \in stayed => listed[e[2]] = IF e[1] < cookie.off THEN 1 ELSE 0
    BY <1>1, Constants DEF Inv, DirInv, ListInv
  <2>2. ASSUME NEW n \in stayed
        PROVE  listed[n] <= 1 /\ (Done => listed[n] = 1)
    <3>1. PICK e \in E : e[2] = n
      BY <2>1 DEF Named
    <3>2. listed[n] = IF e[1] < cookie.off THEN 1 ELSE 0
      BY <2>1, <3>1
    <3>3. e[1] \in Nat /\ e[1] + Header < MaxDirectorySize
      BY <2>1, EntryIs, PlacedIs
    <3>4. Done => e[1] < cookie.off
      BY <2>1, <3>3, Constants DEF Done
    <3>. QED
      BY <3>2, <3>4
  <2>. QED
    BY <2>2 DEF ListingIsComplete
<1>. QED
  BY <1>1, Inductive, PTL

\* No walk meets a record it would call corrupt, and the blocks that are reserved as
\* if the record went to the end of the file cover the growth of the file wherever
\* it goes (directory.cc's ValidateDirent and Create).
THEOREM NoOperationFails == Spec => []NothingFails
<1>1. Inv => NothingFails
  BY DEF Inv, DirInv, NothingFails
<1>. QED
  BY <1>1, Inductive, PTL

================================================================================
