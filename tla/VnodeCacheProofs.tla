---------------------------- MODULE VnodeCacheProofs ----------------------------
(***************************************************************************)
(* Theorems about the vnodes in memory, for any number of objects, inodes,   *)
(* connections and transactions.                                            *)
(***************************************************************************)
EXTENDS VnodeCache, FiniteSetTheorems, FunctionTheorems, TLAPS

(***************************************************************************)
(* The inductive invariant.  The count of references of a vnode is no more   *)
(* than what it is if one knows who holds them: everything else follows      *)
(* from RefsAreHeld, since whoever is about to use a vnode holds one.        *)
(***************************************************************************)

Version == 0..MaxVersion

VnodeRecord ==
  [ino : Ino \union {None}, refs : Nat, open : 0..MaxOpen,
   linked : BOOLEAN, data : Version \union {Unread}, dirty : BOOLEAN]

Entry == [pins : SUBSET Vnode, ino : Ino, data : Version \union {Unread}]

Types ==
  /\ vn \in [Vnode -> VnodeRecord]
  /\ hash \in [Ino -> Vnode \union {None}]
  /\ \/ op = Idle
     \/ op \in [at : {"found"}, ino : Ino, vn : Vnode]
     \/ op \in [at : {"recreate"}, ino : Ino, vn : {None}]
  /\ syncing \subseteq Vnode
  /\ named \subseteq allocated /\ allocated \subseteq Ino
  /\ entries \in Seq(Entry)
  /\ journal \in [pins : SUBSET Vnode, dying : Vnode \union {None}]
  /\ refused \in BOOLEAN
  /\ latest \in [Ino -> Version] /\ disk \in [Ino -> Version]

Bit(b) == IF b THEN 1 ELSE 0

\* How many transactions on their way pin v.
PinningEntries(s, v) == {k \in DOMAIN s : v \in s[k].pins}
Pins(v) == Cardinality(PinningEntries(entries, v))

\* Who refers to v: connections, the dispatcher's operation, Sync, transactions that
\* are not complete, and the one whose vnodes the journal's thread is dropping.
RefsAreHeld ==
  \A v \in Vnode :
    vn[v].refs = vn[v].open + Bit(op.vn = v) + Bit(v \in syncing)
                   + Pins(v) + Bit(v \in journal.pins)

\* A vnode without references is the one the journal's thread is about to delete,
\* and has an inode as any other that is not deleted.
OnlyOneDies ==
  /\ \A v \in Vnode : vn[v].refs = 0 => vn[v] = Deleted \/ journal.dying = v
  /\ journal.dying # None => vn[journal.dying].refs = 0 /\ vn[journal.dying] # Deleted
  /\ \A v \in Vnode : vn[v] # Deleted => vn[v].ino \in Ino

\* hash leads to vnodes of their inode, which are linked or open; all of these that are
\* in use are in it.
HashIsCurrent ==
  /\ \A i \in Ino : hash[i] # None =>
       /\ vn[hash[i]].ino = i
       /\ vn[hash[i]].linked \/ vn[hash[i]].open > 0
       /\ i \in named => vn[hash[i]].linked
       /\ i \in allocated
  /\ \A v \in Vnode : vn[v].refs > 0 /\ (vn[v].linked \/ vn[v].open > 0) => hash[vn[v].ino] = v

\* The dispatcher's operation has the inode's vnode, or knows there is none.
OpIsCurrent ==
  /\ op.at = "found" => /\ vn[op.vn].linked /\ vn[op.vn].ino = op.ino
                        /\ op.ino \in named
  /\ op.at = "recreate" => hash[op.ino] = None /\ op.ino \in named

RefsInv == Types /\ RefsAreHeld /\ OnlyOneDies /\ HashIsCurrent /\ OpIsCurrent

(***************************************************************************)
(* Counting the transactions that pin a vnode.                              *)
(***************************************************************************)

LEMMA PinningEntriesAreFinite ==
  ASSUME NEW s \in Seq(Entry), NEW v
  PROVE  IsFiniteSet(PinningEntries(s, v)) /\ Cardinality(PinningEntries(s, v)) \in Nat
<1>1. IsFiniteSet(1..Len(s))
  BY FS_Interval
<1>2. PinningEntries(s, v) \in SUBSET (1..Len(s))
  BY DEF PinningEntries
<1>. QED
  BY <1>1, <1>2, FS_Subset, FS_CardinalityType

\* A commit adds its transaction at the end.
LEMMA PinsAfterAppend ==
  ASSUME NEW s \in Seq(Entry), NEW e \in Entry, NEW v
  PROVE  Cardinality(PinningEntries(Append(s, e), v)) =
           Cardinality(PinningEntries(s, v)) + Bit(v \in e.pins)
<1>. DEFINE n == Len(s) + 1
<1>1. n \notin PinningEntries(s, v)
  BY DEF PinningEntries
<1>2. CASE v \in e.pins
  <2>1. PinningEntries(Append(s, e), v) = PinningEntries(s, v) \union {n}
    BY <1>2 DEF PinningEntries
  <2>. QED
    BY <1>1, <1>2, <2>1, PinningEntriesAreFinite, FS_AddElement DEF Bit
<1>3. CASE v \notin e.pins
  <2>1. PinningEntries(Append(s, e), v) = PinningEntries(s, v)
    BY <1>3 DEF PinningEntries
  <2>. QED
    BY <1>3, <2>1, PinningEntriesAreFinite DEF Bit
<1>. QED
  BY <1>2, <1>3

\* A transaction that is complete leaves from the front.
LEMMA PinsAfterTail ==
  ASSUME NEW s \in Seq(Entry), s # <<>>, NEW v
  PROVE  Cardinality(PinningEntries(s, v)) =
           Cardinality(PinningEntries(Tail(s), v)) + Bit(v \in Head(s).pins)
<1>. DEFINE S == PinningEntries(s, v)
            T == PinningEntries(Tail(s), v)
            f == [k \in S \ {1} |-> k - 1]
<1>1. Tail(s) \in Seq(Entry) /\ Len(Tail(s)) = Len(s) - 1
      /\ \A k \in 1..(Len(s) - 1) : Tail(s)[k] = s[k + 1]
      /\ Len(s) \in Nat \ {0} /\ Head(s) = s[1]
  OBVIOUS
<1>2. \A k : k \in S <=> k \in 1..Len(s) /\ v \in s[k].pins
  BY DEF PinningEntries
<1>3. \A k : k \in T <=> k \in 1..(Len(s) - 1) /\ v \in s[k + 1].pins
  BY <1>1 DEF PinningEntries
<1>4. f \in Bijection(S \ {1}, T)
  <2>1. f \in [S \ {1} -> T]
    BY <1>1, <1>2, <1>3
  <2>2. \A a, b \in S \ {1} : f[a] = f[b] => a = b
    BY <1>2
  <2>3. \A t \in T : \E k \in S \ {1} : f[k] = t
    <3>. SUFFICES ASSUME NEW t \in T PROVE t + 1 \in S \ {1} /\ f[t + 1] = t
      OBVIOUS
    <3>. QED
      BY <1>1, <1>2, <1>3
  <2>. HIDE DEF f, S, T
  <2>. QED
    BY <2>1, <2>2, <2>3, Fun_IsBij
<1>5. IsFiniteSet(S) /\ Cardinality(S) \in Nat
  BY PinningEntriesAreFinite
<1>6. (1 \in S) = (v \in Head(s).pins)
  BY <1>1, <1>2
<1>. HIDE DEF f, S, T
<1>7. IsFiniteSet(S \ {1})
      /\ Cardinality(S \ {1}) = IF 1 \in S THEN Cardinality(S) - 1 ELSE Cardinality(S)
  BY <1>5, FS_RemoveElement
<1>8. Cardinality(T) = Cardinality(S \ {1})
  BY <1>4, <1>7, FS_Bijection DEF ExistsBijection
<1>. QED
  BY <1>5, <1>6, <1>7, <1>8 DEF Bit, S, T

(***************************************************************************)
(* What the operators that change objects do.                               *)
(***************************************************************************)

LEMMA DeletedIsARecord == Deleted \in VnodeRecord
BY VnodeCacheAssumption DEF Deleted, VnodeRecord

\* What is flushed, or lost, is no longer dirty.
Clean(objects, v) == [objects EXCEPT ![v].dirty = FALSE]

LEMMA CleanObjects ==
  ASSUME NEW objects \in [Vnode -> VnodeRecord], NEW v \in Vnode
  PROVE  /\ Clean(objects, v) \in [Vnode -> VnodeRecord]
         /\ \A w \in Vnode \ {v} : Clean(objects, v)[w] = objects[w]
         /\ Clean(objects, v)[v].ino = objects[v].ino /\ Clean(objects, v)[v].linked = objects[v].linked
         /\ Clean(objects, v)[v].open = objects[v].open /\ Clean(objects, v)[v].refs = objects[v].refs
         /\ Clean(objects, v)[v].data = objects[v].data /\ Clean(objects, v)[v].dirty = FALSE
<1>1. \A r \in VnodeRecord :
        LET e == [r EXCEPT !.dirty = FALSE]
        IN  /\ e \in VnodeRecord /\ e.dirty = FALSE
            /\ e.refs = r.refs /\ e.ino = r.ino /\ e.open = r.open
            /\ e.linked = r.linked /\ e.data = r.data
  BY DEF VnodeRecord
<1>2. [objects EXCEPT ![v].dirty = FALSE] = [objects EXCEPT ![v] = [objects[v] EXCEPT !.dirty = FALSE]]
  OBVIOUS
<1>. QED
  BY <1>1, <1>2 DEF Clean

\* A connection that goes leaves its reference to be dropped.
LessOpen(objects, v) == [objects EXCEPT ![v].open = @ - 1]

LEMMA ClosedObjects ==
  ASSUME NEW objects \in [Vnode -> VnodeRecord], NEW v \in Vnode, objects[v].open > 0
  PROVE  /\ LessOpen(objects, v) \in [Vnode -> VnodeRecord]
         /\ \A w \in Vnode \ {v} : LessOpen(objects, v)[w] = objects[w]
         /\ LessOpen(objects, v)[v].open = objects[v].open - 1 /\ LessOpen(objects, v)[v].refs = objects[v].refs
         /\ LessOpen(objects, v)[v].ino = objects[v].ino /\ LessOpen(objects, v)[v].linked = objects[v].linked
         /\ LessOpen(objects, v)[v].data = objects[v].data /\ LessOpen(objects, v)[v].dirty = objects[v].dirty
<1>1. \A r \in VnodeRecord : r.open > 0 =>
        LET e == [r EXCEPT !.open = @ - 1]
        IN  /\ e \in VnodeRecord /\ e.open = r.open - 1
            /\ e.refs = r.refs /\ e.ino = r.ino /\ e.dirty = r.dirty
            /\ e.linked = r.linked /\ e.data = r.data
  BY VnodeCacheAssumption DEF VnodeRecord
<1>2. [objects EXCEPT ![v].open = @ - 1] = [objects EXCEPT ![v] = [objects[v] EXCEPT !.open = @ - 1]]
  OBVIOUS
<1>. QED
  BY <1>1, <1>2 DEF LessOpen

\* What is unlinked has no name, and nothing to flush when it is purged.
Nameless(objects, v) ==
  [objects EXCEPT ![v].linked = FALSE, ![v].dirty = @ /\ ~(objects[v].open = 0)]

LEMMA NamelessObjects ==
  ASSUME NEW objects \in [Vnode -> VnodeRecord], NEW v \in Vnode
  PROVE  /\ Nameless(objects, v) \in [Vnode -> VnodeRecord]
         /\ \A w \in Vnode \ {v} : Nameless(objects, v)[w] = objects[w]
         /\ Nameless(objects, v)[v].ino = objects[v].ino
         /\ Nameless(objects, v)[v].open = objects[v].open
         /\ Nameless(objects, v)[v].refs = objects[v].refs
         /\ Nameless(objects, v)[v].data = objects[v].data
         /\ Nameless(objects, v)[v].linked = FALSE
         /\ Nameless(objects, v)[v].dirty = IF objects[v].open = 0 THEN FALSE ELSE objects[v].dirty
<1>1. \A r \in VnodeRecord :
        LET e == [r EXCEPT !.linked = FALSE, !.dirty = @ /\ ~(r.open = 0)]
        IN  /\ e \in VnodeRecord /\ e.linked = FALSE
            /\ e.refs = r.refs /\ e.ino = r.ino /\ e.open = r.open
            /\ e.data = r.data /\ e.dirty = IF r.open = 0 THEN FALSE ELSE r.dirty
  BY DEF VnodeRecord
<1>2. [objects EXCEPT ![v].linked = FALSE, ![v].dirty = @ /\ ~(objects[v].open = 0)]
        = [objects EXCEPT ![v] = [objects[v] EXCEPT !.linked = FALSE, !.dirty = @ /\ ~(objects[v].open = 0)]]
  OBVIOUS
<1>. DEFINE e == [objects[v] EXCEPT !.linked = FALSE, !.dirty = @ /\ ~(objects[v].open = 0)]
<1>3. /\ e \in VnodeRecord /\ e.linked = FALSE
      /\ e.refs = objects[v].refs /\ e.ino = objects[v].ino /\ e.open = objects[v].open
      /\ e.data = objects[v].data
      /\ e.dirty = IF objects[v].open = 0 THEN FALSE ELSE objects[v].dirty
  <2>. objects[v] \in VnodeRecord
    OBVIOUS
  <2>. QED
    BY <1>1
<1>. HIDE DEF e
<1>4. Nameless(objects, v) = [objects EXCEPT ![v] = e]
  BY <1>2 DEF Nameless, e
<1>. QED
  BY <1>3, <1>4

\* Pinning a vnode takes one more reference.
LEMMA PinnedObjects ==
  ASSUME NEW objects \in [Vnode -> VnodeRecord], NEW v \in Vnode
  PROVE  /\ Pinned(objects, v) \in [Vnode -> VnodeRecord]
         /\ \A w \in Vnode \ {v} : Pinned(objects, v)[w] = objects[w]
         /\ Pinned(objects, v)[v].refs = objects[v].refs + 1 /\ Pinned(objects, v)[v].refs > 0
         /\ Pinned(objects, v)[v].ino = objects[v].ino /\ Pinned(objects, v)[v].open = objects[v].open
         /\ Pinned(objects, v)[v].linked = objects[v].linked /\ Pinned(objects, v)[v].data = objects[v].data
         /\ Pinned(objects, v)[v].dirty = objects[v].dirty
<1>1. \A w \in Vnode : (w \in PinVnode(v)) = (w = v)
  BY DEF PinVnode
<1>2. \A r \in VnodeRecord :
        LET e == [r EXCEPT !.refs = @ + 1]
        IN  /\ e \in VnodeRecord /\ e.refs = r.refs + 1 /\ e.refs > 0
            /\ e.ino = r.ino /\ e.open = r.open /\ e.linked = r.linked
            /\ e.data = r.data /\ e.dirty = r.dirty
  BY DEF VnodeRecord
<1>3. Pinned(objects, v) =
        [w \in Vnode |-> IF w = v THEN [objects[w] EXCEPT !.refs = @ + 1] ELSE objects[w]]
  BY <1>1 DEF Pinned
<1>. QED
  BY <1>2, <1>3

\* A reference that goes: the last one takes the vnode with it, and out of the hash.
LEMMA DropsAReference ==
  ASSUME NEW objects \in [Vnode -> VnodeRecord], NEW h \in [Ino -> Vnode \union {None}],
         NEW v \in Vnode, objects[v].refs > 0, objects[v].linked => objects[v].ino \in Ino,
         Drops(objects, h, v)
  PROVE  /\ vn' \in [Vnode -> VnodeRecord] /\ hash' \in [Ino -> Vnode \union {None}]
         /\ \A w \in Vnode \ {v} : vn'[w] = objects[w]
         /\ \/ /\ objects[v].refs > 1
               /\ vn'[v] = [objects[v] EXCEPT !.refs = @ - 1]
               /\ hash' = h
            \/ /\ objects[v].refs = 1
               /\ vn'[v] = Deleted
               /\ \A i \in Ino :
                    hash'[i] = IF objects[v].linked /\ i = objects[v].ino /\ h[i] = v
                               THEN None ELSE h[i]
<1>1. CASE objects[v].refs > 1
  BY <1>1 DEF Drops, VnodeRecord
<1>2. CASE ~(objects[v].refs > 1)
  <2>1. objects[v].refs = 1
    BY <1>2 DEF VnodeRecord
  <2>2. vn' = [objects EXCEPT ![v] = Deleted]
        /\ hash' = IF objects[v].linked THEN VnodeRelease(h, v, objects[v].ino) ELSE h
    BY <1>2 DEF Drops
  <2>3. vn' \in [Vnode -> VnodeRecord]
    BY <2>2, DeletedIsARecord
  <2>. QED
    BY <2>1, <2>2, <2>3 DEF VnodeRelease
<1>. QED
  BY <1>1, <1>2

LEMMA DeletedFields ==
  /\ Deleted.ino = None /\ Deleted.refs = 0 /\ Deleted.open = 0
  /\ Deleted.linked = FALSE /\ Deleted.data = Unread /\ Deleted.dirty = FALSE
BY DEF Deleted

\* A transaction that pins v is one more for v and none more for others.
LEMMA CommitPins ==
  ASSUME Types, NEW v \in Vnode, NEW i \in Ino, NEW data \in Version \union {Unread},
         CommitTransaction(v, i, data)
  PROVE  /\ entries' \in Seq(Entry)
         /\ Pins(v)' = Pins(v) + 1
         /\ \A w \in Vnode \ {v} : Pins(w)' = Pins(w)
<1>. DEFINE e == [pins |-> PinVnode(v), ino |-> i, data |-> data]
<1>1. e \in Entry /\ \A w : (w \in e.pins) = (w = v)
  BY DEF Entry, PinVnode
<1>2. entries \in Seq(Entry) /\ entries' = Append(entries, e)
  BY DEF CommitTransaction, Types
<1>. HIDE DEF e
<1>3. \A w : Pins(w)' = Pins(w) + Bit(w \in e.pins) /\ Pins(w) \in Nat
  BY <1>1, <1>2, PinsAfterAppend, PinningEntriesAreFinite DEF Pins
<1>. QED
  BY <1>1, <1>2, <1>3 DEF Bit

\* What the count says of a vnode: who holds a reference keeps it alive.
LEMMA HeldMeansAlive ==
  ASSUME RefsInv, NEW v \in Vnode
  PROVE  /\ vn[v] \in VnodeRecord /\ Pins(v) \in Nat
         /\ vn[v].refs = vn[v].open + Bit(op.vn = v) + Bit(v \in syncing)
                           + Pins(v) + Bit(v \in journal.pins)
         /\ vn[v].open <= vn[v].refs
         /\ op.vn = v => vn[v].refs > vn[v].open
         /\ vn[v].refs > 0 => vn[v] # Deleted /\ vn[v].ino \in Ino /\ journal.dying # v
         /\ vn[v] = Deleted => journal.dying # v
<1>1. vn[v] \in VnodeRecord /\ Pins(v) \in Nat
  BY PinningEntriesAreFinite DEF RefsInv, Types, Pins
<1>2. vn[v].refs = vn[v].open + Bit(op.vn = v) + Bit(v \in syncing)
                     + Pins(v) + Bit(v \in journal.pins)
  BY DEF RefsInv, RefsAreHeld
<1>3. vn[v].open \in Nat /\ vn[v].refs \in Nat
  BY <1>1, VnodeCacheAssumption DEF VnodeRecord
<1>4. vn[v].refs > 0 => vn[v] # Deleted
  BY DeletedFields
<1>5. vn[v].refs > 0 => vn[v].ino \in Ino /\ journal.dying # v
  BY <1>3, <1>4, VnodeCacheAssumption DEF RefsInv, OnlyOneDies
<1>6. vn[v] = Deleted => journal.dying # v
  BY VnodeCacheAssumption DEF RefsInv, OnlyOneDies
<1>. QED
  BY <1>1, <1>2, <1>3, <1>4, <1>5, <1>6 DEF Bit

(***************************************************************************)
(* Steps that touch one vnode.                                              *)
(***************************************************************************)

\* v keeps its references in step with who holds it, the others are left alone.
LEMMA HeldAfterStep ==
  ASSUME RefsInv, NEW v \in Vnode,
         \A w \in Vnode \ {v} :
           /\ vn'[w] = vn[w]
           /\ (op'.vn = w) = (op.vn = w) /\ (w \in syncing') = (w \in syncing)
           /\ Pins(w)' = Pins(w) /\ (w \in journal'.pins) = (w \in journal.pins),
         vn'[v].refs = vn'[v].open + Bit(op'.vn = v) + Bit(v \in syncing')
                         + Pins(v)' + Bit(v \in journal'.pins)
  PROVE  RefsAreHeld'
<1>. SUFFICES ASSUME NEW w \in Vnode
              PROVE  vn'[w].refs = vn'[w].open + Bit(op'.vn = w) + Bit(w \in syncing')
                                     + Pins(w)' + Bit(w \in journal'.pins)
  BY DEF RefsAreHeld, Bit
<1>1. CASE w = v
  BY <1>1
<1>2. CASE w # v
  BY <1>2 DEF RefsInv, RefsAreHeld, Bit
<1>. QED
  BY <1>1, <1>2

\* The dispatcher changes a vnode that is in use, or makes one anew: none dies.
LEMMA NobodyElseDies ==
  ASSUME RefsInv, NEW v \in Vnode, journal' = journal,
         \A w \in Vnode \ {v} : vn'[w] = vn[w],
         vn[v].refs > 0 \/ vn[v] = Deleted,
         vn'[v] = Deleted \/ (vn'[v].refs > 0 /\ vn'[v].ino \in Ino)
  PROVE  OnlyOneDies'
<1>1. journal.dying # v
  BY HeldMeansAlive
<1>2. \A w \in Vnode : vn'[w].refs = 0 => vn'[w] = Deleted \/ journal.dying = w
  BY DEF RefsInv, OnlyOneDies
<1>3. journal.dying # None => vn'[journal.dying].refs = 0 /\ vn'[journal.dying] # Deleted
  BY <1>1 DEF RefsInv, OnlyOneDies, Types
<1>4. \A w \in Vnode : vn'[w] # Deleted => vn'[w].ino \in Ino
  BY DEF RefsInv, OnlyOneDies
<1>. QED
  BY <1>2, <1>3, <1>4 DEF OnlyOneDies, Deleted

\* A reference of v is dropped, or one is taken, while names and inodes stay.
LEMMA HashAfterStep ==
  ASSUME RefsInv, NEW v \in Vnode, vn[v].refs > 0,
         \A w \in Vnode \ {v} : vn'[w] = vn[w],
         named' = named, allocated' = allocated,
         \/ /\ hash' = hash
            /\ vn'[v].ino = vn[v].ino /\ vn'[v].linked = vn[v].linked
            /\ vn[v].linked \/ ((vn'[v].open > 0) = (vn[v].open > 0))
         \/ /\ vn'[v] = Deleted
            /\ vn[v].linked \/ vn[v].open = 0
            /\ \A i \in Ino :
                 hash'[i] = IF vn[v].linked /\ i = vn[v].ino /\ hash[i] = v
                            THEN None ELSE hash[i]
  PROVE  HashIsCurrent'
<1>1. CASE /\ hash' = hash
           /\ vn'[v].ino = vn[v].ino /\ vn'[v].linked = vn[v].linked
           /\ vn[v].linked \/ ((vn'[v].open > 0) = (vn[v].open > 0))
  <2>1. \A i \in Ino : hash[i] # None => hash[i] \in Vnode
    BY DEF RefsInv, Types
  <2>. QED
    BY <1>1, <2>1 DEF RefsInv, HashIsCurrent
<1>2. CASE /\ vn'[v] = Deleted
           /\ vn[v].linked \/ vn[v].open = 0
           /\ \A i \in Ino :
                hash'[i] = IF vn[v].linked /\ i = vn[v].ino /\ hash[i] = v
                           THEN None ELSE hash[i]
  <2>1. \A i \in Ino : hash'[i] # v
    BY <1>2, VnodeCacheAssumption DEF RefsInv, HashIsCurrent, Types, VnodeRecord
  <2>2. \A i \in Ino : hash'[i] # None => hash'[i] = hash[i] /\ hash[i] \in Vnode \ {v}
    BY <1>2, <2>1 DEF RefsInv, Types
  <2>3. \A w \in Vnode \ {v} :
           vn[w].refs > 0 /\ hash[vn[w].ino] = w => hash'[vn[w].ino] = w
    BY <1>2, HeldMeansAlive
  <2>. QED
    BY <1>2, <2>2, <2>3, DeletedFields DEF RefsInv, HashIsCurrent
<1>. QED
  BY <1>1, <1>2

\* One more reference, and nothing else.
LEMMA OneMoreReference ==
  ASSUME NEW objects \in [Vnode -> VnodeRecord], NEW v \in Vnode
  PROVE  LET more == [objects EXCEPT ![v].refs = @ + 1] IN
         /\ more \in [Vnode -> VnodeRecord]
         /\ \A w \in Vnode \ {v} : more[w] = objects[w]
         /\ more[v].refs = objects[v].refs + 1 /\ more[v].refs > 0
         /\ more[v].ino = objects[v].ino /\ more[v].open = objects[v].open
         /\ more[v].linked = objects[v].linked /\ more[v].data = objects[v].data
         /\ more[v].dirty = objects[v].dirty
<1>1. objects[v] \in VnodeRecord
  OBVIOUS
<1>2. [objects[v] EXCEPT !.refs = @ + 1] \in VnodeRecord
      /\ objects[v].refs \in Nat
  BY <1>1 DEF VnodeRecord
<1>. QED
  BY <1>1, <1>2 DEF VnodeRecord

\* The dispatcher has counted one reference of v too many in objects, and drops it.
LEMMA DropKeepsCount ==
  ASSUME RefsInv, NEW v \in Vnode, vn[v].refs > 0,
         NEW objects \in [Vnode -> VnodeRecord], NEW h \in [Ino -> Vnode \union {None}],
         objects[v].ino = vn[v].ino,
         Drops(objects, h, v),
         journal' = journal,
         \A w \in Vnode \ {v} :
           /\ objects[w] = vn[w]
           /\ (op'.vn = w) = (op.vn = w) /\ (w \in syncing') = (w \in syncing)
           /\ Pins(w)' = Pins(w),
         Pins(v)' \in Nat,
         objects[v].refs = objects[v].open + Bit(op'.vn = v) + Bit(v \in syncing')
                             + Pins(v)' + Bit(v \in journal.pins) + 1
  PROVE  /\ vn' \in [Vnode -> VnodeRecord] /\ hash' \in [Ino -> Vnode \union {None}]
         /\ RefsAreHeld' /\ OnlyOneDies'
         /\ \A w \in Vnode \ {v} : vn'[w] = vn[w]
         /\ \/ /\ objects[v].refs > 1
               /\ vn'[v] = [objects[v] EXCEPT !.refs = @ - 1]
               /\ hash' = h
            \/ /\ objects[v].refs = 1 /\ objects[v].open = 0
               /\ vn'[v] = Deleted
               /\ \A i \in Ino :
                    hash'[i] = IF objects[v].linked /\ i = objects[v].ino /\ h[i] = v
                               THEN None ELSE h[i]
<1>1. objects[v] \in VnodeRecord /\ objects[v].open \in Nat /\ objects[v].refs \in Nat
  BY VnodeCacheAssumption DEF VnodeRecord
<1>2. Bit(op'.vn = v) \in Nat /\ Bit(v \in syncing') \in Nat /\ Bit(v \in journal.pins) \in Nat
  BY DEF Bit
<1>3. objects[v].refs > 0 /\ objects[v].ino \in Ino
  BY <1>1, <1>2, HeldMeansAlive
<1>4. /\ vn' \in [Vnode -> VnodeRecord] /\ hash' \in [Ino -> Vnode \union {None}]
      /\ \A w \in Vnode \ {v} : vn'[w] = objects[w]
      /\ \/ /\ objects[v].refs > 1
            /\ vn'[v] = [objects[v] EXCEPT !.refs = @ - 1]
            /\ hash' = h
         \/ /\ objects[v].refs = 1
            /\ vn'[v] = Deleted
            /\ \A i \in Ino :
                 hash'[i] = IF objects[v].linked /\ i = objects[v].ino /\ h[i] = v
                            THEN None ELSE h[i]
  BY <1>3, DropsAReference
<1>5. objects[v].refs = 1 => objects[v].open = 0
  <2>1. PICK p \in Nat, q \in Nat, s \in Nat, t \in Nat :
           objects[v].refs = objects[v].open + p + q + s + t + 1
    BY <1>2
  <2>. QED
    BY <1>1, <2>1, SMTT(30)
<1>6. vn'[v].refs = objects[v].refs - 1 /\ vn'[v].open = objects[v].open
      /\ (vn'[v] = Deleted \/ (vn'[v].refs > 0 /\ vn'[v].ino \in Ino))
  BY <1>1, <1>3, <1>4, <1>5, DeletedFields DEF VnodeRecord
<1>7. RefsAreHeld'
  <2>1. vn'[v].refs = vn'[v].open + Bit(op'.vn = v) + Bit(v \in syncing')
                       + Pins(v)' + Bit(v \in journal'.pins)
    BY <1>1, <1>2, <1>6
  <2>. QED
    BY <1>4, <2>1, HeldAfterStep
<1>8. OnlyOneDies'
  BY <1>4, <1>6, NobodyElseDies
<1>. QED
  BY <1>4, <1>5, <1>7, <1>8

\* ... while names, inodes and the hash stay as they are.
LEMMA DropKeepsHash ==
  ASSUME RefsInv, NEW v \in Vnode, vn[v].refs > 0,
         NEW objects \in [Vnode -> VnodeRecord],
         objects[v].ino = vn[v].ino, objects[v].linked = vn[v].linked,
         vn[v].linked \/ ((objects[v].open > 0) = (vn[v].open > 0)),
         Drops(objects, hash, v),
         journal' = journal, named' = named, allocated' = allocated,
         \A w \in Vnode \ {v} :
           /\ objects[w] = vn[w]
           /\ (op'.vn = w) = (op.vn = w) /\ (w \in syncing') = (w \in syncing)
           /\ Pins(w)' = Pins(w),
         Pins(v)' \in Nat,
         objects[v].refs = objects[v].open + Bit(op'.vn = v) + Bit(v \in syncing')
                             + Pins(v)' + Bit(v \in journal.pins) + 1
  PROVE  /\ vn' \in [Vnode -> VnodeRecord] /\ hash' \in [Ino -> Vnode \union {None}]
         /\ RefsAreHeld' /\ OnlyOneDies' /\ HashIsCurrent'
<1>1. hash \in [Ino -> Vnode \union {None}]
  BY DEF RefsInv, Types
<1>2. /\ vn' \in [Vnode -> VnodeRecord] /\ hash' \in [Ino -> Vnode \union {None}]
      /\ RefsAreHeld' /\ OnlyOneDies'
      /\ \A w \in Vnode \ {v} : vn'[w] = vn[w]
      /\ \/ /\ objects[v].refs > 1
            /\ vn'[v] = [objects[v] EXCEPT !.refs = @ - 1]
            /\ hash' = hash
         \/ /\ objects[v].refs = 1 /\ objects[v].open = 0
            /\ vn'[v] = Deleted
            /\ \A i \in Ino :
                 hash'[i] = IF objects[v].linked /\ i = objects[v].ino /\ hash[i] = v
                            THEN None ELSE hash[i]
  BY <1>1, DropKeepsCount
<1>3. objects[v] \in VnodeRecord /\ vn[v] \in VnodeRecord
      /\ vn[v].open \in Nat
  BY HeldMeansAlive, VnodeCacheAssumption DEF VnodeRecord
<1>4. HashIsCurrent'
  <2>1. CASE /\ vn'[v] = [objects[v] EXCEPT !.refs = @ - 1]
             /\ hash' = hash
    <3>1. vn'[v].ino = vn[v].ino /\ vn'[v].linked = vn[v].linked
          /\ vn'[v].open = objects[v].open
      BY <1>3, <2>1 DEF VnodeRecord
    <3>2. vn[v].linked \/ ((vn'[v].open > 0) = (vn[v].open > 0))
      BY <3>1
    <3>. QED
      BY <1>2, <2>1, <3>1, <3>2, HashAfterStep
  <2>2. CASE /\ objects[v].open = 0 /\ vn'[v] = Deleted
             /\ \A i \in Ino :
                  hash'[i] = IF objects[v].linked /\ i = objects[v].ino /\ hash[i] = v
                             THEN None ELSE hash[i]
    <3>1. vn[v].linked \/ vn[v].open = 0
      BY <1>3, <2>2
    <3>. QED
      BY <1>2, <2>2, <3>1, HashAfterStep
  <2>. QED
    BY <1>2, <2>1, <2>2
<1>. QED
  BY <1>2, <1>4

(***************************************************************************)
(* The dispatcher's operations keep the count.                               *)
(***************************************************************************)

LEMMA VnodeLookupRefs ==
  ASSUME RefsInv, NEW i \in Ino, VnodeLookup(i) PROVE RefsInv'
<1>. USE VnodeCacheAssumption
<1>1. /\ op = Idle /\ op.vn = None /\ i \in named /\ i \in allocated
      /\ UNCHANGED <<syncing, named, allocated, entries, journal, refused, latest, disk>>
  BY DEF VnodeLookup, Idle, RefsInv, Types
<1>2. hash[i] # None => hash[i] \in Vnode /\ vn[hash[i]].ino = i /\ vn[hash[i]].linked
                        /\ vn[hash[i]] # Deleted
  BY <1>1, DeletedFields DEF RefsInv, HashIsCurrent, Types
<1>3. CASE Found(hash[i])
  <2>. PICK v \in Vnode : v = hash[i]
    BY <1>2, <1>3 DEF Found
  <2>1. vn[v].refs > 0
    BY <1>3 DEF Found
  <2>2. /\ op' = [at |-> "found", ino |-> i, vn |-> v]
        /\ vn' = [vn EXCEPT ![v].refs = @ + 1]
        /\ hash' = hash
    BY <1>3, <2>1 DEF VnodeLookup, WithoutDying, IsDying
  <2>a. /\ vn' \in [Vnode -> VnodeRecord]
        /\ \A w \in Vnode \ {v} : vn'[w] = vn[w]
        /\ vn'[v].refs = vn[v].refs + 1 /\ vn'[v].refs > 0
        /\ vn'[v].ino = vn[v].ino /\ vn'[v].open = vn[v].open /\ vn'[v].linked = vn[v].linked
    BY <2>1, <2>2, OneMoreReference DEF RefsInv, Types
  <2>b. /\ vn[v].ino = i /\ vn[v].linked
        /\ op'.at = "found" /\ op'.ino = i /\ op'.vn = v
    BY <1>2, <2>1, <2>2 DEF Found
  <2>3. Types'
    BY <1>1, <2>1, <2>2, <2>a DEF RefsInv, Types
  <2>4. RefsAreHeld'
    <3>1. \A w \in Vnode : Pins(w)' = Pins(w)
      BY <1>1 DEF Pins
    <3>2. \A w \in Vnode : op.vn # w
      BY <1>1
    <3>3. \A w \in Vnode \ {v} : op'.vn # w
      BY <2>b
    <3>4. vn'[v].refs = vn'[v].open + Bit(op'.vn = v) + Bit(v \in syncing')
                          + Pins(v)' + Bit(v \in journal'.pins)
      BY <1>1, <2>a, <2>b, <3>1, <3>2, HeldMeansAlive DEF Bit, VnodeRecord
    <3>. QED
      BY <1>1, <2>a, <3>1, <3>2, <3>3, <3>4, HeldAfterStep
  <2>5. OnlyOneDies'
    BY <1>1, <2>1, <2>a, HeldMeansAlive, NobodyElseDies
  <2>6. HashIsCurrent'
    BY <1>1, <2>1, <2>2, <2>a, HashAfterStep
  <2>7. OpIsCurrent'
    BY <1>1, <2>a, <2>b DEF OpIsCurrent
  <2>. QED
    BY <2>3, <2>4, <2>5, <2>6, <2>7 DEF RefsInv
<1>4. CASE ~Found(hash[i])
  <2>1. op' = [at |-> "recreate", ino |-> i, vn |-> None] /\ vn' = vn
    BY <1>4 DEF VnodeLookup
  <2>2. hash[i] # None => vn[hash[i]].refs = 0
    BY <1>2, <1>4, HeldMeansAlive DEF Found, IsUnlinked, VnodeRecord
  <2>3. hash' = [hash EXCEPT ![i] = None]
    BY <1>2, <2>2 DEF VnodeLookup, WithoutDying, IsDying, RefsInv, Types
  <2>4. Types'
    BY <1>1, <2>1, <2>3 DEF RefsInv, Types
  <2>5. RefsAreHeld'
    BY <1>1, <2>1 DEF RefsInv, RefsAreHeld, Pins
  <2>6. OnlyOneDies'
    BY <1>1, <2>1 DEF RefsInv, OnlyOneDies
  <2>7. HashIsCurrent'
    BY <1>1, <1>2, <2>1, <2>2, <2>3 DEF RefsInv, HashIsCurrent, Types
  <2>8. OpIsCurrent'
    BY <1>1, <2>1, <2>3 DEF OpIsCurrent, RefsInv, Types
  <2>. QED
    BY <2>4, <2>5, <2>6, <2>7, <2>8 DEF RefsInv
<1>. QED
  BY <1>3, <1>4

LEMMA RecreateRefs ==
  ASSUME RefsInv, NEW v \in Vnode, Recreate(v) PROVE RefsInv'
<1>. USE VnodeCacheAssumption
<1>. DEFINE new == [Deleted EXCEPT !.ino = op.ino, !.refs = 1, !.linked = TRUE, !.data = Unread]
<1>1. /\ op.at = "recreate" /\ op.ino \in Ino /\ op.vn = None /\ op.ino \in allocated
      /\ hash[op.ino] = None /\ vn[v] = Deleted /\ op.ino \in named
      /\ UNCHANGED <<syncing, named, allocated, entries, journal, refused, latest, disk>>
  BY DEF Recreate, VnodeInsert, Idle, RefsInv, Types, OpIsCurrent
<1>2. /\ vn' = [vn EXCEPT ![v] = new]
      /\ hash' = [hash EXCEPT ![op.ino] = v]
      /\ op' = [op EXCEPT !.at = "found", !.vn = v]
  BY DEF Recreate, VnodeInsert
<1>3. /\ new \in VnodeRecord /\ new.ino = op.ino /\ new.refs = 1 /\ new.open = 0
      /\ new.linked = TRUE
  <2>1. \A d \in VnodeRecord, i \in Ino :
           LET e == [d EXCEPT !.ino = i, !.refs = 1, !.linked = TRUE, !.data = Unread]
           IN  /\ e \in VnodeRecord
               /\ e.ino = i /\ e.refs = 1 /\ e.linked = TRUE /\ e.open = d.open
    BY DEF VnodeRecord
  <2>. QED
    BY <1>1, <2>1, DeletedIsARecord, DeletedFields
<1>. HIDE DEF new
<1>4. op' = [at |-> "found", ino |-> op.ino, vn |-> v]
  BY <1>1, <1>2 DEF RefsInv, Types, Idle
<1>5. Types'
  BY <1>1, <1>2, <1>3, <1>4 DEF RefsInv, Types
<1>6. RefsAreHeld'
  <2>1. Pins(v) = 0 /\ v \notin syncing /\ v \notin journal.pins
    BY <1>1, DeletedFields, HeldMeansAlive DEF Bit
  <2>. QED
    BY <1>1, <1>2, <1>3, <1>4, <2>1, HeldAfterStep DEF Bit, Pins, RefsInv, Types
<1>7. OnlyOneDies'
  BY <1>1, <1>2, <1>3, NobodyElseDies DEF RefsInv, Types
<1>8. HashIsCurrent'
  BY <1>1, <1>2, <1>3, DeletedFields DEF RefsInv, HashIsCurrent, Types
<1>9. OpIsCurrent'
  BY <1>1, <1>2, <1>3, <1>4 DEF OpIsCurrent, RefsInv, Types
<1>. QED
  BY <1>5, <1>6, <1>7, <1>8, <1>9 DEF RefsInv

LEMMA OpenRefs ==
  ASSUME RefsInv, Open PROVE RefsInv'
<1>. USE VnodeCacheAssumption
<1>1. op.at = "found" /\ op.vn \in Vnode
      /\ UNCHANGED <<hash, syncing, named, allocated, entries, journal, refused, latest, disk>>
  BY DEF Open, RefsInv, Types, Idle
<1>. PICK v \in Vnode : v = op.vn
  BY <1>1
<1>2. /\ vn[v] \in VnodeRecord /\ vn[v].open < MaxOpen
      /\ vn' = [vn EXCEPT ![v].open = @ + 1] /\ op' = Idle
  BY HeldMeansAlive DEF Open
<1>3. /\ vn' \in [Vnode -> VnodeRecord]
      /\ \A w \in Vnode \ {v} : vn'[w] = vn[w]
      /\ vn'[v].open = vn[v].open + 1 /\ vn'[v].refs = vn[v].refs
      /\ vn'[v].ino = vn[v].ino /\ vn'[v].linked = vn[v].linked
  <2>1. vn \in [Vnode -> VnodeRecord]
    BY DEF RefsInv, Types
  <2>2. \A r \in VnodeRecord : r.open < MaxOpen =>
          LET e == [r EXCEPT !.open = @ + 1]
          IN  /\ e \in VnodeRecord /\ e.open = r.open + 1 /\ e.refs = r.refs
              /\ e.ino = r.ino /\ e.linked = r.linked
    BY DEF VnodeRecord
  <2>3. vn' = [vn EXCEPT ![v] = [vn[v] EXCEPT !.open = @ + 1]]
    BY <1>2, <2>1
  <2>. QED
    BY <1>2, <2>1, <2>2, <2>3
<1>4. vn[v].linked /\ vn[v].refs > 0
  BY <1>1, <1>2, HeldMeansAlive DEF RefsInv, OpIsCurrent, VnodeRecord
<1>5. Types'
  BY <1>1, <1>2, <1>3 DEF RefsInv, Types
<1>6. RefsAreHeld'
  <2>1. \A w \in Vnode : Pins(w)' = Pins(w) /\ op'.vn # w
    BY <1>1, <1>2 DEF Pins, Idle
  <2>2. vn'[v].refs = vn'[v].open + Bit(op'.vn = v) + Bit(v \in syncing')
                        + Pins(v)' + Bit(v \in journal'.pins)
    BY <1>1, <1>2, <1>3, <2>1, HeldMeansAlive DEF Bit, VnodeRecord
  <2>. QED
    BY <1>1, <1>3, <2>1, <2>2, HeldAfterStep
<1>7. OnlyOneDies'
  BY <1>1, <1>3, <1>4, HeldMeansAlive, NobodyElseDies
<1>8. HashIsCurrent'
  BY <1>1, <1>3, <1>4, HashAfterStep
<1>9. OpIsCurrent'
  BY <1>2 DEF OpIsCurrent, Idle
<1>. QED
  BY <1>5, <1>6, <1>7, <1>8, <1>9 DEF RefsInv

LEMMA LookAwayRefs ==
  ASSUME RefsInv, LookAway PROVE RefsInv'
<1>. USE VnodeCacheAssumption
<1>1. op.at = "found" /\ op.vn \in Vnode /\ op' = Idle
      /\ UNCHANGED <<syncing, named, allocated, entries, journal, refused, latest, disk>>
  BY DEF LookAway, RefsInv, Types, Idle
<1>. PICK v \in Vnode : v = op.vn
  BY <1>1
<1>2. vn \in [Vnode -> VnodeRecord] /\ Drops(vn, hash, v)
  BY DEF LookAway, RefsInv, Types
<1>3. vn[v].refs > 0
  BY HeldMeansAlive DEF VnodeRecord
<1>4. /\ \A w \in Vnode : Pins(w)' = Pins(w) /\ Pins(w) \in Nat
      /\ \A w \in Vnode : op'.vn # w
  BY <1>1, HeldMeansAlive DEF Pins, Idle
<1>5. vn[v].refs = vn[v].open + Bit(op'.vn = v) + Bit(v \in syncing')
                     + Pins(v)' + Bit(v \in journal.pins) + 1
  BY <1>1, <1>4, HeldMeansAlive DEF Bit, VnodeRecord
<1>6. /\ vn' \in [Vnode -> VnodeRecord] /\ hash' \in [Ino -> Vnode \union {None}]
      /\ RefsAreHeld' /\ OnlyOneDies' /\ HashIsCurrent'
  BY <1>1, <1>2, <1>3, <1>4, <1>5, DropKeepsHash
<1>7. Types'
  BY <1>1, <1>6 DEF RefsInv, Types
<1>8. OpIsCurrent'
  BY <1>1 DEF OpIsCurrent, Idle
<1>. QED
  BY <1>6, <1>7, <1>8 DEF RefsInv

\* A vnode in use changes, but not its inode, its link or who has it open.
LEMMA ChangeInPlace ==
  ASSUME RefsInv, NEW v \in Vnode, vn[v].refs > 0, vn' \in [Vnode -> VnodeRecord],
         UNCHANGED <<hash, op, syncing, named, allocated, journal>>,
         op = Idle,
         vn'[v].ino = vn[v].ino, vn'[v].linked = vn[v].linked, vn'[v].open = vn[v].open,
         vn'[v].refs > 0,
         vn'[v].refs = vn[v].open + Bit(v \in syncing) + Pins(v)' + Bit(v \in journal.pins),
         \A w \in Vnode \ {v} : vn'[w] = vn[w] /\ Pins(w)' = Pins(w)
  PROVE  RefsAreHeld' /\ OnlyOneDies' /\ HashIsCurrent' /\ OpIsCurrent'
<1>. USE VnodeCacheAssumption
<1>1. op'.vn # v /\ op'.at = "idle"
  BY DEF Idle
<1>2. vn'[v].refs = vn'[v].open + Bit(op'.vn = v) + Bit(v \in syncing')
                      + Pins(v)' + Bit(v \in journal'.pins)
  <2>1. vn'[v].refs = vn[v].open + 0 + Bit(v \in syncing) + Pins(v)' + Bit(v \in journal.pins)
    BY HeldMeansAlive DEF VnodeRecord
  <2>2. Bit(op'.vn = v) = 0
    BY <1>1 DEF Bit
  <2>. QED
    BY <2>1, <2>2
<1>3. RefsAreHeld'
  BY <1>2, HeldAfterStep
<1>4. OnlyOneDies'
  BY HeldMeansAlive, NobodyElseDies
<1>5. HashIsCurrent'
  BY HashAfterStep
<1>6. OpIsCurrent'
  BY <1>1 DEF OpIsCurrent
<1>. QED
  BY <1>3, <1>4, <1>5, <1>6

LEMMA ReadRefs ==
  ASSUME RefsInv, NEW v \in Vnode, Read(v) PROVE RefsInv'
<1>. USE VnodeCacheAssumption
<1>1. /\ op = Idle /\ vn[v].open > 0
      /\ vn' = [vn EXCEPT ![v].data = disk[vn[v].ino]]
      /\ UNCHANGED <<hash, op, syncing, named, allocated, entries, journal, refused, latest, disk>>
  BY DEF Read
<1>2. vn[v].refs > 0 /\ vn[v].ino \in Ino /\ disk[vn[v].ino] \in Version
  BY <1>1, HeldMeansAlive DEF RefsInv, Types, VnodeRecord
<1>3. /\ vn' \in [Vnode -> VnodeRecord]
      /\ \A w \in Vnode \ {v} : vn'[w] = vn[w]
      /\ vn'[v].open = vn[v].open /\ vn'[v].refs = vn[v].refs
      /\ vn'[v].ino = vn[v].ino /\ vn'[v].linked = vn[v].linked
  <2>1. vn \in [Vnode -> VnodeRecord]
    BY DEF RefsInv, Types
  <2>2. \A r \in VnodeRecord, d \in Version :
          LET e == [r EXCEPT !.data = d]
          IN  /\ e \in VnodeRecord /\ e.open = r.open /\ e.refs = r.refs
              /\ e.ino = r.ino /\ e.linked = r.linked
    BY DEF VnodeRecord
  <2>3. vn' = [vn EXCEPT ![v] = [vn[v] EXCEPT !.data = disk[vn[v].ino]]]
    BY <1>1, <2>1
  <2>. QED
    BY <1>2, <2>1, <2>2, <2>3
<1>4. /\ \A w \in Vnode : Pins(w)' = Pins(w)
      /\ vn[v].refs = vn[v].open + Bit(v \in syncing) + Pins(v)' + Bit(v \in journal.pins)
  BY <1>1, HeldMeansAlive DEF Pins, Bit, Idle, VnodeRecord
<1>5. RefsAreHeld' /\ OnlyOneDies' /\ HashIsCurrent' /\ OpIsCurrent'
  BY <1>1, <1>2, <1>3, <1>4, ChangeInPlace
<1>6. Types'
  BY <1>1, <1>3 DEF RefsInv, Types
<1>. QED
  BY <1>5, <1>6 DEF RefsInv

LEMMA WriteRefs ==
  ASSUME RefsInv, NEW v \in Vnode, Write(v) PROVE RefsInv'
<1>. USE VnodeCacheAssumption
<1>1. /\ op = Idle /\ vn[v].open > 0
      /\ latest[vn[v].ino] < MaxVersion
      /\ latest' = [latest EXCEPT ![vn[v].ino] = @ + 1]
      /\ vn' = [vn EXCEPT ![v].data = latest[vn[v].ino] + 1, ![v].dirty = TRUE]
      /\ UNCHANGED <<hash, op, syncing, named, allocated, entries, journal, refused, disk>>
  BY DEF Write
<1>2. /\ vn[v].refs > 0 /\ vn[v].ino \in Ino
      /\ latest \in [Ino -> Version] /\ latest[vn[v].ino] + 1 \in Version
  BY <1>1, HeldMeansAlive, SMTT(30) DEF RefsInv, Types, VnodeRecord, Version
<1>3. /\ vn' \in [Vnode -> VnodeRecord]
      /\ \A w \in Vnode \ {v} : vn'[w] = vn[w]
      /\ vn'[v].open = vn[v].open /\ vn'[v].refs = vn[v].refs
      /\ vn'[v].ino = vn[v].ino /\ vn'[v].linked = vn[v].linked
  <2>1. vn \in [Vnode -> VnodeRecord]
    BY DEF RefsInv, Types
  <2>2. \A r \in VnodeRecord, d \in Version :
          LET e == [r EXCEPT !.data = d, !.dirty = TRUE]
          IN  /\ e \in VnodeRecord /\ e.open = r.open /\ e.refs = r.refs
              /\ e.ino = r.ino /\ e.linked = r.linked
    BY DEF VnodeRecord
  <2>3. vn' = [vn EXCEPT ![v] = [vn[v] EXCEPT !.data = latest[vn[v].ino] + 1, !.dirty = TRUE]]
    BY <1>1, <2>1
  <2>. QED
    BY <1>2, <2>1, <2>2, <2>3
<1>4. /\ \A w \in Vnode : Pins(w)' = Pins(w)
      /\ vn[v].refs = vn[v].open + Bit(v \in syncing) + Pins(v)' + Bit(v \in journal.pins)
  BY <1>1, HeldMeansAlive DEF Pins, Bit, Idle, VnodeRecord
<1>5. RefsAreHeld' /\ OnlyOneDies' /\ HashIsCurrent' /\ OpIsCurrent'
  BY <1>1, <1>2, <1>3, <1>4, ChangeInPlace
<1>6. Types'
  BY <1>1, <1>2, <1>3 DEF RefsInv, Types
<1>. QED
  BY <1>5, <1>6 DEF RefsInv

LEMMA FlushCachedWritesRefs ==
  ASSUME RefsInv, NEW v \in Vnode, FlushCachedWrites(v) PROVE RefsInv'
<1>. USE VnodeCacheAssumption
<1>1. /\ op = Idle /\ (vn[v].open > 0 \/ v \in syncing)
      /\ vn' = Pinned([vn EXCEPT ![v].dirty = FALSE], v)
      /\ CommitTransaction(v, vn[v].ino, vn[v].data)
      /\ UNCHANGED <<hash, op, syncing, named, allocated, journal, refused, latest, disk>>
  BY DEF FlushCachedWrites
<1>2. vn[v] \in VnodeRecord /\ vn[v].refs > 0 /\ vn[v].ino \in Ino
      /\ vn[v].data \in Version \union {Unread}
  BY <1>1, HeldMeansAlive DEF Bit, VnodeRecord
<1>. PICK clean : clean = Clean(vn, v)
  OBVIOUS
<1>3. /\ clean \in [Vnode -> VnodeRecord]
      /\ \A w \in Vnode \ {v} : clean[w] = vn[w]
      /\ clean[v].ino = vn[v].ino /\ clean[v].linked = vn[v].linked
      /\ clean[v].open = vn[v].open /\ clean[v].refs = vn[v].refs
  <2>. vn \in [Vnode -> VnodeRecord]
    BY DEF RefsInv, Types
  <2>. QED
    BY CleanObjects
<1>4. /\ vn' \in [Vnode -> VnodeRecord]
      /\ \A w \in Vnode \ {v} : vn'[w] = vn[w]
      /\ vn'[v].open = vn[v].open /\ vn'[v].refs = vn[v].refs + 1 /\ vn'[v].refs > 0
      /\ vn'[v].ino = vn[v].ino /\ vn'[v].linked = vn[v].linked
  <2>. PICK pinned : pinned = Pinned(clean, v)
    OBVIOUS
  <2>1. /\ pinned \in [Vnode -> VnodeRecord]
        /\ \A w \in Vnode \ {v} : pinned[w] = clean[w]
        /\ pinned[v].refs = clean[v].refs + 1 /\ pinned[v].refs > 0
        /\ pinned[v].ino = clean[v].ino /\ pinned[v].open = clean[v].open
        /\ pinned[v].linked = clean[v].linked
    BY <1>3, PinnedObjects
  <2>2. vn' = pinned
    BY <1>1 DEF Clean
  <2>. QED
    BY <1>3, <2>1, <2>2
<1>5. /\ entries' \in Seq(Entry)
      /\ Pins(v)' = Pins(v) + 1
      /\ \A w \in Vnode \ {v} : Pins(w)' = Pins(w)
  BY <1>1, <1>2, CommitPins DEF RefsInv
<1>6. vn'[v].refs = vn[v].open + Bit(v \in syncing) + Pins(v)' + Bit(v \in journal.pins)
  <2>1. PICK p \in Nat, b \in Nat, c \in Nat :
          /\ p = Pins(v) /\ b = Bit(v \in syncing) /\ c = Bit(v \in journal.pins)
          /\ vn[v].refs = vn[v].open + b + p + c /\ vn[v].open \in Nat
    BY <1>1, HeldMeansAlive DEF Bit, Idle, VnodeRecord
  <2>2. Pins(v)' = p + 1
    BY <1>5, <2>1
  <2>. QED
    BY <1>4, <2>1, <2>2
<1>7. RefsAreHeld' /\ OnlyOneDies' /\ HashIsCurrent' /\ OpIsCurrent'
  BY <1>1, <1>2, <1>4, <1>5, <1>6, ChangeInPlace
<1>8. Types'
  BY <1>1, <1>4, <1>5 DEF RefsInv, Types
<1>. QED
  BY <1>7, <1>8 DEF RefsInv

LEMMA CreateRefs ==
  ASSUME RefsInv, NEW v \in Vnode, NEW i \in Ino, Create(v, i) PROVE RefsInv'
<1>. USE VnodeCacheAssumption
<1>1. /\ op = Idle /\ i \notin allocated /\ latest[i] < MaxVersion /\ vn[v] = Deleted
      /\ hash' = [hash EXCEPT ![i] = v]
      /\ latest' = [latest EXCEPT ![i] = @ + 1]
      /\ CommitTransaction(v, i, latest[i] + 1)
      /\ named' = named \union {i} /\ allocated' = allocated \union {i}
      /\ UNCHANGED <<op, syncing, journal, refused, disk>>
  BY DEF Create
<1>2. latest \in [Ino -> Version] /\ latest[i] + 1 \in Version /\ hash[i] = None
  BY <1>1 DEF RefsInv, Types, Version, HashIsCurrent
<1>3. PICK new \in VnodeRecord :
        /\ new = [Deleted EXCEPT !.ino = i, !.refs = 1, !.open = 1,
                                 !.linked = TRUE, !.data = latest[i] + 1]
        /\ new.ino = i /\ new.refs = 1 /\ new.open = 1 /\ new.linked = TRUE
  <2>1. \A d \in VnodeRecord, a \in Version :
           LET e == [d EXCEPT !.ino = i, !.refs = 1, !.open = 1, !.linked = TRUE, !.data = a]
           IN  /\ e \in VnodeRecord
               /\ e.ino = i /\ e.refs = 1 /\ e.linked = TRUE /\ e.open = 1
    <3>1. 1 \in 0..MaxOpen
      OBVIOUS
    <3>. QED
      BY <3>1 DEF VnodeRecord
  <2>. QED
    BY <1>2, <2>1, DeletedIsARecord
<1>4. PICK made \in [Vnode -> VnodeRecord] : made = [vn EXCEPT ![v] = new]
  BY DEF RefsInv, Types
<1>5. /\ vn' \in [Vnode -> VnodeRecord]
      /\ \A w \in Vnode \ {v} : vn'[w] = vn[w]
      /\ vn'[v].ino = i /\ vn'[v].refs = 2 /\ vn'[v].open = 1 /\ vn'[v].linked = TRUE
  <2>1. vn' = Pinned(made, v)
    BY <1>3, <1>4 DEF Create
  <2>2. made[v] = new /\ \A w \in Vnode \ {v} : made[w] = vn[w]
    BY <1>4 DEF RefsInv, Types
  <2>. PICK pinned : pinned = Pinned(made, v)
    OBVIOUS
  <2>3. /\ pinned \in [Vnode -> VnodeRecord]
        /\ \A w \in Vnode \ {v} : pinned[w] = made[w]
        /\ pinned[v].ino = made[v].ino /\ pinned[v].refs = made[v].refs + 1
        /\ pinned[v].open = made[v].open /\ pinned[v].linked = made[v].linked
    BY PinnedObjects
  <2>4. pinned[v].refs = 2
    BY <1>3, <2>2, <2>3
  <2>. QED
    BY <1>3, <2>1, <2>2, <2>3, <2>4
<1>6. /\ entries' \in Seq(Entry)
      /\ Pins(v)' = Pins(v) + 1
      /\ \A w \in Vnode \ {v} : Pins(w)' = Pins(w)
  BY <1>1, <1>2, CommitPins DEF RefsInv
<1>7. Types'
  BY <1>1, <1>2, <1>5, <1>6 DEF RefsInv, Types
<1>8. RefsAreHeld'
  <2>1. Pins(v) = 0 /\ v \notin syncing /\ v \notin journal.pins /\ op.vn # v
    BY <1>1, DeletedFields, HeldMeansAlive DEF Bit, Idle
  <2>2. Pins(v)' = 1
    BY <1>6, <2>1
  <2>3. vn'[v].refs = vn'[v].open + Bit(op'.vn = v) + Bit(v \in syncing')
                        + Pins(v)' + Bit(v \in journal'.pins)
    BY <1>1, <1>5, <2>1, <2>2 DEF Bit
  <2>. QED
    BY <1>1, <1>5, <1>6, <2>3, HeldAfterStep
<1>9. OnlyOneDies'
  BY <1>1, <1>5, NobodyElseDies
<1>10. HashIsCurrent'
  <2>1. \A j \in Ino : hash[j] # None =>
          /\ hash[j] \in Vnode \ {v} /\ vn[hash[j]].ino = j /\ j \in allocated /\ j # i
          /\ vn[hash[j]].linked \/ vn[hash[j]].open > 0
          /\ j \in named => vn[hash[j]].linked
    BY <1>1, <1>2, DeletedFields DEF RefsInv, HashIsCurrent, Types
  <2>2. \A j \in Ino : hash'[j] = IF j = i THEN v ELSE hash[j]
    BY <1>1 DEF RefsInv, Types
  <2>3. \A j \in Ino : hash'[j] # None =>
          /\ vn'[hash'[j]].ino = j /\ j \in allocated'
          /\ vn'[hash'[j]].linked \/ vn'[hash'[j]].open > 0
          /\ j \in named' => vn'[hash'[j]].linked
    <3>. SUFFICES ASSUME NEW j \in Ino, hash'[j] # None
                  PROVE  /\ vn'[hash'[j]].ino = j /\ j \in allocated'
                         /\ vn'[hash'[j]].linked \/ vn'[hash'[j]].open > 0
                         /\ j \in named' => vn'[hash'[j]].linked
      OBVIOUS
    <3>1. CASE j = i
      BY <1>1, <1>5, <2>2, <3>1
    <3>2. CASE j # i
      BY <1>1, <1>5, <2>1, <2>2, <3>2
    <3>. QED
      BY <3>1, <3>2
  <2>4. \A w \in Vnode \ {v} : vn[w].refs > 0 /\ (vn[w].linked \/ vn[w].open > 0) =>
          hash'[vn[w].ino] = w
    BY <1>2, <2>2, VnodeCacheAssumption, HeldMeansAlive DEF RefsInv, HashIsCurrent
  <2>. QED
    BY <1>5, <2>2, <2>3, <2>4 DEF HashIsCurrent
<1>11. OpIsCurrent'
  BY <1>1 DEF OpIsCurrent, Idle
<1>. QED
  BY <1>7, <1>8, <1>9, <1>10, <1>11 DEF RefsInv

LEMMA CloseRefs ==
  ASSUME RefsInv, NEW v \in Vnode, Close(v) PROVE RefsInv'
<1>. USE VnodeCacheAssumption
<1>1. /\ op = Idle /\ (vn[v].open > 1 \/ (vn[v].open = 1 /\ vn[v].linked))
      /\ Drops(LessOpen(vn, v), hash, v)
      /\ UNCHANGED <<op, syncing, named, allocated, entries, journal, refused, latest, disk>>
  BY DEF Close, Closed, LessOpen, IsUnlinked
<1>2. vn \in [Vnode -> VnodeRecord] /\ vn[v].open \in Nat /\ vn[v].open > 0 /\ vn[v].refs > 0
  BY <1>1, HeldMeansAlive DEF RefsInv, Types, VnodeRecord
<1>. PICK objects : objects = LessOpen(vn, v)
  OBVIOUS
<1>3. /\ objects \in [Vnode -> VnodeRecord]
      /\ \A w \in Vnode \ {v} : objects[w] = vn[w]
      /\ objects[v].open = vn[v].open - 1 /\ objects[v].refs = vn[v].refs
      /\ objects[v].ino = vn[v].ino /\ objects[v].linked = vn[v].linked
  BY <1>2, ClosedObjects
<1>4. \A w \in Vnode : Pins(w)' = Pins(w) /\ Pins(w) \in Nat
  BY <1>1, HeldMeansAlive DEF Pins
<1>5. objects[v].refs = objects[v].open + Bit(op'.vn = v) + Bit(v \in syncing')
                          + Pins(v)' + Bit(v \in journal.pins) + 1
  BY <1>1, <1>2, <1>3, <1>4, HeldMeansAlive DEF Bit
<1>6. /\ vn' \in [Vnode -> VnodeRecord] /\ hash' \in [Ino -> Vnode \union {None}]
      /\ RefsAreHeld' /\ OnlyOneDies' /\ HashIsCurrent'
  <2>1. vn[v].linked \/ ((objects[v].open > 0) = (vn[v].open > 0))
    BY <1>1, <1>2, <1>3
  <2>. QED
    BY <1>1, <1>2, <1>3, <1>4, <1>5, <2>1, DropKeepsHash
<1>7. Types'
  BY <1>1, <1>6 DEF RefsInv, Types
<1>8. OpIsCurrent'
  BY <1>1 DEF OpIsCurrent, Idle
<1>. QED
  BY <1>6, <1>7, <1>8 DEF RefsInv

LEMMA CloseFlushesRefs ==
  ASSUME RefsInv, NEW v \in Vnode, CloseFlushes(v) PROVE RefsInv'
<1>. USE VnodeCacheAssumption
<1>1. /\ op = Idle /\ vn[v].open = 1 /\ vn[v].linked
      /\ Drops(Pinned(Clean(LessOpen(vn, v), v), v), hash, v)
      /\ CommitTransaction(v, vn[v].ino, vn[v].data)
      /\ UNCHANGED <<op, syncing, named, allocated, journal, refused, latest, disk>>
  BY DEF CloseFlushes, Closed, LessOpen, Clean, IsUnlinked
<1>2. /\ vn \in [Vnode -> VnodeRecord] /\ vn[v].refs > 0 /\ vn[v].open = 1
      /\ vn[v].ino \in Ino /\ vn[v].data \in Version \union {Unread}
  BY <1>1, HeldMeansAlive DEF RefsInv, Types, VnodeRecord
<1>. PICK less : less = LessOpen(vn, v)
  OBVIOUS
<1>0. /\ less \in [Vnode -> VnodeRecord]
      /\ \A w \in Vnode \ {v} : less[w] = vn[w]
      /\ less[v].open = vn[v].open - 1 /\ less[v].refs = vn[v].refs
      /\ less[v].ino = vn[v].ino /\ less[v].linked = vn[v].linked
  BY <1>2, ClosedObjects
<1>. PICK closed : closed = Clean(less, v)
  OBVIOUS
<1>3. /\ closed \in [Vnode -> VnodeRecord]
      /\ \A w \in Vnode \ {v} : closed[w] = vn[w]
      /\ closed[v].open = 0 /\ closed[v].refs = vn[v].refs
      /\ closed[v].ino = vn[v].ino /\ closed[v].linked = vn[v].linked
  <2>1. /\ closed \in [Vnode -> VnodeRecord]
        /\ \A w \in Vnode \ {v} : closed[w] = less[w]
        /\ closed[v].open = less[v].open /\ closed[v].refs = less[v].refs
        /\ closed[v].ino = less[v].ino /\ closed[v].linked = less[v].linked
    BY <1>0, CleanObjects, ZenonT(40)
  <2>. QED
    BY <1>0, <1>2, <2>1
<1>. PICK objects : objects = Pinned(closed, v)
  OBVIOUS
<1>4. /\ objects \in [Vnode -> VnodeRecord]
      /\ \A w \in Vnode \ {v} : objects[w] = vn[w]
      /\ objects[v].open = 0 /\ objects[v].refs = vn[v].refs + 1
      /\ objects[v].ino = vn[v].ino /\ objects[v].linked = vn[v].linked
  BY <1>3, PinnedObjects
<1>5. /\ entries' \in Seq(Entry)
      /\ Pins(v)' = Pins(v) + 1 /\ Pins(v) \in Nat /\ Pins(v)' \in Nat
      /\ \A w \in Vnode \ {v} : Pins(w)' = Pins(w)
  BY <1>1, <1>2, CommitPins, HeldMeansAlive DEF RefsInv
<1>6. objects[v].refs = objects[v].open + Bit(op'.vn = v) + Bit(v \in syncing')
                          + Pins(v)' + Bit(v \in journal.pins) + 1
  BY <1>1, <1>4, <1>5, HeldMeansAlive DEF Bit
<1>7. /\ vn' \in [Vnode -> VnodeRecord] /\ hash' \in [Ino -> Vnode \union {None}]
      /\ RefsAreHeld' /\ OnlyOneDies' /\ HashIsCurrent'
  BY <1>1, <1>2, <1>3, <1>4, <1>5, <1>6, DropKeepsHash
<1>8. Types'
  BY <1>1, <1>5, <1>7 DEF RefsInv, Types
<1>9. OpIsCurrent'
  BY <1>1 DEF OpIsCurrent, Idle
<1>. QED
  BY <1>7, <1>8, <1>9 DEF RefsInv

LEMMA CloseLosesRefs ==
  ASSUME RefsInv, NEW v \in Vnode, CloseLoses(v) PROVE RefsInv'
<1>. USE VnodeCacheAssumption
<1>1. /\ op = Idle /\ vn[v].open = 1 /\ vn[v].linked
      /\ Drops(Clean(LessOpen(vn, v), v), hash, v)
      /\ UNCHANGED <<op, syncing, named, allocated, entries, journal, refused, latest, disk>>
  BY DEF CloseLoses, Closed, LessOpen, Clean, IsUnlinked
<1>2. vn \in [Vnode -> VnodeRecord] /\ vn[v].refs > 0 /\ vn[v].open = 1
  BY <1>1, HeldMeansAlive DEF RefsInv, Types, VnodeRecord
<1>. PICK less : less = LessOpen(vn, v)
  OBVIOUS
<1>0. /\ less \in [Vnode -> VnodeRecord]
      /\ \A w \in Vnode \ {v} : less[w] = vn[w]
      /\ less[v].open = vn[v].open - 1 /\ less[v].refs = vn[v].refs
      /\ less[v].ino = vn[v].ino /\ less[v].linked = vn[v].linked
  BY <1>2, ClosedObjects
<1>. PICK objects : objects = Clean(less, v)
  OBVIOUS
<1>3. /\ objects \in [Vnode -> VnodeRecord]
      /\ \A w \in Vnode \ {v} : objects[w] = vn[w]
      /\ objects[v].open = 0 /\ objects[v].refs = vn[v].refs
      /\ objects[v].ino = vn[v].ino /\ objects[v].linked = vn[v].linked
  <2>1. /\ objects \in [Vnode -> VnodeRecord]
        /\ \A w \in Vnode \ {v} : objects[w] = less[w]
        /\ objects[v].open = less[v].open /\ objects[v].refs = less[v].refs
        /\ objects[v].ino = less[v].ino /\ objects[v].linked = less[v].linked
    BY <1>0, CleanObjects, ZenonT(40)
  <2>. QED
    BY <1>0, <1>2, <2>1
<1>4. \A w \in Vnode : Pins(w)' = Pins(w) /\ Pins(w) \in Nat
  BY <1>1, HeldMeansAlive DEF Pins
<1>5. objects[v].refs = objects[v].open + Bit(op'.vn = v) + Bit(v \in syncing')
                          + Pins(v)' + Bit(v \in journal.pins) + 1
  BY <1>1, <1>3, <1>4, HeldMeansAlive DEF Bit
<1>6. /\ vn' \in [Vnode -> VnodeRecord] /\ hash' \in [Ino -> Vnode \union {None}]
      /\ RefsAreHeld' /\ OnlyOneDies' /\ HashIsCurrent'
  BY <1>1, <1>2, <1>3, <1>4, <1>5, DropKeepsHash
<1>7. Types'
  BY <1>1, <1>6 DEF RefsInv, Types
<1>8. OpIsCurrent'
  BY <1>1 DEF OpIsCurrent, Idle
<1>. QED
  BY <1>6, <1>7, <1>8 DEF RefsInv

LEMMA LetGoRefs ==
  ASSUME RefsInv, NEW v \in Vnode, LetGo(v) PROVE RefsInv'
<1>. USE VnodeCacheAssumption
<1>1. /\ v \in syncing /\ syncing' = syncing \ {v} /\ Drops(vn, hash, v)
      /\ UNCHANGED <<op, named, allocated, entries, journal, refused, latest, disk>>
  BY DEF LetGo
<1>2. vn \in [Vnode -> VnodeRecord] /\ vn[v].open \in Nat
      /\ Bit(op.vn = v) \in Nat /\ Bit(v \in journal.pins) \in Nat
  BY HeldMeansAlive DEF RefsInv, Types, VnodeRecord, Bit
<1>3. vn[v].refs > 0
  BY <1>1, HeldMeansAlive DEF Bit, VnodeRecord
<1>4. \A w \in Vnode : Pins(w)' = Pins(w) /\ Pins(w) \in Nat
  BY <1>1, HeldMeansAlive DEF Pins
<1>5. vn[v].refs = vn[v].open + Bit(op'.vn = v) + Bit(v \in syncing')
                     + Pins(v)' + Bit(v \in journal.pins) + 1
  <2>1. Bit(v \in syncing) = 1 /\ Bit(v \in syncing') = 0
    BY <1>1 DEF Bit
  <2>2. Bit(op'.vn = v) = Bit(op.vn = v)
    BY <1>1
  <2>3. PICK p \in Nat, b \in Nat, c \in Nat :
          /\ p = Pins(v) /\ b = Bit(op.vn = v) /\ c = Bit(v \in journal.pins)
    BY <1>2, <1>4
  <2>4. vn[v].refs = vn[v].open + b + 1 + p + c
    BY <2>1, <2>3, HeldMeansAlive
  <2>. QED
    BY <1>2, <1>4, <2>1, <2>2, <2>3, <2>4
<1>6. /\ vn' \in [Vnode -> VnodeRecord] /\ hash' \in [Ino -> Vnode \union {None}]
      /\ RefsAreHeld' /\ OnlyOneDies' /\ HashIsCurrent'
  BY <1>1, <1>2, <1>3, <1>4, <1>5, DropKeepsHash
<1>7. Types'
  BY <1>1, <1>6 DEF RefsInv, Types
<1>8. OpIsCurrent'
  <2>1. /\ \A w \in Vnode \ {v} : vn'[w] = vn[w]
        /\ \/ vn'[v] = [vn[v] EXCEPT !.refs = @ - 1] /\ hash' = hash
           \/ /\ vn[v].refs = 1
              /\ \A i \in Ino : hash[i] = None => hash'[i] = None
    <3>1. hash \in [Ino -> Vnode \union {None}]
      BY DEF RefsInv, Types
    <3>2. vn[v].ino \in Ino
      BY <1>3, HeldMeansAlive
    <3>. QED
      BY <1>1, <1>2, <1>3, <3>1, <3>2, DropsAReference
  <2>2. op.vn = v => vn[v].refs > 1
    <3>. SUFFICES ASSUME op.vn = v PROVE vn[v].refs > 1
      OBVIOUS
    <3>1. Bit(op.vn = v) = 1 /\ Bit(v \in syncing) = 1
      BY <1>1 DEF Bit
    <3>. QED
      BY <1>2, <1>4, <3>1, HeldMeansAlive
  <2>3. vn[v] \in VnodeRecord
    BY <1>2
  <2>4. \A r \in VnodeRecord : LET e == [r EXCEPT !.refs = @ - 1]
                               IN  e.linked = r.linked /\ e.ino = r.ino
    BY DEF VnodeRecord
  <2>5. op.vn = v => vn'[v].linked = vn[v].linked /\ vn'[v].ino = vn[v].ino
    <3>1. op.vn = v => vn'[v] = [vn[v] EXCEPT !.refs = @ - 1]
      BY <2>1, <2>2
    <3>. QED
      BY <2>3, <2>4, <3>1
  <2>6. op.at = "found" => op.vn \in Vnode /\ op.ino \in Ino
    BY DEF RefsInv, Types, Idle
  <2>7. op.at = "recreate" => op.ino \in Ino /\ (hash[op.ino] = None => hash'[op.ino] = None)
    BY <2>1 DEF RefsInv, Types, Idle
  <2>8. op.at = "found" => /\ vn'[op.vn].linked = vn[op.vn].linked
                           /\ vn'[op.vn].ino = vn[op.vn].ino
    BY <2>1, <2>5, <2>6
  <2>. QED
    BY <1>1, <2>7, <2>8 DEF OpIsCurrent, RefsInv
<1>. QED
  BY <1>6, <1>7, <1>8 DEF RefsInv

\* A vnode loses its name and its place in the hash at the same time.
LEMMA PurgeKeepsHash ==
  ASSUME RefsInv, NEW v \in Vnode, NEW i \in Ino, hash[i] = v,
         \A w \in Vnode \ {v} : vn'[w] = vn[w],
         vn'[v].linked = FALSE, vn'[v].open = 0,
         \A j \in Ino : hash'[j] = IF j = i THEN None ELSE hash[j],
         named' \subseteq named, allocated \ {i} \subseteq allocated'
  PROVE  HashIsCurrent'
<1>1. \A j \in Ino : hash'[j] # None => j # i /\ hash'[j] = hash[j] /\ hash[j] \in Vnode \ {v}
  BY DEF RefsInv, Types, HashIsCurrent
<1>2. \A j \in Ino : hash'[j] # None =>
        /\ vn'[hash'[j]].ino = j
        /\ vn'[hash'[j]].linked \/ vn'[hash'[j]].open > 0
        /\ j \in named' => vn'[hash'[j]].linked
        /\ j \in allocated'
  BY <1>1 DEF RefsInv, HashIsCurrent
<1>3. \A w \in Vnode \ {v} : vn[w].refs > 0 /\ (vn[w].linked \/ vn[w].open > 0) =>
        hash'[vn[w].ino] = w
  <2>. SUFFICES ASSUME NEW w \in Vnode \ {v}, vn[w].refs > 0, vn[w].linked \/ vn[w].open > 0
                PROVE  hash'[vn[w].ino] = w
    OBVIOUS
  <2>1. vn[w].ino \in Ino /\ hash[vn[w].ino] = w
    BY HeldMeansAlive DEF RefsInv, HashIsCurrent
  <2>. QED
    BY <2>1
<1>. QED
  BY <1>2, <1>3 DEF HashIsCurrent

LEMMA RemoveUnlinkedFailsRefs ==
  ASSUME RefsInv, NEW v \in Vnode, RemoveUnlinkedFails(v) PROVE RefsInv'
<1>. USE VnodeCacheAssumption
<1>1. /\ op = Idle /\ vn[v].open = 1
      /\ Drops(LessOpen(vn, v), VnodeRelease(hash, v, vn[v].ino), v)
      /\ UNCHANGED <<op, syncing, named, allocated, entries, journal, refused, latest, disk>>
  BY DEF RemoveUnlinkedFails, Closed, LessOpen
<1>2. vn[v].linked = FALSE
  BY HeldMeansAlive DEF RemoveUnlinkedFails, IsUnlinked, VnodeRecord
<1>3. /\ vn \in [Vnode -> VnodeRecord] /\ vn[v].refs > 0
      /\ vn[v].ino \in Ino /\ hash[vn[v].ino] = v
  BY <1>1, HeldMeansAlive DEF RefsInv, Types, VnodeRecord, HashIsCurrent
<1>4. PICK h \in [Ino -> Vnode \union {None}] :
        /\ Drops(LessOpen(vn, v), h, v)
        /\ \A j \in Ino : h[j] = IF j = vn[v].ino THEN None ELSE hash[j]
  <2>. DEFINE h == VnodeRelease(hash, v, vn[v].ino)
  <2>1. /\ h \in [Ino -> Vnode \union {None}]
        /\ \A j \in Ino : h[j] = IF j = vn[v].ino THEN None ELSE hash[j]
    BY <1>3 DEF VnodeRelease, RefsInv, Types
  <2>2. Drops(LessOpen(vn, v), h, v)
    BY <1>1
  <2>. HIDE DEF h
  <2>. QED
    BY <2>1, <2>2
<1>5. PICK objects \in [Vnode -> VnodeRecord] :
        /\ Drops(objects, h, v)
        /\ \A w \in Vnode \ {v} : objects[w] = vn[w]
        /\ objects[v].open = 0 /\ objects[v].refs = vn[v].refs
        /\ objects[v].ino = vn[v].ino /\ objects[v].linked = FALSE
  <2>. DEFINE objects == LessOpen(vn, v)
  <2>1. /\ objects \in [Vnode -> VnodeRecord]
        /\ \A w \in Vnode \ {v} : objects[w] = vn[w]
        /\ objects[v].open = vn[v].open - 1 /\ objects[v].refs = vn[v].refs
        /\ objects[v].ino = vn[v].ino /\ objects[v].linked = vn[v].linked
    BY <1>1, <1>3, ClosedObjects
  <2>2. objects[v].open = 0 /\ objects[v].linked = FALSE
    BY <1>1, <1>2, <2>1
  <2>3. Drops(objects, h, v)
    BY <1>4
  <2>. HIDE DEF objects
  <2>. QED
    BY <2>1, <2>2, <2>3
<1>6. \A w \in Vnode : Pins(w)' = Pins(w) /\ Pins(w) \in Nat
  BY <1>1, HeldMeansAlive DEF Pins
<1>7. objects[v].refs = objects[v].open + Bit(op'.vn = v) + Bit(v \in syncing')
                          + Pins(v)' + Bit(v \in journal.pins) + 1
  BY <1>1, <1>5, <1>6, HeldMeansAlive DEF Bit
<1>8. /\ vn' \in [Vnode -> VnodeRecord] /\ hash' \in [Ino -> Vnode \union {None}]
      /\ RefsAreHeld' /\ OnlyOneDies'
      /\ \A w \in Vnode \ {v} : vn'[w] = vn[w]
      /\ \/ /\ objects[v].refs > 1
            /\ vn'[v] = [objects[v] EXCEPT !.refs = @ - 1]
            /\ hash' = h
         \/ /\ objects[v].refs = 1 /\ objects[v].open = 0
            /\ vn'[v] = Deleted
            /\ \A j \in Ino :
                 hash'[j] = IF objects[v].linked /\ j = objects[v].ino /\ h[j] = v
                            THEN None ELSE h[j]
  <2>1. /\ journal' = journal /\ Pins(v)' \in Nat
        /\ \A w \in Vnode \ {v} :
             /\ objects[w] = vn[w]
             /\ (op'.vn = w) = (op.vn = w) /\ (w \in syncing') = (w \in syncing)
             /\ Pins(w)' = Pins(w)
    BY <1>1, <1>5, <1>6
  <2>2. Drops(objects, h, v) /\ objects[v].ino = vn[v].ino
    BY <1>5
  <2>. QED
    BY <1>3, <1>7, <2>1, <2>2, DropKeepsCount
<1>9. HashIsCurrent'
  <2>1. vn'[v].linked = FALSE /\ vn'[v].open = 0
    <3>1. \A r \in VnodeRecord : LET e == [r EXCEPT !.refs = @ - 1]
                                 IN  e.linked = r.linked /\ e.open = r.open
      BY DEF VnodeRecord
    <3>. QED
      BY <1>5, <1>8, <3>1, DeletedFields
  <2>2. \A j \in Ino : hash'[j] = IF j = vn[v].ino THEN None ELSE hash[j]
    BY <1>4, <1>5, <1>8
  <2>. QED
    BY <1>1, <1>3, <1>8, <2>1, <2>2, PurgeKeepsHash
<1>10. Types'
  BY <1>1, <1>8 DEF RefsInv, Types
<1>11. OpIsCurrent'
  BY <1>1 DEF OpIsCurrent, Idle
<1>. QED
  BY <1>8, <1>9, <1>10, <1>11 DEF RefsInv

LEMMA RemoveUnlinkedRefs ==
  ASSUME RefsInv, NEW v \in Vnode, RemoveUnlinked(v) PROVE RefsInv'
<1>. USE VnodeCacheAssumption
<1>1. /\ op = Idle /\ vn[v].open = 1
      /\ Drops(Pinned(Clean(LessOpen(vn, v), v), v), VnodeRelease(hash, v, vn[v].ino), v)
      /\ CommitTransaction(v, vn[v].ino, Unread)
      /\ allocated' = allocated \ {vn[v].ino}
      /\ UNCHANGED <<op, syncing, named, journal, refused, latest, disk>>
  BY DEF RemoveUnlinked, Closed, LessOpen, Clean
<1>2. vn[v].linked = FALSE
  BY HeldMeansAlive DEF RemoveUnlinked, IsUnlinked, VnodeRecord
<1>3. /\ vn \in [Vnode -> VnodeRecord] /\ vn[v].refs > 0
      /\ vn[v].ino \in Ino /\ hash[vn[v].ino] = v
  BY <1>1, HeldMeansAlive DEF RefsInv, Types, VnodeRecord, HashIsCurrent
<1>4. PICK h \in [Ino -> Vnode \union {None}] :
        /\ Drops(Pinned(Clean(LessOpen(vn, v), v), v), h, v)
        /\ \A j \in Ino : h[j] = IF j = vn[v].ino THEN None ELSE hash[j]
  <2>. DEFINE h == VnodeRelease(hash, v, vn[v].ino)
  <2>1. /\ h \in [Ino -> Vnode \union {None}]
        /\ \A j \in Ino : h[j] = IF j = vn[v].ino THEN None ELSE hash[j]
    BY <1>3 DEF VnodeRelease, RefsInv, Types
  <2>2. Drops(Pinned(Clean(LessOpen(vn, v), v), v), h, v)
    BY <1>1
  <2>. HIDE DEF h
  <2>. QED
    BY <2>1, <2>2
<1>5. PICK objects \in [Vnode -> VnodeRecord] :
        /\ Drops(objects, h, v)
        /\ \A w \in Vnode \ {v} : objects[w] = vn[w]
        /\ objects[v].open = 0 /\ objects[v].refs = vn[v].refs + 1
        /\ objects[v].ino = vn[v].ino /\ objects[v].linked = FALSE
  <2>. DEFINE less == LessOpen(vn, v)
              clean == Clean(less, v)
              objects == Pinned(clean, v)
  <2>1. /\ less \in [Vnode -> VnodeRecord]
        /\ \A w \in Vnode \ {v} : less[w] = vn[w]
        /\ less[v].open = vn[v].open - 1 /\ less[v].refs = vn[v].refs
        /\ less[v].ino = vn[v].ino /\ less[v].linked = vn[v].linked
    BY <1>1, <1>3, ClosedObjects
  <2>. HIDE DEF less
  <2>2. /\ clean \in [Vnode -> VnodeRecord]
        /\ \A w \in Vnode \ {v} : clean[w] = less[w]
        /\ clean[v].open = less[v].open /\ clean[v].refs = less[v].refs
        /\ clean[v].ino = less[v].ino /\ clean[v].linked = less[v].linked
    BY <2>1, CleanObjects
  <2>. HIDE DEF clean
  <2>3. /\ objects \in [Vnode -> VnodeRecord]
        /\ \A w \in Vnode \ {v} : objects[w] = clean[w]
        /\ objects[v].open = clean[v].open /\ objects[v].refs = clean[v].refs + 1
        /\ objects[v].ino = clean[v].ino /\ objects[v].linked = clean[v].linked
    BY <2>2, PinnedObjects
  <2>4. Drops(objects, h, v)
    BY <1>4 DEF less, clean
  <2>. HIDE DEF objects
  <2>5. objects[v].open = 0 /\ objects[v].linked = FALSE
    BY <1>1, <1>2, <2>1, <2>2, <2>3
  <2>6. /\ \A w \in Vnode \ {v} : objects[w] = vn[w]
        /\ objects[v].ino = vn[v].ino
    BY <2>1, <2>2, <2>3
  <2>7. objects[v].refs = vn[v].refs + 1
    BY <2>1, <2>2, <2>3
  <2>. QED
    BY <2>3, <2>4, <2>5, <2>6, <2>7
<1>6. /\ entries' \in Seq(Entry)
      /\ Pins(v)' = Pins(v) + 1 /\ Pins(v) \in Nat /\ Pins(v)' \in Nat
      /\ \A w \in Vnode \ {v} : Pins(w)' = Pins(w)
  BY <1>1, <1>3, CommitPins, HeldMeansAlive DEF RefsInv
<1>7. objects[v].refs = objects[v].open + Bit(op'.vn = v) + Bit(v \in syncing')
                          + Pins(v)' + Bit(v \in journal.pins) + 1
  BY <1>1, <1>5, <1>6, HeldMeansAlive DEF Bit
<1>8. /\ vn' \in [Vnode -> VnodeRecord] /\ hash' \in [Ino -> Vnode \union {None}]
      /\ RefsAreHeld' /\ OnlyOneDies'
      /\ \A w \in Vnode \ {v} : vn'[w] = vn[w]
      /\ \/ /\ objects[v].refs > 1
            /\ vn'[v] = [objects[v] EXCEPT !.refs = @ - 1]
            /\ hash' = h
         \/ /\ objects[v].refs = 1 /\ objects[v].open = 0
            /\ vn'[v] = Deleted
            /\ \A j \in Ino :
                 hash'[j] = IF objects[v].linked /\ j = objects[v].ino /\ h[j] = v
                            THEN None ELSE h[j]
  <2>1. /\ journal' = journal /\ Pins(v)' \in Nat
        /\ \A w \in Vnode \ {v} :
             /\ objects[w] = vn[w]
             /\ (op'.vn = w) = (op.vn = w) /\ (w \in syncing') = (w \in syncing)
             /\ Pins(w)' = Pins(w)
    BY <1>1, <1>5, <1>6
  <2>2. Drops(objects, h, v) /\ objects[v].ino = vn[v].ino
    BY <1>5
  <2>. QED
    BY <1>3, <1>7, <2>1, <2>2, DropKeepsCount
<1>9. HashIsCurrent'
  <2>1. vn'[v].linked = FALSE /\ vn'[v].open = 0
    <3>1. \A r \in VnodeRecord : LET e == [r EXCEPT !.refs = @ - 1]
                                 IN  e.linked = r.linked /\ e.open = r.open
      BY DEF VnodeRecord
    <3>. QED
      BY <1>5, <1>8, <3>1, DeletedFields
  <2>2. \A j \in Ino : hash'[j] = IF j = vn[v].ino THEN None ELSE hash[j]
    BY <1>4, <1>5, <1>8
  <2>. QED
    BY <1>1, <1>3, <1>8, <2>1, <2>2, PurgeKeepsHash
<1>10. Types'
  <2>1. \A j \in Ino : vn[hash[j]].linked = FALSE /\ hash[j] # None => j \notin named
    BY DEF RefsInv, HashIsCurrent
  <2>2. vn[v].ino \notin named
    BY <1>2, <1>3, <2>1
  <2>. QED
    BY <1>1, <1>6, <1>8, <2>2 DEF RefsInv, Types
<1>11. OpIsCurrent'
  BY <1>1 DEF OpIsCurrent, Idle
<1>. QED
  BY <1>8, <1>9, <1>10, <1>11 DEF RefsInv

LEMMA UnlinkRefs ==
  ASSUME RefsInv, Unlink PROVE RefsInv'
<1>. USE VnodeCacheAssumption
<1>1. op.at = "found" /\ op.vn \in Vnode /\ op.ino \in Ino /\ op' = Idle
      /\ named' = named \ {op.ino}
      /\ UNCHANGED <<syncing, journal, refused, latest, disk>>
  BY DEF Unlink, RefsInv, Types, Idle
<1>. PICK v \in Vnode : v = op.vn
  BY <1>1
<1>. PICK i \in Ino : i = op.ino
  BY <1>1
<1>. DEFINE purge == vn[v].open = 0
            h == IF purge THEN VnodeRelease(hash, v, i) ELSE hash
            nameless == Nameless(vn, v)
            objects == Pinned(nameless, v)
<1>2. /\ Drops(objects, h, v)
      /\ CommitTransaction(v, vn[v].ino, Unread)
      /\ allocated' = IF purge THEN allocated \ {i} ELSE allocated
  BY DEF Unlink, Nameless
<1>3. /\ vn[v].ino = i /\ vn[v].refs > 0 /\ vn \in [Vnode -> VnodeRecord]
      /\ hash[i] = v /\ vn[v].open \in Nat
  BY <1>1, HeldMeansAlive DEF RefsInv, OpIsCurrent, HashIsCurrent, VnodeRecord, Types
<1>4. /\ nameless \in [Vnode -> VnodeRecord]
      /\ \A w \in Vnode \ {v} : nameless[w] = vn[w]
      /\ nameless[v].open = vn[v].open /\ nameless[v].refs = vn[v].refs
      /\ nameless[v].ino = vn[v].ino /\ nameless[v].linked = FALSE
  BY <1>3, NamelessObjects
<1>. HIDE DEF nameless
<1>5. /\ objects \in [Vnode -> VnodeRecord]
      /\ \A w \in Vnode \ {v} : objects[w] = nameless[w]
      /\ objects[v].open = nameless[v].open /\ objects[v].refs = nameless[v].refs + 1
      /\ objects[v].ino = nameless[v].ino /\ objects[v].linked = nameless[v].linked
  BY <1>4, PinnedObjects
<1>. HIDE DEF objects
<1>6. objects[v].refs > 1 /\ vn[v].refs \in Nat
  <2>1. vn[v].refs \in Nat
    BY HeldMeansAlive DEF VnodeRecord
  <2>. QED
    BY <1>3, <1>4, <1>5, <2>1
<1>7. vn' = [objects EXCEPT ![v].refs = @ - 1] /\ hash' = h
  BY <1>2, <1>6 DEF Drops
<1>8. /\ vn' \in [Vnode -> VnodeRecord]
      /\ \A w \in Vnode \ {v} : vn'[w] = objects[w]
      /\ vn'[v].refs = objects[v].refs - 1
      /\ vn'[v].open = objects[v].open /\ vn'[v].ino = objects[v].ino
      /\ vn'[v].linked = objects[v].linked
  <2>1. \A r \in VnodeRecord : r.refs > 1 =>
          LET e == [r EXCEPT !.refs = @ - 1]
          IN  /\ e \in VnodeRecord /\ e.refs = r.refs - 1
              /\ e.ino = r.ino /\ e.open = r.open /\ e.linked = r.linked
    BY DEF VnodeRecord
  <2>2. vn' = [objects EXCEPT ![v] = [objects[v] EXCEPT !.refs = @ - 1]]
    BY <1>7
  <2>. QED
    BY <1>5, <1>6, <2>1, <2>2
<1>9. /\ \A w \in Vnode \ {v} : vn'[w] = vn[w]
      /\ vn'[v].open = vn[v].open /\ vn'[v].ino = i
  BY <1>3, <1>4, <1>5, <1>8
<1>10. vn'[v].refs = vn[v].refs
  BY <1>4, <1>5, <1>6, <1>8
<1>11. vn'[v].linked = FALSE
  BY <1>4, <1>5, <1>8
<1>12. /\ entries' \in Seq(Entry)
       /\ Pins(v)' = Pins(v) + 1 /\ Pins(v) \in Nat
       /\ \A w \in Vnode \ {v} : Pins(w)' = Pins(w)
  BY <1>2, <1>3, CommitPins, HeldMeansAlive DEF RefsInv
<1>13. RefsAreHeld'
  <2>1. /\ vn[v].refs = vn[v].open + 1 + Bit(v \in syncing) + Pins(v) + Bit(v \in journal.pins)
        /\ Bit(op'.vn = v) = 0
    BY <1>1, HeldMeansAlive DEF Bit, Idle
  <2>2. PICK p \in Nat, b \in Nat, c \in Nat :
          p = Pins(v) /\ b = Bit(v \in syncing) /\ c = Bit(v \in journal.pins)
    BY <1>12 DEF Bit
  <2>3. Pins(v)' = p + 1
    BY <1>12, <2>2
  <2>4. vn'[v].refs = vn'[v].open + Bit(op'.vn = v) + Bit(v \in syncing')
                        + Pins(v)' + Bit(v \in journal'.pins)
    BY <1>1, <1>3, <1>9, <1>10, <2>1, <2>2, <2>3
  <2>5. \A w \in Vnode \ {v} : (op'.vn = w) = (op.vn = w)
    BY <1>1 DEF Idle
  <2>. QED
    BY <1>1, <1>9, <1>12, <2>4, <2>5, HeldAfterStep
<1>14. OnlyOneDies'
  BY <1>1, <1>3, <1>9, <1>10, NobodyElseDies
<1>15. HashIsCurrent'
  <2>1. CASE purge
    <3>1. \A j \in Ino : hash'[j] = IF j = i THEN None ELSE hash[j]
      BY <1>3, <1>7, <2>1 DEF VnodeRelease, RefsInv, Types
    <3>. QED
      BY <1>1, <1>2, <1>3, <1>9, <1>11, <2>1, <3>1, PurgeKeepsHash
  <2>2. CASE ~purge
    <3>1. hash' = hash /\ allocated' = allocated /\ vn[v].open > 0
      BY <1>2, <1>3, <1>7, <2>2
    <3>2. \A j \in Ino : hash[j] # None =>
            /\ hash[j] \in Vnode /\ vn[hash[j]].ino = j /\ (hash[j] = v => j = i)
            /\ j \in allocated
      BY <1>3 DEF RefsInv, HashIsCurrent, Types
    <3>3. \A j \in Ino : hash[j] # None =>
            /\ vn'[hash[j]].linked \/ vn'[hash[j]].open > 0
            /\ j \in named' => vn'[hash[j]].linked
      <4>. SUFFICES ASSUME NEW j \in Ino, hash[j] # None
                    PROVE  /\ vn'[hash[j]].linked \/ vn'[hash[j]].open > 0
                           /\ j \in named' => vn'[hash[j]].linked
        OBVIOUS
      <4>1. CASE hash[j] = v
        <5>1. j = i /\ j \notin named'
          BY <1>1, <3>2, <4>1
        <5>. QED
          BY <1>9, <3>1, <4>1, <5>1
      <4>2. CASE hash[j] # v
        <5>1. vn'[hash[j]] = vn[hash[j]]
          BY <1>9, <3>2, <4>2
        <5>. QED
          BY <1>1, <5>1 DEF RefsInv, HashIsCurrent
      <4>. QED
        BY <4>1, <4>2
    <3>4. \A j \in Ino : hash[j] # None => vn'[hash[j]].ino = j
      BY <1>9, <3>2
    <3>5. \A w \in Vnode : vn'[w].refs > 0 /\ (vn'[w].linked \/ vn'[w].open > 0) =>
            hash[vn'[w].ino] = w
      <4>. SUFFICES ASSUME NEW w \in Vnode, w # v, vn[w].refs > 0, vn[w].linked \/ vn[w].open > 0
                    PROVE  hash[vn[w].ino] = w
        BY <1>3, <1>9
      <4>. QED
        BY DEF RefsInv, HashIsCurrent
    <3>. QED
      BY <3>1, <3>2, <3>3, <3>4, <3>5 DEF HashIsCurrent
  <2>. QED
    BY <2>1, <2>2
<1>16. Types'
  <2>1. h \in [Ino -> Vnode \union {None}]
    BY DEF VnodeRelease, RefsInv, Types
  <2>. QED
    BY <1>1, <1>2, <1>7, <1>8, <1>12, <2>1 DEF RefsInv, Types
<1>17. OpIsCurrent'
  BY <1>1 DEF OpIsCurrent, Idle
<1>. QED
  BY <1>13, <1>14, <1>15, <1>16, <1>17 DEF RefsInv

LEMMA GetDirtyVnodesRefs ==
  ASSUME RefsInv, GetDirtyVnodes PROVE RefsInv'
<1>. USE VnodeCacheAssumption
<1>1. /\ op = Idle /\ syncing = {}
      /\ UNCHANGED <<hash, op, named, allocated, entries, journal, refused, latest, disk>>
  BY DEF GetDirtyVnodes
<1>. PICK found \in SUBSET Vnode :
       /\ found = {v \in Vnode : vn[v].refs > 0 /\ hash[vn[v].ino] = v}
       /\ syncing' = found
  BY DEF GetDirtyVnodes
<1>2. vn' = [v \in Vnode |-> IF v \in found THEN [vn[v] EXCEPT !.refs = @ + 1] ELSE vn[v]]
  BY DEF GetDirtyVnodes
<1>3. \A v \in Vnode :
        /\ vn'[v] \in VnodeRecord
        /\ vn'[v].ino = vn[v].ino /\ vn'[v].open = vn[v].open /\ vn'[v].linked = vn[v].linked
        /\ v \in found => vn'[v].refs = vn[v].refs + 1 /\ vn[v].refs > 0
        /\ v \notin found => vn'[v] = vn[v]
  <2>1. \A r \in VnodeRecord :
          LET e == [r EXCEPT !.refs = @ + 1]
          IN  /\ e \in VnodeRecord /\ e.refs = r.refs + 1
              /\ e.ino = r.ino /\ e.open = r.open /\ e.linked = r.linked
    BY DEF VnodeRecord
  <2>2. \A v \in Vnode : vn[v] \in VnodeRecord
    BY DEF RefsInv, Types
  <2>. QED
    BY <1>2, <2>1, <2>2
<1>4. vn' \in [Vnode -> VnodeRecord]
  BY <1>2, <1>3
<1>5. RefsAreHeld'
  <2>. SUFFICES ASSUME NEW v \in Vnode
                PROVE  vn'[v].refs = vn'[v].open + Bit(op'.vn = v) + Bit(v \in syncing')
                                       + Pins(v)' + Bit(v \in journal'.pins)
    BY DEF RefsAreHeld, Bit
  <2>1. PICK p \in Nat, b \in Nat, c \in Nat :
          /\ p = Pins(v) /\ b = Bit(op.vn = v) /\ c = Bit(v \in journal.pins)
          /\ vn[v].open \in Nat
    BY HeldMeansAlive DEF Bit, VnodeRecord
  <2>2. Pins(v)' = p
    BY <1>1, <2>1 DEF Pins
  <2>3. vn[v].refs = vn[v].open + b + p + c
    BY <1>1, <2>1, HeldMeansAlive DEF Bit
  <2>4. Bit(v \in syncing') = IF v \in found THEN 1 ELSE 0
    BY DEF Bit
  <2>5. CASE v \in found
    <3>1. vn'[v].refs = vn'[v].open + b + 1 + p + c
      BY <1>3, <2>1, <2>3, <2>5
    <3>. QED
      BY <1>1, <2>1, <2>2, <2>4, <2>5, <3>1
  <2>6. CASE v \notin found
    <3>1. vn'[v].refs = vn'[v].open + b + 0 + p + c
      BY <1>3, <2>1, <2>3, <2>6
    <3>. QED
      BY <1>1, <2>1, <2>2, <2>4, <2>6, <3>1
  <2>. QED
    BY <2>5, <2>6
<1>6. OnlyOneDies'
  <2>1. \A v \in Vnode : vn[v].refs \in Nat /\ (v \in found => vn'[v].refs > 0)
    BY <1>3, HeldMeansAlive DEF VnodeRecord
  <2>2. \A v \in Vnode : vn'[v].refs = 0 => vn'[v] = vn[v]
    BY <1>3, <2>1
  <2>3. \A v \in Vnode : v \in found => vn[v].ino \in Ino /\ journal.dying # v
    BY <1>3, HeldMeansAlive
  <2>4. \A v \in Vnode : vn'[v] # Deleted => vn'[v].ino \in Ino
    BY <1>3, <2>3 DEF RefsInv, OnlyOneDies
  <2>5. journal.dying # None => journal.dying \in Vnode /\ vn'[journal.dying] = vn[journal.dying]
    BY <1>3, <2>3 DEF RefsInv, Types
  <2>. QED
    BY <1>1, <2>2, <2>4, <2>5 DEF RefsInv, OnlyOneDies, Deleted
<1>7. HashIsCurrent'
  <2>1. \A i \in Ino : hash[i] # None => hash[i] \in Vnode
    BY DEF RefsInv, Types
  <2>2. \A v \in Vnode : vn'[v].refs > 0 => vn[v].refs > 0
    BY <1>3
  <2>. QED
    BY <1>1, <1>3, <2>1, <2>2 DEF RefsInv, HashIsCurrent
<1>8. OpIsCurrent'
  BY <1>1 DEF OpIsCurrent, Idle
<1>9. Types'
  BY <1>1, <1>4 DEF RefsInv, Types
<1>. QED
  BY <1>5, <1>6, <1>7, <1>8, <1>9 DEF RefsInv

(***************************************************************************)
(* The journal's thread.                                                   *)
(***************************************************************************)

LEMMA CompleteRefs ==
  ASSUME RefsInv, Complete PROVE RefsInv'
<1>. USE VnodeCacheAssumption
<1>1. /\ journal = Resting /\ entries # <<>> /\ entries' = Tail(entries)
      /\ journal' = [journal EXCEPT !.pins = Head(entries).pins]
      /\ UNCHANGED <<vn, hash, op, syncing, named, allocated, refused, latest>>
      /\ disk' = IF Head(entries).data = Unread \/ refused THEN disk
                 ELSE [disk EXCEPT ![Head(entries).ino] = Head(entries).data]
  BY DEF Complete
<1>2. entries \in Seq(Entry) /\ Head(entries) \in Entry /\ Tail(entries) \in Seq(Entry)
  BY <1>1 DEF RefsInv, Types
<1>3. /\ journal.pins = {} /\ journal.dying = None
      /\ journal'.pins = Head(entries).pins /\ journal'.dying = None
      /\ journal' \in [pins : SUBSET Vnode, dying : Vnode \union {None}]
  BY <1>1, <1>2 DEF Resting, Entry
<1>4. disk' \in [Ino -> Version]
  BY <1>1, <1>2 DEF RefsInv, Types, Entry
<1>5. Types'
  BY <1>1, <1>2, <1>3, <1>4 DEF RefsInv, Types
<1>6. RefsAreHeld'
  <2>. SUFFICES ASSUME NEW v \in Vnode
                PROVE  vn'[v].refs = vn'[v].open + Bit(op'.vn = v) + Bit(v \in syncing')
                                       + Pins(v)' + Bit(v \in journal'.pins)
    BY DEF RefsAreHeld, Bit
  <2>. PICK n : n = Cardinality(PinningEntries(Tail(entries), v))
    OBVIOUS
  <2>1. n \in Nat /\ Pins(v)' = n /\ Pins(v) = n + Bit(v \in Head(entries).pins)
    BY <1>1, <1>2, PinningEntriesAreFinite, PinsAfterTail DEF Pins
  <2>2. Bit(v \in journal.pins) = 0 /\ Bit(v \in journal'.pins) = Bit(v \in Head(entries).pins)
    BY <1>3 DEF Bit
  <2>3. PICK a \in Nat, b \in Nat, c \in Nat :
          /\ a = Bit(op.vn = v) /\ b = Bit(v \in syncing) /\ c = Bit(v \in Head(entries).pins)
          /\ vn[v].open \in Nat
    BY HeldMeansAlive DEF Bit, VnodeRecord
  <2>4. vn[v].refs = vn[v].open + a + b + n + c
    BY <2>1, <2>2, <2>3, HeldMeansAlive
  <2>. QED
    BY <1>1, <2>1, <2>2, <2>3, <2>4
<1>7. OnlyOneDies'
  BY <1>1, <1>3 DEF RefsInv, OnlyOneDies
<1>8. HashIsCurrent' /\ OpIsCurrent'
  BY <1>1 DEF RefsInv, HashIsCurrent, OpIsCurrent
<1>. QED
  BY <1>5, <1>6, <1>7, <1>8 DEF RefsInv

LEMMA JournalFailsRefs ==
  ASSUME RefsInv, JournalFails PROVE RefsInv'
BY DEF JournalFails, RefsInv, Types, RefsAreHeld, OnlyOneDies, HashIsCurrent, OpIsCurrent, Pins

LEMMA DropPinRefs ==
  ASSUME RefsInv, NEW v \in Vnode, DropPin(v) PROVE RefsInv'
<1>. USE VnodeCacheAssumption
<1>1. /\ v \in journal.pins /\ journal.dying = None
      /\ vn' = [vn EXCEPT ![v].refs = @ - 1]
      /\ journal' = [pins |-> journal.pins \ {v}, dying |-> IF vn[v].refs = 1 THEN v ELSE None]
      /\ UNCHANGED <<hash, op, syncing, named, allocated, entries, refused, latest, disk>>
  BY DEF DropPin
<1>2. vn \in [Vnode -> VnodeRecord] /\ vn[v].refs \in Nat /\ vn[v].open \in Nat
  BY HeldMeansAlive DEF RefsInv, Types, VnodeRecord
<1>3. vn[v].refs > 0
  BY <1>1, <1>2, HeldMeansAlive DEF Bit
<1>4. /\ vn' \in [Vnode -> VnodeRecord]
      /\ \A w \in Vnode \ {v} : vn'[w] = vn[w]
      /\ vn'[v].refs = vn[v].refs - 1
      /\ vn'[v].ino = vn[v].ino /\ vn'[v].open = vn[v].open /\ vn'[v].linked = vn[v].linked
  <2>1. \A r \in VnodeRecord : r.refs > 0 =>
          LET e == [r EXCEPT !.refs = @ - 1]
          IN  /\ e \in VnodeRecord /\ e.refs = r.refs - 1
              /\ e.ino = r.ino /\ e.open = r.open /\ e.linked = r.linked
    BY DEF VnodeRecord
  <2>2. vn' = [vn EXCEPT ![v] = [vn[v] EXCEPT !.refs = @ - 1]]
    BY <1>1, <1>2
  <2>. QED
    BY <1>2, <1>3, <2>1, <2>2
<1>5. /\ journal'.pins = journal.pins \ {v}
      /\ journal'.dying = IF vn[v].refs = 1 THEN v ELSE None
      /\ journal' \in [pins : SUBSET Vnode, dying : Vnode \union {None}]
  BY <1>1 DEF RefsInv, Types
<1>6. Types'
  BY <1>1, <1>4, <1>5 DEF RefsInv, Types
<1>7. RefsAreHeld'
  <2>1. PICK p \in Nat, a \in Nat, b \in Nat :
          p = Pins(v) /\ a = Bit(op.vn = v) /\ b = Bit(v \in syncing)
    BY HeldMeansAlive DEF Bit
  <2>2. \A w \in Vnode : Pins(w)' = Pins(w)
    BY <1>1 DEF Pins
  <2>3. Bit(v \in journal.pins) = 1 /\ Bit(v \in journal'.pins) = 0
    BY <1>1, <1>5 DEF Bit
  <2>4. vn[v].refs = vn[v].open + a + b + p + 1
    BY <2>1, <2>3, HeldMeansAlive
  <2>5. vn'[v].refs = vn'[v].open + Bit(op'.vn = v) + Bit(v \in syncing')
                        + Pins(v)' + Bit(v \in journal'.pins)
    BY <1>1, <1>2, <1>4, <2>1, <2>2, <2>3, <2>4
  <2>6. \A w \in Vnode \ {v} : (w \in journal'.pins) = (w \in journal.pins)
    BY <1>5
  <2>. QED
    BY <1>1, <1>4, <2>2, <2>5, <2>6, HeldAfterStep
<1>8. OnlyOneDies'
  <2>1. \A w \in Vnode : vn'[w].refs = 0 => vn'[w] = Deleted \/ journal'.dying = w
    BY <1>1, <1>2, <1>4, <1>5 DEF RefsInv, OnlyOneDies
  <2>2. vn[v].ino \in Ino
    BY <1>3, HeldMeansAlive
  <2>3. vn'[v] # Deleted
    BY <1>4, <2>2, DeletedFields
  <2>4. journal'.dying # None => vn'[journal'.dying].refs = 0 /\ vn'[journal'.dying] # Deleted
    BY <1>2, <1>4, <1>5, <2>3
  <2>5. \A w \in Vnode : vn'[w] # Deleted => vn'[w].ino \in Ino
    BY <1>4, <2>2 DEF RefsInv, OnlyOneDies
  <2>. QED
    BY <2>1, <2>4, <2>5 DEF OnlyOneDies, Deleted
<1>9. HashIsCurrent'
  BY <1>1, <1>3, <1>4, HashAfterStep
<1>10. OpIsCurrent'
  <2>1. op.at = "found" => op.vn \in Vnode
    BY DEF RefsInv, Types, Idle
  <2>. QED
    BY <1>1, <1>4, <2>1 DEF RefsInv, OpIsCurrent
<1>. QED
  BY <1>6, <1>7, <1>8, <1>9, <1>10 DEF RefsInv

LEMMA RecycleNodeRefs ==
  ASSUME RefsInv, NEW v \in Vnode, RecycleNode(v) PROVE RefsInv'
<1>. USE VnodeCacheAssumption
<1>1. /\ journal.dying = v
      /\ hash' = IF IsUnlinked(v) THEN hash ELSE VnodeRelease(hash, v, vn[v].ino)
      /\ vn' = [vn EXCEPT ![v] = Deleted]
      /\ journal' = [journal EXCEPT !.dying = None]
      /\ UNCHANGED <<op, syncing, named, allocated, entries, refused, latest, disk>>
  BY DEF RecycleNode
<1>2. /\ vn \in [Vnode -> VnodeRecord] /\ vn[v].refs = 0 /\ vn[v] # Deleted /\ vn[v].ino \in Ino
  BY <1>1 DEF RefsInv, Types, OnlyOneDies
<1>3. /\ vn[v].open = 0 /\ op.vn # v /\ v \notin syncing /\ Pins(v) = 0 /\ v \notin journal.pins
  <2>1. /\ vn[v].open \in Nat /\ Pins(v) \in Nat
        /\ vn[v].refs = vn[v].open + Bit(op.vn = v) + Bit(v \in syncing)
                          + Pins(v) + Bit(v \in journal.pins)
    BY HeldMeansAlive DEF VnodeRecord
  <2>2. /\ Bit(op.vn = v) = 0 /\ Bit(v \in syncing) = 0 /\ Bit(v \in journal.pins) = 0
        /\ vn[v].open = 0 /\ Pins(v) = 0
    <3>1. PICK a \in Nat, b \in Nat, c \in Nat, d \in Nat, e \in Nat :
            /\ a = Bit(op.vn = v) /\ b = Bit(v \in syncing) /\ c = Bit(v \in journal.pins)
            /\ d = Pins(v) /\ e = vn[v].open
      BY <2>1 DEF Bit
    <3>2. 0 = e + a + b + d + c
      BY <1>2, <2>1, <3>1
    <3>3. a = 0 /\ b = 0 /\ c = 0 /\ d = 0 /\ e = 0
      BY <3>2
    <3>. QED
      BY <3>1, <3>3
  <2>. QED
    BY <2>2 DEF Bit
<1>4. /\ vn' \in [Vnode -> VnodeRecord] /\ vn'[v] = Deleted
      /\ \A w \in Vnode \ {v} : vn'[w] = vn[w]
  BY <1>1, <1>2, DeletedIsARecord
<1>5. /\ journal'.pins = journal.pins /\ journal'.dying = None
      /\ journal' \in [pins : SUBSET Vnode, dying : Vnode \union {None}]
  BY <1>1 DEF RefsInv, Types
<1>6. hash' \in [Ino -> Vnode \union {None}]
  BY <1>1 DEF VnodeRelease, RefsInv, Types
<1>7. \A i \in Ino : hash'[i] = IF hash[i] = v THEN None ELSE hash[i]
  <2>. SUFFICES ASSUME NEW i \in Ino
                PROVE  hash'[i] = IF hash[i] = v THEN None ELSE hash[i]
    OBVIOUS
  <2>1. hash[i] = v => vn[v].linked /\ vn[v].ino = i
    BY <1>3 DEF RefsInv, HashIsCurrent
  <2>2. v # None
    OBVIOUS
  <2>3. CASE IsUnlinked(v)
    BY <1>1, <2>1, <2>3 DEF IsUnlinked
  <2>4. CASE ~IsUnlinked(v)
    <3>1. hash'[i] = IF i = vn[v].ino /\ hash[i] = v THEN None ELSE hash[i]
      BY <1>1, <2>4 DEF VnodeRelease, RefsInv, Types
    <3>. QED
      BY <2>1, <2>2, <3>1
  <2>. QED
    BY <2>3, <2>4
<1>8. Types'
  BY <1>1, <1>4, <1>5, <1>6 DEF RefsInv, Types
<1>9. RefsAreHeld'
  <2>1. \A w \in Vnode : Pins(w)' = Pins(w)
    BY <1>1 DEF Pins
  <2>2. vn'[v].refs = vn'[v].open + Bit(op'.vn = v) + Bit(v \in syncing')
                        + Pins(v)' + Bit(v \in journal'.pins)
    BY <1>1, <1>3, <1>4, <1>5, <2>1, DeletedFields DEF Bit
  <2>. QED
    BY <1>1, <1>4, <1>5, <2>1, <2>2, HeldAfterStep
<1>10. OnlyOneDies'
  BY <1>1, <1>4, <1>5 DEF RefsInv, OnlyOneDies, Deleted
<1>11. HashIsCurrent'
  <2>1. \A i \in Ino : hash'[i] # None => hash'[i] = hash[i] /\ hash[i] \in Vnode \ {v}
    BY <1>7 DEF RefsInv, Types
  <2>2. \A w \in Vnode \ {v} : vn[w].refs > 0 /\ (vn[w].linked \/ vn[w].open > 0) =>
          hash'[vn[w].ino] = w
    <3>. SUFFICES ASSUME NEW w \in Vnode \ {v}, vn[w].refs > 0, vn[w].linked \/ vn[w].open > 0
                  PROVE  hash'[vn[w].ino] = w
      OBVIOUS
    <3>1. vn[w].ino \in Ino /\ hash[vn[w].ino] = w
      BY HeldMeansAlive DEF RefsInv, HashIsCurrent
    <3>. QED
      BY <1>7, <3>1
  <2>. QED
    BY <1>1, <1>4, <2>1, <2>2, DeletedFields DEF RefsInv, HashIsCurrent
<1>12. OpIsCurrent'
  <2>1. op.at = "found" => op.vn \in Vnode \ {v}
    BY <1>3 DEF RefsInv, Types, Idle
  <2>2. op.at = "recreate" => hash'[op.ino] = None
    <3>1. op.at = "recreate" => op.ino \in Ino /\ hash[op.ino] = None
      BY DEF RefsInv, Types, Idle, OpIsCurrent
    <3>. QED
      BY <1>7, <3>1
  <2>. QED
    BY <1>1, <1>4, <2>1, <2>2 DEF RefsInv, OpIsCurrent
<1>. QED
  BY <1>8, <1>9, <1>10, <1>11, <1>12 DEF RefsInv

(***************************************************************************)
(* The theorems.                                                           *)
(***************************************************************************)

LEMMA InitRefs == Init => RefsInv
<1>. USE VnodeCacheAssumption
<1>. SUFFICES ASSUME Init PROVE RefsInv
  OBVIOUS
<1>1. Types
  <2>1. vn \in [Vnode -> VnodeRecord]
    BY DeletedIsARecord DEF Init
  <2>2. latest \in [Ino -> Version] /\ disk \in [Ino -> Version]
    BY DEF Init, Version
  <2>3. journal \in [pins : SUBSET Vnode, dying : Vnode \union {None}]
    BY DEF Init, Resting
  <2>4. hash \in [Ino -> Vnode \union {None}] /\ entries \in Seq(Entry)
    BY DEF Init
  <2>. QED
    BY <2>1, <2>2, <2>3, <2>4 DEF Init, Types
<1>2. RefsAreHeld
  <2>1. \A v : PinningEntries(<<>>, v) = {}
    BY DEF PinningEntries
  <2>2. \A v : Pins(v) = 0
    BY <2>1, FS_EmptySet DEF Pins, Init
  <2>3. \A v \in Vnode : /\ vn[v].refs = 0 /\ vn[v].open = 0 /\ op.vn # v
                         /\ v \notin syncing /\ v \notin journal.pins
    BY DeletedFields DEF Init, Idle, Resting
  <2>. SUFFICES ASSUME NEW v \in Vnode
                PROVE  vn[v].refs = vn[v].open + Bit(op.vn = v) + Bit(v \in syncing)
                                      + Pins(v) + Bit(v \in journal.pins)
    BY DEF RefsAreHeld
  <2>4. Bit(op.vn = v) = 0 /\ Bit(v \in syncing) = 0 /\ Bit(v \in journal.pins) = 0
    BY <2>3 DEF Bit
  <2>. QED
    BY <2>2, <2>3, <2>4
<1>3. OnlyOneDies
  BY DEF Init, OnlyOneDies, Resting
<1>4. HashIsCurrent
  BY DeletedFields DEF Init, HashIsCurrent
<1>5. OpIsCurrent
  BY DEF Init, OpIsCurrent, Idle
<1>. QED
  BY <1>1, <1>2, <1>3, <1>4, <1>5 DEF RefsInv

LEMMA NextRefs == RefsInv /\ [Next]_vars => RefsInv'
<1>. SUFFICES ASSUME RefsInv, [Next]_vars PROVE RefsInv'
  OBVIOUS
<1>1. ASSUME NEW i \in Ino, VnodeLookup(i) PROVE RefsInv'
  BY <1>1, VnodeLookupRefs
<1>2. ASSUME NEW i \in Ino, NEW v \in Vnode, Create(v, i) PROVE RefsInv'
  BY <1>2, CreateRefs
<1>3. ASSUME NEW v \in Vnode,
             \/ Recreate(v) \/ Read(v) \/ Write(v) \/ FlushCachedWrites(v)
             \/ Close(v) \/ CloseFlushes(v) \/ CloseLoses(v)
             \/ RemoveUnlinked(v) \/ RemoveUnlinkedFails(v)
             \/ LetGo(v) \/ DropPin(v) \/ RecycleNode(v)
      PROVE  RefsInv'
  BY <1>3, RecreateRefs, ReadRefs, WriteRefs, FlushCachedWritesRefs, CloseRefs, CloseFlushesRefs,
     CloseLosesRefs, RemoveUnlinkedRefs, RemoveUnlinkedFailsRefs, LetGoRefs, DropPinRefs,
     RecycleNodeRefs
<1>4. ASSUME Open \/ LookAway \/ Unlink \/ GetDirtyVnodes \/ Complete \/ JournalFails
      PROVE  RefsInv'
  BY <1>4, OpenRefs, LookAwayRefs, UnlinkRefs, GetDirtyVnodesRefs, CompleteRefs, JournalFailsRefs
<1>5. CASE UNCHANGED vars
  BY <1>5 DEF vars, RefsInv, Types, RefsAreHeld, OnlyOneDies, HashIsCurrent, OpIsCurrent, Pins
<1>. QED
  BY <1>1, <1>2, <1>3, <1>4, <1>5 DEF Next

LEMMA RefsInvariant == Spec => []RefsInv
BY InitRefs, NextRefs, PTL DEF Spec

\* A linked inode has one vnode in use, the one a lookup finds: VnodeRelease erases by
\* object, so no vnode dying on the journal's thread takes another out of the hash.
THEOREM OneVnode == Spec => []OneVnodePerInode
<1>1. RefsInv => OneVnodePerInode
  BY DEF RefsInv, HashIsCurrent, OneVnodePerInode, IsUnlinked
<1>. QED
  BY <1>1, RefsInvariant, PTL

\* vnode_hash_ never leads to a deleted vnode, no reference is dropped twice, and
\* VnodeInsert's assertion that the inode has no vnode holds.
THEOREM HashLeadsToVnodes == Spec => []HashIsSound
<1>1. RefsInv => TypeOK
  <2>. SUFFICES ASSUME RefsInv PROVE TypeOK
    OBVIOUS
  <2>1. \A v \in Vnode : /\ vn[v].ino \in Ino \union {None}
                          /\ vn[v].open \in 0..MaxOpen /\ vn[v].refs \in Nat
                          /\ vn[v].open <= vn[v].refs
                          /\ vn[v].data \in {Unread} \union 0..MaxVersion
    BY HeldMeansAlive DEF VnodeRecord, Version
  <2>. QED
    BY <2>1 DEF RefsInv, Types, TypeOK
<1>2. RefsInv => HashIsSound
  BY <1>1 DEF RefsInv, HashIsCurrent, OpIsCurrent, HashIsSound
<1>. QED
  BY <1>2, RefsInvariant, PTL

(***************************************************************************)
(* What a file's vnode reads is what was last written, although vnodes come  *)
(* and go.  Transactions reach the disk in order, so of those that write an  *)
(* inode's data the last one counts.                                         *)
(***************************************************************************)

Writes(e, i) == e.ino = i /\ e.data # Unread

LastWrite(s, k, i) ==
  /\ k \in DOMAIN s /\ Writes(s[k], i)
  /\ \A m \in DOMAIN s : m > k => ~Writes(s[m], i)

SomeOnItsWay(s, i) == \E k \in DOMAIN s : LastWrite(s, k, i)
NoneOnItsWay(s, i) == \A k \in DOMAIN s : ~Writes(s[k], i)
OnItsWay(s, i, data) == \E k \in DOMAIN s : LastWrite(s, k, i) /\ s[k].data = data
KeptBy(s, i, v) == \A k \in DOMAIN s : LastWrite(s, k, i) => v \in s[k].pins

\* What a vnode has read is the latest; as long as the latest is on its way to the disk,
\* the vnode that has it is pinned; if it is neither dirty nor on its way, it is on disk.
Stored(i) == disk[i] = latest[i] /\ NoneOnItsWay(entries, i)

InodeData(i) ==
  /\ hash[i] # None /\ vn[hash[i]].data # Unread => vn[hash[i]].data = latest[i]
  /\ SomeOnItsWay(entries, i) =>
       hash[i] # None /\ vn[hash[i]].data # Unread /\ KeptBy(entries, i, hash[i])
  /\ \/ hash[i] # None /\ vn[hash[i]].dirty = TRUE
     \/ OnItsWay(entries, i, latest[i])
     \/ Stored(i)

\* Dirty data has been read, and is somebody's who will flush it when closing.
DirtyIsOpen ==
  \A v \in Vnode : vn[v].dirty = TRUE => vn[v].data # Unread /\ (vn[v].open > 0 \/ refused)

\* Once the journal has failed, nothing is promised of the data.
DataIsKept == DirtyIsOpen /\ (~refused => \A i \in allocated : InodeData(i))

(***************************************************************************)
(* Transactions that are committed, and that are complete.                  *)
(***************************************************************************)

\* A transaction that writes nothing of i changes nothing for it.
NothingAdded(s, t, i) ==
  /\ SomeOnItsWay(t, i) => SomeOnItsWay(s, i)
  /\ NoneOnItsWay(s, i) => NoneOnItsWay(t, i)
  /\ \A data : OnItsWay(s, i, data) => OnItsWay(t, i, data)
  /\ \A v : KeptBy(s, i, v) => KeptBy(t, i, v)

LEMMA AppendOfOthers ==
  ASSUME NEW s \in Seq(Entry), NEW e \in Entry, NEW i, ~Writes(e, i)
  PROVE  NothingAdded(s, Append(s, e), i)
<1>. DEFINE t == Append(s, e)
<1>1. /\ DOMAIN s = 1..Len(s) /\ DOMAIN t = 1..(Len(s) + 1) /\ Len(s) \in Nat
      /\ \A k \in 1..Len(s) : t[k] = s[k]
      /\ t[Len(s) + 1] = e
  OBVIOUS
<1>. HIDE DEF t
<1>2. \A k : LastWrite(t, k, i) <=> LastWrite(s, k, i)
  <2>1. ASSUME NEW k, LastWrite(t, k, i) PROVE LastWrite(s, k, i)
    <3>1. k \in 1..Len(s)
      BY <1>1, <2>1 DEF LastWrite
    <3>. QED
      BY <1>1, <2>1, <3>1 DEF LastWrite
  <2>2. ASSUME NEW k, LastWrite(s, k, i) PROVE LastWrite(t, k, i)
    BY <1>1, <2>2 DEF LastWrite
  <2>. QED
    BY <2>1, <2>2
<1>3. \A k : LastWrite(s, k, i) => k \in 1..Len(s)
  BY <1>1 DEF LastWrite
<1>4. SomeOnItsWay(t, i) => SomeOnItsWay(s, i)
  BY <1>1, <1>2, <1>3 DEF SomeOnItsWay
<1>5. NoneOnItsWay(s, i) => NoneOnItsWay(t, i)
  BY <1>1 DEF NoneOnItsWay
<1>6. \A data : OnItsWay(s, i, data) => OnItsWay(t, i, data)
  BY <1>1, <1>2, <1>3 DEF OnItsWay
<1>7. \A v : KeptBy(s, i, v) => KeptBy(t, i, v)
  BY <1>1, <1>2, <1>3 DEF KeptBy
<1>. QED
  BY <1>4, <1>5, <1>6, <1>7 DEF t, NothingAdded

\* One that writes i is the last.
LEMMA AppendOfData ==
  ASSUME NEW s \in Seq(Entry), NEW e \in Entry, NEW i, Writes(e, i)
  PROVE  /\ OnItsWay(Append(s, e), i, e.data)
         /\ \A v \in e.pins : KeptBy(Append(s, e), i, v)
<1>. DEFINE t == Append(s, e)
            n == Len(s) + 1
<1>1. /\ DOMAIN t = 1..n /\ n \in Nat \ {0} /\ t[n] = e
  OBVIOUS
<1>. HIDE DEF t, n
<1>2. LastWrite(t, n, i)
  BY <1>1 DEF LastWrite
<1>3. \A k : LastWrite(t, k, i) => k = n
  BY <1>1 DEF LastWrite
<1>4. OnItsWay(t, i, e.data)
  BY <1>1, <1>2 DEF OnItsWay
<1>5. \A v \in e.pins : KeptBy(t, i, v)
  BY <1>1, <1>3 DEF KeptBy
<1>. QED
  BY <1>4, <1>5 DEF t

\* What leaves from the front was the last that writes i only if none is left.
LEMMA TailOfTransactions ==
  ASSUME NEW s \in Seq(Entry), s # <<>>, NEW i
  PROVE  /\ SomeOnItsWay(Tail(s), i) => SomeOnItsWay(s, i)
         /\ NoneOnItsWay(s, i) => NoneOnItsWay(Tail(s), i) /\ ~Writes(Head(s), i)
         /\ \A data : OnItsWay(s, i, data) =>
              \/ OnItsWay(Tail(s), i, data)
              \/ NoneOnItsWay(Tail(s), i) /\ Writes(Head(s), i) /\ Head(s).data = data
         /\ \A v : KeptBy(s, i, v) => KeptBy(Tail(s), i, v)
<1>. DEFINE t == Tail(s)
            n == Len(s)
<1>1. /\ DOMAIN s = 1..n /\ DOMAIN t = 1..(n - 1) /\ n \in Nat \ {0}
      /\ \A k \in 1..(n - 1) : t[k] = s[k + 1]
      /\ Head(s) = s[1]
  OBVIOUS
<1>. HIDE DEF t, n
<1>2. \A k \in 1..(n - 1) : LastWrite(t, k, i) <=> LastWrite(s, k + 1, i)
  <2>. SUFFICES ASSUME NEW k \in 1..(n - 1)
                PROVE  LastWrite(t, k, i) <=> LastWrite(s, k + 1, i)
    OBVIOUS
  <2>1. k + 1 \in 1..n /\ t[k] = s[k + 1]
    BY <1>1
  <2>2. (\A m \in 1..(n - 1) : m > k => ~Writes(t[m], i))
          <=> (\A m \in 1..n : m > k + 1 => ~Writes(s[m], i))
    <3>1. ASSUME \A m \in 1..(n - 1) : m > k => ~Writes(t[m], i),
                 NEW m \in 1..n, m > k + 1
          PROVE  ~Writes(s[m], i)
      <4>1. m - 1 \in 1..(n - 1) /\ m - 1 > k /\ (m - 1) + 1 = m
        BY <1>1, <3>1
      <4>. QED
        BY <1>1, <3>1, <4>1
    <3>2. ASSUME \A m \in 1..n : m > k + 1 => ~Writes(s[m], i),
                 NEW m \in 1..(n - 1), m > k
          PROVE  ~Writes(t[m], i)
      <4>1. m + 1 \in 1..n /\ m + 1 > k + 1
        BY <1>1, <3>2
      <4>. QED
        BY <1>1, <3>2, <4>1
    <3>. QED
      BY <3>1, <3>2
  <2>. QED
    BY <1>1, <2>1, <2>2 DEF LastWrite
<1>3. /\ \A k : LastWrite(t, k, i) => k \in 1..(n - 1) /\ k + 1 \in 1..n
      /\ \A k : LastWrite(s, k, i) => k \in 1..n /\ (k # 1 => k - 1 \in 1..(n - 1) /\ (k - 1) + 1 = k)
  BY <1>1 DEF LastWrite
<1>4. SomeOnItsWay(t, i) => SomeOnItsWay(s, i)
  BY <1>1, <1>2, <1>3 DEF SomeOnItsWay
<1>5. NoneOnItsWay(s, i) => NoneOnItsWay(t, i) /\ ~Writes(Head(s), i)
  BY <1>1 DEF NoneOnItsWay
<1>6. ASSUME NEW data, OnItsWay(s, i, data)
      PROVE  \/ OnItsWay(t, i, data)
             \/ NoneOnItsWay(t, i) /\ Writes(Head(s), i) /\ Head(s).data = data
  <2>1. PICK k \in 1..n : LastWrite(s, k, i) /\ s[k].data = data
    BY <1>1, <1>6 DEF OnItsWay
  <2>2. CASE k = 1
    <3>1. Writes(Head(s), i) /\ Head(s).data = data
      BY <1>1, <2>1, <2>2 DEF LastWrite
    <3>2. \A m \in 1..(n - 1) : ~Writes(t[m], i)
      BY <1>1, <2>1, <2>2 DEF LastWrite
    <3>. QED
      BY <1>1, <3>1, <3>2 DEF NoneOnItsWay
  <2>3. CASE k # 1
    <3>1. k - 1 \in 1..(n - 1) /\ (k - 1) + 1 = k
      BY <1>1, <2>1, <2>3
    <3>2. LastWrite(t, k - 1, i) /\ t[k - 1].data = data
      BY <1>1, <1>2, <2>1, <3>1
    <3>. QED
      BY <1>1, <3>1, <3>2 DEF OnItsWay
  <2>. QED
    BY <2>2, <2>3
<1>7. ASSUME NEW v, KeptBy(s, i, v) PROVE KeptBy(t, i, v)
  <2>. SUFFICES ASSUME NEW k \in 1..(n - 1), LastWrite(t, k, i) PROVE v \in t[k].pins
    BY <1>1 DEF KeptBy
  <2>1. k + 1 \in 1..n /\ LastWrite(s, k + 1, i) /\ t[k] = s[k + 1]
    BY <1>1, <1>2
  <2>. QED
    BY <1>1, <1>7, <2>1 DEF KeptBy
<1>. QED
  BY <1>4, <1>5, <1>6, <1>7 DEF t

(***************************************************************************)
(* When a vnode may go, and when it must stay.                              *)
(***************************************************************************)

\* Nobody refers to a vnode without references.
Unreferenced ==
  \A v \in Vnode : vn[v].refs = 0 =>
    /\ vn[v].open = 0
    /\ \A k \in DOMAIN entries : v \notin entries[k].pins

LEMMA NoReferences == RefsInv => Unreferenced
<1>. SUFFICES ASSUME RefsInv, NEW v \in Vnode, vn[v].refs = 0
              PROVE  /\ vn[v].open = 0
                     /\ \A k \in DOMAIN entries : v \notin entries[k].pins
  BY DEF Unreferenced
<1>. USE VnodeCacheAssumption
<1>1. PICK a \in Nat, b \in Nat, c \in Nat, d \in Nat, e \in Nat :
        /\ a = Bit(op.vn = v) /\ b = Bit(v \in syncing) /\ c = Bit(v \in journal.pins)
        /\ d = Pins(v) /\ e = vn[v].open
  BY HeldMeansAlive DEF Bit, VnodeRecord
<1>2. 0 = e + a + b + d + c
  BY <1>1, HeldMeansAlive
<1>3. d = 0 /\ e = 0
  BY <1>2
<1>4. entries \in Seq(Entry)
  BY DEF RefsInv, Types
<1>5. PinningEntries(entries, v) = {}
  BY <1>1, <1>3, <1>4, PinningEntriesAreFinite, FS_EmptySet DEF Pins
<1>. QED
  BY <1>1, <1>3, <1>5 DEF PinningEntries

LEMMA NoReferencesNext == RefsInv' => Unreferenced'
BY NoReferences, PTL

\* The data of an inode is on disk when the vnode that has it may be deleted, and when
\* there is none that has read it.
LEMMA StoredWhenIdle ==
  ASSUME RefsInv, DataIsKept, ~refused, NEW i \in allocated,
         \/ hash[i] = None
         \/ vn[hash[i]].data = Unread
         \/ /\ vn[hash[i]].dirty = FALSE
            /\ \A k \in DOMAIN entries : hash[i] \notin entries[k].pins
  PROVE  Stored(i)
<1>1. InodeData(i)
  BY DEF DataIsKept
<1>2. ~SomeOnItsWay(entries, i)
  <2>. SUFFICES ASSUME SomeOnItsWay(entries, i) PROVE FALSE
    OBVIOUS
  <2>1. hash[i] # None /\ vn[hash[i]].data # Unread /\ KeptBy(entries, i, hash[i])
    BY <1>1 DEF InodeData
  <2>2. PICK k \in DOMAIN entries : LastWrite(entries, k, i)
    BY DEF SomeOnItsWay
  <2>3. hash[i] \in entries[k].pins
    BY <2>1, <2>2 DEF KeptBy
  <2>. QED
    BY <2>1, <2>3
<1>3. ~(hash[i] # None /\ vn[hash[i]].dirty = TRUE)
  <2>1. hash[i] # None => hash[i] \in Vnode
    BY DEF RefsInv, Types
  <2>2. hash[i] # None /\ vn[hash[i]].dirty = TRUE => vn[hash[i]].data # Unread
    BY <2>1 DEF DataIsKept, DirtyIsOpen
  <2>. QED
    BY <2>2
<1>4. ~OnItsWay(entries, i, latest[i])
  BY <1>2 DEF OnItsWay, SomeOnItsWay
<1>. QED
  BY <1>1, <1>3, <1>4 DEF InodeData

\* Data that is on disk stays what a vnode reads.
LEMMA StaysStored ==
  ASSUME NEW i, Stored(i), entries' = entries, disk'[i] = disk[i], latest'[i] = latest[i],
         hash'[i] = None \/ vn'[hash'[i]].data = Unread \/ vn'[hash'[i]].data = latest[i]
  PROVE  InodeData(i)'
<1>1. Stored(i)' /\ ~SomeOnItsWay(entries', i)
  BY DEF Stored, NoneOnItsWay, SomeOnItsWay, LastWrite
<1>. QED
  BY <1>1 DEF InodeData

\* A step that leaves the inode's vnode in place, and writes nothing of the inode.
LEMMA StaysTheSame ==
  ASSUME NEW i, InodeData(i), disk'[i] = disk[i], latest'[i] = latest[i], hash'[i] = hash[i],
         hash[i] # None => /\ vn'[hash[i]].data = vn[hash[i]].data
                           /\ vn'[hash[i]].dirty = vn[hash[i]].dirty,
         entries' = entries \/ NothingAdded(entries, entries', i)
  PROVE  InodeData(i)'
<1>1. /\ SomeOnItsWay(entries', i) => SomeOnItsWay(entries, i)
      /\ NoneOnItsWay(entries, i) => NoneOnItsWay(entries', i)
      /\ OnItsWay(entries, i, latest[i]) => OnItsWay(entries', i, latest[i])
      /\ KeptBy(entries, i, hash[i]) => KeptBy(entries', i, hash[i])
  BY DEF NothingAdded
<1>2. hash'[i] # None /\ vn'[hash'[i]].data # Unread => vn'[hash'[i]].data = latest'[i]
  BY DEF InodeData
<1>3. SomeOnItsWay(entries', i) =>
        hash'[i] # None /\ vn'[hash'[i]].data # Unread /\ KeptBy(entries', i, hash'[i])
  BY <1>1 DEF InodeData
<1>4. \/ hash'[i] # None /\ vn'[hash'[i]].dirty = TRUE
      \/ OnItsWay(entries', i, latest'[i])
      \/ disk'[i] = latest'[i] /\ NoneOnItsWay(entries', i)
  BY <1>1 DEF InodeData, Stored
<1>. QED
  BY <1>2, <1>3, <1>4 DEF InodeData, Stored

LEMMA DropsFields ==
  ASSUME NEW r \in VnodeRecord, r.refs > 0
  PROVE  LET e == [r EXCEPT !.refs = @ - 1]
         IN  e.data = r.data /\ e.dirty = r.dirty /\ e.open = r.open
BY DEF VnodeRecord

\* A reference of v is dropped: if it is the last one, what v has is on disk.
LEMMA DropKeepsData ==
  ASSUME RefsInv, DataIsKept, RefsInv', NEW v \in Vnode,
         NEW objects \in [Vnode -> VnodeRecord],
         Drops(objects, hash, v),
         \A w \in Vnode \ {v} : objects[w] = vn[w],
         objects[v].refs > 0, objects[v].ino \in Ino,
         objects[v].data = vn[v].data, objects[v].dirty = vn[v].dirty,
         objects[v].refs = 1 => vn[v].dirty = FALSE \/ refused,
         vn[v].dirty = TRUE => objects[v].open > 0 \/ refused,
         UNCHANGED <<allocated, entries, refused, latest, disk>>
  PROVE  DataIsKept'
<1>. USE VnodeCacheAssumption
<1>1. hash \in [Ino -> Vnode \union {None}] /\ allocated \subseteq Ino
  BY DEF RefsInv, Types
<1>2. /\ \A w \in Vnode \ {v} : vn'[w] = vn[w]
      /\ \/ /\ vn'[v] = [objects[v] EXCEPT !.refs = @ - 1]
            /\ hash' = hash
         \/ /\ objects[v].refs = 1 /\ vn'[v] = Deleted
            /\ \A i \in Ino : hash'[i] = hash[i] \/ (hash'[i] = None /\ hash[i] = v)
  BY <1>1, DropsAReference
<1>3. CASE vn'[v] = [objects[v] EXCEPT !.refs = @ - 1] /\ hash' = hash
  <2>1. vn'[v].data = vn[v].data /\ vn'[v].dirty = vn[v].dirty /\ vn'[v].open = objects[v].open
    <3>1. objects[v] \in VnodeRecord
      OBVIOUS
    <3>. QED
      BY <1>3, <3>1, DropsFields
  <2>2. DirtyIsOpen'
    BY <1>2, <2>1 DEF DataIsKept, DirtyIsOpen
  <2>3. ASSUME ~refused, NEW i \in allocated PROVE InodeData(i)'
    <3>1. InodeData(i) /\ (hash[i] # None => hash[i] \in Vnode)
      BY <1>1, <2>3 DEF DataIsKept
    <3>2. hash[i] # None => /\ vn'[hash[i]].data = vn[hash[i]].data
                            /\ vn'[hash[i]].dirty = vn[hash[i]].dirty
      BY <1>2, <2>1, <3>1
    <3>. QED
      BY <1>3, <3>1, <3>2, StaysTheSame
  <2>. QED
    BY <2>2, <2>3 DEF DataIsKept
<1>4. CASE /\ objects[v].refs = 1 /\ vn'[v] = Deleted
           /\ \A i \in Ino : hash'[i] = hash[i] \/ (hash'[i] = None /\ hash[i] = v)
  <2>1. (vn[v].dirty = FALSE \/ refused) /\ vn'[v].dirty = FALSE /\ vn'[v].refs = 0 /\ vn'[v].ino = None
    BY <1>4, DeletedFields
  <2>2. DirtyIsOpen'
    BY <1>2, <2>1 DEF DataIsKept, DirtyIsOpen
  <2>3. \A k \in DOMAIN entries : v \notin entries[k].pins
    BY <2>1, NoReferencesNext DEF Unreferenced
  <2>4. \A i \in Ino : hash'[i] # v
    BY <2>1 DEF RefsInv, HashIsCurrent
  <2>5. ASSUME ~refused, NEW i \in allocated PROVE InodeData(i)'
    <3>1. i \in Ino /\ InodeData(i) /\ (hash[i] # None => hash[i] \in Vnode)
      BY <1>1, <2>5 DEF DataIsKept
    <3>2. CASE hash[i] = v
      <4>1. Stored(i)
        BY <2>1, <2>3, <2>5, <3>2, StoredWhenIdle
      <4>2. hash'[i] = None
        BY <1>4, <2>4, <3>1, <3>2
      <4>. QED
        BY <4>1, <4>2, StaysStored
    <3>3. CASE hash[i] # v
      <4>1. hash'[i] = hash[i]
        BY <1>4, <3>1, <3>3
      <4>2. hash[i] # None => vn'[hash[i]] = vn[hash[i]]
        BY <1>2, <3>1, <3>3
      <4>. QED
        BY <3>1, <4>1, <4>2, StaysTheSame
    <3>. QED
      BY <3>2, <3>3
  <2>. QED
    BY <2>2, <2>5 DEF DataIsKept
<1>. QED
  BY <1>2, <1>3, <1>4

\* A step that only takes or drops references, and deletes nothing.
LEMMA SameData ==
  ASSUME RefsInv, DataIsKept,
         UNCHANGED <<hash, allocated, entries, refused, latest, disk>>,
         \A w \in Vnode : /\ vn'[w].data = vn[w].data /\ vn'[w].dirty = vn[w].dirty
                          /\ vn[w].open > 0 => vn'[w].open > 0
  PROVE  DataIsKept'
<1>1. DirtyIsOpen'
  BY DEF DataIsKept, DirtyIsOpen
<1>2. ASSUME ~refused, NEW i \in allocated PROVE InodeData(i)'
  <2>1. InodeData(i) /\ (hash[i] # None => hash[i] \in Vnode)
    BY <1>2 DEF DataIsKept, RefsInv, Types
  <2>. QED
    BY <2>1, StaysTheSame
<1>. QED
  BY <1>1, <1>2 DEF DataIsKept

(***************************************************************************)
(* The operations.                                                         *)
(***************************************************************************)

LEMMA VnodeLookupData ==
  ASSUME RefsInv, DataIsKept, NEW j \in Ino, VnodeLookup(j) PROVE DataIsKept'
<1>. USE VnodeCacheAssumption
<1>1. UNCHANGED <<syncing, named, allocated, entries, journal, refused, latest, disk>>
      /\ j \in allocated
  BY DEF VnodeLookup, RefsInv, Types
<1>2. hash[j] # None => hash[j] \in Vnode /\ vn[hash[j]].ino = j /\ vn[hash[j]].linked
                        /\ vn[hash[j]] # Deleted
  BY DeletedFields DEF VnodeLookup, RefsInv, HashIsCurrent, Types
<1>3. CASE Found(hash[j])
  <2>. PICK v \in Vnode : v = hash[j]
    BY <1>2, <1>3 DEF Found
  <2>1. /\ vn' = [vn EXCEPT ![v].refs = @ + 1] /\ hash' = hash
    BY <1>3 DEF VnodeLookup, WithoutDying, IsDying, Found
  <2>2. /\ \A w \in Vnode \ {v} : vn'[w] = vn[w]
        /\ vn'[v].data = vn[v].data /\ vn'[v].dirty = vn[v].dirty /\ vn'[v].open = vn[v].open
    BY <2>1, OneMoreReference DEF RefsInv, Types
  <2>. QED
    BY <1>1, <2>1, <2>2, SameData
<1>4. CASE ~Found(hash[j])
  <2>1. vn' = vn
    BY <1>4 DEF VnodeLookup
  <2>2. hash[j] # None => vn[hash[j]].refs = 0
    BY <1>2, <1>4, HeldMeansAlive DEF Found, IsUnlinked, VnodeRecord
  <2>3. hash' = [hash EXCEPT ![j] = None]
    BY <1>2, <2>2 DEF VnodeLookup, WithoutDying, IsDying, RefsInv, Types
  <2>4. DirtyIsOpen'
    BY <1>1, <2>1 DEF DataIsKept, DirtyIsOpen
  <2>5. ASSUME ~refused, NEW i \in allocated PROVE InodeData(i)'
    <3>1. i \in Ino /\ InodeData(i)
      BY <2>5 DEF DataIsKept, RefsInv, Types
    <3>2. CASE i = j
      <4>1. hash[j] # None => /\ vn[hash[j]].dirty = FALSE
                              /\ \A k \in DOMAIN entries : hash[j] \notin entries[k].pins
        <5>. SUFFICES ASSUME hash[j] # None
                      PROVE  /\ vn[hash[j]].dirty = FALSE
                             /\ \A k \in DOMAIN entries : hash[j] \notin entries[k].pins
          OBVIOUS
        <5>. PICK v \in Vnode : v = hash[j]
          BY <1>2
        <5>1. vn[v].open = 0 /\ \A k \in DOMAIN entries : v \notin entries[k].pins
          BY <2>2, NoReferences DEF Unreferenced
        <5>2. vn[v].dirty \in BOOLEAN
          BY HeldMeansAlive DEF VnodeRecord
        <5>. QED
          BY <2>5, <5>1, <5>2 DEF DataIsKept, DirtyIsOpen
      <4>2. Stored(i)
        BY <2>5, <3>2, <4>1, StoredWhenIdle
      <4>3. hash'[i] = None
        BY <2>3, <3>1, <3>2 DEF RefsInv, Types
      <4>. QED
        BY <1>1, <4>2, <4>3, StaysStored
    <3>3. CASE i # j
      <4>1. hash'[i] = hash[i]
        BY <2>3, <3>1, <3>3 DEF RefsInv, Types
      <4>. QED
        BY <1>1, <2>1, <3>1, <4>1, StaysTheSame
    <3>. QED
      BY <3>2, <3>3
  <2>. QED
    BY <1>1, <2>4, <2>5 DEF DataIsKept
<1>. QED
  BY <1>3, <1>4

LEMMA RecreateData ==
  ASSUME RefsInv, DataIsKept, NEW v \in Vnode, Recreate(v) PROVE DataIsKept'
<1>. USE VnodeCacheAssumption
<1>1. /\ op.ino \in Ino /\ hash[op.ino] = None
      /\ vn[v] = Deleted
      /\ UNCHANGED <<syncing, named, allocated, entries, journal, refused, latest, disk>>
  BY DEF Recreate, VnodeInsert, Idle, RefsInv, Types, OpIsCurrent
<1>2. /\ vn' = [vn EXCEPT ![v] = [Deleted EXCEPT !.ino = op.ino, !.refs = 1,
                                                !.linked = TRUE, !.data = Unread]]
      /\ hash' = [hash EXCEPT ![op.ino] = v]
  BY DEF Recreate, VnodeInsert
<1>3. /\ \A w \in Vnode \ {v} : vn'[w] = vn[w]
      /\ vn'[v].data = Unread /\ vn'[v].dirty = FALSE
  BY <1>2 DEF Deleted, RefsInv, Types
<1>4. DirtyIsOpen'
  BY <1>1, <1>3 DEF DataIsKept, DirtyIsOpen
<1>5. ASSUME ~refused, NEW i \in allocated PROVE InodeData(i)'
  <2>1. i \in Ino /\ InodeData(i) /\ (hash[i] # None => hash[i] \in Vnode /\ hash[i] # v)
    BY <1>1, <1>5, DeletedFields DEF DataIsKept, RefsInv, Types, HashIsCurrent
  <2>2. CASE i = op.ino
    <3>1. Stored(i)
      BY <1>1, <1>5, <2>2, StoredWhenIdle
    <3>2. hash'[i] = v
      BY <1>2, <2>1, <2>2 DEF RefsInv, Types
    <3>. QED
      BY <1>1, <1>3, <3>1, <3>2, StaysStored
  <2>3. CASE i # op.ino
    <3>1. hash'[i] = hash[i]
      BY <1>2, <2>1, <2>3 DEF RefsInv, Types
    <3>2. hash[i] # None => vn'[hash[i]] = vn[hash[i]]
      BY <1>3, <2>1
    <3>. QED
      BY <1>1, <2>1, <3>1, <3>2, StaysTheSame
  <2>. QED
    BY <2>2, <2>3
<1>. QED
  BY <1>1, <1>4, <1>5 DEF DataIsKept

LEMMA OpenData ==
  ASSUME RefsInv, DataIsKept, Open PROVE DataIsKept'
<1>1. op.vn \in Vnode
      /\ UNCHANGED <<hash, syncing, named, allocated, entries, journal, refused, latest, disk>>
  BY DEF Open, RefsInv, Types, Idle
<1>. PICK v \in Vnode : v = op.vn
  BY <1>1
<1>2. vn' = [vn EXCEPT ![v] = [vn[v] EXCEPT !.open = @ + 1]] /\ vn \in [Vnode -> VnodeRecord]
  BY DEF Open, RefsInv, Types
<1>3. /\ \A w \in Vnode \ {v} : vn'[w] = vn[w]
      /\ vn'[v].data = vn[v].data /\ vn'[v].dirty = vn[v].dirty /\ vn'[v].open > 0
  <2>1. \A r \in VnodeRecord : LET e == [r EXCEPT !.open = @ + 1]
                               IN  e.data = r.data /\ e.dirty = r.dirty /\ e.open > 0
    BY VnodeCacheAssumption DEF VnodeRecord
  <2>. QED
    BY <1>2, <2>1
<1>. QED
  BY <1>1, <1>3, SameData

LEMMA LookAwayData ==
  ASSUME RefsInv, DataIsKept, RefsInv', LookAway PROVE DataIsKept'
<1>1. op.at = "found" /\ op.vn \in Vnode
      /\ UNCHANGED <<syncing, named, allocated, entries, journal, refused, latest, disk>>
  BY DEF LookAway, RefsInv, Types, Idle
<1>. PICK v \in Vnode : v = op.vn
  BY <1>1
<1>2. vn \in [Vnode -> VnodeRecord] /\ Drops(vn, hash, v)
  BY DEF LookAway, RefsInv, Types
<1>3. vn[v].refs > vn[v].open /\ vn[v].open \in Nat /\ vn[v].refs \in Nat /\ vn[v].refs > 0
      /\ vn[v].ino \in Ino /\ vn[v].dirty \in BOOLEAN
  BY HeldMeansAlive, VnodeCacheAssumption DEF VnodeRecord
<1>4. vn[v].dirty = TRUE => vn[v].open > 0 \/ refused
  BY DEF DataIsKept, DirtyIsOpen
<1>5. vn[v].refs = 1 => vn[v].dirty = FALSE \/ refused
  BY <1>3, <1>4
<1>. QED
  BY <1>1, <1>2, <1>3, <1>4, <1>5, DropKeepsData

LEMMA LetGoData ==
  ASSUME RefsInv, DataIsKept, RefsInv', NEW v \in Vnode, LetGo(v) PROVE DataIsKept'
<1>1. /\ v \in syncing /\ Drops(vn, hash, v)
      /\ UNCHANGED <<op, named, allocated, entries, journal, refused, latest, disk>>
  BY DEF LetGo
<1>2. vn \in [Vnode -> VnodeRecord] /\ vn[v].dirty = FALSE
  <2>1. vn[v].dirty \in BOOLEAN
    BY HeldMeansAlive DEF VnodeRecord
  <2>. QED
    BY <2>1 DEF LetGo, RefsInv, Types
<1>3. vn[v].refs > 0 /\ vn[v].ino \in Ino
  <2>1. vn[v].refs > 0
    BY <1>1, HeldMeansAlive, VnodeCacheAssumption DEF Bit, VnodeRecord
  <2>. QED
    BY <2>1, HeldMeansAlive
<1>. QED
  BY <1>1, <1>2, <1>3, DropKeepsData

LEMMA CloseData ==
  ASSUME RefsInv, DataIsKept, RefsInv', NEW v \in Vnode, Close(v) PROVE DataIsKept'
<1>1. /\ Drops(LessOpen(vn, v), hash, v)
      /\ UNCHANGED <<op, syncing, named, allocated, entries, journal, refused, latest, disk>>
  BY DEF Close, Closed, LessOpen
<1>2. /\ vn \in [Vnode -> VnodeRecord] /\ vn[v].open \in Nat /\ vn[v].refs \in Nat
      /\ vn[v].open > 0 /\ vn[v].open <= vn[v].refs
      /\ vn[v].refs > 0 /\ vn[v].ino \in Ino
  <2>1. vn[v].open \in Nat /\ vn[v].refs \in Nat /\ vn[v].open <= vn[v].refs
    BY HeldMeansAlive, VnodeCacheAssumption DEF VnodeRecord
  <2>2. vn[v].open > 0
    BY <2>1 DEF Close
  <2>. QED
    BY <2>1, <2>2, HeldMeansAlive DEF RefsInv, Types
<1>3. vn[v].open > 1 \/ vn[v].dirty = FALSE
  <2>1. vn[v].dirty \in BOOLEAN
    BY HeldMeansAlive DEF VnodeRecord
  <2>. QED
    BY <2>1 DEF Close
<1>. PICK objects : objects = LessOpen(vn, v)
  OBVIOUS
<1>4. /\ objects \in [Vnode -> VnodeRecord]
      /\ \A w \in Vnode \ {v} : objects[w] = vn[w]
      /\ objects[v].open = vn[v].open - 1 /\ objects[v].refs = vn[v].refs
      /\ objects[v].ino = vn[v].ino
      /\ objects[v].data = vn[v].data /\ objects[v].dirty = vn[v].dirty
  BY <1>2, ClosedObjects
<1>5. vn[v].dirty = TRUE => objects[v].open > 0
  BY <1>2, <1>3, <1>4
<1>6. objects[v].refs = 1 => vn[v].dirty = FALSE
  BY <1>2, <1>3, <1>4
<1>. QED
  BY <1>1, <1>2, <1>4, <1>5, <1>6, DropKeepsData

\* Without the journal nothing is promised: what is left of a vnode that closes is not
\* flushed.
LEMMA CloseLosesData ==
  ASSUME RefsInv, DataIsKept, NEW v \in Vnode, CloseLoses(v) PROVE DataIsKept'
<1>1. /\ refused /\ refused' /\ vn[v].open = 1 /\ Drops(Clean(LessOpen(vn, v), v), hash, v)
  BY DEF CloseLoses, Closed, LessOpen, Clean
<1>2. /\ vn \in [Vnode -> VnodeRecord] /\ vn[v].refs > 0 /\ vn[v].ino \in Ino
      /\ hash \in [Ino -> Vnode \union {None}]
  BY <1>1, HeldMeansAlive DEF RefsInv, Types, VnodeRecord
<1>. PICK less : less = LessOpen(vn, v)
  OBVIOUS
<1>3. /\ less \in [Vnode -> VnodeRecord]
      /\ \A w \in Vnode \ {v} : less[w] = vn[w]
      /\ less[v].ino = vn[v].ino /\ less[v].refs = vn[v].refs
  BY <1>1, <1>2, ClosedObjects
<1>. PICK objects : objects = Clean(less, v)
  OBVIOUS
<1>4. /\ objects \in [Vnode -> VnodeRecord]
      /\ \A w \in Vnode \ {v} : objects[w] = less[w]
      /\ objects[v].ino = less[v].ino /\ objects[v].refs = less[v].refs
      /\ objects[v].dirty = FALSE
  BY <1>3, CleanObjects
<1>5. /\ \A w \in Vnode \ {v} : vn'[w] = objects[w]
      /\ vn'[v] = [objects[v] EXCEPT !.refs = @ - 1] \/ vn'[v] = Deleted
  BY <1>1, <1>2, <1>3, <1>4, DropsAReference
<1>6. vn'[v].dirty = FALSE
  <2>1. objects[v] \in VnodeRecord /\ objects[v].refs > 0
    BY <1>2, <1>3, <1>4
  <2>. QED
    BY <1>4, <1>5, <2>1, DropsFields, DeletedFields
<1>. QED
  BY <1>1, <1>3, <1>4, <1>5, <1>6 DEF DataIsKept, DirtyIsOpen

LEMMA RemoveUnlinkedFailsData ==
  ASSUME RefsInv, DataIsKept, NEW v \in Vnode, RemoveUnlinkedFails(v) PROVE DataIsKept'
<1>. DEFINE h == VnodeRelease(hash, v, vn[v].ino)
<1>1. /\ refused /\ refused' /\ vn[v].open = 1 /\ Drops(LessOpen(vn, v), h, v)
  BY DEF RemoveUnlinkedFails, Closed, LessOpen
<1>2. /\ vn \in [Vnode -> VnodeRecord] /\ vn[v].refs > 0 /\ vn[v].ino \in Ino
      /\ h \in [Ino -> Vnode \union {None}]
  BY <1>1, HeldMeansAlive, VnodeCacheAssumption DEF RefsInv, Types, VnodeRecord, VnodeRelease
<1>. HIDE DEF h
<1>. PICK objects : objects = LessOpen(vn, v)
  OBVIOUS
<1>3. /\ objects \in [Vnode -> VnodeRecord]
      /\ \A w \in Vnode \ {v} : objects[w] = vn[w]
      /\ objects[v].ino = vn[v].ino /\ objects[v].refs = vn[v].refs
      /\ objects[v].data = vn[v].data /\ objects[v].dirty = vn[v].dirty
  BY <1>1, <1>2, ClosedObjects
<1>4. /\ \A w \in Vnode \ {v} : vn'[w] = objects[w]
      /\ vn'[v] = [objects[v] EXCEPT !.refs = @ - 1] \/ vn'[v] = Deleted
  BY <1>1, <1>2, <1>3, DropsAReference
<1>5. vn'[v].dirty = FALSE \/ (vn'[v].dirty = vn[v].dirty /\ vn'[v].data = vn[v].data)
  <2>1. objects[v] \in VnodeRecord /\ objects[v].refs > 0
    BY <1>2, <1>3
  <2>. QED
    BY <1>3, <1>4, <2>1, DropsFields, DeletedFields
<1>. QED
  BY <1>1, <1>3, <1>4, <1>5 DEF DataIsKept, DirtyIsOpen

\* A vnode that is open is the inode's.
LEMMA OpenIsFound ==
  ASSUME RefsInv, NEW v \in Vnode, vn[v].open > 0
  PROVE  /\ vn \in [Vnode -> VnodeRecord] /\ vn[v].ino \in Ino /\ vn[v].refs > 0
         /\ hash[vn[v].ino] = v /\ vn[v].ino \in allocated
         /\ \A i \in Ino : hash[i] = v => i = vn[v].ino
<1>. USE VnodeCacheAssumption
<1>1. vn \in [Vnode -> VnodeRecord] /\ vn[v].ino \in Ino /\ vn[v].refs > 0
  BY HeldMeansAlive DEF RefsInv, Types, VnodeRecord
<1>2. hash[vn[v].ino] = v
  BY <1>1 DEF RefsInv, HashIsCurrent
<1>3. vn[v].ino \in allocated /\ \A i \in Ino : hash[i] = v => i = vn[v].ino
  BY <1>1, <1>2 DEF RefsInv, HashIsCurrent
<1>. QED
  BY <1>1, <1>2, <1>3

LEMMA ReadData ==
  ASSUME RefsInv, DataIsKept, NEW v \in Vnode, Read(v) PROVE DataIsKept'
<1>1. /\ vn[v].open > 0 /\ vn[v].data = Unread
      /\ vn' = [vn EXCEPT ![v].data = disk[vn[v].ino]]
      /\ UNCHANGED <<hash, op, syncing, named, allocated, entries, journal, refused, latest, disk>>
  BY DEF Read
<1>2. /\ vn \in [Vnode -> VnodeRecord] /\ vn[v].ino \in Ino /\ hash[vn[v].ino] = v
      /\ vn[v].ino \in allocated /\ \A i \in Ino : hash[i] = v => i = vn[v].ino
  BY <1>1, OpenIsFound
<1>3. /\ \A w \in Vnode \ {v} : vn'[w] = vn[w]
      /\ vn'[v].data = disk[vn[v].ino] /\ vn'[v].dirty = vn[v].dirty
  BY <1>1, <1>2 DEF VnodeRecord
<1>4. vn[v].dirty # TRUE
  BY <1>1 DEF DataIsKept, DirtyIsOpen
<1>5. DirtyIsOpen'
  BY <1>1, <1>3, <1>4 DEF DataIsKept, DirtyIsOpen
<1>6. ASSUME ~refused, NEW i \in allocated PROVE InodeData(i)'
  <2>1. i \in Ino /\ InodeData(i) /\ (hash[i] # None => hash[i] \in Vnode)
    BY <1>6 DEF DataIsKept, RefsInv, Types
  <2>2. CASE i = vn[v].ino
    <3>1. Stored(i)
      BY <1>1, <1>2, <1>6, <2>2, StoredWhenIdle
    <3>2. vn'[hash'[i]].data = latest[i]
      BY <1>1, <1>2, <1>3, <2>2, <3>1 DEF Stored
    <3>. QED
      BY <1>1, <3>1, <3>2, StaysStored
  <2>3. CASE i # vn[v].ino
    <3>1. hash[i] # None => vn'[hash[i]] = vn[hash[i]]
      BY <1>2, <1>3, <2>1, <2>3
    <3>. QED
      BY <1>1, <2>1, <3>1, StaysTheSame
  <2>. QED
    BY <2>2, <2>3
<1>. QED
  BY <1>1, <1>5, <1>6 DEF DataIsKept

LEMMA WriteData ==
  ASSUME RefsInv, DataIsKept, NEW v \in Vnode, Write(v) PROVE DataIsKept'
<1>1. /\ vn[v].open > 0 /\ vn[v].data # Unread
      /\ latest' = [latest EXCEPT ![vn[v].ino] = @ + 1]
      /\ vn' = [vn EXCEPT ![v].data = latest[vn[v].ino] + 1, ![v].dirty = TRUE]
      /\ UNCHANGED <<hash, op, syncing, named, allocated, entries, journal, refused, disk>>
  BY DEF Write
<1>2. /\ vn \in [Vnode -> VnodeRecord] /\ vn[v].ino \in Ino /\ hash[vn[v].ino] = v
      /\ vn[v].ino \in allocated /\ \A i \in Ino : hash[i] = v => i = vn[v].ino
  BY <1>1, OpenIsFound
<1>3. latest \in [Ino -> Version] /\ latest[vn[v].ino] + 1 # Unread
  BY <1>2, VnodeCacheAssumption DEF RefsInv, Types, Version, Unread
<1>4. /\ \A w \in Vnode \ {v} : vn'[w] = vn[w]
      /\ vn'[v].data = latest[vn[v].ino] + 1 /\ vn'[v].dirty = TRUE /\ vn'[v].open = vn[v].open
  BY <1>1, <1>2 DEF VnodeRecord
<1>5. DirtyIsOpen'
  BY <1>1, <1>3, <1>4 DEF DataIsKept, DirtyIsOpen
<1>6. ASSUME ~refused, NEW i \in allocated PROVE InodeData(i)'
  <2>1. i \in Ino /\ InodeData(i) /\ (hash[i] # None => hash[i] \in Vnode)
    BY <1>6 DEF DataIsKept, RefsInv, Types
  <2>2. CASE i = vn[v].ino
    <3>1. latest'[i] = latest[i] + 1
      BY <1>1, <1>3, <2>1, <2>2
    <3>2. v # None /\ hash'[i] = v
      BY <1>1, <1>2, <2>2, VnodeCacheAssumption
    <3>3. SomeOnItsWay(entries, i) => KeptBy(entries, i, v)
      BY <1>2, <2>1, <2>2 DEF InodeData
    <3>4. SomeOnItsWay(entries', i) => KeptBy(entries', i, v)
      BY <1>1, <3>3
    <3>. QED
      BY <1>3, <1>4, <2>2, <3>1, <3>2, <3>4 DEF InodeData
  <2>3. CASE i # vn[v].ino
    <3>1. hash[i] # None => vn'[hash[i]] = vn[hash[i]]
      BY <1>2, <1>4, <2>1, <2>3
    <3>2. latest'[i] = latest[i]
      BY <1>1, <1>3, <2>1, <2>3
    <3>. QED
      BY <1>1, <2>1, <3>1, <3>2, StaysTheSame
  <2>. QED
    BY <2>2, <2>3
<1>. QED
  BY <1>1, <1>5, <1>6 DEF DataIsKept

LEMMA GetDirtyVnodesData ==
  ASSUME RefsInv, DataIsKept, GetDirtyVnodes PROVE DataIsKept'
<1>1. UNCHANGED <<hash, allocated, entries, refused, latest, disk>>
  BY DEF GetDirtyVnodes
<1>. PICK found : found = syncing'
  OBVIOUS
<1>2. vn' = [v \in Vnode |-> IF v \in found THEN [vn[v] EXCEPT !.refs = @ + 1] ELSE vn[v]]
  BY DEF GetDirtyVnodes
<1>3. \A r \in VnodeRecord : LET e == [r EXCEPT !.refs = @ + 1]
                             IN  e.data = r.data /\ e.dirty = r.dirty /\ e.open = r.open
  BY DEF VnodeRecord
<1>4. \A v \in Vnode : vn[v] \in VnodeRecord
  BY DEF RefsInv, Types
<1>5. \A v \in Vnode : /\ vn'[v].data = vn[v].data /\ vn'[v].dirty = vn[v].dirty
                       /\ vn'[v].open = vn[v].open
  BY <1>2, <1>3, <1>4
<1>. QED
  BY <1>1, <1>5, SameData

LEMMA DropPinData ==
  ASSUME RefsInv, DataIsKept, NEW v \in Vnode, DropPin(v) PROVE DataIsKept'
<1>1. /\ vn' = [vn EXCEPT ![v] = [vn[v] EXCEPT !.refs = @ - 1]]
      /\ vn \in [Vnode -> VnodeRecord]
      /\ UNCHANGED <<hash, allocated, entries, refused, latest, disk>>
  BY DEF DropPin, RefsInv, Types
<1>2. \A r \in VnodeRecord : LET e == [r EXCEPT !.refs = @ - 1]
                             IN  e.data = r.data /\ e.dirty = r.dirty /\ e.open = r.open
  BY DEF VnodeRecord
<1>3. \A w \in Vnode : /\ vn'[w].data = vn[w].data /\ vn'[w].dirty = vn[w].dirty
                       /\ vn'[w].open = vn[w].open
  BY <1>1, <1>2
<1>. QED
  BY <1>1, <1>3, SameData

LEMMA RecycleNodeData ==
  ASSUME RefsInv, DataIsKept, RefsInv', NEW v \in Vnode, RecycleNode(v) PROVE DataIsKept'
<1>. USE VnodeCacheAssumption
<1>1. /\ journal.dying = v
      /\ hash' = IF IsUnlinked(v) THEN hash ELSE VnodeRelease(hash, v, vn[v].ino)
      /\ vn' = [vn EXCEPT ![v] = Deleted]
      /\ UNCHANGED <<op, syncing, named, allocated, entries, refused, latest, disk>>
  BY DEF RecycleNode
<1>2. /\ vn \in [Vnode -> VnodeRecord] /\ vn[v].refs = 0 /\ vn[v].dirty \in BOOLEAN
  BY <1>1 DEF RefsInv, Types, OnlyOneDies, VnodeRecord
<1>3. vn[v].open = 0 /\ \A k \in DOMAIN entries : v \notin entries[k].pins
  BY <1>2, NoReferences DEF Unreferenced
<1>4. \A w \in Vnode \ {v} : vn'[w] = vn[w]
  BY <1>1, <1>2
<1>5. vn'[v] = Deleted /\ vn'[v].dirty = FALSE /\ vn'[v].ino = None
  BY <1>1, <1>2, DeletedFields
<1>6. \A i \in Ino : hash'[i] = hash[i] \/ (hash'[i] = None /\ hash[i] = v)
  BY <1>1 DEF VnodeRelease, RefsInv, Types
<1>7. \A i \in Ino : hash'[i] # v
  BY <1>5 DEF RefsInv, HashIsCurrent
<1>8. DirtyIsOpen'
  BY <1>1, <1>4, <1>5 DEF DataIsKept, DirtyIsOpen
<1>9. ASSUME ~refused, NEW i \in allocated PROVE InodeData(i)'
  <2>1. i \in Ino /\ InodeData(i) /\ (hash[i] # None => hash[i] \in Vnode)
    BY <1>9 DEF DataIsKept, RefsInv, Types
  <2>2. CASE hash[i] = v
    <3>1. vn[v].dirty = FALSE
      BY <1>2, <1>3, <1>9 DEF DataIsKept, DirtyIsOpen
    <3>2. Stored(i)
      BY <1>3, <1>9, <2>2, <3>1, StoredWhenIdle
    <3>3. hash'[i] = None
      BY <1>6, <1>7, <2>1, <2>2
    <3>. QED
      BY <1>1, <3>2, <3>3, StaysStored
  <2>3. CASE hash[i] # v
    <3>1. hash'[i] = hash[i]
      BY <1>6, <2>1, <2>3
    <3>2. hash[i] # None => vn'[hash[i]] = vn[hash[i]]
      BY <1>4, <2>1, <2>3
    <3>. QED
      BY <1>1, <2>1, <3>1, <3>2, StaysTheSame
  <2>. QED
    BY <2>2, <2>3
<1>. QED
  BY <1>1, <1>8, <1>9 DEF DataIsKept

LEMMA JournalFailsData ==
  ASSUME RefsInv, DataIsKept, JournalFails PROVE DataIsKept'
BY DEF JournalFails, DataIsKept, DirtyIsOpen

\* The data that reaches the disk is the last one of its inode, or is not the latest.
LEMMA CompleteData ==
  ASSUME RefsInv, DataIsKept, Complete PROVE DataIsKept'
<1>. DEFINE e == Head(entries)
<1>1. /\ entries # <<>> /\ entries' = Tail(entries)
      /\ UNCHANGED <<vn, hash, op, syncing, named, allocated, refused, latest>>
      /\ disk' = IF e.data = Unread \/ refused THEN disk ELSE [disk EXCEPT ![e.ino] = e.data]
  BY DEF Complete
<1>2. entries \in Seq(Entry) /\ disk \in [Ino -> Version]
  BY DEF RefsInv, Types
<1>3. DirtyIsOpen'
  BY <1>1 DEF DataIsKept, DirtyIsOpen
<1>. HIDE DEF e
<1>4. ASSUME ~refused, NEW i \in allocated PROVE InodeData(i)'
  <2>1. i \in Ino /\ InodeData(i)
    BY <1>4 DEF DataIsKept, RefsInv, Types
  <2>2. /\ SomeOnItsWay(entries', i) => SomeOnItsWay(entries, i)
        /\ NoneOnItsWay(entries, i) => NoneOnItsWay(entries', i) /\ ~Writes(e, i)
        /\ OnItsWay(entries, i, latest[i]) =>
             \/ OnItsWay(entries', i, latest[i])
             \/ NoneOnItsWay(entries', i) /\ Writes(e, i) /\ e.data = latest[i]
        /\ KeptBy(entries, i, hash[i]) => KeptBy(entries', i, hash[i])
    <3>1. entries # <<>> /\ entries \in Seq(Entry)
      BY <1>1, <1>2
    <3>2. /\ SomeOnItsWay(Tail(entries), i) => SomeOnItsWay(entries, i)
          /\ NoneOnItsWay(entries, i) => NoneOnItsWay(Tail(entries), i) /\ ~Writes(Head(entries), i)
          /\ \A data : OnItsWay(entries, i, data) =>
               \/ OnItsWay(Tail(entries), i, data)
               \/ NoneOnItsWay(Tail(entries), i) /\ Writes(Head(entries), i) /\ Head(entries).data = data
          /\ \A v : KeptBy(entries, i, v) => KeptBy(Tail(entries), i, v)
      BY <3>1, TailOfTransactions, Zenon
    <3>3. entries' = Tail(entries) /\ e = Head(entries)
      BY <1>1 DEF e
    <3>. QED
      BY <3>2, <3>3, Zenon
  <2>3. disk'[i] = IF Writes(e, i) THEN e.data ELSE disk[i]
    BY <1>1, <1>2, <1>4, <2>1 DEF Writes
  <2>4. \/ hash[i] # None /\ vn[hash[i]].dirty = TRUE
        \/ OnItsWay(entries', i, latest[i])
        \/ disk'[i] = latest[i] /\ NoneOnItsWay(entries', i)
    BY <2>1, <2>2, <2>3 DEF InodeData, Stored
  <2>5. SomeOnItsWay(entries', i) =>
          hash[i] # None /\ vn[hash[i]].data # Unread /\ KeptBy(entries', i, hash[i])
    BY <2>1, <2>2 DEF InodeData
  <2>. QED
    BY <1>1, <2>1, <2>4, <2>5 DEF InodeData, Stored
<1>. QED
  BY <1>1, <1>3, <1>4 DEF DataIsKept

LEMMA CommitData ==
  ASSUME RefsInv, NEW v \in Vnode, NEW j \in Ino, NEW data \in Version \union {Unread},
         CommitTransaction(v, j, data)
  PROVE  /\ \A i : i # j \/ data = Unread => NothingAdded(entries, entries', i)
         /\ data # Unread => OnItsWay(entries', j, data) /\ KeptBy(entries', j, v)
<1>1. PICK e \in Entry : /\ e.ino = j /\ e.data = data /\ v \in e.pins
                         /\ entries' = Append(entries, e)
  BY DEF CommitTransaction, PinVnode, Entry
<1>2. entries \in Seq(Entry)
  BY DEF RefsInv, Types
<1>3. \A i : i # j \/ data = Unread => ~Writes(e, i)
  BY <1>1 DEF Writes
<1>4. data # Unread => Writes(e, j)
  BY <1>1 DEF Writes
<1>5. \A i : ~Writes(e, i) => NothingAdded(entries, Append(entries, e), i)
  BY <1>2, AppendOfOthers
<1>6. Writes(e, j) => /\ OnItsWay(Append(entries, e), j, e.data)
                      /\ KeptBy(Append(entries, e), j, v)
  BY <1>1, <1>2, AppendOfData
<1>. QED
  BY <1>1, <1>3, <1>4, <1>5, <1>6

\* A flush takes what is dirty into a transaction that pins the vnode.
LEMMA FlushKeepsData ==
  ASSUME RefsInv, DataIsKept, NEW v \in Vnode, ~refused, vn[v].dirty = TRUE,
         CommitTransaction(v, vn[v].ino, vn[v].data),
         \A w \in Vnode \ {v} : vn'[w] = vn[w],
         vn'[v].data = vn[v].data, vn'[v].dirty = FALSE,
         UNCHANGED <<hash, allocated, refused, latest, disk>>
  PROVE  DataIsKept'
<1>1. vn[v].open > 0 /\ vn[v].data # Unread
  BY DEF DataIsKept, DirtyIsOpen
<1>2. /\ vn[v].ino \in Ino /\ hash[vn[v].ino] = v /\ v # None
      /\ vn[v].ino \in allocated /\ \A i \in Ino : hash[i] = v => i = vn[v].ino
  BY <1>1, OpenIsFound, VnodeCacheAssumption
<1>3. vn[v].data \in Version \union {Unread} /\ vn[v].data = latest[vn[v].ino]
  BY <1>1, <1>2, HeldMeansAlive DEF VnodeRecord, DataIsKept, InodeData
<1>4. /\ \A i : i # vn[v].ino => NothingAdded(entries, entries', i)
      /\ OnItsWay(entries', vn[v].ino, latest[vn[v].ino]) /\ KeptBy(entries', vn[v].ino, v)
  BY <1>1, <1>2, <1>3, CommitData
<1>5. DirtyIsOpen'
  <2>1. \A w \in Vnode \ {v} : vn'[w].dirty = TRUE => vn'[w].data # Unread /\ vn'[w].open > 0
    BY DEF DataIsKept, DirtyIsOpen
  <2>. QED
    BY <2>1 DEF DirtyIsOpen
<1>6. ASSUME NEW i \in allocated PROVE InodeData(i)'
  <2>1. i \in Ino /\ InodeData(i) /\ (hash[i] # None => hash[i] \in Vnode)
    BY DEF DataIsKept, RefsInv, Types
  <2>2. CASE i = vn[v].ino
    BY <1>1, <1>2, <1>3, <1>4, <2>2 DEF InodeData
  <2>3. CASE i # vn[v].ino
    <3>1. hash[i] # None => vn'[hash[i]] = vn[hash[i]]
      BY <1>2, <2>1, <2>3
    <3>. QED
      BY <1>4, <2>1, <2>3, <3>1, StaysTheSame
  <2>. QED
    BY <2>2, <2>3
<1>. QED
  BY <1>5, <1>6 DEF DataIsKept

LEMMA FlushCachedWritesData ==
  ASSUME RefsInv, DataIsKept, NEW v \in Vnode, FlushCachedWrites(v) PROVE DataIsKept'
<1>1. /\ ~refused
      /\ vn' = Pinned(Clean(vn, v), v)
      /\ CommitTransaction(v, vn[v].ino, vn[v].data)
      /\ UNCHANGED <<hash, allocated, refused, latest, disk>>
  BY DEF FlushCachedWrites, MayCommit, Clean
<1>2. vn[v].dirty = TRUE /\ vn \in [Vnode -> VnodeRecord]
  <2>1. vn[v].dirty \in BOOLEAN
    BY HeldMeansAlive DEF VnodeRecord
  <2>. QED
    BY <2>1 DEF FlushCachedWrites, RefsInv, Types
<1>. PICK clean : clean = Clean(vn, v)
  OBVIOUS
<1>3. /\ clean \in [Vnode -> VnodeRecord]
      /\ \A w \in Vnode \ {v} : clean[w] = vn[w]
      /\ clean[v].data = vn[v].data /\ clean[v].dirty = FALSE
  BY <1>2, CleanObjects
<1>. PICK pinned : pinned = Pinned(clean, v)
  OBVIOUS
<1>4. /\ \A w \in Vnode \ {v} : pinned[w] = clean[w]
      /\ pinned[v].data = clean[v].data /\ pinned[v].dirty = clean[v].dirty
  BY <1>3, PinnedObjects
<1>5. vn' = pinned
  BY <1>1
<1>6. /\ \A w \in Vnode \ {v} : vn'[w] = vn[w]
      /\ vn'[v].data = vn[v].data /\ vn'[v].dirty = FALSE
  BY <1>3, <1>4, <1>5
<1>. QED
  BY <1>1, <1>2, <1>6, FlushKeepsData

LEMMA CloseFlushesData ==
  ASSUME RefsInv, DataIsKept, NEW v \in Vnode, CloseFlushes(v) PROVE DataIsKept'
<1>1. /\ ~refused /\ vn[v].open = 1
      /\ Drops(Pinned(Clean(LessOpen(vn, v), v), v), hash, v)
      /\ CommitTransaction(v, vn[v].ino, vn[v].data)
      /\ UNCHANGED <<allocated, refused, latest, disk>>
  BY DEF CloseFlushes, MayCommit, Closed, LessOpen, Clean
<1>2. /\ vn \in [Vnode -> VnodeRecord] /\ vn[v].refs > 0 /\ vn[v].refs \in Nat /\ vn[v].open = 1
  BY <1>1, HeldMeansAlive DEF RefsInv, Types, VnodeRecord
<1>3. vn[v].dirty = TRUE
  <2>1. vn[v].dirty \in BOOLEAN
    BY HeldMeansAlive DEF VnodeRecord
  <2>. QED
    BY <2>1 DEF CloseFlushes
<1>. PICK less : less = LessOpen(vn, v)
  OBVIOUS
<1>4. /\ less \in [Vnode -> VnodeRecord]
      /\ \A w \in Vnode \ {v} : less[w] = vn[w]
      /\ less[v].refs = vn[v].refs /\ less[v].data = vn[v].data
  BY <1>2, ClosedObjects
<1>. PICK clean : clean = Clean(less, v)
  OBVIOUS
<1>5. /\ clean \in [Vnode -> VnodeRecord]
      /\ \A w \in Vnode \ {v} : clean[w] = less[w]
      /\ clean[v].refs = less[v].refs /\ clean[v].data = less[v].data /\ clean[v].dirty = FALSE
  BY <1>4, CleanObjects
<1>. PICK objects : objects = Pinned(clean, v)
  OBVIOUS
<1>6. /\ objects \in [Vnode -> VnodeRecord]
      /\ \A w \in Vnode \ {v} : objects[w] = clean[w]
      /\ objects[v].refs = clean[v].refs + 1
      /\ objects[v].data = clean[v].data /\ objects[v].dirty = clean[v].dirty
  BY <1>5, PinnedObjects
<1>7. objects[v].refs > 1
  BY <1>2, <1>4, <1>5, <1>6
<1>8. vn' = [objects EXCEPT ![v] = [objects[v] EXCEPT !.refs = @ - 1]] /\ hash' = hash
  BY <1>1, <1>6, <1>7 DEF Drops
<1>9. /\ \A w \in Vnode \ {v} : vn'[w] = objects[w]
      /\ vn'[v].data = objects[v].data /\ vn'[v].dirty = objects[v].dirty
  <2>1. \A r \in VnodeRecord : LET e == [r EXCEPT !.refs = @ - 1]
                               IN  e.data = r.data /\ e.dirty = r.dirty
    BY DEF VnodeRecord
  <2>. QED
    BY <1>6, <1>8, <2>1
<1>10. /\ \A w \in Vnode \ {v} : vn'[w] = vn[w]
       /\ vn'[v].data = vn[v].data /\ vn'[v].dirty = FALSE
  BY <1>4, <1>5, <1>6, <1>9
<1>. QED
  BY <1>1, <1>3, <1>8, <1>10, FlushKeepsData

\* A purge: the inode is given back, and with it what was promised of its data.
LEMMA PurgeKeepsData ==
  ASSUME RefsInv, DataIsKept, NEW v \in Vnode, NEW j \in Ino,
         CommitTransaction(v, j, Unread), vn[v].ino = j,
         \A w \in Vnode \ {v} : vn'[w] = vn[w],
         vn'[v].dirty = FALSE,
         \A i \in Ino \ {j} : hash'[i] = hash[i],
         allocated' = allocated \ {j}, UNCHANGED <<refused, latest, disk>>
  PROVE  DataIsKept'
<1>1. DirtyIsOpen'
  BY DEF DataIsKept, DirtyIsOpen
<1>2. \A i : NothingAdded(entries, entries', i)
  BY CommitData
<1>3. ASSUME ~refused, NEW i \in allocated' PROVE InodeData(i)'
  <2>1. i \in Ino \ {j} /\ InodeData(i) /\ (hash[i] # None => hash[i] \in Vnode)
    BY <1>3 DEF DataIsKept, RefsInv, Types
  <2>2. hash[i] # None => hash[i] # v
    BY <2>1 DEF RefsInv, HashIsCurrent
  <2>3. hash[i] # None => vn'[hash[i]] = vn[hash[i]]
    BY <2>1, <2>2
  <2>. QED
    BY <1>2, <2>1, <2>3, StaysTheSame
<1>. QED
  BY <1>1, <1>3 DEF DataIsKept

LEMMA RemoveUnlinkedData ==
  ASSUME RefsInv, DataIsKept, NEW v \in Vnode, RemoveUnlinked(v) PROVE DataIsKept'
<1>. USE VnodeCacheAssumption
<1>. DEFINE h == VnodeRelease(hash, v, vn[v].ino)
<1>1. /\ vn[v].open = 1
      /\ Drops(Pinned(Clean(LessOpen(vn, v), v), v), h, v)
      /\ CommitTransaction(v, vn[v].ino, Unread)
      /\ allocated' = allocated \ {vn[v].ino}
      /\ UNCHANGED <<refused, latest, disk>>
  BY DEF RemoveUnlinked, Closed, LessOpen, Clean
<1>2. /\ vn \in [Vnode -> VnodeRecord] /\ vn[v].refs > 0 /\ vn[v].refs \in Nat /\ vn[v].open = 1
      /\ vn[v].ino \in Ino
  BY <1>1, HeldMeansAlive DEF RefsInv, Types, VnodeRecord
<1>3. \A i \in Ino \ {vn[v].ino} : h[i] = hash[i]
  BY DEF VnodeRelease, RefsInv, Types
<1>. HIDE DEF h
<1>. PICK less : less = LessOpen(vn, v)
  OBVIOUS
<1>4. /\ less \in [Vnode -> VnodeRecord]
      /\ \A w \in Vnode \ {v} : less[w] = vn[w]
      /\ less[v].refs = vn[v].refs
  BY <1>2, ClosedObjects
<1>. PICK clean : clean = Clean(less, v)
  OBVIOUS
<1>5. /\ clean \in [Vnode -> VnodeRecord]
      /\ \A w \in Vnode \ {v} : clean[w] = less[w]
      /\ clean[v].refs = less[v].refs /\ clean[v].dirty = FALSE
  BY <1>4, CleanObjects, ZenonT(40)
<1>. PICK objects : objects = Pinned(clean, v)
  OBVIOUS
<1>6. /\ objects \in [Vnode -> VnodeRecord]
      /\ \A w \in Vnode \ {v} : objects[w] = clean[w]
      /\ objects[v].refs = clean[v].refs + 1 /\ objects[v].dirty = clean[v].dirty
  BY <1>5, PinnedObjects
<1>7. objects[v].refs > 1
  BY <1>2, <1>4, <1>5, <1>6
<1>8. vn' = [objects EXCEPT ![v] = [objects[v] EXCEPT !.refs = @ - 1]] /\ hash' = h
  BY <1>1, <1>6, <1>7 DEF Drops
<1>9. /\ \A w \in Vnode \ {v} : vn'[w] = objects[w]
      /\ vn'[v].dirty = objects[v].dirty
  <2>1. \A r \in VnodeRecord : LET e == [r EXCEPT !.refs = @ - 1] IN e.dirty = r.dirty
    BY DEF VnodeRecord
  <2>. QED
    BY <1>6, <1>8, <2>1
<1>10. /\ \A w \in Vnode \ {v} : vn'[w] = vn[w]
       /\ vn'[v].dirty = FALSE
  BY <1>4, <1>5, <1>6, <1>9
<1>. QED
  BY <1>1, <1>2, <1>3, <1>8, <1>10, PurgeKeepsData

LEMMA UnlinkData ==
  ASSUME RefsInv, DataIsKept, Unlink PROVE DataIsKept'
<1>. USE VnodeCacheAssumption
<1>1. op.at = "found" /\ op.vn \in Vnode /\ op.ino \in Ino
      /\ UNCHANGED <<refused, latest, disk>>
  BY DEF Unlink, RefsInv, Types, Idle
<1>. PICK v \in Vnode : v = op.vn
  BY <1>1
<1>. PICK j \in Ino : j = op.ino
  BY <1>1
<1>. DEFINE purge == vn[v].open = 0
            h == IF purge THEN VnodeRelease(hash, v, j) ELSE hash
<1>2. /\ vn[v].ino = j /\ vn[v].refs > 0 /\ vn[v].refs \in Nat /\ vn \in [Vnode -> VnodeRecord]
  BY <1>1, HeldMeansAlive DEF RefsInv, OpIsCurrent, VnodeRecord, Types
<1>3. /\ Drops(Pinned(Nameless(vn, v), v), h, v)
      /\ CommitTransaction(v, j, Unread)
      /\ allocated' = IF purge THEN allocated \ {j} ELSE allocated
  BY <1>2 DEF Unlink, Nameless
<1>. PICK nameless : nameless = Nameless(vn, v)
  OBVIOUS
<1>4. /\ nameless \in [Vnode -> VnodeRecord]
      /\ \A w \in Vnode \ {v} : nameless[w] = vn[w]
      /\ nameless[v].open = vn[v].open /\ nameless[v].refs = vn[v].refs
      /\ nameless[v].data = vn[v].data
  BY <1>2, NamelessObjects, ZenonT(40)
<1>5. /\ purge => nameless[v].dirty = FALSE
      /\ ~purge => nameless[v].dirty = vn[v].dirty
  BY <1>2, NamelessObjects
<1>. PICK objects : objects = Pinned(nameless, v)
  OBVIOUS
<1>6. /\ objects \in [Vnode -> VnodeRecord]
      /\ \A w \in Vnode \ {v} : objects[w] = nameless[w]
      /\ objects[v].refs = nameless[v].refs + 1 /\ objects[v].open = nameless[v].open
      /\ objects[v].data = nameless[v].data /\ objects[v].dirty = nameless[v].dirty
  <2>1. nameless \in [Vnode -> VnodeRecord]
    BY <1>4
  <2>. QED
    BY <2>1, PinnedObjects
<1>7. objects[v].refs > 1
  BY <1>2, <1>4, <1>6
<1>8. vn' = [objects EXCEPT ![v] = [objects[v] EXCEPT !.refs = @ - 1]] /\ hash' = h
  BY <1>3, <1>6, <1>7 DEF Drops
<1>9. /\ \A w \in Vnode \ {v} : vn'[w] = objects[w]
      /\ vn'[v].dirty = objects[v].dirty /\ vn'[v].data = objects[v].data
      /\ vn'[v].open = objects[v].open
  <2>1. \A r \in VnodeRecord : LET e == [r EXCEPT !.refs = @ - 1]
                               IN  e.dirty = r.dirty /\ e.data = r.data /\ e.open = r.open
    BY DEF VnodeRecord
  <2>. QED
    BY <1>6, <1>8, <2>1
<1>10. /\ \A w \in Vnode \ {v} : vn'[w] = vn[w]
       /\ vn'[v].data = vn[v].data /\ vn'[v].open = vn[v].open
       /\ vn'[v].dirty = nameless[v].dirty
  BY <1>4, <1>6, <1>9
<1>11. CASE purge
  <2>1. \A i \in Ino \ {j} : hash'[i] = hash[i]
    BY <1>8, <1>11 DEF VnodeRelease, RefsInv, Types
  <2>2. vn'[v].dirty = FALSE
    BY <1>5, <1>10, <1>11
  <2>3. allocated' = allocated \ {j}
    BY <1>3, <1>11
  <2>. QED
    BY <1>1, <1>2, <1>3, <1>10, <2>1, <2>2, <2>3, PurgeKeepsData
<1>12. CASE ~purge
  <2>1. hash' = hash /\ allocated' = allocated
    BY <1>3, <1>8, <1>12
  <2>2. \A w \in Vnode : vn'[w].data = vn[w].data /\ vn'[w].dirty = vn[w].dirty
                         /\ vn'[w].open = vn[w].open
    <3>1. vn'[v].dirty = vn[v].dirty
      BY <1>5, <1>10, <1>12
    <3>. QED
      BY <1>10, <3>1
  <2>3. \A i : NothingAdded(entries, entries', i)
    BY <1>3, CommitData
  <2>4. DirtyIsOpen'
    BY <1>1, <2>2 DEF DataIsKept, DirtyIsOpen
  <2>5. ASSUME ~refused, NEW i \in allocated PROVE InodeData(i)'
    <3>1. InodeData(i) /\ (hash[i] # None => hash[i] \in Vnode)
      BY <2>5 DEF DataIsKept, RefsInv, Types
    <3>. QED
      BY <1>1, <2>1, <2>2, <2>3, <3>1, StaysTheSame
  <2>. QED
    BY <1>1, <2>1, <2>4, <2>5 DEF DataIsKept
<1>. QED
  BY <1>11, <1>12

\* The first data of an inode is in the transaction that makes it.
LEMMA CreateData ==
  ASSUME RefsInv, DataIsKept, NEW v \in Vnode, NEW j \in Ino, Create(v, j) PROVE DataIsKept'
<1>. USE VnodeCacheAssumption
<1>1. /\ vn[v] = Deleted
      /\ hash' = [hash EXCEPT ![j] = v]
      /\ latest' = [latest EXCEPT ![j] = @ + 1]
      /\ CommitTransaction(v, j, latest[j] + 1)
      /\ allocated' = allocated \union {j} /\ latest[j] < MaxVersion
      /\ UNCHANGED <<refused, disk>>
  BY DEF Create
<1>2. /\ latest \in [Ino -> Version] /\ latest[j] + 1 \in Version /\ latest[j] + 1 # Unread
      /\ hash \in [Ino -> Vnode \union {None}]
  BY <1>1 DEF RefsInv, Types, Version, Unread
<1>. PICK new : new = [Deleted EXCEPT !.ino = j, !.refs = 1, !.open = 1,
                                      !.linked = TRUE, !.data = latest[j] + 1]
  OBVIOUS
<1>3. new \in VnodeRecord /\ new.data = latest[j] + 1 /\ new.dirty = FALSE
  <2>1. 1 \in 0..MaxOpen
    OBVIOUS
  <2>. QED
    BY <1>2, <2>1 DEF Deleted, VnodeRecord
<1>. PICK made : made = [vn EXCEPT ![v] = new]
  OBVIOUS
<1>4. /\ made \in [Vnode -> VnodeRecord] /\ made[v] = new
      /\ \A w \in Vnode \ {v} : made[w] = vn[w]
  BY <1>3 DEF RefsInv, Types
<1>. PICK pinned : pinned = Pinned(made, v)
  OBVIOUS
<1>5. /\ \A w \in Vnode \ {v} : pinned[w] = made[w]
      /\ pinned[v].data = made[v].data /\ pinned[v].dirty = made[v].dirty
  BY <1>4, PinnedObjects
<1>6. vn' = pinned
  BY DEF Create
<1>7. /\ \A w \in Vnode \ {v} : vn'[w] = vn[w]
      /\ vn'[v].data = latest[j] + 1 /\ vn'[v].dirty = FALSE
  BY <1>3, <1>4, <1>5, <1>6
<1>8. /\ \A i : i # j => NothingAdded(entries, entries', i)
      /\ OnItsWay(entries', j, latest[j] + 1) /\ KeptBy(entries', j, v)
  BY <1>1, <1>2, CommitData
<1>9. DirtyIsOpen'
  BY <1>1, <1>7 DEF DataIsKept, DirtyIsOpen
<1>10. ASSUME ~refused, NEW i \in allocated' PROVE InodeData(i)'
  <2>1. i \in Ino
    BY <1>1, <1>10 DEF RefsInv, Types
  <2>2. CASE i = j
    <3>1. hash'[i] = v /\ v # None /\ latest'[i] = latest[j] + 1
      BY <1>1, <1>2, <2>2
    <3>. QED
      BY <1>2, <1>7, <1>8, <2>2, <3>1 DEF InodeData
  <2>3. CASE i # j
    <3>1. InodeData(i) /\ hash'[i] = hash[i] /\ latest'[i] = latest[i]
      BY <1>1, <1>2, <1>10, <2>1, <2>3 DEF DataIsKept
    <3>2. hash[i] # None => hash[i] \in Vnode \ {v}
      BY <1>1, <1>2, <2>1, DeletedFields DEF RefsInv, HashIsCurrent
    <3>3. hash[i] # None => vn'[hash[i]] = vn[hash[i]]
      BY <1>7, <3>2
    <3>. QED
      BY <1>1, <1>8, <2>3, <3>1, <3>3, StaysTheSame
  <2>. QED
    BY <2>2, <2>3
<1>. QED
  BY <1>1, <1>9, <1>10 DEF DataIsKept

(***************************************************************************)
(* The theorem.                                                            *)
(***************************************************************************)

LEMMA InitData == Init => DataIsKept
<1>. SUFFICES ASSUME Init PROVE DataIsKept
  OBVIOUS
<1>1. \A v \in Vnode : vn[v].dirty = FALSE
  BY DeletedFields DEF Init
<1>2. allocated = {}
  BY DEF Init
<1>. QED
  BY <1>1, <1>2 DEF DataIsKept, DirtyIsOpen

LEMMA NextData == RefsInv /\ DataIsKept /\ RefsInv' /\ [Next]_vars => DataIsKept'
<1>. SUFFICES ASSUME RefsInv, DataIsKept, RefsInv', [Next]_vars PROVE DataIsKept'
  OBVIOUS
<1>1. ASSUME NEW i \in Ino, VnodeLookup(i) PROVE DataIsKept'
  BY <1>1, VnodeLookupData
<1>2. ASSUME NEW i \in Ino, NEW v \in Vnode, Create(v, i) PROVE DataIsKept'
  BY <1>2, CreateData
<1>3. ASSUME NEW v \in Vnode,
             \/ Recreate(v) \/ Read(v) \/ Write(v) \/ FlushCachedWrites(v)
             \/ Close(v) \/ CloseFlushes(v) \/ CloseLoses(v)
             \/ RemoveUnlinked(v) \/ RemoveUnlinkedFails(v)
             \/ LetGo(v) \/ DropPin(v) \/ RecycleNode(v)
      PROVE  DataIsKept'
  BY <1>3, RecreateData, ReadData, WriteData, FlushCachedWritesData, CloseData, CloseFlushesData,
     CloseLosesData, RemoveUnlinkedData, RemoveUnlinkedFailsData, LetGoData, DropPinData,
     RecycleNodeData
<1>4. ASSUME Open \/ LookAway \/ Unlink \/ GetDirtyVnodes \/ Complete \/ JournalFails
      PROVE  DataIsKept'
  BY <1>4, OpenData, LookAwayData, UnlinkData, GetDirtyVnodesData, CompleteData, JournalFailsData
<1>5. CASE UNCHANGED vars
  BY <1>5 DEF vars, DataIsKept, DirtyIsOpen, InodeData, Stored
<1>. QED
  BY <1>1, <1>2, <1>3, <1>4, <1>5 DEF Next

LEMMA DataInvariant == Spec => []DataIsKept
BY InitData, NextData, RefsInvariant, PTL DEF Spec

\* Whoever has a file open sees what was last written to it, until the journal fails: a
\* vnode is deleted only when the disk has its data, so the next one reads the same
\* (Transaction::PinVnode, RecycleNode and InitVmo together).
THEOREM OpenFilesAreCurrent == Spec => []ReadsCurrent
<1>1. RefsInv /\ DataIsKept => ReadsCurrent
  <2>. SUFFICES ASSUME RefsInv, DataIsKept, NEW v \in Vnode, ~refused, vn[v].open > 0
                PROVE  vn[v].data \in {Unread, latest[vn[v].ino]}
    BY DEF ReadsCurrent
  <2>1. hash[vn[v].ino] = v /\ vn[v].ino \in allocated /\ v # None
    BY OpenIsFound, VnodeCacheAssumption
  <2>2. InodeData(vn[v].ino)
    BY <2>1 DEF DataIsKept
  <2>. QED
    BY <2>1, <2>2 DEF InodeData
<1>. QED
  BY <1>1, RefsInvariant, DataInvariant, PTL

================================================================================
