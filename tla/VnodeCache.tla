------------------------------- MODULE VnodeCache ------------------------------
(***************************************************************************)
(* The vnodes in memory.  vnode_hash_ holds no references: a vnode lives as *)
(* long as a connection, an operation under way or a transaction refers to  *)
(* it.  When the last reference goes, RecycleNode takes the vnode out of the *)
(* hash and deletes it; the next lookup makes a new one from the inode       *)
(* table and reads its data from the disk.                                  *)
(*                                                                         *)
(* References are dropped by two threads: the dispatcher's, which runs the   *)
(* operations one after the other, and the journal's, which drops the       *)
(* vnodes a transaction has pinned once it is complete.  Only hash_lock_     *)
(* stands between them, so between the last reference's going and           *)
(* RecycleNode's taking that lock the dispatcher may find the vnode.        *)
(***************************************************************************)
EXTENDS Integers, Sequences

CONSTANTS
  Vnode,      \* objects
  Ino,        \* inode numbers
  MaxOpen,    \* bound: connections to a vnode
  MaxEntries, \* bound: transactions on their way to disk
  MaxVersion  \* bound: times the data of a file changes, and files are created

None == "none"

ASSUME VnodeCacheAssumption ==
  /\ None \notin Vnode /\ None \notin Ino
  /\ MaxOpen \in Nat \ {0} /\ MaxEntries \in Nat /\ MaxVersion \in Nat

VARIABLES
  vn,        \* the objects
  hash,      \* vnode_hash_
  op,        \* the dispatcher's lookup
  syncing,   \* vnodes GetDirtyVnodes refers to
  named,     \* inodes with a directory entry
  allocated, \* inodes in use
  entries,   \* transactions committed and not complete, oldest first
  journal,   \* the journal's thread: pins to drop, and the vnode that is dying
  refused,   \* the journal has met an error: nothing is written any more
  latest,    \* latest[i]: version of the data of i last written
  disk       \* disk[i]: version of the data of i on disk

vars == <<vn, hash, op, syncing, named, allocated, entries, journal, refused, latest, disk>>

Unread == -1   \* the vmo has not been read from the disk
Deleted == [ino |-> None, refs |-> 0, open |-> 0, linked |-> FALSE, data |-> Unread, dirty |-> FALSE]
Idle == [at |-> "idle", ino |-> None, vn |-> None]
Resting == [pins |-> {}, dying |-> None]

IsUnlinked(v) == ~vn[v].linked
IsDying(v) == vn[v] # Deleted /\ vn[v].refs = 0

Init ==
  /\ vn = [v \in Vnode |-> Deleted]
  /\ hash = [i \in Ino |-> None]
  /\ op = Idle
  /\ syncing = {}
  /\ named = {} /\ allocated = {}
  /\ entries = <<>>
  /\ journal = Resting /\ refused = FALSE
  /\ latest = [i \in Ino |-> 0] /\ disk = [i \in Ino |-> 0]

(***************************************************************************)
(* The hash and the references.                                            *)
(***************************************************************************)
ErasedByKey(h, v, i) == [h EXCEPT ![i] = None]
VnodeRelease(h, v, i) == [h EXCEPT ![i] = IF @ = v THEN None ELSE @]

\* A new object, referred to by whoever makes it.  The hash must not have its inode.
VnodeInsert(v, i, data) ==
  /\ vn[v] = Deleted
  /\ vn' = [vn EXCEPT ![v] = [Deleted EXCEPT !.ino = i, !.refs = 1, !.linked = TRUE, !.data = data]]
  /\ hash' = [hash EXCEPT ![i] = v]

\* The dispatcher drops a reference of v, after what it has done to the objects and the
\* hash; if it was the last one RecycleNode follows at once.
Drops(objects, h, v) ==
  IF objects[v].refs > 1
  THEN /\ vn' = [objects EXCEPT ![v].refs = @ - 1]
       /\ hash' = h
  ELSE /\ vn' = [objects EXCEPT ![v] = Deleted]
       /\ hash' = IF objects[v].linked THEN VnodeRelease(h, v, objects[v].ino) ELSE h

\* The vnodes a transaction pins: its complete callback drops them.
NotPinned(v) == {}
PinVnode(v) == {v}
Pinned(objects, v) ==
  [w \in Vnode |-> IF w \in PinVnode(v) THEN [objects[w] EXCEPT !.refs = @ + 1] ELSE objects[w]]

CommitTransaction(v, i, data) ==
  entries' = Append(entries, [pins |-> PinVnode(v), ino |-> i, data |-> data])

\* BeginTransaction: refused once the journal is.
MayCommit == ~refused /\ Len(entries) < MaxEntries

(***************************************************************************)
(* Operations.  VnodeGet takes the lock twice, and so is two steps.         *)
(***************************************************************************)
\* VnodeLookupInternal: one that is dying is taken out of the hash, by key.
Found(v) == v # None /\ vn[v].refs > 0 /\ ~IsUnlinked(v)
LeftInPlace(h, i) == h
WithoutDying(h, i) == IF h[i] # None /\ IsDying(h[i]) THEN [h EXCEPT ![i] = None] ELSE h

VnodeLookup(i) ==
  /\ op = Idle /\ syncing = {}
  /\ i \in named
  /\ IF Found(hash[i])
     THEN /\ op' = [at |-> "found", ino |-> i, vn |-> hash[i]]
          /\ vn' = [vn EXCEPT ![hash[i]].refs = @ + 1]
     ELSE op' = [at |-> "recreate", ino |-> i, vn |-> None] /\ UNCHANGED vn
  /\ hash' = WithoutDying(hash, i)
  /\ UNCHANGED <<syncing, named, allocated, entries, journal, refused, latest, disk>>

Recreate(v) ==
  /\ op.at = "recreate"
  /\ VnodeInsert(v, op.ino, Unread)
  /\ op' = [op EXCEPT !.at = "found", !.vn = v]
  /\ UNCHANGED <<syncing, named, allocated, entries, journal, refused, latest, disk>>

\* Lookup's caller opens the vnode, or has only looked at it.
Open ==
  /\ op.at = "found"
  /\ vn[op.vn].open < MaxOpen
  /\ vn' = [vn EXCEPT ![op.vn].open = @ + 1]
  /\ op' = Idle
  /\ UNCHANGED <<hash, syncing, named, allocated, entries, journal, refused, latest, disk>>

LookAway ==
  /\ op.at = "found"
  /\ Drops(vn, hash, op.vn)
  /\ op' = Idle
  /\ UNCHANGED <<syncing, named, allocated, entries, journal, refused, latest, disk>>

\* RemoveInodeLink: one that is not open is purged, one that is open is kept.
Unlink ==
  /\ op.at = "found" /\ MayCommit
  /\ LET v == op.vn
         purge == vn[v].open = 0
         objects == Pinned([vn EXCEPT ![v].linked = FALSE,
                                        ![v].dirty = @ /\ ~purge], v)
     IN /\ Drops(objects, IF purge THEN VnodeRelease(hash, v, op.ino) ELSE hash, v)
        /\ CommitTransaction(v, vn[v].ino, Unread)
        /\ allocated' = IF purge THEN allocated \ {op.ino} ELSE allocated
  /\ named' = named \ {op.ino}
  /\ op' = Idle
  /\ UNCHANGED <<syncing, journal, refused, latest, disk>>

\* Directory::Create, VnodeNew: the inode's first data is in the same transaction.
Create(v, i) ==
  /\ op = Idle /\ syncing = {} /\ MayCommit
  /\ i \notin allocated /\ latest[i] < MaxVersion
  /\ vn[v] = Deleted
  /\ vn' = Pinned([vn EXCEPT ![v] = [Deleted EXCEPT !.ino = i, !.refs = 1, !.open = 1,
                                                      !.linked = TRUE, !.data = latest[i] + 1]], v)
  /\ hash' = [hash EXCEPT ![i] = v]
  /\ latest' = [latest EXCEPT ![i] = @ + 1]
  /\ CommitTransaction(v, i, latest[i] + 1)
  /\ named' = named \union {i} /\ allocated' = allocated \union {i}
  /\ UNCHANGED <<op, syncing, journal, refused, disk>>

\* InitVmo.
Read(v) ==
  /\ op = Idle /\ syncing = {}
  /\ vn[v].open > 0 /\ vn[v].data = Unread
  /\ vn' = [vn EXCEPT ![v].data = disk[vn[v].ino]]
  /\ UNCHANGED <<hash, op, syncing, named, allocated, entries, journal, refused, latest, disk>>

\* A write stays in the dirty cache until the file is flushed.
Write(v) ==
  /\ op = Idle /\ syncing = {}
  /\ vn[v].open > 0 /\ vn[v].data # Unread
  /\ ~refused /\ latest[vn[v].ino] < MaxVersion
  /\ latest' = [latest EXCEPT ![vn[v].ino] = @ + 1]
  /\ vn' = [vn EXCEPT ![v].data = latest[vn[v].ino] + 1, ![v].dirty = TRUE]
  /\ UNCHANGED <<hash, op, syncing, named, allocated, entries, journal, refused, disk>>

FlushCachedWrites(v) ==
  /\ op = Idle /\ (syncing = {} => vn[v].open > 0) /\ (syncing # {} => v \in syncing)
  /\ vn[v].dirty /\ MayCommit
  /\ vn' = Pinned([vn EXCEPT ![v].dirty = FALSE], v)
  /\ CommitTransaction(v, vn[v].ino, vn[v].data)
  /\ UNCHANGED <<hash, op, syncing, named, allocated, journal, refused, latest, disk>>

\* CloseNode, when the last connection goes: what is dirty is flushed, what is unlinked
\* is purged.  If no transaction can be had it is lost, or only forgotten.
Closed(v) == [vn EXCEPT ![v].open = @ - 1]

Close(v) ==
  /\ op = Idle /\ syncing = {}
  /\ vn[v].open > 1 \/ (vn[v].open = 1 /\ ~IsUnlinked(v) /\ ~vn[v].dirty)
  /\ Drops(Closed(v), hash, v)
  /\ UNCHANGED <<op, syncing, named, allocated, entries, journal, refused, latest, disk>>

CloseFlushes(v) ==
  /\ op = Idle /\ syncing = {} /\ MayCommit
  /\ vn[v].open = 1 /\ ~IsUnlinked(v) /\ vn[v].dirty
  /\ Drops(Pinned([Closed(v) EXCEPT ![v].dirty = FALSE], v), hash, v)
  /\ CommitTransaction(v, vn[v].ino, vn[v].data)
  /\ UNCHANGED <<op, syncing, named, allocated, journal, refused, latest, disk>>

CloseLoses(v) ==
  /\ op = Idle /\ syncing = {} /\ refused
  /\ vn[v].open = 1 /\ ~IsUnlinked(v) /\ vn[v].dirty
  /\ Drops([Closed(v) EXCEPT ![v].dirty = FALSE], hash, v)
  /\ UNCHANGED <<op, syncing, named, allocated, entries, journal, refused, latest, disk>>

RemoveUnlinked(v) ==
  /\ op = Idle /\ syncing = {} /\ MayCommit
  /\ vn[v].open = 1 /\ IsUnlinked(v)
  /\ Drops(Pinned([Closed(v) EXCEPT ![v].dirty = FALSE], v), VnodeRelease(hash, v, vn[v].ino), v)
  /\ CommitTransaction(v, vn[v].ino, Unread)
  /\ allocated' = allocated \ {vn[v].ino}
  /\ UNCHANGED <<op, syncing, named, journal, refused, latest, disk>>

RemoveUnlinkedFails(v) ==
  /\ op = Idle /\ syncing = {} /\ refused
  /\ vn[v].open = 1 /\ IsUnlinked(v)
  /\ Drops(Closed(v), VnodeRelease(hash, v, vn[v].ino), v)
  /\ UNCHANGED <<op, syncing, named, allocated, entries, journal, refused, latest, disk>>

\* Sync: GetDirtyVnodes refers to every vnode that is not dying, then the dirty ones
\* are flushed and all of them let go.  A flush that is refused fails an assertion,
\* which ends the process: here, nothing more happens.
GetDirtyVnodes ==
  /\ op = Idle /\ syncing = {}
  /\ syncing' = {v \in Vnode : vn[v].refs > 0 /\ hash[vn[v].ino] = v}
  /\ syncing' # {}
  /\ vn' = [v \in Vnode |-> IF v \in syncing' THEN [vn[v] EXCEPT !.refs = @ + 1] ELSE vn[v]]
  /\ UNCHANGED <<hash, op, named, allocated, entries, journal, refused, latest, disk>>

LetGo(v) ==
  /\ v \in syncing /\ ~vn[v].dirty
  /\ Drops(vn, hash, v)
  /\ syncing' = syncing \ {v}
  /\ UNCHANGED <<op, named, allocated, entries, journal, refused, latest, disk>>

(***************************************************************************)
(* The journal's thread.                                                   *)
(***************************************************************************)
Complete ==
  /\ journal = Resting /\ entries # <<>>
  /\ LET e == Head(entries)
     IN /\ disk' = IF e.data = Unread \/ refused THEN disk ELSE [disk EXCEPT ![e.ino] = e.data]
        /\ journal' = [journal EXCEPT !.pins = e.pins]
  /\ entries' = Tail(entries)
  /\ UNCHANGED <<vn, hash, op, syncing, named, allocated, refused, latest>>

JournalFails ==
  /\ ~refused
  /\ refused' = TRUE
  /\ UNCHANGED <<vn, hash, op, syncing, named, allocated, entries, journal, latest, disk>>

DropPin(v) ==
  /\ v \in journal.pins /\ journal.dying = None
  /\ vn' = [vn EXCEPT ![v].refs = @ - 1]
  /\ journal' = [pins |-> journal.pins \ {v}, dying |-> IF vn[v].refs = 1 THEN v ELSE None]
  /\ UNCHANGED <<hash, op, syncing, named, allocated, entries, refused, latest, disk>>

RecycleNode(v) ==
  /\ journal.dying = v
  /\ hash' = IF IsUnlinked(v) THEN hash ELSE VnodeRelease(hash, v, vn[v].ino)
  /\ vn' = [vn EXCEPT ![v] = Deleted]
  /\ journal' = [journal EXCEPT !.dying = None]
  /\ UNCHANGED <<op, syncing, named, allocated, entries, refused, latest, disk>>

Next ==
  \/ \E i \in Ino : VnodeLookup(i) \/ \E v \in Vnode : Create(v, i)
  \/ Open \/ LookAway \/ Unlink
  \/ \E v \in Vnode : \/ Recreate(v) \/ Read(v) \/ Write(v) \/ FlushCachedWrites(v)
                      \/ Close(v) \/ CloseFlushes(v) \/ CloseLoses(v) \/ RemoveUnlinked(v) \/ RemoveUnlinkedFails(v)
                      \/ LetGo(v) \/ DropPin(v) \/ RecycleNode(v)
  \/ GetDirtyVnodes \/ Complete \/ JournalFails

Spec == Init /\ [][Next]_vars

(***************************************************************************)
(* Properties.                                                             *)
(***************************************************************************)
TypeOK ==
  /\ \A v \in Vnode : /\ vn[v].ino \in Ino \union {None}
                      /\ vn[v].open \in 0..MaxOpen /\ vn[v].refs \in Nat /\ vn[v].open <= vn[v].refs
                      /\ vn[v].data \in {Unread} \union 0..MaxVersion
  /\ hash \in [Ino -> Vnode \union {None}]
  /\ named \subseteq allocated /\ allocated \subseteq Ino

\* A linked inode never has two vnodes in use: the one in use is the one a lookup finds.
\* A vnode dying on the journal's thread, or one of the inode's earlier lives, must not
\* take another one out of the hash (VnodeRelease erases by object).
OneVnodePerInode ==
  \A v \in Vnode : vn[v].refs > 0 /\ ~IsUnlinked(v) => hash[vn[v].ino] = v

\* No reference is dropped twice; the hash, which refers to nothing, never leads to
\* a deleted vnode (a lookup would touch it) or to an inode that is not in use; and
\* VnodeInsert's assertion holds: an inode about to get a vnode has none.
HashIsSound ==
  /\ TypeOK
  /\ \A i \in Ino : hash[i] # None => vn[hash[i]].ino = i
  /\ op.at = "recreate" => hash[op.ino] = None
  /\ \A i \in Ino \ allocated : hash[i] = None

\* Whoever has a file open sees what was last written to it: a vnode made anew reads its
\* data from the disk, so the one before it lives until the disk has that data (unless
\* the journal has failed, and what was being written is lost).
ReadsCurrent ==
  \A v \in Vnode : ~refused /\ vn[v].open > 0 => vn[v].data \in {Unread, latest[vn[v].ino]}

================================================================================
