------------------------------- MODULE Namespace -------------------------------
(***************************************************************************)
(* Names, links and the list of unlinked inodes.  A directory maps names to *)
(* inodes; an inode whose last name goes while somebody has it open stays   *)
(* allocated, on a doubly linked list whose ends are in the superblock and  *)
(* whose links are in the inodes, until it is closed or, after a crash,     *)
(* until the next mount purges the list.                                    *)
(*                                                                         *)
(* An operation runs from beginning to end under the transaction's lock on  *)
(* the only dispatcher thread, so it is one step; it changes the vnodes and *)
(* the superblock in memory and hands one journal entry to the journal, with*)
(* the inodes it has synced.  The journal writes entries in order at any    *)
(* later time, and a crash loses those it has not written.                  *)
(***************************************************************************)
EXTENDS Integers, Sequences, FiniteSets

CONSTANTS
  Inodes,      \* number of inodes; the root directory is number 1
  Name,
  MaxOpen,     \* bound: times an inode is open at once
  MaxEntries,  \* bound: journal entries not yet written
  MaxCrashes   \* bound: crashes

ASSUME NamespaceAssumption ==
  /\ Inodes \in Nat \ {0} /\ IsFiniteSet(Name)
  /\ MaxOpen \in Nat \ {0}  \* what is created is returned open
  /\ MaxEntries \in Nat /\ MaxCrashes \in Nat

VARIABLES
  vol,      \* the volume in memory; sync is the set of inodes the transaction writes
  open,     \* open[i]: open_count of the vnode
  entries,  \* journal entries not yet on disk, oldest first
  disk,     \* the volume a replay of the journal yields
  mounting, \* PurgeUnlinked is under way
  crashes

vars == <<vol, open, entries, disk, mounting, crashes>>

Ino == 1..Inodes
Root == 1
None == 0

Free == [type |-> "free", links |-> 0, dirents |-> 0, last |-> None, next |-> None]
NewFile == [Free EXCEPT !.type = "file", !.links = 1]
NewDir == [Free EXCEPT !.type = "dir", !.links = 2, !.dirents = 2]

NoNames == [n \in Name |-> None]

Empty ==
  [inode |-> [i \in Ino |-> IF i = Root THEN NewDir ELSE Free],
   entry |-> [i \in Ino |-> NoNames],  \* entry[d][n]: the inode of name n in d
   parent |-> [i \in Ino |-> IF i = Root THEN Root ELSE None],  \* the entry ".."
   head |-> None, tail |-> None,
   sync |-> {}]

Init ==
  /\ vol = Empty /\ disk = Empty
  /\ open = [i \in Ino |-> 0]
  /\ entries = <<>>
  /\ mounting = FALSE
  /\ crashes = 0

(***************************************************************************)
(* What the operations are made of: functions from volume to volume.       *)
(***************************************************************************)
IsDir(v, i) == v.inode[i].type = "dir"
IsUnlinked(v, i) == v.inode[i].links = 0
InodeSync(v, S) == [v EXCEPT !.sync = @ \union S]

\* The list's links are kept in the inodes of the neighbours as well.
AddUnlinkedUnsynced(v, i) ==
  IF v.tail = None THEN [v EXCEPT !.head = i, !.tail = i]
  ELSE InodeSync([v EXCEPT !.inode[v.tail].next = i, !.inode[i].last = v.tail, !.tail = i], {i})

AddUnlinked(v, i) ==
  IF v.tail = None THEN [v EXCEPT !.head = i, !.tail = i]
  ELSE InodeSync([v EXCEPT !.inode[v.tail].next = i, !.inode[i].last = v.tail, !.tail = i],
                 {v.tail, i})

RemoveUnlinked(v, i) ==
  LET last == v.inode[i].last
      next == v.inode[i].next
      w == IF last = None THEN [v EXCEPT !.head = next]
           ELSE InodeSync([v EXCEPT !.inode[last].next = next], {last})
  IN IF next = None THEN [w EXCEPT !.tail = last]
     ELSE InodeSync([w EXCEPT !.inode[next].last = last], {next})

\* InoFree: the inode and its blocks are freed.
InoFree(v, i) ==
  InodeSync([v EXCEPT !.inode[i] = Free, !.entry[i] = NoNames, !.parent[i] = None], {i})

\* A directory that is kept for those who have it open loses "." and "..".
Emptied(v, i) ==
  IF IsDir(v, i)
  THEN [v EXCEPT !.inode[i].dirents = 0, !.entry[i] = NoNames, !.parent[i] = None]
  ELSE v

\* A directory whose only link left is its own "." has none.
LinksLeft(v, i) ==
  LET n == v.inode[i].links - 1 IN IF IsDir(v, i) /\ n = 1 THEN 0 ELSE n

RemoveInodeLinkAlwaysPurging(v, i) ==
  LET w == InodeSync([v EXCEPT !.inode[i].links = LinksLeft(v, i)], {i})
  IN IF IsUnlinked(w, i) THEN InoFree(w, i) ELSE w

RemoveInodeLink(v, i) ==
  LET w == InodeSync([v EXCEPT !.inode[i].links = LinksLeft(v, i)], {i})
  IN CASE ~IsUnlinked(w, i) -> w
       [] IsUnlinked(w, i) /\ open[i] = 0 -> InoFree(w, i)
       [] IsUnlinked(w, i) /\ open[i] > 0 -> Emptied(AddUnlinked(w, i), i)

\* A subdirectory's ".." is a link to its parent.
AppendDirent(v, d, n, i) ==
  InodeSync([v EXCEPT !.entry[d][n] = i,
                      !.inode[d].dirents = @ + 1,
                      !.inode[d].links = IF IsDir(v, i) THEN @ + 1 ELSE @], {d})

UnlinkChild(v, d, n) ==
  LET i == v.entry[d][n]
      w == [v EXCEPT !.entry[d][n] = None,
                     !.inode[d].dirents = @ - 1,
                     !.inode[d].links = IF IsDir(v, i) THEN @ - 1 ELSE @]
  IN InodeSync(RemoveInodeLink(w, i), {d})

CanUnlink(i) == IsDir(vol, i) => vol.inode[i].dirents = 2

\* Above(v, d)[k] is k levels above d; d is i or below it.
Above(v, d) ==
  LET above[k \in 0..Inodes] == IF k = 0 THEN d ELSE v.parent[above[k - 1]]
  IN above

IsBelow(v, d, i) ==
  LET above == Above(v, d)
  IN \E k \in 0..Inodes :
       above[k] = i /\ \A j \in 0..k : above[j] # None /\ (j < k => above[j] # Root)

(***************************************************************************)
(* A transaction is committed: directory contents and superblock as they    *)
(* are, and the inodes that were synced, go to the journal.                 *)
(***************************************************************************)
Entry(v) == [inode |-> [i \in v.sync |-> v.inode[i]], entry |-> v.entry, parent |-> v.parent,
             head |-> v.head, tail |-> v.tail]

Apply(e, v) ==
  [inode |-> [i \in Ino |-> IF i \in DOMAIN e.inode THEN e.inode[i] ELSE v.inode[i]],
   entry |-> e.entry, parent |-> e.parent, head |-> e.head, tail |-> e.tail, sync |-> {}]

Commit(v) ==
  /\ Len(entries) < MaxEntries
  /\ vol' = [v EXCEPT !.sync = {}]
  /\ entries' = Append(entries, Entry(v))
  /\ UNCHANGED <<disk, mounting, crashes>>

Ready(d) == ~mounting /\ IsDir(vol, d)

(***************************************************************************)
(* Operations of directories.                                              *)
(***************************************************************************)
FreeIno == {i \in Ino : vol.inode[i].type = "free"}
NewIno == CHOOSE i \in FreeIno : \A j \in FreeIno : i <= j

\* Directory::Create: the new node is returned open.
Create(d, n, new) ==
  /\ Ready(d)
  /\ ~IsUnlinked(vol, d)
  /\ vol.entry[d][n] = None
  /\ FreeIno # {}
  /\ LET w == [vol EXCEPT !.inode[NewIno] = new,
                          !.parent[NewIno] = IF new = NewDir THEN d ELSE None]
     IN Commit(AppendDirent(InodeSync(w, {NewIno}), d, n, NewIno))
  /\ open' = [open EXCEPT ![NewIno] = 1]

Unlink(d, n) ==
  /\ Ready(d)
  /\ vol.entry[d][n] # None
  /\ CanUnlink(vol.entry[d][n])
  /\ Commit(UnlinkChild(vol, d, n))
  /\ UNCHANGED open

\* Vfs finds the target by a name, so it has one.
Link(d, n, i) ==
  /\ Ready(d)
  /\ ~IsUnlinked(vol, d)
  /\ vol.inode[i].type = "file" /\ ~IsUnlinked(vol, i)
  /\ vol.entry[d][n] = None
  /\ LET w == AppendDirent(vol, d, n, i)
     IN Commit(InodeSync([w EXCEPT !.inode[i].links = @ + 1], {i}))
  /\ UNCHANGED open

\* Directory::Rename: the new name replaces what it named, or is appended; a
\* directory that moves has its ".." changed; then the old name goes.
NoSubdirectoryCheck(i, d2) == IsDir(vol, i) => i # d2
NotBelowItself(i, d2) == IsDir(vol, i) => ~IsBelow(vol, d2, i)

MayReplace(i, j) ==
  /\ i # j
  /\ vol.inode[i].type = vol.inode[j].type
  /\ CanUnlink(j)

Named(i, d2, n2) ==
  IF vol.entry[d2][n2] = None THEN AppendDirent(vol, d2, n2, i)
  ELSE InodeSync([RemoveInodeLink(vol, vol.entry[d2][n2]) EXCEPT !.entry[d2][n2] = i], {d2})

MovedUnder(v, i, d2) == IF IsDir(v, i) THEN [v EXCEPT !.parent[i] = d2] ELSE v

AddLink(v, i) == [v EXCEPT !.inode[i].links = @ + 1]

Rename(d, n, d2, n2) ==
  LET i == vol.entry[d][n] IN
  /\ Ready(d) /\ Ready(d2)
  /\ ~IsUnlinked(vol, d2)
  /\ i # None
  /\ NotBelowItself(i, d2)
  /\ <<d, n>> # <<d2, n2>>
  /\ vol.entry[d2][n2] # None => MayReplace(i, vol.entry[d2][n2])
  /\ Commit(UnlinkChild(AddLink(MovedUnder(Named(i, d2, n2), i, d2), i), d, n))
  /\ UNCHANGED open

(***************************************************************************)
(* Open and close.  What is unlinked when it is closed is purged.           *)
(***************************************************************************)
Open(i) ==
  /\ ~mounting
  /\ vol.inode[i].type # "free" /\ ~IsUnlinked(vol, i)
  /\ open[i] < MaxOpen
  /\ open' = [open EXCEPT ![i] = @ + 1]
  /\ UNCHANGED <<vol, entries, disk, mounting, crashes>>

Close(i) ==
  /\ ~mounting
  /\ open[i] > 0
  /\ open' = [open EXCEPT ![i] = @ - 1]
  /\ IF open[i] = 1 /\ IsUnlinked(vol, i)
     THEN Commit(InoFree(RemoveUnlinked(vol, i), i))
     ELSE UNCHANGED <<vol, entries, disk, mounting, crashes>>

(***************************************************************************)
(* The journal, a crash, and the mount after it.                           *)
(***************************************************************************)
EntryWritten ==
  /\ entries # <<>>
  /\ disk' = Apply(Head(entries), disk)
  /\ entries' = Tail(entries)
  /\ UNCHANGED <<vol, open, mounting, crashes>>

Crash ==
  /\ crashes < MaxCrashes
  /\ crashes' = crashes + 1
  /\ vol' = disk
  /\ open' = [i \in Ino |-> 0]
  /\ entries' = <<>>
  /\ mounting' = (disk.head # None)
  /\ UNCHANGED disk

\* PurgeUnlinked: one transaction for every inode of the list.
PurgedKeepingBackLink(v) ==
  LET next == v.inode[v.head].next
      w == [InoFree(v, v.head) EXCEPT !.head = next]
  IN IF next = None THEN [w EXCEPT !.tail = None] ELSE w

Purged(v) ==
  LET next == v.inode[v.head].next
      w == [InoFree(v, v.head) EXCEPT !.head = next]
  IN IF next = None THEN [w EXCEPT !.tail = None]
     ELSE InodeSync([w EXCEPT !.inode[next].last = None], {next})

PurgeUnlinked ==
  /\ mounting
  /\ Len(entries) < MaxEntries
  /\ LET v == Purged(vol) IN
       /\ vol' = [v EXCEPT !.sync = {}]
       /\ entries' = Append(entries, Entry(v))
       /\ mounting' = (v.head # None)
  /\ UNCHANGED <<open, disk, crashes>>

Next ==
  \/ \E d \in Ino, n \in Name :
       \/ \E new \in {NewFile, NewDir} : Create(d, n, new)
       \/ Unlink(d, n)
       \/ \E i \in Ino : Link(d, n, i)
       \/ \E d2 \in Ino, n2 \in Name : Rename(d, n, d2, n2)
  \/ \E i \in Ino : Open(i) \/ Close(i)
  \/ EntryWritten
  \/ Crash
  \/ PurgeUnlinked

Spec == Init /\ [][Next]_vars

(***************************************************************************)
(* Properties.                                                             *)
(***************************************************************************)
Allocated(v) == {i \in Ino : v.inode[i].type # "free"}
Linked(v) == {i \in Allocated(v) : ~IsUnlinked(v, i)}
Unlinked(v) == {i \in Allocated(v) : IsUnlinked(v, i)}
NamesOf(v, i) == {p \in Ino \X Name : v.entry[p[1]][p[2]] = i}
Children(v, d) == {n \in Name : v.entry[d][n] # None}
Subdirectories(v, d) == {n \in Children(v, d) : IsDir(v, v.entry[d][n])}

Inode == [type : {"free", "file", "dir"}, links : Nat, dirents : Nat,
          last : Ino \union {None}, next : Ino \union {None}]

Volume == [inode : [Ino -> Inode], entry : [Ino -> [Name -> Ino \union {None}]],
           parent : [Ino -> Ino \union {None}],
           head : Ino \union {None}, tail : Ino \union {None}, sync : SUBSET Ino]

VolumeType(v) == v \in Volume /\ v.sync = {}

TypeOK ==
  /\ VolumeType(vol) /\ VolumeType(disk)
  /\ open \in [Ino -> 0..MaxOpen]
  /\ Len(entries) <= MaxEntries
  /\ mounting \in BOOLEAN
  /\ crashes \in 0..MaxCrashes

\* The names form a tree of directories with files linked into it, and every
\* count is what fsck would count: a file's links are its names, a directory's
\* are 2 and one for each subdirectory, its dirents 2 and one for each name.
TreeOf(v) ==
  /\ \A d \in Ino, n \in Name : v.entry[d][n] # None =>
       IsDir(v, d) /\ v.entry[d][n] \in Linked(v) \ {Root}
  /\ \A i \in Linked(v) :
       IF IsDir(v, i)
       THEN /\ v.inode[i].links = 2 + Cardinality(Subdirectories(v, i))
            /\ v.inode[i].dirents = 2 + Cardinality(Children(v, i))
            /\ i # Root => \E n \in Name : NamesOf(v, i) = {<<v.parent[i], n>>}
            /\ IsBelow(v, i, Root)
       ELSE v.inode[i].links = Cardinality(NamesOf(v, i))

\* Walk(v)[k] is the k-th inode on the list.
Walk(v) ==
  LET walk[k \in 1..Inodes] ==
        IF k = 1 THEN v.head
        ELSE IF walk[k - 1] = None THEN None ELSE v.inode[walk[k - 1]].next
  IN walk

\* The list holds exactly the inodes without a link, both ways, and an inode
\* that is not on it has clean links for the day it is added.
ListOf(v) ==
  LET U == Unlinked(v)
      walk == Walk(v)
  IN /\ v.head = None <=> v.tail = None
     /\ U = {walk[k] : k \in 1..Inodes} \ {None}
     /\ \A i \in U :
          /\ v.inode[i].last = None <=> i = v.head
          /\ v.inode[i].next = None <=> i = v.tail
          /\ v.inode[i].next # None => v.inode[v.inode[i].next].last = i
     /\ \A i \in Ino \ U : v.inode[i].last = None /\ v.inode[i].next = None

\* In memory, and on disk at any moment power may fail (fsck.cc:285-412, 595-635).
TreeSound == TypeOK /\ TreeOf(vol) /\ TreeOf(disk)

\* In memory, and on disk at any moment power may fail (fsck.cc:639-690).
UnlinkedListSound == ListOf(vol) /\ ListOf(disk)

\* Once mounted, the inodes kept without a link are those somebody has open: the
\* vnode at the end of the list is there to be linked to (minfs.cc:787-790), what
\* is open is not freed, and a crash leaks nothing.
KeptExactlyWhileOpen ==
  ~mounting => Unlinked(vol) = {i \in Ino : open[i] > 0 /\ IsUnlinked(vol, i)}

\* Replayed[k] is the disk with k of the entries written.
Replayed ==
  LET replayed[k \in 0..Len(entries)] ==
        IF k = 0 THEN disk ELSE Apply(entries[k], replayed[k - 1])
  IN replayed

\* No change in memory is left out of its transaction: with all entries written
\* the disk is what memory is.
MemoryIsCommitted == Replayed[Len(entries)] = vol

================================================================================
