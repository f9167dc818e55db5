----------------------------- MODULE DirentRecords -----------------------------
(***************************************************************************)
(* How a directory's entries lie in its file.  The file is a chain of       *)
(* records, each as long as its reclen says; the last one, flagged, reaches *)
(* to the largest size a directory may have.  Adding a name fills a free    *)
(* record or splits what another one does not need; removing a name frees   *)
(* its record and merges it with free neighbours; a free last record is cut *)
(* off the file.  Records never move, so a reader that lists the directory  *)
(* in several calls can find its place again after others have changed it.  *)
(*                                                                         *)
(* One step is one operation on the directory, which holds the transaction  *)
(* lock from its beginning to its end, or one call of a reader.  Lengths    *)
(* are in units of the alignment.                                           *)
(***************************************************************************)
EXTENDS Integers, FiniteSets, Functions

CONSTANTS
  Name,
  Length,           \* [Name -> Nat]: room a name takes in its record
  Header,           \* kMinfsDirentSize
  MaxDirectorySize,
  BlockSize,
  MaxCall           \* bound: entries a reader has room for in one call

Free == "free"
Dot == "."
DotDot == ".."

ASSUME DirentRecordsAssumption ==
  /\ Length \in [Name -> Nat \ {0}] /\ Name \intersect {Free, Dot, DotDot} = {}
  /\ {Header, BlockSize, MaxCall} \subseteq Nat \ {0}
  /\ MaxDirectorySize \in Nat /\ MaxDirectorySize >= 2 * (Header + 1)

VARIABLES
  dir,      \* the file: its size, and the records by offset, with those that earlier
            \* operations have left behind inside others
  names,    \* what the clients have been told is in the directory
  cookie,   \* where a listing is: off, and whether the directory has changed since
  listed,   \* history: how often the listing has shown a name
  stayed,   \* history: names that have been in the directory all through the listing
  failed    \* an operation failed on a check of its own, or ran out of reserved blocks

vars == <<dir, names, cookie, listed, stayed, failed>>

DirentSize(n) == Header + (IF n \in {Dot, DotDot} THEN 1 ELSE Length[n])
Record(n, reclen, last) == [name |-> n, reclen |-> IF last THEN 0 ELSE reclen, last |-> last]

InitializeDirectory ==
  [size |-> DirentSize(Dot) + DirentSize(DotDot),
   record |-> [off \in {0, DirentSize(Dot)} |->
                 IF off = 0 THEN Record(Dot, DirentSize(Dot), FALSE) ELSE Record(DotDot, 0, TRUE)]]

Start == [off |-> 0, changed |-> FALSE]

Init ==
  /\ dir = InitializeDirectory /\ names = {}
  /\ cookie = Start /\ listed = [n \in Name |-> 0] /\ stayed = {}
  /\ failed = {}

(***************************************************************************)
(* Walking the chain.                                                      *)
(***************************************************************************)
\* What is found at an offset where no record was written is no record.
At(d, off) == IF off \in DOMAIN d.record THEN d.record[off] ELSE Record(Free, 0, FALSE)

ReservedSize(r, off) == IF r.last THEN MaxDirectorySize - off ELSE r.reclen

Valid(d, off) ==
  LET r == At(d, off)
      reclen == ReservedSize(r, off)
  IN /\ d.size >= off + Header
     /\ reclen >= Header
     /\ off + reclen <= MaxDirectorySize
     /\ r.name # Free => DirentSize(r.name) <= reclen

\* The offsets ForEachDirent visits, if it begins at off; it gives up at an invalid record.
VisitedFrom(d) ==
  LET from[off \in 0..MaxDirectorySize] ==
        IF off + Header >= MaxDirectorySize \/ off >= d.size \/ ~Valid(d, off) THEN {}
        ELSE {off} \union from[off + ReservedSize(At(d, off), off)]
  IN from

Visited(d) == VisitedFrom(d)[0]

First(S) == CHOOSE x \in S : \A y \in S : x <= y
Previous(d, off) ==
  LET before == {o \in Visited(d) : o < off}
  IN IF before = {} THEN off ELSE CHOOSE x \in before : \A y \in before : y <= x

Matching(d, n) == {off \in Visited(d) : At(d, off).name = n}
Spare(r, off) == ReservedSize(r, off) - (IF r.name = Free THEN 0 ELSE DirentSize(r.name))
WithSpace(d, n) == {off \in Visited(d) : DirentSize(n) <= Spare(At(d, off), off)}

(***************************************************************************)
(* Writing records.  A record of n units written over others leaves none of *)
(* their headers, and makes the file longer when it must.                   *)
(***************************************************************************)
Written(d, off, r, n) ==
  [size |-> IF off + n > d.size THEN off + n ELSE d.size,
   record |-> [o \in {off} \union {p \in DOMAIN d.record : p < off \/ p >= off + n} |->
                 IF o = off THEN r ELSE d.record[o]]]

Truncated(d, len) ==
  [size |-> len, record |-> Restrict(d.record, {o \in DOMAIN d.record : o < len})]

AppendDirent(d, off, n) ==
  LET r == At(d, off)
      used == ReservedSize(r, off) - Spare(r, off)
      shrunk == IF used = 0 THEN d ELSE Written(d, off, Record(r.name, used, FALSE), used)
  IN Written(shrunk, off + used, Record(n, Spare(r, off), r.last), DirentSize(n))

MergesAlways(d, off) == Previous(d, off) # off
MergesPrevious(d, off) == Previous(d, off) # off /\ At(d, Previous(d, off)).name = Free

LastIfItWas(de, next) == de.last
LastIfMerged(de, next) == de.last \/ next.last

CutWholeRecord(d, start) == Truncated(d, start)
CutUnused(d, start) == Truncated(d, start + Header)

UnlinkChild(d, off) ==
  LET de == At(d, off)
      offNext == off + ReservedSize(de, off)
      next == At(d, offNext)
      mergesNext == ~de.last /\ next.name = Free
      start == IF MergesPrevious(d, off) THEN Previous(d, off) ELSE off
      end == IF mergesNext THEN offNext + ReservedSize(next, offNext) ELSE offNext
      last == IF mergesNext THEN LastIfMerged(de, next) ELSE de.last
      e == Written(d, start, Record(Free, end - start, last), Header)
  IN IF last THEN CutUnused(e, start) ELSE e

(***************************************************************************)
(* Operations on names.  The block reservation is computed as if the record *)
(* went to the end of the file.                                             *)
(***************************************************************************)
BlocksFor(size) == (size + BlockSize - 1) \div BlockSize
GetRequiredBlockCount(off, len) == (off + len - 1) \div BlockSize - off \div BlockSize + 1

Changed(d, grown, reserved) ==
  /\ dir' = d
  /\ cookie' = [cookie EXCEPT !.changed = TRUE]
  /\ failed' = failed \union
       (IF BlocksFor(grown.size) - BlocksFor(dir.size) > reserved THEN {"reserved_ > 0"} ELSE {})

Found(n) == Matching(dir, n) # {}
HasSpace(n) == WithSpace(dir, n) # {}
Appended(n) == AppendDirent(dir, First(WithSpace(dir, n)), n)
Required(n) == GetRequiredBlockCount(dir.size, DirentSize(n))

\* Create, Link, and Rename from another directory to a name that is not there.
Add(n) ==
  /\ ~Found(n) /\ HasSpace(n)
  /\ Changed(Appended(n), Appended(n), Required(n))
  /\ names' = names \union {n}
  /\ UNCHANGED <<listed, stayed>>

\* Unlink, and Rename to another directory.
Remove(n) ==
  /\ Found(n)
  /\ Changed(UnlinkChild(dir, First(Matching(dir, n))), dir, 0)
  /\ names' = names \ {n}
  /\ stayed' = stayed \ {n}
  /\ UNCHANGED listed

\* Rename within the directory; a name that is replaced keeps its record.
Rename(old, new) ==
  /\ old # new
  /\ Found(old) /\ HasSpace(new)
  /\ LET d == IF Found(new) THEN dir ELSE Appended(new)
     IN Changed(UnlinkChild(d, First(Matching(d, old))), d, Required(new))
  /\ names' = (names \ {old}) \union {new}
  /\ stayed' = stayed \ {old}
  /\ UNCHANGED listed

(***************************************************************************)
(* Readdir, with room for k entries.  An offset kept from before a change    *)
(* may lie inside a record; the first record at or after it is where the    *)
(* listing resumes.                                                         *)
(***************************************************************************)
RecoveredFrom(d, off) ==
  LET from[o \in 0..MaxDirectorySize] ==
        IF o >= off THEN o
        ELSE IF o + Header >= MaxDirectorySize \/ ~Valid(d, o) THEN -1
        ELSE from[o + ReservedSize(At(d, o), o)]
  IN from

NotRecovered(d, off) == off
Recovered(d, off) == RecoveredFrom(d, off)[0]

\* Where a call ends that starts at off, by the room for entries left, and what it shows.
Read(d, k) ==
  LET read[off \in 0..MaxDirectorySize] ==
        [left \in 0..k |->
           IF off + Header >= MaxDirectorySize THEN [end |-> off, shows |-> {}]
           ELSE IF ~Valid(d, off) THEN [end |-> -1, shows |-> {}]
           ELSE LET n == At(d, off).name
                    next == off + ReservedSize(At(d, off), off)
                IN IF n \in {Free, DotDot} THEN read[next][left]
                   ELSE IF left = 0 THEN [end |-> off, shows |-> {}]
                   ELSE [end |-> read[next][left - 1].end,
                         shows |-> {n} \union read[next][left - 1].shows]]
  IN read

Restart ==
  /\ cookie' = Start
  /\ listed' = [n \in Name |-> 0]
  /\ stayed' = names
  /\ UNCHANGED <<dir, names, failed>>

Readdir(k) ==
  LET start == IF cookie.off # 0 /\ cookie.changed THEN Recovered(dir, cookie.off) ELSE cookie.off
      result == IF start < 0 THEN [end |-> -1, shows |-> {}] ELSE Read(dir, k)[start][k]
  IN /\ IF result.end < 0
        THEN cookie' = Start /\ failed' = failed \union {"Readdir: Corrupt dirent"}
        ELSE cookie' = [off |-> result.end, changed |-> FALSE] /\ UNCHANGED failed
     /\ listed' = [n \in Name |-> listed[n] + (IF n \in result.shows THEN 1 ELSE 0)]
     /\ UNCHANGED <<dir, names, stayed>>

Done == cookie.off + Header >= MaxDirectorySize

Next ==
  \/ \E n \in Name : Add(n) \/ Remove(n)
  \/ \E old, new \in Name : Rename(old, new)
  \/ Restart
  \/ \E k \in 1..MaxCall : ~Done /\ Readdir(k)

Spec == Init /\ [][Next]_vars

(***************************************************************************)
(* Properties.                                                             *)
(***************************************************************************)

\* The records tile the directory: all are valid, they end exactly at the largest
\* size, only the last is flagged, the file reaches to what is used of it, and no
\* two neighbours are free, so that merging with one neighbour on each side is
\* enough (directory.cc:145-188).
RecordsTile ==
  LET V == Visited(dir)
      after(off) == off + ReservedSize(At(dir, off), off)
  IN \A off \in V :
       /\ Valid(dir, off)
       /\ after(off) \in V \/ after(off) = MaxDirectorySize
       /\ At(dir, off).last <=> after(off) = MaxDirectorySize
       /\ dir.size >= off + (IF At(dir, off).name = Free THEN Header
                             ELSE DirentSize(At(dir, off).name))
       /\ At(dir, off).name = Free /\ after(off) \in V => At(dir, after(off)).name # Free

\* A lookup finds exactly what is in the directory, each name once.
NamesAreFound ==
  \A n \in Name : Cardinality(Matching(dir, n)) = IF n \in names THEN 1 ELSE 0

\* A listing shows what stays in the directory all through it, once, whatever is
\* added, removed and merged between its calls (directory.cc:568-587).
ListingIsComplete ==
  \A n \in stayed : listed[n] <= 1 /\ (Done => listed[n] = 1)

\* No operation stops on a check of its own: none meets a corrupt record
\* (directory.cc:46-67), and the blocks reserved as if the record went to the end
\* of the file are enough wherever it goes, also when none were reserved.
NothingFails == failed = {}

================================================================================
