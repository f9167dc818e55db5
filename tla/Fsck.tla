---------------------------------- MODULE Fsck ----------------------------------
(***************************************************************************)
(* The consistency checker.  Fsck walks the volume from the root directory, *)
(* then along the list of unlinked inodes; it notes every inode and every   *)
(* block it comes by, counts links against link counts, and at the end      *)
(* compares what it has noted with the bitmaps and the superblock.  Any      *)
(* number of fields may have been damaged before it begins.                 *)
(*                                                                         *)
(* CheckInode and CheckDirectory call each other; here the calls still to be *)
(* made are the sequence todo, first to last.  A directory's own checks all  *)
(* come before its first call (the CD_DUMP pass makes them), so the order of  *)
(* the code is kept.  A call made is one step.                              *)
(***************************************************************************)
EXTENDS Integers, Sequences, SequencesExt, FiniteSets

CONSTANTS
  InodeCount, BlockCount,
  Direct, Indirect, DoublyIndirect, \* kMinfsDirect, ...: pointers of each kind in an inode
  PerIndirect,                      \* kMinfsDirectPerIndirect: block numbers in a block
  Volumes,                          \* the sound volumes to begin with
  MaxDamage                         \* bound: fields damaged

VARIABLES
  disk,          \* what Minfs has loaded: see Mkfs
  damage,        \* fields damaged so far
  phase,         \* which of Fsck's calls is under way
  todo,          \* calls of CheckInode still to be made
  cursor,        \* CheckUnlinkedInodes: last_ino and next_ino
  links,         \* links_[ino - 1]: links found less links there should be
  checkedInodes, checkedBlocks,
  conforming,
  status         \* "ok", or "error" once a check has returned one

checkerVars == <<phase, todo, cursor, links, checkedInodes, checkedBlocks, conforming, status>>
vars == <<disk, damage, checkerVars>>

Ino == 1..(InodeCount - 1)    \* inode and block 0 are reserved: 0 means none
Block == 1..(BlockCount - 1)
Root == 1
None == 0

Record(name, ino) == [name |-> name, ino |-> ino]
Call(ino, parent, dot) == [ino |-> ino, parent |-> parent, dot |-> dot]
Dots == {".", ".."}

(***************************************************************************)
(* A block is known by how it reads as an array of block numbers and as     *)
(* directory records; one that is no directory's reads as a bad record,     *)
(* here no record at all.  Sizes are in blocks.                             *)
(***************************************************************************)
OutOfRange == BlockCount
Zeros == [n \in 1..PerIndirect |-> None]
Data == [numbers |-> Zeros, records |-> <<>>]
Numbers(seq) == [numbers |-> seq, records |-> <<>>]
Records(seq) == [numbers |-> [n \in 1..PerIndirect |-> OutOfRange], records |-> seq]

NoInode ==
  [magic |-> "none", size |-> 0, blocks |-> 0, links |-> 0, dirents |-> 0, last |-> None,
   next |-> None, dnum |-> [n \in 1..Direct |-> None], inum |-> [n \in 1..Indirect |-> None],
   dinum |-> [n \in 1..DoublyIndirect |-> None]]

\* Mkfs: a root directory in block 1.
Mkfs ==
  [inode |-> [i \in Ino |-> IF i = Root
                THEN [NoInode EXCEPT !.magic = "dir", !.size = 1, !.blocks = 1, !.links = 2,
                                     !.dirents = 2, !.dnum[1] = 1]
                ELSE NoInode],
   block |-> [b \in Block |-> IF b = 1 THEN Records(<<Record(".", Root), Record("..", Root)>>)
                              ELSE Data],
   inodeMap |-> {0, Root}, blockMap |-> {0, 1},
   allocInodes |-> 2, allocBlocks |-> 2,
   head |-> None, tail |-> None,
   journal |-> "valid", backup |-> "valid"]

Init ==
  /\ disk \in Volumes
  /\ damage = 0
  /\ phase = "start"
  /\ todo = <<>>
  /\ cursor = [last |-> None, next |-> None]
  /\ links = [i \in Ino |-> IF i = Root THEN -1 ELSE 0]
  /\ checkedInodes = {} /\ checkedBlocks = {}
  /\ conforming = TRUE
  /\ status = "ok"

(***************************************************************************)
(* Damage: one field gets another value.                                   *)
(***************************************************************************)
InodeValues ==
  [magic |-> {"file", "dir", "purged"}, size |-> 0..1, blocks |-> 0..2, links |-> 0..3,
   dirents |-> {0, 2, 3}, last |-> {None} \union Ino, next |-> {None} \union Ino]

\* What a block number may become, and the inode of a record.
Targets == {None, 2, BlockCount - 1, OutOfRange}
Numbered == {None, Root, InodeCount - 1, InodeCount}

Damaged(d) ==
  /\ phase = "start"
  /\ damage < MaxDamage
  /\ disk' = d
  /\ damage' = damage + 1
  /\ UNCHANGED checkerVars

DamageInode(i) ==
  \E f \in DOMAIN InodeValues : \E x \in InodeValues[f] : Damaged([disk EXCEPT !.inode[i][f] = x])

DamagePointer(i, b) ==
  \E f \in {"dnum", "inum", "dinum"} : \E n \in DOMAIN disk.inode[i][f] :
    Damaged([disk EXCEPT !.inode[i][f][n] = b])

DamageNumber(b, c) ==
  /\ b \in disk.blockMap /\ disk.block[b].records = <<>>
  /\ \E n \in 1..PerIndirect : Damaged([disk EXCEPT !.block[b].numbers[n] = c])

DamageRecord(b, i) ==
  \E n \in DOMAIN disk.block[b].records : \E name \in Dots \union {"other"} :
    Damaged([disk EXCEPT !.block[b].records[n] = Record(name, i)])

Flipped(map, n) == IF n \in map THEN map \ {n} ELSE map \union {n}
DamageMaps ==
  \/ \E n \in {0, InodeCount - 1} : Damaged([disk EXCEPT !.inodeMap = Flipped(@, n)])
  \/ \E n \in {0, 1, BlockCount - 1} : Damaged([disk EXCEPT !.blockMap = Flipped(@, n)])

DamageSuperblock ==
  \/ \E f \in {"allocInodes", "allocBlocks"} : \E n \in {2, 3} : Damaged([disk EXCEPT ![f] = n])
  \/ \E f \in {"head", "tail"} : \E i \in {None} \union Ino : Damaged([disk EXCEPT ![f] = i])
  \/ \E f \in {"journal", "backup"} : Damaged([disk EXCEPT ![f] = "bad"])

(***************************************************************************)
(* The blocks of a file.                                                   *)
(***************************************************************************)
PerDoubly == PerIndirect * PerIndirect
MaxBlocks == Direct + Indirect * PerIndirect + DoublyIndirect * PerDoubly

\* A block is read as numbers; beyond the volume that fails.
NumbersIn(d, b) == d.block[b].numbers

\* GetInodeNthBno: block n of the file, and the next one worth asking for.
NthInIndirect(d, b, k, n, skip) ==
  IF b = None THEN [bno |-> None, next |-> skip]
  ELSE [bno |-> NumbersIn(d, b)[k + 1], next |-> n + 1]

NthInDoubly(d, dib, i, m, n) ==
  LET base == Direct + Indirect * PerIndirect + i * PerDoubly
      j == m \div PerIndirect
  IN IF dib = None THEN [bno |-> None, next |-> base + PerDoubly]
     ELSE NthInIndirect(d, NumbersIn(d, dib)[j + 1], m % PerIndirect, n,
                        base + (j + 1) * PerIndirect)

GetInodeNthBno(d, inode, n) ==
  CASE n < Direct -> [bno |-> inode.dnum[n + 1], next |-> n + 1]
    [] Direct <= n /\ n < Direct + Indirect * PerIndirect ->
         LET m == n - Direct
             i == m \div PerIndirect
         IN NthInIndirect(d, inode.inum[i + 1], m % PerIndirect, n,
                          Direct + (i + 1) * PerIndirect)
    [] OTHER ->
         LET m == n - Direct - Indirect * PerIndirect
             i == m \div PerDoubly
         IN NthInDoubly(d, inode.dinum[i + 1], i, m % PerDoubly, n)

\* CheckFile's loop: the mapped blocks, each with its place in the file.
DataBlocks(d, inode) ==
  LET From(n, nth, rest) == IF nth.bno = None THEN rest ELSE <<[n |-> n, bno |-> nth.bno]>> \o rest
      walk[n \in 0..MaxBlocks] ==
        IF n = MaxBlocks THEN <<>>
        ELSE LET nth == GetInodeNthBno(d, inode, n) IN From(n, nth, walk[nth.next])
  IN walk[0]

Mapped(seq) == SelectSeq(seq, LAMBDA b : b # None)

\* Its first two loops: indirect blocks, doubly indirect ones and those in them.
IndirectBlocks(d, inode) ==
  LET dinum == Mapped(inode.dinum)
  IN Mapped(inode.inum) \o dinum
       \o Mapped(FlattenSeq([n \in DOMAIN dinum |-> NumbersIn(d, dinum[n])]))

\* What is read as numbers can be read.
Readable(d, inode) ==
  /\ \A b \in ToSet(Mapped(inode.inum \o inode.dinum)) : b \in Block
  /\ \A b \in ToSet(IndirectBlocks(d, inode)) : b \in Block

(***************************************************************************)
(* The checker's calls.                                                    *)
(***************************************************************************)
Same == UNCHANGED <<disk, damage>>

Returns(error) ==
  /\ status' = "error"
  /\ phase' = IF phase = "tree" THEN "done" ELSE "totals"
  /\ todo' = <<>>
  /\ UNCHANGED <<cursor, links, checkedInodes, checkedBlocks, conforming>>

\* What is reserved is in use from the start.
CheckReserved ==
  /\ phase = "start"
  /\ checkedInodes' = {0} \intersect disk.inodeMap
  /\ checkedBlocks' = {0} \intersect disk.blockMap
  /\ conforming' = (0 \in disk.inodeMap /\ 0 \in disk.blockMap)
  /\ phase' = "tree"
  /\ todo' = <<Call(Root, Root, FALSE)>>
  /\ UNCHANGED <<cursor, links, status>>
  /\ Same

\* CheckDataBlock, for all the blocks of a file: each is in use, and nobody's yet.
IgnoringOwners(blocks, seq) == ToSet(seq) \subseteq Block \intersect disk.blockMap

NobodysYet(blocks, seq) ==
  /\ ToSet(seq) \subseteq Block \intersect disk.blockMap
  /\ ToSet(seq) \intersect blocks = {}
  /\ IsInjective(seq)

\* CheckFile: its blocks, its size, its count of blocks.
ConformingFile(inode, data, all) ==
  /\ NobodysYet(checkedBlocks, all)
  /\ data # <<>> => Last(data).n + 1 <= inode.size
  /\ Len(all) = inode.blocks

AllBlocks(d, inode) ==
  IndirectBlocks(d, inode) \o [k \in DOMAIN DataBlocks(d, inode) |-> DataBlocks(d, inode)[k].bno]

\* CheckDirectory: an unlinked one has been emptied; any other can be read, and
\* names itself and its parent once.
IsEmptied(inode, parent) == inode.size = 0 /\ inode.links = 0 /\ parent = None

RecordsOf(d, inode) ==
  IF inode.size > 0 /\ inode.dnum[1] \in Block THEN d.block[inode.dnum[1]].records ELSE <<>>

InUse(records) == SelectSeq(records, LAMBDA r : r.ino # None)
Named(records, name) == SelectSeq(records, LAMBDA r : r.name = name)

ConformingDots(records, name, ino, needed) ==
  /\ Len(Named(records, name)) <= 1
  /\ needed => Len(Named(records, name)) >= 1
  /\ \A r \in ToSet(Named(records, name)) : r.ino = ino

ConformingDirectory(i, inode, parent, records) ==
  /\ inode.links = 0 => inode.dirents = 0
  /\ inode.dirents = Len(records)
  /\ ConformingDots(records, ".", i, inode.links > 0)
  /\ ConformingDots(records, "..", parent, inode.links > 0)

Calls(i, records) == [n \in DOMAIN records |-> Call(records[n].ino, i, records[n].name \in Dots)]

\* CheckInode, for the next of the calls to be made.
GetInodeFails(i) == ~(i \in Ino /\ disk.inode[i].magic \in {"file", "dir"})

SecondLink(c) == disk.inode[c.ino].magic = "dir" /\ c.ino \in checkedInodes /\ ~c.dot

Unvisitable(c, inode) ==
  \/ ~Readable(disk, inode)
  \/ /\ inode.magic = "dir" /\ ~IsEmptied(inode, c.parent) /\ RecordsOf(disk, inode) = <<>>
  \/ inode.magic = "file" /\ c.ino = Root

CheckInodeFails(c) ==
  /\ \/ GetInodeFails(c.ino)
     \/ /\ ~GetInodeFails(c.ino)
        /\ SecondLink(c) \/ (c.ino \notin checkedInodes /\ Unvisitable(c, disk.inode[c.ino]))
  /\ Returns("error")

CheckInodeAgain(c) ==
  /\ ~GetInodeFails(c.ino) /\ ~SecondLink(c)
  /\ c.ino \in checkedInodes
  /\ links' = [links EXCEPT ![c.ino] = @ + 1]
  /\ todo' = Tail(todo)
  /\ UNCHANGED <<phase, cursor, checkedInodes, checkedBlocks, conforming, status>>

Visit(c, inode, data, all, records) ==
  /\ ~Unvisitable(c, inode)
  /\ links' = [links EXCEPT ![c.ino] = @ + 1 - inode.links]
  /\ checkedInodes' = checkedInodes \union {c.ino}
  /\ checkedBlocks' = checkedBlocks \union (ToSet(all) \intersect disk.blockMap)
  /\ conforming' = /\ conforming
                   /\ c.ino \in disk.inodeMap
                   /\ ConformingFile(inode, data, all)
                   /\ inode.magic = "dir" => ConformingDirectory(c.ino, inode, c.parent, records)
  /\ todo' = (IF inode.magic = "dir" THEN Calls(c.ino, records) ELSE <<>>) \o Tail(todo)
  /\ UNCHANGED <<phase, cursor, status>>

CheckInodeFirst(c) ==
  /\ ~GetInodeFails(c.ino)
  /\ c.ino \notin checkedInodes
  /\ Readable(disk, disk.inode[c.ino])
  /\ Visit(c, disk.inode[c.ino], DataBlocks(disk, disk.inode[c.ino]),
           AllBlocks(disk, disk.inode[c.ino]), InUse(RecordsOf(disk, disk.inode[c.ino])))

CheckInode ==
  /\ phase \in {"tree", "unlinked"}
  /\ todo # <<>>
  /\ \/ CheckInodeFails(Head(todo))
     \/ CheckInodeAgain(Head(todo))
     \/ CheckInodeFirst(Head(todo))
  /\ Same

CheckInodeReturns ==
  /\ phase \in {"tree", "unlinked"}
  /\ todo = <<>>
  /\ phase' = "list"
  /\ cursor' = IF phase = "tree" THEN [last |-> None, next |-> disk.head]
               ELSE [last |-> cursor.next, next |-> disk.inode[cursor.next].next]
  /\ UNCHANGED <<todo, links, checkedInodes, checkedBlocks, conforming, status>>
  /\ Same

\* CheckUnlinkedInodes: the next inode of the list has no links and names the one
\* before it; what links it has been given so far is forgotten.
AnyNode(i) == disk.inode[i].links = 0
NextInList(i) == disk.inode[i].links = 0 /\ disk.inode[i].last = cursor.last

CheckUnlinked ==
  /\ phase = "list"
  /\ cursor.next # None
  /\ IF GetInodeFails(cursor.next) THEN Returns("error")
     ELSE IF ~NextInList(cursor.next) THEN Returns("error")
     ELSE /\ links' = [links EXCEPT ![cursor.next] = -1]
          /\ todo' = <<Call(cursor.next, None, FALSE)>>
          /\ phase' = "unlinked"
          /\ UNCHANGED <<cursor, checkedInodes, checkedBlocks, conforming, status>>
  /\ Same

CheckUnlinkedEnds ==
  /\ phase = "list"
  /\ cursor.next = None
  /\ phase' = "totals"
  /\ status' = IF disk.tail = cursor.last THEN status ELSE "error"
  /\ UNCHANGED <<todo, cursor, links, checkedInodes, checkedBlocks, conforming>>
  /\ Same

\* CheckForUnusedBlocks, CheckForUnusedInodes, CheckLinkCounts, CheckAllocatedCounts,
\* CheckSuperblockIntegrity: none but the last touches anything.
NoneUnused == disk.blockMap \subseteq checkedBlocks /\ disk.inodeMap \subseteq checkedInodes
CheckLinkCounts == \A i \in Ino : links[i] = 0

CheckAllocatedCounts ==
  /\ disk.allocBlocks = Cardinality(checkedBlocks)
  /\ disk.allocInodes = Cardinality(checkedInodes)

CheckSuperblockIntegrity == disk.journal = "valid" /\ disk.backup = "valid"

CheckTotals ==
  /\ phase = "totals"
  /\ phase' = "done"
  /\ status' = IF /\ NoneUnused /\ CheckLinkCounts /\ CheckAllocatedCounts
                  /\ CheckSuperblockIntegrity /\ conforming
               THEN status ELSE "error"
  /\ UNCHANGED <<todo, cursor, links, checkedInodes, checkedBlocks, conforming>>
  /\ Same

Done == phase = "done" /\ UNCHANGED vars

Check ==
  \/ CheckReserved \/ CheckInode \/ CheckInodeReturns
  \/ CheckUnlinked \/ CheckUnlinkedEnds \/ CheckTotals

Next ==
  \/ \E i \in Ino : DamageInode(i) \/ \E b \in Targets : DamagePointer(i, b)
  \/ \E b \in Block : \/ \E c \in Targets : DamageNumber(b, c)
                      \/ \E i \in Numbered : DamageRecord(b, i)
  \/ DamageMaps \/ DamageSuperblock
  \/ Check
  \/ Done

Spec == Init /\ [][Next]_vars /\ WF_vars(Check)

(***************************************************************************)
(* What a sound volume is, told without a walk.                            *)
(***************************************************************************)
\* The numbers an inode holds, each with the path to it: <<kind, path, block>>.
Held(d, i) ==
  UNION {{<<f, <<n>>, d.inode[i][f][n]>> : n \in DOMAIN d.inode[i][f]} : f \in {"dnum", "inum", "dinum"}}
Below(d, refs, kinds) ==
  UNION {{<<r[1], Append(r[2], n), NumbersIn(d, r[3])[n]>> : n \in 1..PerIndirect} :
           r \in {x \in refs : x[1] \in kinds /\ x[3] \in Block}}
Using(refs) == {r \in refs : r[3] # None}

WithSecond(d, own, second) == Using(own \union second \union Below(d, second, {"dinum"}))
References(d, i) == WithSecond(d, Held(d, i), Below(d, Held(d, i), {"inum", "dinum"}))

\* One more than the place in the file of a data block.
PlaceAfter(r) ==
  CASE r[1] = "dnum" -> r[2][1]
    [] r[1] = "inum" -> Direct + (r[2][1] - 1) * PerIndirect + r[2][2]
    [] OTHER -> Direct + Indirect * PerIndirect + (r[2][1] - 1) * PerDoubly
                  + (r[2][2] - 1) * PerIndirect + r[2][3]
IsData(r) == Len(r[2]) = (CASE r[1] = "dnum" -> 1 [] r[1] = "inum" -> 2 [] OTHER -> 3)

FileSound(d, i, refs) ==
  /\ \A r \in refs : r[3] \in Block /\ IsData(r) => PlaceAfter(r) <= d.inode[i].size
  /\ Cardinality(refs) = d.inode[i].blocks

\* The links of the tree: who names whom, by which record.
Contents(d, i) ==
  IF i \in Ino /\ d.inode[i].magic = "dir" THEN InUse(RecordsOf(d, d.inode[i])) ELSE <<>>
Names(d, tree, dots) ==
  UNION {{<<i, n, Contents(d, i)[n].ino>> :
            n \in {k \in DOMAIN Contents(d, i) : (Contents(d, i)[k].name \in Dots) = dots}} : i \in tree}

Tree(d) ==
  LET upTo[k \in 0..InodeCount] ==
        LET With(above) == above \union {e[3] : e \in Names(d, above, FALSE)}
        IN IF k = 0 THEN {Root} ELSE With(upTo[k - 1])
  IN upTo[InodeCount]

DirectorySound(d, i, names) ==
  /\ i = Root \/ Cardinality({e \in names : e[3] = i}) = 1
  /\ i = Root => ~\E e \in names : e[3] = Root
  /\ d.inode[i].links = 2 + Cardinality({e \in names : e[1] = i /\ d.inode[e[3]].magic = "dir"})
  /\ d.inode[i].dirents = Len(Contents(d, i))
  /\ \E p \in Ino :
       /\ IF i = Root THEN p = Root ELSE \E e \in names : e[3] = i /\ e[1] = p
       /\ \A x \in Dots : Len(Named(Contents(d, i), x)) = 1
       /\ Named(Contents(d, i), ".")[1].ino = i /\ Named(Contents(d, i), "..")[1].ino = p

TreeSound(d, tree, listed, names) ==
  /\ tree \subseteq Ino
  /\ d.inode[Root].magic = "dir"
  /\ \A i \in tree :
       CASE d.inode[i].magic = "dir" -> i \notin listed /\ DirectorySound(d, i, names)
         [] d.inode[i].magic = "file" ->
              \/ d.inode[i].links = Cardinality({e \in names : e[3] = i})
              \/ i \in listed    \* overlooked: CheckUnlinkedInodes forgets the names it has
         [] OTHER -> FALSE

\* The list of unlinked inodes, forwards and backwards.
Lists == UNION {{s \in [1..n -> Ino] : IsInjective(s)} : n \in 0..(InodeCount - 1)}
IsList(d, s) ==
  /\ d.head = (IF s = <<>> THEN None ELSE s[1])
  /\ d.tail = (IF s = <<>> THEN None ELSE Last(s))
  /\ \A k \in DOMAIN s :
       /\ d.inode[s[k]].magic \in {"file", "dir"}
       /\ d.inode[s[k]].links = 0
       /\ d.inode[s[k]].last = (IF k = 1 THEN None ELSE s[k - 1])
       /\ d.inode[s[k]].next = (IF k = Len(s) THEN None ELSE s[k + 1])
       /\ d.inode[s[k]].magic = "dir" =>
            /\ d.inode[s[k]].dirents = 0 /\ Contents(d, s[k]) = <<>>
            /\ d.inode[s[k]].size = 0 \/ RecordsOf(d, d.inode[s[k]]) # <<>>

MapsSound(d, used, blocks, held) ==
  /\ d.inodeMap = {0} \union used
  /\ d.blockMap = {0} \union blocks
  /\ Cardinality(blocks) = held
  /\ d.allocInodes = Cardinality(d.inodeMap) /\ d.allocBlocks = Cardinality(d.blockMap)

UsedSound(d, used, refs) ==
  /\ \A i \in used : FileSound(d, i, refs[i])
  /\ MapsSound(d, used, UNION {{r[3] : r \in refs[i]} : i \in used},
               Cardinality(UNION {{<<i, r>> : r \in refs[i]} : i \in used}))

SoundTree(d, tree) ==
  \E s \in Lists :
    /\ IsList(d, s)
    /\ TreeSound(d, tree, ToSet(s), Names(d, tree, FALSE))
    /\ UsedSound(d, tree \union ToSet(s), [i \in tree \union ToSet(s) |-> References(d, i)])

Sound(d) == d.journal = "valid" /\ d.backup = "valid" /\ SoundTree(d, Tree(d))

(***************************************************************************)
(* Properties.                                                             *)
(***************************************************************************)
TypeOK ==
  /\ phase \in {"start", "tree", "list", "unlinked", "totals", "done"}
  /\ \A n \in DOMAIN todo : todo[n].ino \in 0..InodeCount
  /\ checkedInodes \subseteq 0..(InodeCount - 1) /\ checkedBlocks \subseteq 0..(BlockCount - 1)
  /\ links \in [Ino -> Int]
  /\ status \in {"ok", "error"}

\* Fsck's verdict is the truth: it says the volume is sound exactly when it is.  A
\* check that is dropped, or that comes too early to see what a later call adds (the
\* owner of a block, the links of an inode), lets some damage by.
VerdictIsSound == TypeOK /\ (phase = "done" => (status = "ok" <=> Sound(disk)))

\* Fsck comes to an end on any volume, one whose directories or list of unlinked
\* inodes go in circles too: nothing but the checks themselves bounds CheckInode's
\* recursion and the loop of CheckUnlinkedInodes.
FsckEnds == <>(phase = "done")

================================================================================
