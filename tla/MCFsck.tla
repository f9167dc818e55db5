-------------------------------- MODULE MCFsck ---------------------------------
(***************************************************************************)
(* Four inodes, eight blocks, pointers of one block each and two numbers to *)
(* a block: a directory in a directory and a file with two names; a file    *)
(* with holes that uses every kind of block; an unlinked file and an         *)
(* unlinked directory, both still open when the volume was last written.    *)
(***************************************************************************)
EXTENDS Fsck, TLC

Dir(ino, parent, more) == Records(<<Record(".", ino), Record("..", parent)>> \o more)
Blocks(used) == [b \in Block |-> IF b \in DOMAIN used THEN used[b] ELSE Data]
Inodes(used) == [i \in Ino |-> IF i \in DOMAIN used THEN used[i] ELSE NoInode]

DirInode(b, subdirs, n) ==
  [NoInode EXCEPT !.magic = "dir", !.size = 1, !.blocks = 1, !.links = 2 + subdirs,
                  !.dirents = 2 + n, !.dnum[1] = b]
FileInode(b, n) ==
  [NoInode EXCEPT !.magic = "file", !.size = 1, !.blocks = 1, !.links = n, !.dnum[1] = b]

Volume(inodes, blocks, usedBlocks, head, tail) ==
  [Mkfs EXCEPT !.inode = SubSeq(Inodes(inodes), 1, InodeCount - 1),
               !.block = SubSeq(Blocks(blocks), 1, BlockCount - 1),
               !.inodeMap = {0} \union DOMAIN inodes, !.blockMap = {0} \union usedBlocks,
               !.allocInodes = 1 + Cardinality(DOMAIN inodes),
               !.allocBlocks = 1 + Cardinality(usedBlocks),
               !.head = head, !.tail = tail]

ATree ==
  Volume(<<DirInode(1, 1, 2), DirInode(2, 0, 1), FileInode(3, 2)>>,
         <<Dir(1, 1, <<Record("d", 2), Record("f", 3)>>), Dir(2, 1, <<Record("f", 3)>>)>>,
         1..3, None, None)

AFile ==
  Volume(<<DirInode(1, 0, 1),
           [FileInode(None, 1) EXCEPT !.size = 7, !.blocks = 5, !.inum[1] = 2, !.dinum[1] = 4]>>,
         <<Dir(1, 1, <<Record("f", 2)>>), Numbers(<<None, 3>>), Data, Numbers(<<None, 5>>),
           Numbers(<<6, None>>)>>,
         1..6, None, None)

AList ==
  Volume(<<DirInode(1, 0, 0), [FileInode(2, 0) EXCEPT !.next = 3],
           [NoInode EXCEPT !.magic = "dir", !.last = 2]>>,
         <<Dir(1, 1, <<>>)>>, 1..2, 2, 3)

MCVolumes == {ATree, AFile, AList}

================================================================================
