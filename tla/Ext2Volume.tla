----------------------------- MODULE Ext2Volume ------------------------------
(***************************************************************************)
(* The volumes that fs/ext2.c reads.  This is a format, not code of the    *)
(* repository: what is said here of a volume is what the code counts on.   *)
(*                                                                         *)
(* A volume is an array of cells.  A cell holds a structure of the file    *)
(* system (a superblock, a descriptor, an inode), a pointer of a table, an *)
(* entry of a directory or a piece of a file; all have one size here, so   *)
(* that sizes, offsets and counts are in cells.                            *)
(*                                                                         *)
(* A volume comes with what it is meant to hold.  `where' says which inode *)
(* each path leads to.  `truth' says of an inode what kind of file it is,  *)
(* its size, its blocks in order, 0 for a hole, and where the entries      *)
(* start in each block of a directory.                                     *)
(***************************************************************************)
EXTENDS Integers, Sequences

CONSTANTS Volumes,  \* what the default block device may be
          Direct,   \* 12: direct blocks of an inode
          KB,       \* 1024: the unit of the block size
          DB,       \* 512: the sector size
          Null      \* the null pointer

\* A cell of zeros; what a file holds has the shape of directory entries, for
\* a look-up may well read it as such.
Zero == [inode |-> 0, rec_len |-> 0, name |-> <<>>]

Root == 2

Cell(v, i) == v.cells[i + 1]

-----------------------------------------------------------------------------
(* The superblock, the group descriptors and the inodes.                   *)

Super(v)      == Cell(v, KB)
InodeSize(v)  == IF Super(v).rev_level >= 1 THEN Cell(v, KB + 1).inode_size ELSE 1
Groups(v)     == (Super(v).blocks_count + Super(v).blocks_per_group - 1) \div Super(v).blocks_per_group
GroupTable(v) == (IF Super(v).log_block_size = 0 THEN 2 ELSE 1) * v.bs

\* The descriptor of the group of an inode holds the block of its inodes.
GroupOf(v, ino)  == (ino - 1) \div Super(v).inodes_per_group
InodePos(v, ino) == Cell(v, GroupTable(v) + GroupOf(v, ino)) * v.bs
                    + ((ino - 1) % Super(v).inodes_per_group) * InodeSize(v)
InodeOf(v, ino)  == Cell(v, InodePos(v, ino))

HeaderOK(v) == /\ v.bs \in Nat \ {0} /\ v.bs = KB * 2 ^ Super(v).log_block_size
               /\ Groups(v) \in Nat \ {0} /\ GroupTable(v) + Groups(v) <= Len(v.cells)
               /\ Super(v).inodes_per_group \in Nat \ {0} /\ InodeSize(v) \in Nat \ {0}

InodeOK(v, ino) == /\ ino \in Nat \ {0} /\ GroupOf(v, ino) < Groups(v)
                   /\ Cell(v, GroupTable(v) + GroupOf(v, ino)) \in Nat
                   /\ InodePos(v, ino) + InodeSize(v) <= Len(v.cells)
                   /\ InodeOf(v, ino).mode = v.truth[ino].mode
                   /\ InodeOf(v, ino).size = v.truth[ino].size

-----------------------------------------------------------------------------
(* The blocks of a file: direct, and through one, two or three tables.  A   *)
(* table that is not there is one of holes.                                *)

Good(v, b)       == b \in Nat /\ (b + 1) * v.bs <= Len(v.cells)
Pointer(v, b, k) == IF b = 0 THEN 0 ELSE Cell(v, b * v.bs + k)

BlocksOK(v, ino) ==
    LET p       == v.bs
        blocks  == v.truth[ino].blocks
        blk     == InodeOf(v, ino).block
        Has(l)  == l < Len(blocks)
        Is(l,b) == blocks[l + 1] = b
    IN  /\ v.truth[ino].size \in Nat /\ blocks \in Seq(Nat)
        /\ v.truth[ino].size <= Len(blocks) * p
        /\ Len(blocks) <= Direct + p + p * p + p * p * p
        /\ \A i \in DOMAIN blocks : Good(v, blocks[i])
        /\ \A l \in 0 .. Direct - 1 : Has(l) => Is(l, blk[l + 1])
        /\ \A x \in 0 .. p - 1 :
              Has(Direct + x) => /\ Good(v, blk[Direct + 1])
                                 /\ Is(Direct + x, Pointer(v, blk[Direct + 1], x))
        /\ \A x, y \in 0 .. p - 1 :
              LET l  == Direct + p + (x * p + y)
                  t1 == blk[Direct + 2]
                  t2 == Pointer(v, t1, x)
              IN  Has(l) => Good(v, t1) /\ Good(v, t2) /\ Is(l, Pointer(v, t2, y))
        /\ \A x, y, z \in 0 .. p - 1 :
              LET l  == Direct + p + p * p + (x * (p * p) + (y * p + z))
                  t1 == blk[Direct + 3]
                  t2 == Pointer(v, t1, x)
                  t3 == Pointer(v, t2, y)
              IN  Has(l) => Good(v, t1) /\ Good(v, t2) /\ Good(v, t3) /\ Is(l, Pointer(v, t3, z))

\* What the i-th block of a file holds, and the file.
BlockOf(v, ino, i) ==
    LET b == v.truth[ino].blocks[i + 1]
    IN  [k \in 1 .. v.bs |-> IF b = 0 THEN Zero ELSE Cell(v, b * v.bs + (k - 1))]

FileOf(v, ino) ==
    [k \in 1 .. v.truth[ino].size |-> BlockOf(v, ino, (k - 1) \div v.bs)[((k - 1) % v.bs) + 1]]

-----------------------------------------------------------------------------
(* Directories.                                                            *)

IsDir(v, ino) == v.truth[ino].mode = "dir"

\* The entries of a block lie one after the other, up to its end or to a length
\* of 0.
EntriesOK(v, block, starts) ==
    LET m     == Len(starts)
        after == IF m = 0 THEN 0 ELSE starts[m] + block[starts[m] + 1].rec_len
    IN  /\ starts \in Seq(0 .. v.bs - 1) /\ m <= v.bs
        /\ m > 0 => starts[1] = 0
        /\ \A j \in 1 .. m : block[starts[j] + 1].rec_len \in Nat \ {0}
        /\ \A j \in 1 .. m - 1 : starts[j + 1] = starts[j] + block[starts[j] + 1].rec_len
        /\ after < v.bs => block[after + 1].rec_len = 0

\* An entry with inode 0 was deleted.
Live(v, ino) ==
    {e \in UNION {{BlockOf(v, ino, i)[v.truth[ino].starts[i + 1][j] + 1] :
                        j \in DOMAIN v.truth[ino].starts[i + 1]} :
                  i \in 0 .. Len(v.truth[ino].blocks) - 1} : e.inode # 0}

DirOK(v, path) ==
    LET ino == v.where[path]
        t   == v.truth[ino]
    IN  /\ t.size = Len(t.blocks) * v.bs
        /\ \A i \in 0 .. Len(t.blocks) - 1 : EntriesOK(v, BlockOf(v, ino, i), t.starts[i + 1])
        /\ \A e \in Live(v, ino) : /\ path \o e.name \in DOMAIN v.where
                                   /\ v.where[path \o e.name] = e.inode

\* A path without its last name.
Parent(path) == SubSeq(path, 1, Len(path) - 1)

PathsOK(v) ==
    /\ <<>> \in DOMAIN v.where /\ v.where[<<>>] = Root /\ IsDir(v, Root)
    /\ \A path \in DOMAIN v.where :
          /\ v.where[path] \in DOMAIN v.truth
          /\ IsDir(v, v.where[path]) => DirOK(v, path)
          /\ path # <<>> =>
                /\ Parent(path) \in DOMAIN v.where /\ IsDir(v, v.where[Parent(path)])
                /\ \E e \in Live(v, v.where[Parent(path)]) : e.name = <<path[Len(path)]>>

-----------------------------------------------------------------------------
IsExt2(v) == KB < Len(v.cells) /\ Super(v).magic = "ext2"

VolumeOK(v) == /\ HeaderOK(v)
               /\ \A ino \in DOMAIN v.truth : /\ InodeOK(v, ino) /\ BlocksOK(v, ino)
                                              /\ v.truth[ino].mode \in {"dir", "file"}
               /\ PathsOK(v)

ASSUME VolumesAssumption ==
    /\ \A c \in {Direct, KB, DB} : c \in Nat \ {0}
    /\ \A v \in Volumes :
          /\ Len(v.cells) \in Nat /\ Len(v.cells) % DB = 0
          /\ v.cells = [k \in 1 .. Len(v.cells) |-> v.cells[k]]
          /\ \A k \in DOMAIN v.cells : v.cells[k] # Null
          /\ IsExt2(v) => VolumeOK(v)
=============================================================================
