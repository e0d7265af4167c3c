---------------------------- MODULE Ext2Reading -----------------------------
(***************************************************************************)
(* Lemmas about what Ext2 reads off a volume, for every volume, block size *)
(* and set of sectors that fail: inodes, the blocks of a file through all  *)
(* levels of tables, pieces of files, and entries of directories.          *)
(*                                                                         *)
(* The blocks of a directory and the entries of a block follow one another *)
(* by recursive functions. A recursive function stands for some function   *)
(* that satisfies its equation, if there is one: a lemma takes the one     *)
(* that a step before has written down, and a least difference shows that  *)
(* there is no other.                                                      *)
(***************************************************************************)
EXTENDS Ext2, TLAPS, WellFoundedInduction, SequenceTheorems, FiniteSetTheorems

-----------------------------------------------------------------------------
(* Numbers, and reading the device.                                        *)

\* Quotient and remainder.
LEMMA DivLemma ==
    ASSUME NEW a \in Nat, NEW b \in Nat \ {0}
    PROVE  /\ a \div b \in Nat /\ a % b \in Nat /\ a % b < b
           /\ a = (a \div b) * b + (a % b)
  OBVIOUS

\* Multiples of a number keep the order.
LEMMA TimesLess ==
    ASSUME NEW x \in Nat, NEW y \in Nat, NEW b \in Nat \ {0}
    PROVE  /\ x < y => (x + 1) * b <= y * b
           /\ x * b < y * b => x < y
           /\ x * b \in Nat
           /\ (x + 1) * b = x * b + b
<1>1. x * b \in Nat /\ (x + 1) * b = x * b + b
  OBVIOUS
<1>2. ASSUME x < y PROVE (x + 1) * b <= y * b
  <2>1. PICK d \in Nat : y = (x + 1) + d
    <3>1. y - (x + 1) \in Nat /\ y = (x + 1) + (y - (x + 1))
      BY <1>2
    <3> QED BY <3>1
  <2>2. y * b = (x + 1) * b + d * b /\ d * b \in Nat /\ (x + 1) * b \in Nat
    BY <2>1
  <2> QED BY <2>2
<1>3. ASSUME NEW u \in Nat, NEW w \in Nat, u <= w PROVE u * b <= w * b
  <2>1. PICK d \in Nat : w = u + d
    <3>1. w - u \in Nat /\ w = u + (w - u)
      BY <1>3
    <3> QED BY <3>1
  <2>2. w * b = u * b + d * b /\ d * b \in Nat /\ u * b \in Nat
    BY <2>1
  <2> QED BY <2>2
<1>4. ASSUME x * b < y * b PROVE x < y
  <2> SUFFICES ASSUME ~ (x < y) PROVE FALSE
    OBVIOUS
  <2>1. y <= x
    OBVIOUS
  <2>2. y * b <= x * b
    BY <1>3, <2>1
  <2>3. x * b \in Nat /\ y * b \in Nat
    OBVIOUS
  <2> QED BY <1>4, <2>2, <2>3
<1> QED BY <1>1, <1>2, <1>4

\* Two numbers in mixed notation are equal if their parts are.
LEMMA DivUnique ==
    ASSUME NEW q \in Nat, NEW b \in Nat \ {0}, NEW r \in Nat, r < b
    PROVE  (q * b + r) \div b = q /\ (q * b + r) % b = r
<1> DEFINE a == q * b + r
<1>1. a \in Nat /\ q * b \in Nat
  OBVIOUS
<1>2. /\ a \div b \in Nat /\ a % b \in Nat /\ a % b < b
      /\ a = (a \div b) * b + (a % b) /\ (a \div b) * b \in Nat
  <2> HIDE DEF a
  <2>1. /\ a \div b \in Nat /\ a % b \in Nat /\ a % b < b
        /\ a = (a \div b) * b + (a % b)
    BY <1>1, DivLemma
  <2>2. (a \div b) * b \in Nat
    BY <2>1
  <2> QED BY <2>1, <2>2
<1> DEFINE x == a \div b
           m == a % b
<1>3. a = q * b + r
  OBVIOUS
<1> HIDE DEF a, x, m
<1>4. x * b + m = q * b + r /\ x \in Nat /\ m \in Nat /\ m < b /\ x * b \in Nat
  BY <1>2, <1>3 DEF x, m
<1>5. ~ (x < q)
  <2> SUFFICES ASSUME x < q PROVE FALSE
    OBVIOUS
  <2>1. (x + 1) * b <= q * b /\ (x + 1) * b = x * b + b
    BY <1>4, TimesLess
  <2> QED BY <1>1, <1>4, <2>1
<1>6. ~ (q < x)
  <2> SUFFICES ASSUME q < x PROVE FALSE
    OBVIOUS
  <2>1. (q + 1) * b <= x * b /\ (q + 1) * b = q * b + b
    BY <1>4, TimesLess
  <2> QED BY <1>1, <1>4, <2>1
<1>7. x = q
  BY <1>4, <1>5, <1>6
<1>8. m = r
  BY <1>1, <1>4, <1>7
<1> QED BY <1>3, <1>7, <1>8 DEF x, m

\* What is on the volume from off on.
Piece(v, off, n) == [k \in 1 .. n |-> Cell(v, off + (k - 1))]

\* A part of the cells is a piece of the volume.
LEMMA PieceLemma ==
    ASSUME NEW v \in Volumes, NEW off \in Nat, NEW n \in Nat, off + n <= Len(v.cells)
    PROVE  SubSeq(v.cells, off + 1, off + n) = Piece(v, off, n)
<1> DEFINE l == Len(v.cells)
           S == {v.cells[k] : k \in 1 .. l}
<1>1. l \in Nat /\ v.cells = [k \in 1 .. l |-> v.cells[k]]
  BY VolumesAssumption
<1>2. v.cells \in Seq(S)
  <2>1. v.cells \in [1 .. l -> S]
    BY <1>1
  <2> QED BY <1>1, <2>1
<1> HIDE DEF S, l
<1>3. /\ SubSeq(v.cells, off + 1, off + n) = [k \in 1 .. n |-> v.cells[(off + 1) + k - 1]]
  <2>1. off + 1 \in 1 .. l + 1 /\ off + n \in off .. l /\ (off + n) - (off + 1) + 1 = n
    BY <1>1 DEF l
  <2> QED BY <1>1, <1>2, <2>1 DEF l
<1>4. ASSUME NEW k \in 1 .. n PROVE v.cells[(off + 1) + k - 1] = Cell(v, off + (k - 1))
  <2>1. (off + 1) + k - 1 = (off + (k - 1)) + 1
    OBVIOUS
  <2> QED BY <2>1 DEF Cell
<1> QED BY <1>3, <1>4 DEF Piece

\* read() fails, or returns the piece; it fails only if sectors did or the piece
\* is not all on the device.
LEMMA ReadLemma ==
    ASSUME vol \in Volumes, NEW off \in Nat, NEW n \in Nat \ {0}, NEW bad
    PROVE  \/ read(off, n, bad) = Failed /\ (bad # {} \/ ~ (off + n <= Len(vol.cells)))
           \/ /\ off + n <= Len(vol.cells)
              /\ read(off, n, bad) = Piece(vol, off, n) /\ read(off, n, bad) # Failed
<1> DEFINE l == Len(vol.cells)
           offset == off % DB
           lba == off \div DB
           count == (offset + n + DB - 1) \div DB
<1>1. l \in Nat /\ l % DB = 0 /\ DB \in Nat \ {0} /\ nblocks = l \div DB
  BY VolumesAssumption DEF nblocks
<1>2. /\ offset \in Nat /\ offset < DB /\ lba \in Nat /\ off = lba * DB + offset /\ lba * DB \in Nat
  <2> HIDE DEF offset, lba
  <2>1. offset \in Nat /\ offset < DB /\ lba \in Nat /\ off = lba * DB + offset
    BY <1>1, DivLemma DEF offset, lba
  <2> QED BY <1>1, <2>1
<1>3. nblocks \in Nat /\ l = nblocks * DB
  <2> HIDE DEF l
  <2>1. l \div DB \in Nat /\ l = (l \div DB) * DB + (l % DB)
    BY <1>1, DivLemma
  <2> QED BY <1>1, <2>1
<1> DEFINE m == offset + n + DB - 1
           rest == m % DB
<1> HIDE DEF l, offset, lba
<1>4. m \in Nat /\ m = offset + n + DB - 1
  BY <1>1, <1>2
<1>5. /\ count \in Nat /\ rest \in Nat /\ rest < DB /\ m = count * DB + rest /\ count * DB \in Nat
  <2> HIDE DEF m
  <2>1. m \div DB \in Nat /\ rest \in Nat /\ rest < DB /\ m = (m \div DB) * DB + rest
    BY <1>1, <1>4, DivLemma
  <2>2. count = m \div DB
    BY DEF m
  <2>3. count \in Nat
    BY <2>1, <2>2
  <2> HIDE DEF count, rest
  <2>4. count * DB \in Nat
    BY <1>1, <2>3
  <2> QED BY <2>1, <2>2, <2>3, <2>4
<1> HIDE DEF count, m, rest
<1>6. count >= 1 /\ count * DB >= offset + n /\ count * DB < offset + n + DB
  <2>1. count * DB >= offset + n /\ count * DB < offset + n + DB
    BY <1>1, <1>2, <1>4, <1>5
  <2>2. count # 0
    <3> SUFFICES ASSUME count = 0 PROVE FALSE
      OBVIOUS
    <3>1. count * DB = 0
      BY <1>1
    <3> QED BY <1>2, <2>1, <3>1
  <2> QED BY <1>5, <2>1, <2>2
<1>7. /\ (lba + count) * DB = lba * DB + count * DB
      /\ (lba + count - 1) * DB = lba * DB + count * DB - DB
      /\ lba + count - 1 \in Nat
  BY <1>1, <1>2, <1>5, <1>6
<1>8. off + n <= l => \A s \in lba .. lba + count - 1 : s < nblocks
  <2> SUFFICES ASSUME off + n <= l, NEW s \in lba .. lba + count - 1 PROVE s < nblocks
    OBVIOUS
  <2>1. (lba + count - 1) * DB < nblocks * DB
    BY <1>1, <1>2, <1>3, <1>5, <1>6, <1>7
  <2>2. lba + count - 1 < nblocks
    BY <1>1, <1>3, <1>7, <2>1, TimesLess
  <2> QED BY <1>2, <1>3, <1>5, <2>2
<1>9. ~ (off + n <= l) => \E s \in lba .. lba + count - 1 : s >= nblocks
  <2> SUFFICES ASSUME ~ (off + n <= l) PROVE \E s \in lba .. lba + count - 1 : s >= nblocks
    OBVIOUS
  <2>1. nblocks * DB < (lba + count) * DB
    BY <1>1, <1>2, <1>3, <1>5, <1>6, <1>7
  <2>2. nblocks < lba + count
    <3>1. lba + count \in Nat
      BY <1>2, <1>5
    <3> QED BY <1>1, <1>3, <2>1, <3>1, TimesLess
  <2>3. lba + count - 1 \in lba .. lba + count - 1 /\ lba + count - 1 >= nblocks
    BY <1>2, <1>3, <1>5, <1>6, <2>2
  <2> QED BY <2>3
<1>10. read(off, n, bad) = IF \E s \in lba .. lba + count - 1 : s \in bad \/ s >= nblocks THEN Failed
                            ELSE SubSeq(vol.cells, lba * DB + offset + 1, lba * DB + offset + n)
  BY DEF read, lba, offset, count
<1>11. CASE \E s \in lba .. lba + count - 1 : s \in bad \/ s >= nblocks
  <2>1. read(off, n, bad) = Failed
    BY <1>10, <1>11
  <2>2. bad # {} \/ ~ (off + n <= l)
    <3> SUFFICES ASSUME off + n <= l PROVE bad # {}
      OBVIOUS
    <3>1. PICK s \in lba .. lba + count - 1 : s \in bad \/ s >= nblocks
      BY <1>11
    <3>2. s < nblocks /\ s \in Int
      BY <1>8, <3>1
    <3>3. s \in bad
      BY <1>3, <3>1, <3>2
    <3> QED BY <3>3
  <2> QED BY <2>1, <2>2 DEF l
<1>12. CASE ~ \E s \in lba .. lba + count - 1 : s \in bad \/ s >= nblocks
  <2>1. off + n <= Len(vol.cells)
    BY <1>9, <1>12 DEF l
  <2>2. read(off, n, bad) = SubSeq(vol.cells, off + 1, off + n)
    BY <1>2, <1>10, <1>12
  <2>3. read(off, n, bad) = Piece(vol, off, n)
    BY <2>1, <2>2, PieceLemma
  <2>4. Piece(vol, off, n) # Failed
    BY DEF Piece, Failed
  <2> QED BY <2>1, <2>3, <2>4
<1> QED BY <1>11, <1>12

-----------------------------------------------------------------------------
(* Mounting, and inodes.                                                   *)

\* What the volume is mounted as.
MountOf(v) == [block_size |-> v.bs, inodes_per_group |-> Super(v).inodes_per_group,
               bgdesc_table |-> Piece(v, GroupTable(v), Groups(v)), inode_size |-> InodeSize(v)]

\* ext2_init reads what the volume is mounted as, or fails.
LEMMA MountLemma ==
    ASSUME vol \in Volumes, NEW bad
    PROVE  ReadVolume(bad) = NotMounted \/ (IsExt2(vol) /\ ReadVolume(bad) = MountOf(vol))
<1> DEFINE sb == read(KB, 1, bad)
           info == read(KB + 1, 1, bad)
           bs == KB * 2 ^ sb[1].log_block_size
           descs == (sb[1].blocks_count + sb[1].blocks_per_group - 1) \div sb[1].blocks_per_group
           table == read((IF sb[1].log_block_size = 0 THEN 2 ELSE 1) * bs, descs, bad)
           m == [block_size |-> bs, inodes_per_group |-> sb[1].inodes_per_group, bgdesc_table |-> table,
                 inode_size |-> IF sb[1].rev_level >= 1 THEN info[1].inode_size ELSE 1]
<1>1. ReadVolume(bad) = IF sb = Failed THEN NotMounted
        ELSE IF sb[1].magic # "ext2" THEN NotMounted
        ELSE IF (sb[1].rev_level >= 1 /\ info = Failed) \/ table = Failed THEN NotMounted
        ELSE m
  BY DEF ReadVolume
<1>2. KB \in Nat \ {0}
  BY VolumesAssumption
<1>3. Len(vol.cells) \in Nat
  BY VolumesAssumption
<1>4. sb # Failed => KB < Len(vol.cells) /\ sb[1] = Super(vol)
  <2> SUFFICES ASSUME sb # Failed PROVE KB < Len(vol.cells) /\ sb[1] = Super(vol)
    OBVIOUS
  <2>1. KB + 1 <= Len(vol.cells) /\ sb = Piece(vol, KB, 1)
    BY <1>2, ReadLemma
  <2>2. sb[1] = Cell(vol, KB + (1 - 1))
    <3> HIDE DEF sb
    <3> QED BY <2>1 DEF Piece
  <2>3. KB + (1 - 1) = KB
    BY <1>2
  <2> QED BY <1>2, <1>3, <2>1, <2>2, <2>3 DEF Super
<1>5. info # Failed => info[1] = Cell(vol, KB + 1)
  <2> SUFFICES ASSUME info # Failed PROVE info[1] = Cell(vol, KB + 1)
    OBVIOUS
  <2>1. info = Piece(vol, KB + 1, 1)
    BY <1>2, ReadLemma
  <2>2. info[1] = Cell(vol, (KB + 1) + (1 - 1))
    <3> HIDE DEF info
    <3> QED BY <2>1 DEF Piece
  <2>3. (KB + 1) + (1 - 1) = KB + 1
    BY <1>2
  <2> QED BY <2>2, <2>3
<1> HIDE DEF sb, info
<1>6. CASE sb = Failed \/ sb[1].magic # "ext2" \/ (sb[1].rev_level >= 1 /\ info = Failed) \/ table = Failed
  <2> HIDE DEF m, table
  <2> QED BY <1>1, <1>6
<1>7. CASE ~ (sb = Failed \/ sb[1].magic # "ext2" \/ (sb[1].rev_level >= 1 /\ info = Failed) \/ table = Failed)
  <2>1. ReadVolume(bad) = m
    <3> HIDE DEF m, table
    <3> QED BY <1>1, <1>7
  <2>2. IsExt2(vol)
    BY <1>4, <1>7 DEF IsExt2
  <2>3. HeaderOK(vol)
    BY <2>2, VolumesAssumption DEF VolumeOK
  <2>4. /\ bs = vol.bs /\ descs = Groups(vol) /\ sb[1].inodes_per_group = Super(vol).inodes_per_group
        /\ (IF sb[1].log_block_size = 0 THEN 2 ELSE 1) * bs = GroupTable(vol)
    BY <1>4, <1>7, <2>3 DEF HeaderOK, Groups, GroupTable
  <2>5. (IF sb[1].rev_level >= 1 THEN info[1].inode_size ELSE 1) = InodeSize(vol)
    BY <1>4, <1>5, <1>7 DEF InodeSize
  <2>6. GroupTable(vol) \in Nat /\ Groups(vol) \in Nat \ {0}
    BY <2>3 DEF HeaderOK, GroupTable
  <2>7. table = Piece(vol, GroupTable(vol), Groups(vol))
    <3>1. table = read(GroupTable(vol), Groups(vol), bad)
      BY <2>4
    <3>2. table # Failed
      BY <1>7
    <3> HIDE DEF table
    <3> QED BY <2>6, <3>1, <3>2, ReadLemma
  <2> HIDE DEF bs, descs, table
  <2>8. m = MountOf(vol)
    BY <2>4, <2>5, <2>7 DEF MountOf
  <2> QED BY <2>1, <2>2, <2>8
<1> QED BY <1>6, <1>7

\* What ext2_init has stored.
LEMMA MountFields ==
    ASSUME vol \in Volumes, IsExt2(vol), mnt = MountOf(vol)
    PROVE  /\ mnt.block_size = vol.bs /\ mnt.inodes_per_group = Super(vol).inodes_per_group
           /\ mnt.bgdesc_table = Piece(vol, GroupTable(vol), Groups(vol))
           /\ mnt.inode_size = InodeSize(vol)
           /\ vol.bs \in Nat \ {0} /\ Mounted
           /\ pointers = vol.bs
<1>1. vol.bs \in Nat \ {0}
  BY VolumesAssumption DEF VolumeOK, HeaderOK
<1>2. /\ mnt.block_size = vol.bs /\ mnt.inodes_per_group = Super(vol).inodes_per_group
      /\ mnt.bgdesc_table = Piece(vol, GroupTable(vol), Groups(vol))
      /\ mnt.inode_size = InodeSize(vol)
  BY DEF MountOf
<1>3. mnt # NotMounted
  BY <1>1, <1>2 DEF NotMounted
<1> QED BY <1>1, <1>2, <1>3 DEF Mounted, pointers

\* An offset on the volume is not cut off.
LEMMA OffsetLemma ==
    ASSUME vol \in Volumes, IsExt2(vol), mnt = MountOf(vol), Within,
           NEW b \in Nat, b * vol.bs < Len(vol.cells)
    PROVE  block_offset(b) = b * vol.bs
<1>1. mnt.block_size = vol.bs /\ vol.bs \in Nat \ {0}
  BY MountFields
<1>2. Span \in Nat \ {0} /\ Len(vol.cells) \in Nat /\ Len(vol.cells) <= Span
  BY VolumesAssumption, CallsAssumption DEF Within
<1> DEFINE o == b * vol.bs
<1>3. o \in Nat /\ o < Span
  BY <1>1, <1>2
<1>4. block_offset(b) = o % Span
  BY <1>1 DEF block_offset
<1> HIDE DEF o
<1>5. o % Span = o
  <2>1. (0 * Span + o) % Span = o
    BY <1>2, <1>3, DivUnique
  <2>2. 0 * Span + o = o
    BY <1>2, <1>3
  <2> QED BY <2>1, <2>2
<1> QED BY <1>4, <1>5 DEF o

\* get_inode returns the inode, or Null if sectors failed.
LEMMA GetInode ==
    ASSUME vol \in Volumes, IsExt2(vol), mnt = MountOf(vol), Within,
           NEW in \in DOMAIN vol.truth, NEW bad
    PROVE  /\ get_inode(in, bad) = InodeOf(vol, in) \/ (get_inode(in, bad) = Null /\ bad # {})
           /\ InodeOf(vol, in) # Null /\ in # 0
<1> DEFINE v == vol
           ipg == Super(v).inodes_per_group
           bg == GroupOf(v, in)
           l_id == (in - 1) % ipg
           b == Cell(v, GroupTable(v) + bg)
           pos == InodePos(v, in)
           size == InodeSize(v)
<1>1. HeaderOK(v) /\ InodeOK(v, in)
  BY VolumesAssumption DEF VolumeOK
<1>2. in \in Nat \ {0} /\ bg < Groups(v) /\ b \in Nat /\ pos + size <= Len(v.cells)
  BY <1>1 DEF InodeOK
<1>3. /\ v.bs \in Nat \ {0} /\ Groups(v) \in Nat \ {0} /\ ipg \in Nat \ {0} /\ size \in Nat \ {0}
      /\ Len(v.cells) \in Nat /\ GroupTable(v) \in Nat
  <2>1. /\ v.bs \in Nat \ {0} /\ Groups(v) \in Nat \ {0} /\ ipg \in Nat \ {0} /\ size \in Nat \ {0}
    BY <1>1 DEF HeaderOK
  <2>2. Len(v.cells) \in Nat
    BY VolumesAssumption
  <2>3. GroupTable(v) \in Nat
    <3> DEFINE bs == v.bs
               g  == IF Super(v).log_block_size = 0 THEN 2 ELSE 1
    <3>1. bs \in Nat /\ g \in {1, 2}
      BY <2>1
    <3> HIDE DEF bs, g
    <3>2. g * bs \in Nat
      BY <3>1
    <3> QED BY <3>2 DEF GroupTable, g, bs
  <2> QED BY <2>1, <2>2, <2>3
<1>4. bg \in Nat /\ l_id \in Nat
  <2>1. bg = (in - 1) \div ipg
    BY DEF GroupOf
  <2>2. in - 1 \in Nat
    BY <1>2
  <2> HIDE DEF bg, ipg
  <2> QED BY <1>3, <2>1, <2>2, DivLemma
<1>5. pos = b * v.bs + l_id * size
  BY DEF InodePos
<1>6. b * v.bs \in Nat /\ l_id * size \in Nat
  <2> HIDE DEF b, l_id, size
  <2> QED BY <1>2, <1>3, <1>4
<1> DEFINE cell == read(block_offset(mnt.bgdesc_table[bg + 1]) + l_id * mnt.inode_size,
                        mnt.inode_size, bad)
<1>7. get_inode(in, bad) = IF in = 0 \/ cell = Failed THEN Null ELSE cell[1]
  BY MountFields DEF get_inode, GroupOf
<1> HIDE DEF b, l_id, size, pos, bg, ipg, v
<1>8. mnt.bgdesc_table[bg + 1] = b
  <2>1. mnt.bgdesc_table = Piece(v, GroupTable(v), Groups(v))
    BY MountFields DEF v
  <2>2. bg + 1 \in 1 .. Groups(v) /\ (bg + 1) - 1 = bg
    BY <1>2, <1>3, <1>4
  <2>3. mnt.bgdesc_table[bg + 1] = Cell(v, GroupTable(v) + ((bg + 1) - 1))
    BY <2>1, <2>2 DEF Piece
  <2> QED BY <2>2, <2>3 DEF b
<1>9. block_offset(b) = b * v.bs
  <2>1. b * v.bs < Len(v.cells)
    <3> DEFINE x == b * v.bs
               y == l_id * size
               m == Len(v.cells)
    <3>1. x \in Nat /\ y \in Nat /\ pos = x + y
      BY <1>5, <1>6
    <3>2. pos + size <= m /\ m \in Nat /\ size \in Nat \ {0}
      BY <1>2, <1>3
    <3> HIDE DEF x, y, m
    <3>3. x < m
      BY <3>1, <3>2
    <3> QED BY <3>3 DEF x, m
  <2> QED BY <1>2, <2>1, OffsetLemma DEF v
<1>10. cell = read(pos, size, bad)
  <2>1. mnt.inode_size = size
    BY MountFields DEF size, v
  <2> QED BY <1>5, <1>8, <1>9, <2>1
<1>11. pos \in Nat
  BY <1>5, <1>6
<1> HIDE DEF cell
<1>12. \/ cell = Failed /\ bad # {}
       \/ cell = Piece(v, pos, size) /\ cell # Failed
  BY <1>2, <1>3, <1>10, <1>11, ReadLemma DEF v
<1>13. Piece(v, pos, size)[1] = InodeOf(v, in)
  <2>1. Piece(v, pos, size)[1] = Cell(v, pos + (1 - 1))
    BY <1>3 DEF Piece
  <2>2. pos + (1 - 1) = pos
    BY <1>11
  <2> QED BY <2>1, <2>2 DEF InodeOf, pos
<1>14. InodeOf(v, in) # Null
  <2>1. pos + 1 \in 1 .. Len(v.cells)
    BY <1>2, <1>3, <1>11
  <2>2. v.cells[pos + 1] # Null
    BY <2>1, VolumesAssumption DEF v
  <2> QED BY <2>2 DEF InodeOf, Cell, pos
<1> QED BY <1>2, <1>7, <1>12, <1>13, <1>14 DEF v

-----------------------------------------------------------------------------
(* The blocks of a file.                                                   *)

\* A pointer is read, or counts as one of a hole if sectors failed.
GotOrHole(got, want, bad) == got = want \/ (got = 0 /\ bad # {})

\* A block of the volume is read whole, or not at all.
LEMMA ReadBlock ==
    ASSUME vol \in Volumes, IsExt2(vol), mnt = MountOf(vol), Within,
           NEW b, Good(vol, b), NEW bad
    PROVE  \/ read_block(b, bad) = Failed /\ bad # {}
           \/ read_block(b, bad) = Piece(vol, b * vol.bs, vol.bs) /\ read_block(b, bad) # Failed
<1>1. vol.bs \in Nat \ {0} /\ mnt.block_size = vol.bs
  BY MountFields
<1>2. b \in Nat /\ (b + 1) * vol.bs <= Len(vol.cells) /\ Len(vol.cells) \in Nat
  BY VolumesAssumption DEF Good
<1>3. b * vol.bs \in Nat /\ (b + 1) * vol.bs = b * vol.bs + vol.bs
  BY <1>1, <1>2, TimesLess
<1>4. block_offset(b) = b * vol.bs
  <2>1. b * vol.bs < Len(vol.cells)
    BY <1>1, <1>2, <1>3
  <2> QED BY <1>2, <2>1, OffsetLemma
<1>5. read_block(b, bad) = read(b * vol.bs, vol.bs, bad)
  BY <1>1, <1>4 DEF read_block
<1> DEFINE off == b * vol.bs
<1>6. off \in Nat /\ off + vol.bs <= Len(vol.cells)
  BY <1>2, <1>3
<1> HIDE DEF off
<1>7. \/ read(off, vol.bs, bad) = Failed /\ bad # {}
      \/ read(off, vol.bs, bad) = Piece(vol, off, vol.bs) /\ read(off, vol.bs, bad) # Failed
  BY <1>1, <1>6, ReadLemma
<1> QED BY <1>5, <1>7 DEF off

\* One pointer of a table.
LEMMA SlotLemma ==
    ASSUME vol \in Volumes, IsExt2(vol), mnt = MountOf(vol), Within,
           NEW b, Good(vol, b), NEW k \in Nat, k < vol.bs, NEW bad
    PROVE  GotOrHole(Slot(b, k, bad), Pointer(vol, b, k), bad)
<1>1. vol.bs \in Nat \ {0} /\ pointers = vol.bs
  BY MountFields
<1> DEFINE ptrs == read_block(b, bad)
<1>2. \/ ptrs = Failed /\ bad # {}
      \/ ptrs = Piece(vol, b * vol.bs, vol.bs) /\ ptrs # Failed
  BY ReadBlock
<1>3. Slot(b, k, bad) = IF b = 0 \/ ptrs = Failed \/ k >= vol.bs THEN 0 ELSE ptrs[k + 1]
  BY <1>1 DEF Slot
<1>4. Piece(vol, b * vol.bs, vol.bs)[k + 1] = Cell(vol, b * vol.bs + k)
  <2>1. k + 1 \in 1 .. vol.bs /\ (k + 1) - 1 = k
    BY <1>1
  <2>2. Piece(vol, b * vol.bs, vol.bs)[k + 1] = Cell(vol, b * vol.bs + ((k + 1) - 1))
    BY <2>1 DEF Piece
  <2> QED BY <2>1, <2>2
<1>5. ~ (k >= vol.bs)
  BY <1>1
<1> HIDE DEF ptrs
<1> QED BY <1>2, <1>3, <1>4, <1>5 DEF Pointer, GotOrHole

\* A table that is not there is one of holes.
LEMMA HoleSlot ==
    ASSUME NEW k, NEW bad
    PROVE  Slot(0, k, bad) = 0
  BY DEF Slot

\* get_block_iter through one table,
LEMMA SingleLemma ==
    ASSUME vol \in Volumes, IsExt2(vol), mnt = MountOf(vol), Within,
           NEW b, Good(vol, b), NEW x \in Nat, x < vol.bs, NEW bad
    PROVE  GotOrHole(single(x, b, bad), Pointer(vol, b, x), bad)
  BY SlotLemma DEF single

\* through two,
LEMMA DoubleLemma ==
    ASSUME vol \in Volumes, IsExt2(vol), mnt = MountOf(vol), Within,
           NEW b, Good(vol, b), NEW x \in Nat, x < vol.bs, NEW y \in Nat, y < vol.bs, NEW bad,
           Good(vol, Pointer(vol, b, x))
    PROVE  GotOrHole(double(x * vol.bs + y, b, bad), Pointer(vol, Pointer(vol, b, x), y), bad)
<1>1. vol.bs \in Nat \ {0} /\ pointers = vol.bs
  BY MountFields
<1>2. (x * vol.bs + y) \div vol.bs = x /\ (x * vol.bs + y) % vol.bs = y
  BY <1>1, DivUnique
<1>3. double(x * vol.bs + y, b, bad) = single(y, Slot(b, x, bad), bad)
  BY <1>1, <1>2 DEF double
<1>4. GotOrHole(Slot(b, x, bad), Pointer(vol, b, x), bad)
  BY SlotLemma
<1>5. CASE Slot(b, x, bad) = Pointer(vol, b, x)
  <2>1. GotOrHole(single(y, Pointer(vol, b, x), bad), Pointer(vol, Pointer(vol, b, x), y), bad)
    BY SingleLemma
  <2> QED BY <1>3, <1>5, <2>1
<1>6. CASE Slot(b, x, bad) = 0 /\ bad # {}
  <2>1. single(y, 0, bad) = 0
    BY HoleSlot DEF single
  <2> QED BY <1>3, <1>6, <2>1 DEF GotOrHole
<1> QED BY <1>4, <1>5, <1>6 DEF GotOrHole

\* and through three.
LEMMA TripleLemma ==
    ASSUME vol \in Volumes, IsExt2(vol), mnt = MountOf(vol), Within,
           NEW b, Good(vol, b), NEW x \in Nat, x < vol.bs, NEW y \in Nat, y < vol.bs,
           NEW z \in Nat, z < vol.bs, NEW bad,
           Good(vol, Pointer(vol, b, x)), Good(vol, Pointer(vol, Pointer(vol, b, x), y))
    PROVE  GotOrHole(triple(x * (vol.bs * vol.bs) + (y * vol.bs + z), b, bad),
                     Pointer(vol, Pointer(vol, Pointer(vol, b, x), y), z), bad)
<1>1. vol.bs \in Nat \ {0} /\ pointers = vol.bs
  BY MountFields
<1> DEFINE pp == vol.bs * vol.bs
           m == y * vol.bs + z
<1>2. pp \in Nat \ {0} /\ m \in Nat /\ m < pp
  <2>1. (y + 1) * vol.bs <= vol.bs * vol.bs /\ (y + 1) * vol.bs = y * vol.bs + vol.bs
        /\ y * vol.bs \in Nat /\ vol.bs * vol.bs \in Nat
    BY <1>1, TimesLess
  <2> QED BY <1>1, <2>1
<1> HIDE DEF pp, m
<1>3. (x * pp + m) \div pp = x /\ (x * pp + m) % pp = m
  BY <1>2, DivUnique
<1>4. triple(x * pp + m, b, bad) = double(m, Slot(b, x, bad), bad)
  BY <1>1, <1>3 DEF triple, pp
<1>5. GotOrHole(Slot(b, x, bad), Pointer(vol, b, x), bad)
  BY SlotLemma
<1>6. CASE Slot(b, x, bad) = Pointer(vol, b, x)
  <2>1. GotOrHole(double(m, Pointer(vol, b, x), bad),
                  Pointer(vol, Pointer(vol, Pointer(vol, b, x), y), z), bad)
    BY DoubleLemma DEF m
  <2> QED BY <1>4, <1>6, <2>1 DEF pp, m
<1>7. CASE Slot(b, x, bad) = 0 /\ bad # {}
  <2>1. double(m, 0, bad) = 0
    BY HoleSlot DEF double, single
  <2> QED BY <1>4, <1>7, <2>1 DEF GotOrHole, pp, m
<1> QED BY <1>5, <1>6, <1>7 DEF GotOrHole

\* get_block leads to the blocks of the file, whichever table they are in.
LEMMA GetBlock ==
    ASSUME vol \in Volumes, IsExt2(vol), mnt = MountOf(vol), Within,
           NEW ino \in DOMAIN vol.truth, NEW l \in Nat, l < Len(vol.truth[ino].blocks), NEW bad
    PROVE  /\ GotOrHole(get_block(InodeOf(vol, ino), l, bad), vol.truth[ino].blocks[l + 1], bad)
           /\ Good(vol, vol.truth[ino].blocks[l + 1])
<1> DEFINE p == vol.bs
           blocks == vol.truth[ino].blocks
           blk == InodeOf(vol, ino).block
           Has(i) == i < Len(blocks)
           Is(i, b) == blocks[i + 1] = b
<1>1. p \in Nat \ {0} /\ pointers = p /\ Direct \in Nat \ {0}
  BY MountFields, VolumesAssumption
<1>2. BlocksOK(vol, ino)
  BY VolumesAssumption DEF VolumeOK
<1>3. /\ blocks \in Seq(Nat) /\ Len(blocks) <= Direct + p + p * p + p * p * p
      /\ \A i \in DOMAIN blocks : Good(vol, blocks[i])
  BY <1>2 DEF BlocksOK
<1>4. \A i \in 0 .. Direct - 1 : Has(i) => Is(i, blk[i + 1])
  BY <1>2 DEF BlocksOK
<1>5. \A x \in 0 .. p - 1 :
         Has(Direct + x) => /\ Good(vol, blk[Direct + 1])
                            /\ Is(Direct + x, Pointer(vol, blk[Direct + 1], x))
  BY <1>2 DEF BlocksOK
<1>6. \A x, y \in 0 .. p - 1 :
         Has(Direct + p + (x * p + y)) =>
            /\ Good(vol, blk[Direct + 2]) /\ Good(vol, Pointer(vol, blk[Direct + 2], x))
            /\ Is(Direct + p + (x * p + y), Pointer(vol, Pointer(vol, blk[Direct + 2], x), y))
  BY <1>2 DEF BlocksOK
<1>7. \A x, y, z \in 0 .. p - 1 :
         Has(Direct + p + p * p + (x * (p * p) + (y * p + z))) =>
            /\ Good(vol, blk[Direct + 3]) /\ Good(vol, Pointer(vol, blk[Direct + 3], x))
            /\ Good(vol, Pointer(vol, Pointer(vol, blk[Direct + 3], x), y))
            /\ Is(Direct + p + p * p + (x * (p * p) + (y * p + z)),
                  Pointer(vol, Pointer(vol, Pointer(vol, blk[Direct + 3], x), y), z))
  BY <1>2 DEF BlocksOK
<1>8. Good(vol, blocks[l + 1]) /\ Has(l) /\ Len(blocks) \in Nat
  BY <1>3
<1> DEFINE j == l - Direct
           k == j - p
           pp == p * p
           n == j - p - pp
           got == get_block(InodeOf(vol, ino), l, bad)
<1>9. got =
         IF l < Direct THEN blk[l + 1]
         ELSE IF j < p THEN single(j, blk[Direct + 1], bad)
         ELSE IF j - p < p * p THEN double(j - p, blk[Direct + 2], bad)
         ELSE IF j - p - p * p < p * p * p THEN triple(j - p - p * p, blk[Direct + 3], bad)
         ELSE 0
  BY <1>1 DEF get_block
<1>10. pp \in Nat \ {0} /\ pp * p \in Nat
  BY <1>1
<1> HIDE DEF p, blocks, blk, got
<1>11. CASE l < Direct
  <2>1. got = blk[l + 1]
    BY <1>9, <1>11
  <2>2. Is(l, blk[l + 1])
    BY <1>1, <1>4, <1>8, <1>11
  <2> HIDE DEF Is
  <2>3. GotOrHole(got, blocks[l + 1], bad)
    BY <2>1, <2>2 DEF GotOrHole, Is
  <2> QED BY <1>8, <2>3 DEF got, blocks
<1>12. CASE ~ (l < Direct) /\ j < p
  <2>1. got = single(j, blk[Direct + 1], bad)
    BY <1>9, <1>12
  <2>2. j \in Nat /\ j < p /\ Direct + j = l /\ j \in 0 .. p - 1
    BY <1>1, <1>12
  <2> HIDE DEF j
  <2>3. Good(vol, blk[Direct + 1]) /\ Is(l, Pointer(vol, blk[Direct + 1], j))
    BY <1>5, <1>8, <2>2
  <2>4. GotOrHole(got, Pointer(vol, blk[Direct + 1], j), bad)
    BY <2>1, <2>2, <2>3, SingleLemma DEF p
  <2> QED BY <1>8, <2>3, <2>4 DEF got, blocks
<1>13. CASE ~ (l < Direct) /\ ~ (j < p) /\ k < pp
  <2>1. got = double(k, blk[Direct + 2], bad)
    BY <1>9, <1>13
  <2>2. k \in Nat /\ Direct + p + k = l
    BY <1>1, <1>13
  <2> DEFINE x == k \div p
             y == k % p
  <2> HIDE DEF j, k
  <2>3. x \in Nat /\ y \in Nat /\ y < p /\ k = x * p + y
    BY <1>1, <2>2, DivLemma
  <2> HIDE DEF x, y
  <2>4. x < p
    <3>1. x * p < p * p
      <4>1. x * p \in Nat
        BY <1>1, <2>3
      <4> QED BY <1>10, <1>13, <2>3, <4>1
    <3> QED BY <1>1, <2>3, <3>1, TimesLess
  <2>5. x \in 0 .. p - 1 /\ y \in 0 .. p - 1 /\ Direct + p + (x * p + y) = l
    BY <1>1, <2>2, <2>3, <2>4
  <2>6. /\ Good(vol, blk[Direct + 2]) /\ Good(vol, Pointer(vol, blk[Direct + 2], x))
        /\ Is(l, Pointer(vol, Pointer(vol, blk[Direct + 2], x), y))
    BY <1>6, <1>8, <2>5
  <2>7. GotOrHole(double(x * p + y, blk[Direct + 2], bad), Pointer(vol, Pointer(vol, blk[Direct + 2], x), y), bad)
    BY <2>3, <2>4, <2>6, DoubleLemma DEF p
  <2> QED BY <1>8, <2>1, <2>3, <2>6, <2>7 DEF got, blocks
<1>14. CASE ~ (l < Direct) /\ ~ (j < p) /\ ~ (k < pp)
  <2>1. n \in Nat /\ Direct + p + pp + n = l /\ n < pp * p
    BY <1>1, <1>3, <1>8, <1>10, <1>14
  <2>2. got = triple(n, blk[Direct + 3], bad)
    <3>1. p * p * p = pp * p
      OBVIOUS
    <3> QED BY <1>9, <1>14, <2>1, <3>1
  <2> DEFINE x == n \div pp
             m == n % pp
             y == m \div p
             z == m % p
  <2> HIDE DEF j, k, n
  <2>3. x \in Nat /\ m \in Nat /\ m < pp /\ n = x * pp + m
    <3> HIDE DEF pp
    <3> QED BY <1>10, <2>1, DivLemma
  <2> HIDE DEF x, m
  <2>4. y \in Nat /\ z \in Nat /\ z < p /\ m = y * p + z
    BY <1>1, <2>3, DivLemma
  <2> HIDE DEF y, z
  <2>5. y < p
    <3>1. y * p < p * p
      <4>1. y * p \in Nat
        BY <1>1, <2>4
      <4> QED BY <1>10, <2>3, <2>4, <4>1
    <3> QED BY <1>1, <2>4, <3>1, TimesLess
  <2>6. x < p
    <3>1. x * pp < p * pp
      <4>1. pp * p = p * pp
        BY <1>1
      <4> HIDE DEF pp
      <4>2. x * pp \in Nat
        BY <1>10, <2>3
      <4>3. p * pp \in Nat
        BY <1>10, <4>1
      <4> QED BY <2>1, <2>3, <4>1, <4>2, <4>3
    <3> HIDE DEF pp
    <3> QED BY <1>1, <1>10, <2>3, <3>1, TimesLess
  <2>7. /\ x \in 0 .. p - 1 /\ y \in 0 .. p - 1 /\ z \in 0 .. p - 1
        /\ Direct + p + p * p + (x * (p * p) + (y * p + z)) = l
    <3>1. x \in 0 .. p - 1 /\ y \in 0 .. p - 1 /\ z \in 0 .. p - 1
      BY <1>1, <2>3, <2>4, <2>5, <2>6
    <3>2. Direct + p + pp + (x * pp + (y * p + z)) = l
      BY <2>1, <2>3, <2>4
    <3> QED BY <3>1, <3>2
  <2>8. /\ Good(vol, blk[Direct + 3]) /\ Good(vol, Pointer(vol, blk[Direct + 3], x))
        /\ Good(vol, Pointer(vol, Pointer(vol, blk[Direct + 3], x), y))
        /\ Is(l, Pointer(vol, Pointer(vol, Pointer(vol, blk[Direct + 3], x), y), z))
    <3>1. Has(Direct + p + p * p + (x * (p * p) + (y * p + z)))
      BY <1>8, <2>7
    <3> HIDE DEF Has, Is
    <3> QED BY <1>7, <2>7, <3>1
  <2>9. GotOrHole(triple(x * (p * p) + (y * p + z), blk[Direct + 3], bad),
                  Pointer(vol, Pointer(vol, Pointer(vol, blk[Direct + 3], x), y), z), bad)
    BY <2>3, <2>4, <2>5, <2>6, <2>8, TripleLemma DEF p
  <2>10. n = x * (p * p) + (y * p + z)
    BY <2>3, <2>4
  <2>11. got = triple(x * (p * p) + (y * p + z), blk[Direct + 3], bad)
    BY <2>2, <2>10
  <2> QED BY <1>8, <2>8, <2>9, <2>11 DEF got, blocks
<1> QED BY <1>11, <1>12, <1>13, <1>14

-----------------------------------------------------------------------------
(* Pieces of a file.                                                       *)

Less == {x \in Nat \X Nat : x[1] < x[2]}

\* Sets of numbers have a least element.
LEMMA MinLemma ==
    ASSUME NEW T, T \subseteq Nat, T # {}
    PROVE  Min(T) \in T /\ \A y \in T : Min(T) <= y
<1>1. IsWellFoundedOn(Less, Nat)
  BY NatLessThanWellFounded DEF OpToRel, Less
<1>2. PICK x \in T : \A y \in T : ~ (<<y, x>> \in Less)
  BY <1>1, WFMin
<1>3. ASSUME NEW y \in T PROVE x <= y
  <2>1. <<y, x>> \notin Less
    BY <1>2
  <2>2. <<y, x>> \in Nat \X Nat
    OBVIOUS
  <2>3. ~ (y < x)
    BY <2>1, <2>2 DEF Less
  <2> QED BY <2>3
<1>4. \E z \in T : \A y \in T : z <= y
  BY <1>3
<1> QED BY <1>4 DEF Min

\* The smaller of two.
LEMMA MinPair ==
    ASSUME NEW a \in Int, NEW b \in Int
    PROVE  Min({a, b}) = IF a <= b THEN a ELSE b
<1>1. \E z \in {a, b} : \A y \in {a, b} : z <= y
  OBVIOUS
<1>2. Min({a, b}) \in {a, b} /\ \A y \in {a, b} : Min({a, b}) <= y
  BY <1>1 DEF Min
<1> QED BY <1>2

\* A function on 1 .. m is a sequence of that length.
LEMMA LenLemma ==
    ASSUME NEW f, NEW m \in Nat, f = [k \in 1 .. m |-> f[k]]
    PROVE  Len(f) = m /\ DOMAIN f = 1 .. m
<1>1. f \in [1 .. m -> {f[k] : k \in 1 .. m}]
  OBVIOUS
<1>2. f \in Seq({f[k] : k \in 1 .. m})
  BY <1>1
<1> QED BY <1>1, <1>2

\* What ext2_read_inode has of a block, and of a piece in terms of its blocks.
BlockRead(inode, l, bad) ==
    LET b == get_block(inode, l, bad)
    IN  IF b = 0 THEN [k \in 1 .. mnt.block_size |-> Zero] ELSE read_block(b, bad)

PieceRead(inode, off, n, bad, data) ==
    LET bs   == mnt.block_size
        want == IF n <= inode.size - off THEN n ELSE inode.size - off
    IN  /\ Len(data) \in 0 .. want /\ data = [k \in 1 .. Len(data) |-> data[k]]
        /\ \A k \in 1 .. Len(data) :
              /\ BlockRead(inode, (off + k - 1) \div bs, bad) # Failed
              /\ data[k] = BlockRead(inode, (off + k - 1) \div bs, bad)[((off + k - 1) % bs) + 1]
        /\ (\A l \in Nat : off \div bs <= l /\ l * bs < off + want => BlockRead(inode, l, bad) # Failed)
              => Len(data) = want

\* What ext2_read_inode reads it puts together from the blocks.
LEMMA ReadShape ==
    ASSUME NEW inode, inode.size \in Nat, mnt.block_size \in Nat \ {0},
           NEW off \in Nat, NEW n \in Nat, off < inode.size, NEW bad
    PROVE  PieceRead(inode, off, n, bad, ext2_read_inode(inode, off, n, bad))
<1> DEFINE bs == mnt.block_size
           size == inode.size
           want == IF n <= size - off THEN n ELSE size - off
           b_off == off \div bs
           r_off == off % bs
           m == want + r_off + bs - 1
           b_len == m \div bs
           buf == [i \in 0 .. b_len - 1 |-> BlockRead(inode, b_off + i, bad)]
           stops == {j \in 0 .. b_len : j = b_len \/ buf[j] = Failed}
           i == Min(stops)
           got == IF i = b_len THEN want ELSE IF i < 1 THEN 0 ELSE Min({i * bs - r_off, want})
           data == [k \in 1 .. got |-> buf[(r_off + k - 1) \div bs][((r_off + k - 1) % bs) + 1]]
           R(l) == BlockRead(inode, l, bad)
<1>1. bs \in Nat \ {0} /\ size \in Nat /\ want \in Nat /\ off + want <= size
  OBVIOUS
<1>2. ext2_read_inode(inode, off, n, bad) = data
  <2>1. Min({n, size - off}) = want
    <3>1. size - off \in Int
      BY <1>1
    <3> QED BY <3>1, MinPair
  <2> DEFINE L(w) == (w + r_off + bs - 1) \div bs
             B(w) == [j \in 0 .. L(w) - 1 |-> BlockRead(inode, b_off + j, bad)]
             I(w) == Min({j \in 0 .. L(w) : j = L(w) \/ B(w)[j] = Failed})
             G(w) == IF I(w) = L(w) THEN w ELSE IF I(w) < 1 THEN 0 ELSE Min({I(w) * bs - r_off, w})
             D(w) == [k \in 1 .. G(w) |-> B(w)[(r_off + k - 1) \div bs][((r_off + k - 1) % bs) + 1]]
  <2>2. ext2_read_inode(inode, off, n, bad) =
           IF off >= size THEN <<>> ELSE D(Min({n, size - off}))
    BY DEF ext2_read_inode, BlockRead
  <2>3. D(want) = data
    OBVIOUS
  <2>4. ~ (off >= size)
    OBVIOUS
  <2> HIDE DEF D, want, data, size
  <2> QED BY <2>1, <2>2, <2>3, <2>4
<1> HIDE DEF bs, size, want
<1>3. /\ b_off \in Nat /\ r_off \in Nat /\ r_off < bs /\ off = b_off * bs + r_off /\ b_off * bs \in Nat
  <2>1. b_off \in Nat /\ r_off \in Nat /\ r_off < bs /\ off = b_off * bs + r_off
    BY <1>1, DivLemma
  <2> HIDE DEF b_off, r_off
  <2> QED BY <1>1, <2>1
<1> HIDE DEF b_off, r_off
<1>4. m \in Nat
  BY <1>1, <1>3
<1> DEFINE rest == m % bs
<1>5. b_len \in Nat /\ rest \in Nat /\ rest < bs /\ m = b_len * bs + rest /\ b_len * bs \in Nat
  <2> HIDE DEF m
  <2>1. b_len \in Nat /\ rest \in Nat /\ rest < bs /\ m = b_len * bs + rest
    BY <1>1, <1>4, DivLemma
  <2> HIDE DEF b_len, rest
  <2> QED BY <1>1, <2>1
<1> HIDE DEF b_len, rest
<1>6. want + r_off <= b_len * bs /\ b_len * bs < want + r_off + bs
  BY <1>1, <1>3, <1>5
<1> HIDE DEF m, buf
<1>7. i \in stops /\ \A y \in stops : i <= y
  <2>1. stops \subseteq Nat /\ b_len \in stops
    BY <1>5
  <2> HIDE DEF stops
  <2> QED BY <2>1, MinLemma
<1>8. i \in 0 .. b_len /\ (i # b_len => buf[i] = Failed) /\ \A j \in 0 .. i - 1 : buf[j] # Failed
  <2> HIDE DEF i
  <2>1. i \in 0 .. b_len /\ (i # b_len => buf[i] = Failed)
    BY <1>7
  <2>2. ASSUME NEW j \in 0 .. i - 1 PROVE buf[j] # Failed
    <3>1. j \in 0 .. b_len /\ ~ (i <= j)
      BY <1>5, <2>1
    <3>2. j \notin stops
      <4> HIDE DEF stops
      <4> QED BY <1>7, <3>1
    <3> QED BY <3>1, <3>2
  <2> QED BY <2>1, <2>2
<1> HIDE DEF i
<1>9. /\ got \in 0 .. want /\ (i = b_len => got = want) /\ (got > 0 => got + r_off <= i * bs)
  <2>1. CASE i = b_len
    <3>1. got = want
      BY <2>1
    <3> HIDE DEF got
    <3> QED BY <1>1, <1>5, <1>6, <2>1, <3>1
  <2>2. CASE i # b_len /\ i < 1
    <3>1. got = 0
      BY <2>2
    <3> HIDE DEF got
    <3> QED BY <1>1, <2>2, <3>1
  <2>3. CASE i # b_len /\ ~ (i < 1)
    <3> DEFINE x == i * bs - r_off
    <3>1. i \in Nat /\ i >= 1
      BY <1>5, <1>8, <2>3
    <3>2. i * bs >= bs /\ i * bs \in Nat
      <4>1. i - 1 \in Nat /\ (i - 1) + 1 = i
        BY <3>1
      <4>2. ((i - 1) + 1) * bs = (i - 1) * bs + bs /\ (i - 1) * bs \in Nat
        BY <1>1, <4>1, TimesLess
      <4> QED BY <1>1, <4>1, <4>2
    <3>3. x \in Nat
      BY <1>1, <1>3, <3>2
    <3>4. got = Min({x, want})
      BY <2>3
    <3> HIDE DEF x
    <3>5. Min({x, want}) = IF x <= want THEN x ELSE want
      BY <1>1, <3>3, MinPair
    <3> HIDE DEF got
    <3>6. got \in 0 .. want /\ got <= x
      BY <1>1, <3>3, <3>4, <3>5
    <3>7. got + r_off <= i * bs
      BY <1>1, <1>3, <3>2, <3>6 DEF x
    <3> QED BY <2>3, <3>6, <3>7
  <2> QED BY <2>1, <2>2, <2>3
<1> HIDE DEF got
<1>10. got \in Nat /\ data = [k \in 1 .. got |-> data[k]]
  BY <1>1, <1>9
<1>11. Len(data) = got
  <2> HIDE DEF data
  <2> QED BY <1>10, LenLemma
<1>12. ASSUME NEW k \in 1 .. got
       PROVE  /\ R((off + k - 1) \div bs) # Failed
              /\ data[k] = R((off + k - 1) \div bs)[((off + k - 1) % bs) + 1]
  <2> DEFINE a == r_off + k - 1
             q == a \div bs
             r == a % bs
  <2>1. a \in Nat /\ k \in Nat /\ k >= 1
    BY <1>3, <1>9
  <2>2. q \in Nat /\ r \in Nat /\ r < bs /\ a = q * bs + r /\ q * bs \in Nat
    <3> HIDE DEF a
    <3>1. q \in Nat /\ r \in Nat /\ r < bs /\ a = q * bs + r
      BY <1>1, <2>1, DivLemma
    <3> HIDE DEF q, r
    <3> QED BY <1>1, <3>1
  <2> HIDE DEF q, r
  <2>3. q < i
    <3>1. i \in Nat /\ i * bs \in Nat
      BY <1>1, <1>5, <1>8
    <3>2. q * bs < i * bs
      BY <1>3, <1>9, <2>1, <2>2, <3>1
    <3> QED BY <1>1, <2>2, <3>1, <3>2, TimesLess
  <2>4. q \in 0 .. i - 1 /\ q \in 0 .. b_len - 1
    BY <1>5, <1>8, <2>2, <2>3
  <2>5. buf[q] # Failed /\ buf[q] = R(b_off + q)
    BY <1>8, <2>4 DEF buf
  <2>6. (off + k - 1) \div bs = b_off + q /\ (off + k - 1) % bs = r
    <3>1. off + k - 1 = (b_off + q) * bs + r
      <4>1. (b_off + q) * bs = b_off * bs + q * bs
        BY <1>1, <1>3, <2>2
      <4> HIDE DEF a
      <4>2. off + k - 1 = b_off * bs + a
        BY <1>3, <2>1 DEF a
      <4> HIDE DEF R
      <4>3. b_off * bs + (q * bs + r) = (b_off * bs + q * bs) + r
        BY <1>3, <2>2
      <4> QED BY <2>2, <4>1, <4>2, <4>3
    <3>2. b_off + q \in Nat
      BY <1>3, <2>2
    <3>3. ((b_off + q) * bs + r) \div bs = b_off + q /\ ((b_off + q) * bs + r) % bs = r
      BY <1>1, <2>2, <3>2, DivUnique
    <3> QED BY <3>1, <3>3
  <2>7. data[k] = buf[q][r + 1]
    BY DEF q, r
  <2> HIDE DEF data, R
  <2> QED BY <2>5, <2>6, <2>7
<1>13. ASSUME \A l \in Nat : b_off <= l /\ l * bs < off + want => R(l) # Failed
       PROVE  got = want
  <2> SUFFICES ASSUME i # b_len PROVE FALSE
    BY <1>9
  <2>1. i \in 0 .. b_len - 1 /\ i \in Nat /\ buf[i] = Failed
    BY <1>5, <1>8
  <2>2. R(b_off + i) = Failed
    BY <2>1 DEF buf
  <2>3. (b_off + i) * bs < off + want
    <3>1. (i + 1) * bs <= b_len * bs /\ (i + 1) * bs = i * bs + bs /\ i * bs \in Nat
      <4>1. i < b_len
        BY <1>5, <2>1
      <4> QED BY <1>1, <1>5, <2>1, <4>1, TimesLess
    <3>2. (b_off + i) * bs = b_off * bs + i * bs
      BY <1>1, <1>3, <2>1
    <3> QED BY <1>1, <1>3, <1>5, <1>6, <3>1, <3>2
  <2>4. b_off + i \in Nat /\ b_off <= b_off + i
    BY <1>3, <2>1
  <2> HIDE DEF R
  <2> QED BY <1>13, <2>2, <2>3, <2>4
<1>14. PieceRead(inode, off, n, bad, data)
  <2> HIDE DEF data
  <2> QED BY <1>9, <1>10, <1>11, <1>12, <1>13 DEF PieceRead, bs, size, want, b_off, R
<1> HIDE DEF data
<1> QED BY <1>2, <1>14

\* A volume that was mounted, and that offsets can address.
OnVolume == vol \in Volumes /\ IsExt2(vol) /\ mnt = MountOf(vol) /\ Within

\* A block of holes, and what may be had of a block of a file.
Holes == [k \in 1 .. vol.bs |-> Zero]

BlockHad(ino, l, bad, buf) ==
    \/ buf = BlockOf(vol, ino, l)
    \/ buf \in {Failed, Holes} /\ bad # {}

\* The sizes of a file.
LEMMA BlockFacts ==
    ASSUME OnVolume, NEW ino \in DOMAIN vol.truth
    PROVE  /\ vol.bs \in Nat \ {0} /\ mnt.block_size = vol.bs
           /\ vol.truth[ino].size \in Nat /\ Len(vol.truth[ino].blocks) \in Nat
           /\ vol.truth[ino].size <= Len(vol.truth[ino].blocks) * vol.bs
           /\ InodeOf(vol, ino).size = vol.truth[ino].size
           /\ InodeOf(vol, ino).mode = vol.truth[ino].mode
           /\ vol.truth[ino].mode \in {"dir", "file"}
           /\ ino \in Nat \ {0}
<1>1. vol.bs \in Nat \ {0} /\ mnt.block_size = vol.bs
  BY MountFields DEF OnVolume
<1>2. InodeOK(vol, ino) /\ BlocksOK(vol, ino) /\ vol.truth[ino].mode \in {"dir", "file"}
  BY VolumesAssumption DEF OnVolume, VolumeOK
<1>3. /\ vol.truth[ino].size \in Nat /\ vol.truth[ino].blocks \in Seq(Nat)
      /\ vol.truth[ino].size <= Len(vol.truth[ino].blocks) * vol.bs
  BY <1>2 DEF BlocksOK
<1>4. Len(vol.truth[ino].blocks) \in Nat
  BY <1>3
<1> QED BY <1>1, <1>2, <1>3, <1>4 DEF InodeOK

\* A block of a file is read, or sectors failed.
LEMMA BlockReadLemma ==
    ASSUME OnVolume, NEW ino \in DOMAIN vol.truth, NEW l \in Nat, l < Len(vol.truth[ino].blocks),
           NEW bad
    PROVE  /\ BlockHad(ino, l, bad, BlockRead(InodeOf(vol, ino), l, bad))
           /\ BlockOf(vol, ino, l) # Failed /\ Holes # Failed
<1> DEFINE b == vol.truth[ino].blocks[l + 1]
           got == get_block(InodeOf(vol, ino), l, bad)
           buf == BlockRead(InodeOf(vol, ino), l, bad)
<1>1. vol.bs \in Nat \ {0} /\ mnt.block_size = vol.bs
  BY BlockFacts
<1>2. GotOrHole(got, b, bad) /\ Good(vol, b)
  BY GetBlock DEF OnVolume
<1>3. buf = IF got = 0 THEN Holes ELSE read_block(got, bad)
  BY <1>1 DEF BlockRead, Holes
<1>4. BlockOf(vol, ino, l) = IF b = 0 THEN Holes ELSE Piece(vol, b * vol.bs, vol.bs)
  <2>1. CASE b = 0
    BY <2>1 DEF BlockOf, Holes
  <2>2. CASE b # 0
    BY <2>2 DEF BlockOf, Piece
  <2> QED BY <2>1, <2>2
<1>5. \/ read_block(b, bad) = Failed /\ bad # {}
      \/ read_block(b, bad) = Piece(vol, b * vol.bs, vol.bs)
  BY <1>2, ReadBlock DEF OnVolume
<1>6. BlockOf(vol, ino, l) # Failed /\ Holes # Failed
  <2>1. \A f, g : 1 \in DOMAIN f => f # Failed
    BY DEF Failed
  <2>2. 1 \in DOMAIN BlockOf(vol, ino, l) /\ 1 \in DOMAIN Holes
    BY <1>1 DEF BlockOf, Holes
  <2> QED BY <2>1, <2>2
<1> HIDE DEF b, got, buf
<1>7. BlockHad(ino, l, bad, buf)
  <2>1. CASE got = b /\ b = 0
    BY <1>3, <1>4, <2>1 DEF BlockHad
  <2>2. CASE got = b /\ b # 0
    BY <1>3, <1>4, <1>5, <2>2 DEF BlockHad
  <2>3. CASE got = 0 /\ bad # {}
    BY <1>3, <2>3 DEF BlockHad
  <2> QED BY <1>2, <2>1, <2>2, <2>3 DEF GotOrHole
<1> QED BY <1>6, <1>7 DEF buf

\* Parts of a sequence, element by element.
LEMMA SubSeqLemma ==
    ASSUME NEW f, NEW m \in Nat, f = [k \in 1 .. m |-> f[k]], NEW a \in Nat, NEW e \in Nat, e <= m
    PROVE  LET w == IF e <= a THEN 0 ELSE e - a
           IN  SubSeq(f, a + 1, e) = [k \in 1 .. w |-> f[a + k]] /\ Len(SubSeq(f, a + 1, e)) = w
<1> DEFINE w == IF e <= a THEN 0 ELSE e - a
           S == {f[k] : k \in 1 .. m}
           s == SubSeq(f, a + 1, e)
<1>1. w \in Nat
  OBVIOUS
<1>2. f \in Seq(S) /\ Len(f) = m
  <2>1. f \in [1 .. m -> S]
    OBVIOUS
  <2>2. Len(f) = m
    BY LenLemma
  <2> HIDE DEF S
  <2>3. f \in Seq(S)
    BY <2>1
  <2> QED BY <2>2, <2>3
<1> HIDE DEF S
<1>3. s = [k \in 1 .. w |-> f[a + k]]
  <2>1. CASE e <= a
    <3>1. s = <<>> /\ w = 0
      BY <1>2, <2>1
    <3>2. [k \in 1 .. 0 |-> f[a + k]] = <<>>
      OBVIOUS
    <3> QED BY <3>1, <3>2
  <2>2. CASE ~ (e <= a)
    <3>1. s = [k \in 1 .. e - (a + 1) + 1 |-> f[(a + 1) + k - 1]]
      <4>1. a + 1 \in 1 .. Len(f) + 1 /\ e \in a .. Len(f)
        BY <1>2, <2>2
      <4> QED BY <1>2, <2>2, <4>1
    <3>2. e - (a + 1) + 1 = w
      BY <2>2
    <3>3. ASSUME NEW k \in 1 .. w PROVE (a + 1) + k - 1 = a + k
      BY <1>1
    <3> HIDE DEF s, w
    <3> QED BY <3>1, <3>2, <3>3
  <2> QED BY <2>1, <2>2
<1> HIDE DEF w
<1>4. Len(s) = w
  <2>1. s = [k \in 1 .. w |-> s[k]]
    <3> HIDE DEF s
    <3> QED BY <1>3
  <2> HIDE DEF s
  <2> QED BY <1>1, <2>1, LenLemma
<1> QED BY <1>3, <1>4 DEF w

\* What ReadIsFile says of what was read.
FilePiece(ino, off, n, bad, data) ==
    LET file == FileOf(vol, ino)
        want == SubSeq(file, off + 1, Min({off + n, Len(file)}))
    IN  /\ Len(data) <= Len(want)
        /\ \A k \in DOMAIN data : data[k] \in {want[k], Zero}
        /\ bad = {} => data = want

\* A file, element by element.
LEMMA FileFacts ==
    ASSUME OnVolume, NEW ino \in DOMAIN vol.truth
    PROVE  /\ FileOf(vol, ino) = [k \in 1 .. vol.truth[ino].size |-> FileOf(vol, ino)[k]]
           /\ Len(FileOf(vol, ino)) = vol.truth[ino].size
           /\ \A k \in 1 .. vol.truth[ino].size :
                 FileOf(vol, ino)[k] = BlockOf(vol, ino, (k - 1) \div vol.bs)[((k - 1) % vol.bs) + 1]
<1> DEFINE file == FileOf(vol, ino)
           m == vol.truth[ino].size
<1>1. m \in Nat
  BY BlockFacts
<1>2. file = [k \in 1 .. m |-> file[k]]
  BY DEF FileOf
<1>3. Len(file) = m
  <2> HIDE DEF file, m
  <2> QED BY <1>1, <1>2, LenLemma
<1>4. \A k \in 1 .. m : file[k] = BlockOf(vol, ino, (k - 1) \div vol.bs)[((k - 1) % vol.bs) + 1]
  BY DEF FileOf
<1> QED BY <1>2, <1>3, <1>4

\* ext2_read_inode reads the piece of the file; if no sector fails, all of it.
LEMMA ReadFile ==
    ASSUME OnVolume, NEW ino \in DOMAIN vol.truth, NEW off \in Nat, NEW n \in Nat, NEW bad
    PROVE  FilePiece(ino, off, n, bad, ext2_read_inode(InodeOf(vol, ino), off, n, bad))
<1> DEFINE inode == InodeOf(vol, ino)
           bs == vol.bs
           size == vol.truth[ino].size
           file == FileOf(vol, ino)
           end == Min({off + n, Len(file)})
           want == SubSeq(file, off + 1, end)
           data == ext2_read_inode(inode, off, n, bad)
           R(l) == BlockRead(inode, l, bad)
<1>1. /\ bs \in Nat \ {0} /\ mnt.block_size = bs /\ size \in Nat /\ inode.size = size
      /\ Len(vol.truth[ino].blocks) \in Nat /\ size <= Len(vol.truth[ino].blocks) * bs
  BY BlockFacts
<1>2. /\ file = [k \in 1 .. size |-> file[k]] /\ Len(file) = size
      /\ \A k \in 1 .. size : file[k] = BlockOf(vol, ino, (k - 1) \div bs)[((k - 1) % bs) + 1]
  BY FileFacts
<1>3. end = IF off + n <= size THEN off + n ELSE size
  <2> HIDE DEF file, size
  <2>1. end = Min({off + n, size})
    BY <1>2
  <2>2. off + n \in Int /\ size \in Int
    BY <1>1
  <2>3. Min({off + n, size}) = IF off + n <= size THEN off + n ELSE size
    BY <2>2, MinPair
  <2> QED BY <2>1, <2>3
<1> DEFINE w == IF end <= off THEN 0 ELSE end - off
<1>4. w \in Nat /\ w = IF off >= size THEN 0 ELSE IF n <= size - off THEN n ELSE size - off
  <2> HIDE DEF end
  <2> QED BY <1>1, <1>3
<1>5. want = [k \in 1 .. w |-> file[off + k]] /\ Len(want) = w
  <2>1. end \in Nat /\ end <= size
    <3> HIDE DEF end
    <3> QED BY <1>1, <1>3
  <2> HIDE DEF file, end, size
  <2>2. size \in Nat /\ file = [k \in 1 .. size |-> file[k]]
    BY <1>1, <1>2
  <2>3. SubSeq(file, off + 1, end) = [k \in 1 .. w |-> file[off + k]]
    BY <2>1, <2>2, SubSeqLemma
  <2>4. Len(SubSeq(file, off + 1, end)) = w
    BY <2>1, <2>2, SubSeqLemma
  <2> QED BY <2>3, <2>4
<1> HIDE DEF w, want, file, size, bs
<1>6. CASE off >= size
  <2>1. data = <<>> /\ w = 0
    BY <1>1, <1>4, <1>6 DEF ext2_read_inode
  <2>2. want = <<>>
    <3>1. [k \in 1 .. 0 |-> file[off + k]] = <<>>
      OBVIOUS
    <3> QED BY <1>5, <2>1, <3>1
  <2>3. Len(<<>>) <= Len(want)
    BY <1>5, <2>1
  <2>4. \A k \in DOMAIN <<>> : <<>>[k] \in {want[k], Zero}
    OBVIOUS
  <2>5. FilePiece(ino, off, n, bad, <<>>)
    BY <2>2, <2>3, <2>4 DEF FilePiece, want, file
  <2> QED BY <2>1, <2>5
<1>7. CASE ~ (off >= size)
  <2>1. PieceRead(inode, off, n, bad, data)
    BY <1>1, <1>7, ReadShape
  <2>2. w = IF n <= inode.size - off THEN n ELSE inode.size - off
    BY <1>1, <1>4, <1>7
  <2> HIDE DEF data, inode
  <2>3. /\ Len(data) \in 0 .. w /\ data = [k \in 1 .. Len(data) |-> data[k]]
        /\ \A k \in 1 .. Len(data) : /\ R((off + k - 1) \div bs) # Failed
                                     /\ data[k] = R((off + k - 1) \div bs)[((off + k - 1) % bs) + 1]
        /\ (\A l \in Nat : off \div bs <= l /\ l * bs < off + w => R(l) # Failed) => Len(data) = w
    BY <1>1, <2>1, <2>2 DEF PieceRead
  <2>4. ASSUME NEW l \in Nat, l * bs < size
        PROVE  /\ BlockHad(ino, l, bad, R(l))
               /\ BlockOf(vol, ino, l) # Failed /\ Holes # Failed
    <3>1. l < Len(vol.truth[ino].blocks)
      <4> DEFINE m == Len(vol.truth[ino].blocks)
      <4> HIDE DEF m
      <4>1. l * bs \in Nat /\ m * bs \in Nat
        BY <1>1 DEF m
      <4>2. l * bs < m * bs
        BY <1>1, <2>4, <4>1 DEF m
      <4>3. l < m
        BY <1>1, <4>2, TimesLess DEF m
      <4> QED BY <4>3 DEF m
    <3> QED BY <3>1, BlockReadLemma DEF inode
  <2> HIDE DEF R
  <2>5. off + w <= size
    BY <1>1, <1>4, <1>7
  <2>6. ASSUME NEW k \in 1 .. Len(data) PROVE data[k] \in {want[k], Zero} /\ (bad = {} => data[k] = want[k])
    <3> DEFINE a == off + k - 1
               q == a \div bs
               r == a % bs
    <3>1. a \in Nat /\ a < size /\ k \in 1 .. w /\ off + k \in 1 .. size
      BY <1>4, <2>3, <2>5, <1>1
    <3>2. q \in Nat /\ r \in Nat /\ r < bs /\ a = q * bs + r /\ q * bs \in Nat
      <4> HIDE DEF a
      <4>1. q \in Nat /\ r \in Nat /\ r < bs /\ a = q * bs + r
        BY <1>1, <3>1, DivLemma
      <4> HIDE DEF q, r
      <4> QED BY <1>1, <4>1
    <3> HIDE DEF q, r
    <3>3. q * bs < size
      <4> HIDE DEF a
      <4> QED BY <1>1, <3>1, <3>2
    <3>4. BlockHad(ino, q, bad, R(q))
      BY <2>4, <3>2, <3>3
    <3>5. R(q) # Failed /\ data[k] = R(q)[r + 1]
      BY <2>3 DEF q, r
    <3>6. want[k] = BlockOf(vol, ino, q)[r + 1]
      <4>1. want[k] = file[off + k]
        BY <1>5, <3>1
      <4>2. file[off + k] = BlockOf(vol, ino, q)[r + 1]
        BY <1>2, <3>1 DEF q, r
      <4> QED BY <4>1, <4>2
    <3>7. Holes[r + 1] = Zero
      BY <1>1, <3>2 DEF Holes, bs
    <3> QED BY <3>4, <3>5, <3>6, <3>7 DEF BlockHad
  <2>7. ASSUME bad = {} PROVE data = want
    <3>1. ASSUME NEW l \in Nat, l * bs < off + w PROVE R(l) # Failed
      <4>1. l * bs < size
        <5>1. l * bs \in Nat
          BY <1>1
        <5> QED BY <1>1, <1>4, <2>5, <3>1, <5>1
      <4> QED BY <2>4, <2>7, <4>1 DEF BlockHad
    <3>2. Len(data) = w
      BY <2>3, <3>1
    <3>3. want = [k \in 1 .. w |-> want[k]]
      BY <1>5
    <3>4. \A k \in 1 .. w : data[k] = want[k]
      BY <2>6, <2>7, <3>2
    <3>5. data = [k \in 1 .. w |-> data[k]]
      BY <2>3, <3>2
    <3> QED BY <3>3, <3>4, <3>5
  <2>8. DOMAIN data = 1 .. Len(data)
    BY <2>3
  <2>9. FilePiece(ino, off, n, bad, data)
    <3>1. Len(data) <= Len(want)
      BY <1>4, <1>5, <2>3
    <3>2. \A k \in DOMAIN data : data[k] \in {want[k], Zero}
      BY <2>6, <2>8
    <3> QED BY <2>7, <3>1, <3>2 DEF FilePiece, want, file
  <2> QED BY <2>9 DEF data, inode
<1> QED BY <1>6, <1>7

\* A directory is read block by block.
LEMMA ReadDirBlock ==
    ASSUME OnVolume, NEW ino \in DOMAIN vol.truth, NEW i \in Nat, NEW bad,
           vol.truth[ino].size = Len(vol.truth[ino].blocks) * vol.bs,
           i <= Len(vol.truth[ino].blocks)
    PROVE  LET data == ext2_read_inode(InodeOf(vol, ino), i * vol.bs, vol.bs, bad)
           IN  IF i < Len(vol.truth[ino].blocks) THEN BlockHad(ino, i, bad, data)
               ELSE data = Failed
<1> DEFINE inode == InodeOf(vol, ino)
           bs == vol.bs
           off == i * bs
           m == Len(vol.truth[ino].blocks)
           data == ext2_read_inode(inode, off, bs, bad)
           R(l) == BlockRead(inode, l, bad)
<1>1. bs \in Nat \ {0} /\ mnt.block_size = bs /\ inode.size = m * bs /\ m \in Nat
  BY BlockFacts
<1>2. off \in Nat /\ m * bs \in Nat /\ inode.size \in Nat
  <2> HIDE DEF inode, bs, m
  <2> QED BY <1>1
<1> HIDE DEF bs, m, inode
<1>3. CASE ~ (i < m)
  <2>1. i = m
    BY <1>1, <1>3 DEF m
  <2>2. off >= inode.size
    <3>1. off = inode.size
      BY <1>1, <2>1
    <3> QED BY <1>2, <3>1
  <2>3. data = <<>>
    <3> HIDE DEF off
    <3> QED BY <2>2 DEF ext2_read_inode
  <2> HIDE DEF data
  <2>4. data = Failed
    BY <2>3 DEF Failed
  <2> QED BY <1>3, <2>4 DEF data, inode, bs, m
<1>4. CASE i < m
  <2>1. (i + 1) * bs <= m * bs /\ (i + 1) * bs = off + bs
    BY <1>1, <1>4, TimesLess
  <2>2. off < inode.size /\ off + bs <= inode.size
    <3> HIDE DEF off
    <3> QED BY <1>1, <1>2, <2>1
  <2>3. PieceRead(inode, off, bs, bad, data)
    <3> HIDE DEF off
    <3> QED BY <1>1, <1>2, <2>2, ReadShape
  <2>4. bs = IF bs <= inode.size - off THEN bs ELSE inode.size - off
    <3> HIDE DEF off
    <3> QED BY <1>1, <1>2, <2>2
  <2> HIDE DEF data
  <2>5. /\ Len(data) \in 0 .. bs /\ data = [k \in 1 .. Len(data) |-> data[k]]
        /\ \A k \in 1 .. Len(data) : /\ R((off + k - 1) \div bs) # Failed
                                     /\ data[k] = R((off + k - 1) \div bs)[((off + k - 1) % bs) + 1]
        /\ (\A l \in Nat : off \div bs <= l /\ l * bs < off + bs => R(l) # Failed) => Len(data) = bs
    <3> HIDE DEF off
    <3> QED BY <1>1, <2>3, <2>4 DEF PieceRead
  <2> HIDE DEF R
  <2>6. BlockHad(ino, i, bad, R(i)) /\ BlockOf(vol, ino, i) # Failed /\ Holes # Failed
    BY <1>4, BlockReadLemma DEF R, inode, m
  <2>7. ASSUME NEW k \in 1 .. Len(data) PROVE R(i) # Failed /\ data[k] = R(i)[k]
    <3>1. k - 1 \in Nat /\ k - 1 < bs /\ (k - 1) + 1 = k
      BY <1>1, <2>5
    <3>2. (i * bs + (k - 1)) \div bs = i /\ (i * bs + (k - 1)) % bs = k - 1
      BY <1>1, <3>1, DivUnique
    <3>3. off + k - 1 = i * bs + (k - 1)
      <4>1. \A x \in Nat : x + k - 1 = x + (k - 1)
        BY <3>1
      <4> QED BY <1>2, <4>1
    <3> QED BY <2>5, <3>1, <3>2, <3>3
  <2>8. CASE R(i) = Failed
    <3>1. Len(data) = 0
      <4>1. ~ (1 \in 1 .. Len(data))
        BY <2>7, <2>8
      <4> QED BY <2>5, <4>1
    <3>2. data = Failed
      <4>1. data = [k \in 1 .. 0 |-> data[k]]
        BY <2>5, <3>1
      <4>2. [k \in 1 .. 0 |-> data[k]] = <<>>
        OBVIOUS
      <4> QED BY <4>1, <4>2 DEF Failed
    <3>3. bad # {}
      BY <2>6, <2>8 DEF BlockHad
    <3> QED BY <1>4, <3>2, <3>3 DEF BlockHad, data, inode, bs, m
  <2>9. CASE R(i) # Failed
    <3>1. ASSUME NEW l \in Nat, off \div bs <= l, l * bs < off + bs PROVE l = i
      <4>1. off \div bs = i
        <5>1. (i * bs + 0) \div bs = i
          BY <1>1, DivUnique
        <5>2. i * bs + 0 = off
          BY <1>2
        <5> QED BY <5>1, <5>2
      <4>2. l < i + 1
        <5>1. l * bs < (i + 1) * bs
          BY <2>1, <3>1
        <5> QED BY <1>1, <5>1, TimesLess
      <4> HIDE DEF off
      <4> QED BY <3>1, <4>1, <4>2
    <3>2. Len(data) = bs
      BY <2>5, <2>9, <3>1
    <3>3. data = [k \in 1 .. bs |-> R(i)[k]]
      <4>1. data = [k \in 1 .. bs |-> data[k]] /\ \A k \in 1 .. bs : data[k] = R(i)[k]
        BY <2>5, <2>7, <3>2
      <4> QED BY <4>1
    <3>4. R(i) = [k \in 1 .. bs |-> R(i)[k]]
      <4>1. BlockOf(vol, ino, i) = [k \in 1 .. bs |-> BlockOf(vol, ino, i)[k]]
        BY DEF BlockOf, bs
      <4>2. Holes = [k \in 1 .. bs |-> Holes[k]]
        BY DEF Holes, bs
      <4> QED BY <2>6, <2>9, <4>1, <4>2 DEF BlockHad
    <3>5. data = R(i)
      BY <3>3, <3>4
    <3> QED BY <1>4, <2>6, <3>5 DEF data, inode, bs, m
  <2> QED BY <2>8, <2>9
<1> QED BY <1>3, <1>4

-----------------------------------------------------------------------------
(* The entries of a block.                                                 *)

\* The recursive functions of EntryNamed and lookup_inode_num, as equations, and
\* what is found with them.
Ends(block, p) == p >= Len(block) \/ block[p + 1].rec_len = 0

IsScan(block, f) ==
    f = [j \in 0 .. Len(block) |->
            IF j = 0 THEN 0 ELSE IF Ends(block, f[j-1]) THEN f[j-1] ELSE f[j-1] + block[f[j-1] + 1].rec_len]

EntryHits(block, f, name) ==
    {j \in 0 .. Len(block) : /\ ~ Ends(block, f[j])
                             /\ block[f[j] + 1].inode # 0 /\ block[f[j] + 1].name = name}

\* EntryNamed is what some scan of the block finds: one that satisfies the
\* equation exists.
LEMMA ScanLemma ==
    ASSUME NEW block, NEW name, NEW g, IsScan(block, g)
    PROVE  \E f : /\ IsScan(block, f)
                  /\ EntryNamed(block, name) =
                        IF EntryHits(block, f, name) = {} THEN 0
                        ELSE block[f[Min(EntryHits(block, f, name))] + 1].inode
<1> DEFINE F == CHOOSE f : IsScan(block, f)
<1>1. IsScan(block, F)
  OBVIOUS
<1>2. EntryNamed(block, name) = IF EntryHits(block, F, name) = {} THEN 0
                                ELSE block[F[Min(EntryHits(block, F, name))] + 1].inode
  BY DEF EntryNamed, IsScan, EntryHits, Ends
<1> QED BY <1>1, <1>2

\* There is only one scan (the first difference would follow from an earlier one).
LEMMA ScanUnique ==
    ASSUME NEW block, Len(block) \in Nat, NEW f, IsScan(block, f), NEW g, IsScan(block, g)
    PROVE  f = g
<1> DEFINE n == Len(block)
           T == {j \in 0 .. n : f[j] # g[j]}
<1>1. /\ f = [j \in 0 .. n |-> f[j]] /\ g = [j \in 0 .. n |-> g[j]]
      /\ \A j \in 0 .. n : f[j] = IF j = 0 THEN 0 ELSE IF Ends(block, f[j-1]) THEN f[j-1] ELSE f[j-1] + block[f[j-1] + 1].rec_len
      /\ \A j \in 0 .. n : g[j] = IF j = 0 THEN 0 ELSE IF Ends(block, g[j-1]) THEN g[j-1] ELSE g[j-1] + block[g[j-1] + 1].rec_len
  <2>1. \A h : IsScan(block, h) =>
           /\ h = [j \in 0 .. n |-> h[j]]
           /\ \A j \in 0 .. n : h[j] = IF j = 0 THEN 0 ELSE IF Ends(block, h[j-1]) THEN h[j-1] ELSE h[j-1] + block[h[j-1] + 1].rec_len
    BY DEF IsScan
  <2> QED BY <2>1
<1>2. T = {}
  <2> SUFFICES ASSUME T # {} PROVE FALSE
    OBVIOUS
  <2> DEFINE i == Min(T)
  <2>1. i \in T /\ \A m \in T : i <= m
    <3>1. T \subseteq Nat
      OBVIOUS
    <3> HIDE DEF T
    <3> QED BY <3>1, MinLemma
  <2> HIDE DEF i
  <2>2. i \in 0 .. n /\ f[i] # g[i] /\ n \in Nat
    BY <2>1
  <2>3. f[0] = 0 /\ g[0] = 0
    BY <1>1, <2>2
  <2>4. i # 0
    BY <2>2, <2>3
  <2>5. i - 1 \in 0 .. n /\ ~ (i <= i - 1)
    BY <2>2, <2>4
  <2>6. g[i-1] = f[i-1]
    BY <2>1, <2>5
  <2> QED BY <1>1, <2>2, <2>6
<1>3. \A j \in 0 .. n : f[j] = g[j]
  BY <1>2
<1> QED BY <1>1, <1>3

\* The entries of a block start at `starts'.
Starts(block, starts) ==
    LET m     == Len(starts)
        after == IF m = 0 THEN 0 ELSE starts[m] + block[starts[m] + 1].rec_len
    IN  /\ m \in Nat /\ m <= Len(block) /\ Len(block) \in Nat
        /\ \A j \in 1 .. m : starts[j] \in Nat /\ starts[j] < Len(block)
        /\ m > 0 => starts[1] = 0
        /\ \A j \in 1 .. m : block[starts[j] + 1].rec_len \in Nat \ {0}
        /\ \A j \in 1 .. m - 1 : starts[j + 1] = starts[j] + block[starts[j] + 1].rec_len
        /\ after < Len(block) => block[after + 1].rec_len = 0

\* The name is found in an entry of the block, or no entry has it.
Finds(block, starts, name, found) ==
    \/ /\ found # 0
       /\ \E j \in 1 .. Len(starts) : block[starts[j] + 1].inode = found /\ block[starts[j] + 1].name = name
    \/ /\ found = 0
       /\ \A j \in 1 .. Len(starts) : block[starts[j] + 1].inode # 0 => block[starts[j] + 1].name # name

\* EntryNamed finds the name, if an entry of the block has it.
LEMMA EntryLookup ==
    ASSUME NEW block, NEW starts, NEW name, Starts(block, starts)
    PROVE  Finds(block, starts, name, EntryNamed(block, name))
<1> DEFINE n == Len(block)
           m == Len(starts)
           after == IF m = 0 THEN 0 ELSE starts[m] + block[starts[m] + 1].rec_len
           f == [j \in 0 .. n |-> IF j < m THEN starts[j + 1] ELSE after]
           H == EntryHits(block, f, name)
<1>1. /\ m \in Nat /\ m <= n /\ n \in Nat
      /\ \A j \in 1 .. m : starts[j] \in Nat /\ starts[j] < n
      /\ m > 0 => starts[1] = 0
      /\ \A j \in 1 .. m : block[starts[j] + 1].rec_len \in Nat \ {0}
      /\ \A j \in 1 .. m - 1 : starts[j + 1] = starts[j] + block[starts[j] + 1].rec_len
      /\ after < n => block[after + 1].rec_len = 0
  BY DEF Starts
<1>2. after \in Nat
  <2>1. CASE m = 0
    BY <2>1
  <2>2. CASE m # 0
    <3>1. m \in 1 .. m
      BY <1>1, <2>2
    <3> QED BY <1>1, <2>2, <3>1
  <2> QED BY <2>1, <2>2
<1>3. Ends(block, after)
  BY <1>1, <1>2 DEF Ends
<1>4. \A j \in 1 .. m : ~ Ends(block, starts[j])
  BY <1>1 DEF Ends
<1>5. IsScan(block, f)
  <2> SUFFICES ASSUME NEW j \in 0 .. n
               PROVE  f[j] = IF j = 0 THEN 0 ELSE IF Ends(block, f[j-1]) THEN f[j-1]
                             ELSE f[j-1] + block[f[j-1] + 1].rec_len
    BY Zenon DEF IsScan
  <2>1. CASE j = 0
    <3>1. f[j] = IF 0 < m THEN starts[1] ELSE after
      BY <2>1
    <3>2. (IF 0 < m THEN starts[1] ELSE after) = 0
      BY <1>1
    <3> QED BY <2>1, <3>1, <3>2
  <2>2. CASE j # 0
    <3>1. j \in Nat /\ j - 1 \in 0 .. n /\ (j - 1) + 1 = j
      BY <1>1, <2>2
    <3>2. f[j-1] = IF j - 1 < m THEN starts[j] ELSE after
      BY <3>1
    <3>3. f[j] = IF j < m THEN starts[j + 1] ELSE after
      OBVIOUS
    <3> HIDE DEF f
    <3>4. CASE j < m
      <4>1. j - 1 < m /\ j \in 1 .. m - 1 /\ j \in 1 .. m
        BY <1>1, <3>1, <3>4, <2>2
      <4> QED BY <1>1, <1>4, <2>2, <3>2, <3>3, <3>4, <4>1
    <3>5. CASE j = m
      <4>1. j - 1 < m /\ m \in 1 .. m /\ m # 0 /\ ~ (j < m)
        BY <1>1, <3>1, <3>5, <2>2
      <4>2. f[j-1] = starts[m] /\ f[j] = after
        BY <3>2, <3>3, <3>5, <4>1
      <4>3. ~ Ends(block, starts[m]) /\ after = starts[m] + block[starts[m] + 1].rec_len
        BY <1>4, <4>1
      <4> QED BY <2>2, <4>2, <4>3
    <3>6. CASE j > m
      <4>1. ~ (j - 1 < m) /\ ~ (j < m)
        BY <1>1, <3>1, <3>6
      <4>2. f[j-1] = after /\ f[j] = after
        BY <3>2, <3>3, <4>1
      <4> HIDE DEF after
      <4> QED BY <1>3, <2>2, <4>2
    <3> QED BY <1>1, <3>1, <3>4, <3>5, <3>6
  <2> QED BY <2>1, <2>2
<1>6. EntryNamed(block, name) = IF H = {} THEN 0 ELSE block[f[Min(H)] + 1].inode
  <2> HIDE DEF f
  <2>1. PICK g : /\ IsScan(block, g)
                 /\ EntryNamed(block, name) =
                        IF EntryHits(block, g, name) = {} THEN 0
                        ELSE block[g[Min(EntryHits(block, g, name))] + 1].inode
    BY <1>5, ScanLemma
  <2>2. g = f
    BY <1>1, <1>5, <2>1, ScanUnique
  <2> QED BY <2>1, <2>2
<1>7. \A j \in 0 .. n : j \in H <=> /\ j < m /\ block[starts[j + 1] + 1].inode # 0
                                    /\ block[starts[j + 1] + 1].name = name
  <2> TAKE j \in 0 .. n
  <2>1. CASE j < m
    <3>1. f[j] = starts[j + 1] /\ j + 1 \in 1 .. m
      BY <1>1, <2>1
    <3>2. ~ Ends(block, f[j])
      BY <1>4, <3>1
    <3> HIDE DEF f
    <3> QED BY <2>1, <3>1, <3>2 DEF EntryHits
  <2>2. CASE ~ (j < m)
    <3>1. f[j] = after
      BY <2>2
    <3> HIDE DEF f, after
    <3> QED BY <1>3, <2>2, <3>1 DEF EntryHits
  <2> QED BY <2>1, <2>2
<1>8. H \subseteq 0 .. n
  BY DEF EntryHits
<1>9. CASE H = {}
  <2>1. ASSUME NEW j \in 1 .. m, block[starts[j] + 1].inode # 0 PROVE block[starts[j] + 1].name # name
    <3>1. j - 1 \in 0 .. n /\ j - 1 < m /\ (j - 1) + 1 = j
      BY <1>1
    <3> HIDE DEF H
    <3> QED BY <1>7, <1>9, <2>1, <3>1
  <2>2. EntryNamed(block, name) = 0
    BY <1>6, <1>9
  <2> QED BY <2>1, <2>2 DEF Finds
<1>10. CASE H # {}
  <2> DEFINE i == Min(H)
  <2>1. i \in H
    <3>1. H \subseteq Nat
      BY <1>1, <1>8
    <3> HIDE DEF H
    <3> QED BY <1>10, <3>1, MinLemma
  <2>2. EntryNamed(block, name) = block[f[i] + 1].inode
    BY <1>6, <1>10
  <2> HIDE DEF H, i
  <2>3. i \in 0 .. n /\ i < m /\ block[starts[i + 1] + 1].inode # 0 /\ block[starts[i + 1] + 1].name = name
    BY <1>7, <1>8, <2>1
  <2>4. f[i] = starts[i + 1] /\ i + 1 \in 1 .. m
    BY <1>1, <2>3
  <2> HIDE DEF f
  <2> QED BY <2>2, <2>3, <2>4 DEF Finds
<1> QED BY <1>9, <1>10

-----------------------------------------------------------------------------
(* Directories.                                                            *)

\* The entry is one of the directory.
InDir(ino, name, found) == \E e \in Live(vol, ino) : e.name = name /\ e.inode = found

\* What lookup_inode_num reads at an offset.
DirRead(ino, off, bad) == ext2_read_inode(InodeOf(vol, ino), off, vol.bs, bad)

\* What a look-up in the i-th block says.
BlockSays(ino, i, name, bad) ==
    LET data  == DirRead(ino, i * vol.bs, bad)
        found == EntryNamed(data, name)
        t     == vol.truth[ino]
    IN  /\ Len(data) \in {0, vol.bs} /\ (i = Len(t.blocks) => Len(data) = 0)
        /\ found # 0 => InDir(ino, name, found)
        /\ (i < Len(t.blocks) /\ bad = {}) =>
              /\ Len(data) = vol.bs
              /\ found = 0 => \A j \in DOMAIN t.starts[i + 1] :
                                 LET e == BlockOf(vol, ino, i)[t.starts[i + 1][j] + 1]
                                 IN  e.inode # 0 => e.name # name

\* Nothing is found in what could not be read, nor in a hole.
LEMMA NoEntries ==
    ASSUME OnVolume, NEW name
    PROVE  /\ EntryNamed(Failed, name) = 0 /\ Len(Failed) = 0
           /\ EntryNamed(Holes, name) = 0 /\ Len(Holes) = vol.bs
<1>1. vol.bs \in Nat \ {0}
  BY MountFields DEF OnVolume
<1>2. Len(Failed) = 0 /\ Len(<<>>) = 0
  BY DEF Failed
<1>3. Len(Holes) = vol.bs
  <2>1. Holes = [k \in 1 .. vol.bs |-> Holes[k]]
    BY DEF Holes
  <2> HIDE DEF Holes
  <2> QED BY <1>1, <2>1, LenLemma
<1>4. Starts(Failed, <<>>)
  BY <1>2 DEF Starts
<1>5. Starts(Holes, <<>>)
  <2>1. Holes[0 + 1].rec_len = 0
    BY <1>1 DEF Holes, Zero
  <2> HIDE DEF Holes
  <2> QED BY <1>1, <1>2, <1>3, <2>1 DEF Starts
<1>6. \A found : \A b : Finds(b, <<>>, name, found) => found = 0
  BY <1>2 DEF Finds
<1> QED BY <1>2, <1>3, <1>4, <1>5, <1>6, EntryLookup

\* The look-up in one block of a directory.
LEMMA BlockLookup ==
    ASSUME OnVolume, NEW path \in DOMAIN vol.where, IsDir(vol, vol.where[path]),
           NEW i \in Nat, i <= Len(vol.truth[vol.where[path]].blocks), NEW name, NEW bad
    PROVE  BlockSays(vol.where[path], i, name, bad)
<1> DEFINE ino == vol.where[path]
           bs == vol.bs
           t == vol.truth[ino]
           data == DirRead(ino, i * bs, bad)
           found == EntryNamed(data, name)
           block == BlockOf(vol, ino, i)
           starts == t.starts[i + 1]
<1>1. PathsOK(vol)
  BY VolumesAssumption DEF OnVolume, VolumeOK
<1>2. ino \in DOMAIN vol.truth /\ DirOK(vol, path)
  BY <1>1 DEF PathsOK
<1>3. t.size = Len(t.blocks) * bs
  BY <1>2 DEF DirOK
<1>4. bs \in Nat \ {0} /\ Len(t.blocks) \in Nat
  BY <1>2, BlockFacts
<1>5. IF i < Len(t.blocks) THEN BlockHad(ino, i, bad, data) ELSE data = Failed
  BY <1>2, <1>3, ReadDirBlock DEF DirRead
<1>6. /\ EntryNamed(Failed, name) = 0 /\ Len(Failed) = 0
      /\ EntryNamed(Holes, name) = 0 /\ Len(Holes) = bs
  BY NoEntries
<1>7. i < Len(t.blocks) => i \in 0 .. Len(t.blocks) - 1
  BY <1>4
<1> HIDE DEF data
<1>8. CASE i < Len(t.blocks) /\ data = block
  <2>1. EntriesOK(vol, block, starts)
    BY <1>2, <1>7, <1>8 DEF DirOK
  <2>2. Len(block) = bs
    <3>1. block = [k \in 1 .. bs |-> block[k]]
      BY DEF BlockOf
    <3> HIDE DEF block, bs
    <3> QED BY <1>4, <3>1, LenLemma
  <2> DEFINE m == Len(starts)
  <2>3. starts \in Seq(0 .. bs - 1)
    BY <2>1 DEF EntriesOK
  <2>4. m \in Nat /\ DOMAIN starts = 1 .. m /\ \A j \in 1 .. m : starts[j] \in Nat /\ starts[j] < bs
    <3> HIDE DEF starts, bs
    <3>1. m \in Nat /\ DOMAIN starts = 1 .. m
      BY <2>3, LenProperties
    <3>2. \A j \in 1 .. m : starts[j] \in 0 .. bs - 1
      BY <2>3, ElementOfSeq
    <3> QED BY <1>4, <3>1, <3>2 DEF bs
  <2>5. Starts(block, starts)
    <3> HIDE DEF block, starts
    <3> QED BY <1>4, <2>1, <2>2, <2>4 DEF EntriesOK, Starts
  <2>6. Finds(block, starts, name, found)
    BY <1>8, <2>5, EntryLookup
  <2>7. ASSUME NEW j \in 1 .. m, block[starts[j] + 1].inode # 0
        PROVE  block[starts[j] + 1] \in Live(vol, ino)
    <3> DEFINE S(l) == {BlockOf(vol, ino, l)[t.starts[l + 1][k] + 1] : k \in DOMAIN t.starts[l + 1]}
               U == UNION {S(l) : l \in 0 .. Len(t.blocks) - 1}
               e == block[starts[j] + 1]
    <3>1. j \in DOMAIN starts
      BY <2>4
    <3>2. e \in S(i)
      BY <3>1
    <3>3. e \in U
      <4> HIDE DEF S, e
      <4> QED BY <1>7, <1>8, <3>2
    <3>4. Live(vol, ino) = {x \in U : x.inode # 0}
      BY DEF Live
    <3> HIDE DEF U
    <3> QED BY <2>7, <3>3, <3>4
  <2> HIDE DEF block, starts, found
  <2>8. found # 0 => InDir(ino, name, found)
    BY <2>6, <2>7 DEF Finds, InDir
  <2>9. found = 0 => \A j \in DOMAIN starts : block[starts[j] + 1].inode # 0 => block[starts[j] + 1].name # name
    BY <2>4, <2>6 DEF Finds
  <2>10. Len(data) \in {0, bs} /\ Len(data) = bs /\ i # Len(t.blocks)
    BY <1>4, <1>8, <2>2
  <2> QED BY <2>8, <2>9, <2>10 DEF BlockSays, data, found, block, starts
<1>9. CASE data = Failed /\ (i < Len(t.blocks) => bad # {})
  <2>1. found = 0 /\ Len(data) = 0
    BY <1>6, <1>9
  <2> QED BY <1>9, <2>1 DEF BlockSays, data
<1>10. CASE data = Holes /\ i < Len(t.blocks) /\ bad # {}
  <2>1. found = 0 /\ Len(data) = bs
    BY <1>6, <1>10
  <2>2. i # Len(t.blocks)
    BY <1>4, <1>10
  <2> QED BY <1>10, <2>1, <2>2 DEF BlockSays, data
<1> QED BY <1>5, <1>8, <1>9, <1>10 DEF BlockHad

IsOffsets(ino, bad, last, f) ==
    f = [j \in 0 .. last |-> IF j = 0 THEN 0 ELSE f[j-1] + Len(DirRead(ino, f[j-1], bad))]

DirHits(ino, bad, last, f, name) == {j \in 0 .. last : EntryNamed(DirRead(ino, f[j], bad), name) # 0}

\* lookup_inode_num is what some sequence of offsets finds.
LEMMA OffsetsLemma ==
    ASSUME OnVolume, NEW ino \in DOMAIN vol.truth, NEW name, NEW bad, NEW last, NEW g,
           last = vol.truth[ino].size \div vol.bs + 1, IsOffsets(ino, bad, last, g)
    PROVE  \E f : /\ IsOffsets(ino, bad, last, f)
                  /\ lookup_inode_num(InodeOf(vol, ino), name, bad) =
                        IF DirHits(ino, bad, last, f, name) = {} THEN 0
                        ELSE EntryNamed(DirRead(ino, f[Min(DirHits(ino, bad, last, f, name))], bad), name)
<1> DEFINE F == CHOOSE f : IsOffsets(ino, bad, last, f)
           H == DirHits(ino, bad, last, F, name)
           inode == InodeOf(vol, ino)
<1>1. IsOffsets(ino, bad, last, F)
  OBVIOUS
<1>2. inode # Null /\ mnt.block_size = vol.bs /\ inode.size = vol.truth[ino].size
  BY GetInode, BlockFacts DEF OnVolume
<1>3. lookup_inode_num(inode, name, bad) =
         LET block(off) == ext2_read_inode(inode, off, vol.bs, bad)
             offset     == CHOOSE f : f = [j \in 0 .. last |-> IF j = 0 THEN 0 ELSE f[j-1] + Len(block(f[j-1]))]
             hits       == {j \in 0 .. last : EntryNamed(block(offset[j]), name) # 0}
         IN  IF inode = Null \/ hits = {} THEN 0 ELSE EntryNamed(block(offset[Min(hits)]), name)
  BY <1>2 DEF lookup_inode_num
<1>4. lookup_inode_num(inode, name, bad) =
         IF inode = Null \/ H = {} THEN 0 ELSE EntryNamed(DirRead(ino, F[Min(H)], bad), name)
  BY <1>3 DEF IsOffsets, DirHits, DirRead
<1> HIDE DEF F, inode
<1> QED BY <1>1, <1>2, <1>4 DEF inode

\* There is only one such sequence.
LEMMA OffsetsUnique ==
    ASSUME NEW ino, NEW bad, NEW last \in Nat, NEW f, IsOffsets(ino, bad, last, f),
           NEW g, IsOffsets(ino, bad, last, g)
    PROVE  f = g
<1> DEFINE T == {j \in 0 .. last : f[j] # g[j]}
<1>1. /\ f = [j \in 0 .. last |-> f[j]] /\ g = [j \in 0 .. last |-> g[j]]
      /\ \A j \in 0 .. last : f[j] = IF j = 0 THEN 0 ELSE f[j-1] + Len(DirRead(ino, f[j-1], bad))
      /\ \A j \in 0 .. last : g[j] = IF j = 0 THEN 0 ELSE g[j-1] + Len(DirRead(ino, g[j-1], bad))
  <2>1. \A h : IsOffsets(ino, bad, last, h) =>
           /\ h = [j \in 0 .. last |-> h[j]]
           /\ \A j \in 0 .. last : h[j] = IF j = 0 THEN 0 ELSE h[j-1] + Len(DirRead(ino, h[j-1], bad))
    BY DEF IsOffsets
  <2> QED BY <2>1
<1>2. T = {}
  <2> SUFFICES ASSUME T # {} PROVE FALSE
    OBVIOUS
  <2> DEFINE i == Min(T)
  <2>1. i \in T /\ \A m \in T : i <= m
    <3>1. T \subseteq Nat
      OBVIOUS
    <3> HIDE DEF T
    <3> QED BY <3>1, MinLemma
  <2> HIDE DEF i
  <2>2. i \in 0 .. last /\ f[i] # g[i]
    BY <2>1
  <2>3. i # 0
    BY <1>1, <2>2
  <2>4. i - 1 \in 0 .. last /\ ~ (i <= i - 1)
    BY <2>2, <2>3
  <2>5. g[i-1] = f[i-1]
    BY <2>1, <2>4
  <2> QED BY <1>1, <2>2, <2>5
<1>3. \A j \in 0 .. last : f[j] = g[j]
  BY <1>2
<1> QED BY <1>1, <1>3

\* lookup_inode_num finds an entry of the directory that has the name; it misses
\* one only if sectors fail.
LEMMA DirLookup ==
    ASSUME OnVolume, NEW path \in DOMAIN vol.where, IsDir(vol, vol.where[path]), NEW name, NEW bad
    PROVE  LET ino   == vol.where[path]
               found == lookup_inode_num(InodeOf(vol, ino), name, bad)
           IN  /\ found # 0 => InDir(ino, name, found)
               /\ found = 0 => bad # {} \/ \A e \in Live(vol, ino) : e.name # name
<1> DEFINE ino == vol.where[path]
           bs == vol.bs
           t == vol.truth[ino]
           m == Len(t.blocks)
           last == t.size \div bs + 1
           D(j) == DirRead(ino, j * bs, bad)
           S == {j \in 0 .. m : Len(D(j)) = 0}
           s == Min(S)
           at(j) == IF j <= s THEN j ELSE s
           f == [j \in 0 .. last |-> at(j) * bs]
           found == lookup_inode_num(InodeOf(vol, ino), name, bad)
           H == DirHits(ino, bad, last, f, name)
<1>1. PathsOK(vol)
  BY VolumesAssumption DEF OnVolume, VolumeOK
<1>2. ino \in DOMAIN vol.truth /\ DirOK(vol, path)
  BY <1>1 DEF PathsOK
<1>3. t.size = m * bs
  BY <1>2 DEF DirOK
<1>4. bs \in Nat \ {0} /\ m \in Nat
  BY <1>2, BlockFacts
<1>5. last = m + 1
  <2>1. (m * bs + 0) \div bs = m
    <3> HIDE DEF m, bs
    <3> QED BY <1>4, DivUnique
  <2>2. m * bs + 0 = m * bs
    <3> HIDE DEF m, bs
    <3> QED BY <1>4
  <2> QED BY <1>3, <2>1, <2>2
<1>6. \A j \in 0 .. m : BlockSays(ino, j, name, bad)
  <2> TAKE j \in 0 .. m
  <2>1. j \in Nat /\ j <= m
    BY <1>4
  <2> QED BY <2>1, BlockLookup
<1>7. /\ \A j \in 0 .. m : Len(D(j)) \in {0, bs}
      /\ Len(D(m)) = 0
      /\ \A j \in 0 .. m : EntryNamed(D(j), name) # 0 => InDir(ino, name, EntryNamed(D(j), name))
  <2>1. m \in 0 .. m
    BY <1>4
  <2> QED BY <1>6, <2>1 DEF BlockSays
<1>8. bad = {} => \A j \in 0 .. m - 1 :
         /\ Len(D(j)) = bs
         /\ EntryNamed(D(j), name) = 0 =>
               \A k \in DOMAIN t.starts[j + 1] :
                  LET e == BlockOf(vol, ino, j)[t.starts[j + 1][k] + 1] IN e.inode # 0 => e.name # name
  <2> SUFFICES ASSUME bad = {}, NEW j \in 0 .. m - 1
               PROVE /\ Len(D(j)) = bs
                     /\ EntryNamed(D(j), name) = 0 =>
                        \A k \in DOMAIN t.starts[j + 1] :
                           LET e == BlockOf(vol, ino, j)[t.starts[j + 1][k] + 1] IN e.inode # 0 => e.name # name
    OBVIOUS
  <2>1. j \in 0 .. m /\ j < m
    BY <1>4
  <2>2. BlockSays(ino, j, name, bad)
    BY <1>6, <2>1
  <2> QED BY <2>1, <2>2 DEF BlockSays
<1> HIDE DEF m, D
<1>9. s \in S /\ \A y \in S : s <= y
  <2>1. S \subseteq Nat /\ m \in S
    BY <1>4, <1>7
  <2> HIDE DEF S
  <2> QED BY <2>1, MinLemma
<1>10. s \in 0 .. m /\ Len(D(s)) = 0 /\ \A j \in 0 .. s - 1 : Len(D(j)) = bs
  <2> HIDE DEF s
  <2>1. s \in 0 .. m /\ Len(D(s)) = 0
    BY <1>9
  <2>2. ASSUME NEW j \in 0 .. s - 1 PROVE Len(D(j)) = bs
    <3>1. j \in 0 .. m /\ ~ (s <= j)
      BY <1>4, <2>1
    <3>2. j \notin S
      <4> HIDE DEF S
      <4> QED BY <1>9, <3>1
    <3>3. Len(D(j)) # 0
      BY <3>1, <3>2
    <3> QED BY <1>7, <3>1, <3>3
  <2> QED BY <2>1, <2>2
<1> HIDE DEF s
<1>11. \A j \in 0 .. last : at(j) \in 0 .. m /\ f[j] = at(j) * bs /\ DirRead(ino, f[j], bad) = D(at(j))
  BY <1>4, <1>10 DEF D
<1> HIDE DEF last, bs
<1>12. IsOffsets(ino, bad, last, f)
  <2> SUFFICES ASSUME NEW j \in 0 .. last
               PROVE  f[j] = IF j = 0 THEN 0 ELSE f[j-1] + Len(DirRead(ino, f[j-1], bad))
    BY Zenon DEF IsOffsets
  <2>1. CASE j = 0
    <3>1. at(0) = 0
      BY <1>10
    <3>2. f[j] = 0 * bs
      BY <1>11, <2>1, <3>1
    <3> QED BY <1>4, <2>1, <3>2 DEF bs
  <2>2. CASE j # 0
    <3>1. j - 1 \in 0 .. last /\ j \in Nat /\ j - 1 \in Nat
      BY <1>4, <1>5, <2>2
    <3>2. DirRead(ino, f[j-1], bad) = D(at(j-1)) /\ f[j-1] = at(j-1) * bs /\ f[j] = at(j) * bs
      BY <1>11, <3>1
    <3> HIDE DEF f
    <3>3. CASE j <= s
      <4>1. at(j) = j /\ at(j-1) = j - 1 /\ j - 1 \in 0 .. s - 1
        BY <1>4, <1>10, <3>1, <3>3
      <4>2. Len(D(j - 1)) = bs
        BY <1>10, <4>1 DEF bs
      <4>3. j * bs = (j - 1) * bs + bs
        <5>1. ((j - 1) + 1) * bs = (j - 1) * bs + bs
          BY <1>4, <3>1, TimesLess DEF bs
        <5>2. (j - 1) + 1 = j
          BY <3>1
        <5> QED BY <5>1, <5>2
      <4> QED BY <2>2, <3>2, <4>1, <4>2, <4>3
    <3>4. CASE ~ (j <= s)
      <4>1. at(j) = s /\ at(j-1) = s
        BY <1>4, <1>10, <3>1, <3>4
      <4>2. s * bs = s * bs + 0
        <5>1. s * bs \in Nat
          BY <1>4, <1>10 DEF bs
        <5> QED BY <5>1
      <4> HIDE DEF at
      <4> QED BY <1>10, <2>2, <3>2, <4>1, <4>2
    <3> QED BY <3>3, <3>4
  <2> QED BY <2>1, <2>2
<1>13. found = IF H = {} THEN 0 ELSE EntryNamed(DirRead(ino, f[Min(H)], bad), name)
  <2> HIDE DEF f
  <2>1. PICK g : /\ IsOffsets(ino, bad, last, g)
                 /\ found = IF DirHits(ino, bad, last, g, name) = {} THEN 0
                            ELSE EntryNamed(DirRead(ino, g[Min(DirHits(ino, bad, last, g, name))], bad), name)
    <3>1. last = vol.truth[ino].size \div vol.bs + 1
      BY DEF last, bs
    <3> QED BY <1>2, <1>12, <3>1, OffsetsLemma
  <2>2. last \in Nat
    BY <1>4, <1>5
  <2>3. g = f
    BY <1>12, <2>1, <2>2, OffsetsUnique
  <2> QED BY <2>1, <2>3
<1>14. \A j \in 0 .. last : j \in H <=> EntryNamed(D(at(j)), name) # 0
  BY <1>11 DEF DirHits
<1>15. H \subseteq 0 .. last
  BY DEF DirHits
<1>16. CASE H = {}
  <2>1. found = 0
    BY <1>13, <1>16
  <2>2. ASSUME bad = {}, NEW e \in Live(vol, ino) PROVE e.name # name
    <3>0. PICK j \in 0 .. Len(t.blocks) - 1 :
             e \in {BlockOf(vol, ino, j)[t.starts[j + 1][k] + 1] : k \in DOMAIN t.starts[j + 1]}
      BY Zenon DEF Live
    <3>1. PICK k \in DOMAIN t.starts[j + 1] : e = BlockOf(vol, ino, j)[t.starts[j + 1][k] + 1] /\ e.inode # 0
      BY <3>0 DEF Live
    <3>2. j \in 0 .. m - 1
      BY DEF m
    <3>3. s = m
      <4> SUFFICES ASSUME s # m PROVE FALSE
        OBVIOUS
      <4>1. s \in 0 .. m - 1
        BY <1>4, <1>10
      <4> QED BY <1>4, <1>8, <1>10, <2>2, <4>1
    <3>4. at(j) = j /\ j \in 0 .. last
      BY <1>4, <1>5, <3>2, <3>3
    <3> HIDE DEF H, at
    <3>5. EntryNamed(D(j), name) = 0
      BY <1>14, <1>16, <3>4
    <3> QED BY <1>8, <2>2, <3>1, <3>2, <3>5
  <2> QED BY <2>1, <2>2
<1>17. CASE H # {}
  <2> DEFINE j == Min(H)
  <2>1. j \in H
    <3>1. H \subseteq Nat
      BY <1>4, <1>5, <1>15
    <3> HIDE DEF H
    <3> QED BY <1>17, <3>1, MinLemma
  <2>2. found = EntryNamed(DirRead(ino, f[j], bad), name)
    BY <1>13, <1>17
  <2> HIDE DEF H, j, f, at, found
  <2>3. j \in 0 .. last
    BY <1>15, <2>1
  <2>4. found = EntryNamed(D(at(j)), name) /\ found # 0 /\ at(j) \in 0 .. m
    BY <1>11, <1>14, <2>1, <2>2, <2>3
  <2>5. InDir(ino, name, found)
    BY <1>7, <2>4
  <2> QED BY <2>4, <2>5 DEF found
<1> QED BY <1>16, <1>17
=============================================================================
