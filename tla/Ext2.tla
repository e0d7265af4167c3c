-------------------------------- MODULE Ext2 --------------------------------
(***************************************************************************)
(* fs/ext2.c and its user, kshell_proc of kernel/kshell.c, on a volume     *)
(* (module Ext2Volume) whose sectors may fail to be read.                  *)
(*                                                                         *)
(* Everything runs in one thread.  A step reads what one function of the   *)
(* code reads; in each, some sectors may fail.  Names and words are model  *)
(* values or strings; strings are sequences of them and of separators.     *)
(* Allocations succeed (module KHeap) and are counted in `mem'.            *)
(***************************************************************************)
EXTENDS Ext2Volume, FiniteSets, FiniteSetsExt

CONSTANTS Span,     \* 2^32: byte offsets wrap around here
          Lines,    \* what is typed, and the command and the file it is meant for
          Opens,    \* paths and flags given to ext2_open and ext2_stat by others
          Reads,    \* offsets and lengths given to ext2_read by others
          Faults,   \* the sectors that may fail in one step
          Dust,     \* what is in memory nobody wrote
          MaxCalls  \* bound: calls

\* In the place of what could not be read: no cells.
Failed == <<>>

VARIABLES vol,       \* the device; without cells if there is none
          mnt,       \* sb, ext_sb, bgdesc_table and block_size once read
          pc,        \* where the call is: see Ext2Next
          call,      \* what was called
          strs,      \* what strtok_r has left of the path
          i_num,     \* the inode the walk has come to
          fd,        \* the vnode of the others and the one of the shell: its inode,
                     \* Null when not open, and the number of that
          out,       \* what the call returned, read or showed
          mem,       \* blocks the call has taken and not freed, by what they hold
          faulted,   \* a read failed in this call
          calls

ext2_vars == <<vol, mnt, pc, call, strs, i_num, fd, out, mem, faulted, calls>>

-----------------------------------------------------------------------------
(* Reading.                                                                *)

\* Sectors the device has.
nblocks == Len(vol.cells) \div DB

\* read(): a window of whole sectors, of which a part is copied.
read(off, len, bad) ==
    LET offset == off % DB
        lba    == off \div DB
        count  == (offset + len + DB - 1) \div DB
    IN  IF \E s \in lba .. lba + count - 1 : s \in bad \/ s >= nblocks THEN Failed
        ELSE SubSeq(vol.cells, lba * DB + offset + 1, lba * DB + offset + len)

block_offset(block) == (block * mnt.block_size) % Span
read_block(block, bad) == read(block_offset(block), mnt.block_size, bad)
pointers == mnt.block_size

\* A pointer of a table.  A table that cannot be read counts as one of holes.
Slot(bnum, idx, bad) ==
    LET ptrs == read_block(bnum, bad)
    IN  IF bnum = 0 \/ ptrs = Failed \/ idx >= pointers THEN 0 ELSE ptrs[idx + 1]

\* get_block_iter with an iter of 1, 2 and 3.
single(log_block, bnum, bad) == Slot(bnum, log_block, bad)
double(log_block, bnum, bad) ==
    single(log_block % pointers, Slot(bnum, log_block \div pointers, bad), bad)
triple(log_block, bnum, bad) ==
    double(log_block % (pointers * pointers), Slot(bnum, log_block \div (pointers * pointers), bad), bad)

\* Mutant: one block too many is looked up in the single table.
get_block_border(inode, log_block, bad) ==
    LET p == pointers
        l == log_block - Direct
    IN  IF log_block < Direct THEN inode.block[log_block + 1]
        ELSE IF l <= p THEN single(l, inode.block[Direct + 1], bad)
        ELSE IF l - p < p * p THEN double(l - p, inode.block[Direct + 2], bad)
        ELSE IF l - p - p * p < p * p * p THEN triple(l - p - p * p, inode.block[Direct + 3], bad)
        ELSE 0

get_block(inode, log_block, bad) ==
    LET p == pointers
        l == log_block - Direct
    IN  IF log_block < Direct THEN inode.block[log_block + 1]
        ELSE IF l < p THEN single(l, inode.block[Direct + 1], bad)
        ELSE IF l - p < p * p THEN double(l - p, inode.block[Direct + 2], bad)
        ELSE IF l - p - p * p < p * p * p THEN triple(l - p - p * p, inode.block[Direct + 3], bad)
        ELSE 0

\* The inode, or Null.
get_inode(in, bad) ==
    LET bg   == (in - 1) \div mnt.inodes_per_group
        l_id == (in - 1) % mnt.inodes_per_group
        cell == read(block_offset(mnt.bgdesc_table[bg + 1]) + l_id * mnt.inode_size,
                     mnt.inode_size, bad)
    IN  IF in = 0 \/ cell = Failed THEN Null ELSE cell[1]

\* The cells read, fewer if a block fails.  Blocks that are not there are zeros.
ext2_read_inode(inode, off, len, bad) ==
    LET bs    == mnt.block_size
        n     == Min({len, inode.size - off})
        b_off == off \div bs
        r_off == off % bs
        b_len == (n + r_off + bs - 1) \div bs
        buf   == [i \in 0 .. b_len - 1 |->
                    LET b == get_block(inode, b_off + i, bad)
                    IN  IF b = 0 THEN [k \in 1 .. bs |-> Zero] ELSE read_block(b, bad)]
        i     == Min({j \in 0 .. b_len : j = b_len \/ buf[j] = Failed})
        got   == IF i = b_len THEN n ELSE IF i < 1 THEN 0 ELSE Min({i * bs - r_off, n})
    IN  IF off >= inode.size THEN <<>>
        ELSE [k \in 1 .. got |-> buf[(r_off + k - 1) \div bs][((r_off + k - 1) % bs) + 1]]

-----------------------------------------------------------------------------
(* Directories.                                                            *)

\* The entries in a block one after the other; a length of 0 ends the block.
EntryNamed(block, name) ==
    LET stop(p) == p >= Len(block) \/ block[p + 1].rec_len = 0
        at[n \in 0 .. Len(block)] ==
            IF n = 0 THEN 0 ELSE IF stop(at[n-1]) THEN at[n-1] ELSE at[n-1] + block[at[n-1] + 1].rec_len
        hits == {n \in 0 .. Len(block) : /\ ~ stop(at[n])
                                         /\ block[at[n] + 1].inode # 0 /\ block[at[n] + 1].name = name}
    IN  IF hits = {} THEN 0 ELSE block[at[Min(hits)] + 1].inode

\* Mutant: only the first block is searched.
lookup_inode_num_first(i_dir, name, bad) ==
    IF i_dir = Null THEN 0 ELSE EntryNamed(ext2_read_inode(i_dir, 0, mnt.block_size, bad), name)

\* Block after block, until nothing more is read.
lookup_inode_num(i_dir, name, bad) ==
    LET block(off) == ext2_read_inode(i_dir, off, mnt.block_size, bad)
        last       == i_dir.size \div mnt.block_size + 1
        offset[n \in 0 .. last] == IF n = 0 THEN 0 ELSE offset[n-1] + Len(block(offset[n-1]))
        hits == {n \in 0 .. last : EntryNamed(block(offset[n]), name) # 0}
    IN  IF i_dir = Null \/ hits = {} THEN 0 ELSE EntryNamed(block(offset[Min(hits)]), name)

\* lib/string: how far s goes without the separator, or with nothing else.
strcspn(s, delim) == Min({k \in 0 .. Len(s) : k = Len(s) \/ s[k + 1] = delim})
strspn(s, delim)  == Min({k \in 0 .. Len(s) : k = Len(s) \/ s[k + 1] # delim})

Space == " "

\* Mutant: one separator is skipped, not all of them.
strtok_r_one(s, delim) ==
    LET start == IF s # <<>> /\ s[1] = delim THEN Tail(s) ELSE s
        n     == strcspn(start, delim)
    IN  [tok  |-> SubSeq(start, 1, n), save |-> SubSeq(start, n + 2, Len(start))]

\* The next word, empty if there is none, and what is left of the string.
strtok_r(s, delim) ==
    LET start == SubSeq(s, strspn(s, delim) + 1, Len(s))
        n     == strcspn(start, delim)
    IN  [tok  |-> SubSeq(start, 1, n), save |-> SubSeq(start, n + 2, Len(start))]

-----------------------------------------------------------------------------
(* The steps of a call.                                                    *)

At(p)       == pc = p
Bad         == {{}} \cup Faults
Noting(bad) == faulted' = (faulted \/ bad # {})

Freed       == [k \in {"s", "path", "inode", "private", "fdata"} |-> 0]
Taken(held, kinds)  == [k \in DOMAIN held |-> IF k \in kinds THEN held[k] + 1 ELSE held[k]]
Without(held, kinds) == [k \in DOMAIN held |-> IF k \in kinds THEN held[k] - 1 ELSE held[k]]

\* A call, and which file of the volume it is meant for, by its names.
NoCall == [op |-> "none", who |-> "none", path |-> <<>>, flags |-> {}, off |-> 0, len |-> 0,
           cmd |-> "none", names |-> <<>>]
NoOut  == [res |-> 0, data |-> <<>>]
ENOENT == -2
EEXIST == -5
EISDIR == -6

\* The call returns; a command of the shell frees its copy of the line.
Done(who, res, data, held) ==
    /\ pc' = "done" /\ out' = [res |-> res, data |-> data]
    /\ mem' = IF who = "shell" THEN Without(held, {"s"}) ELSE held

\* A pointer is followed that is null or was never set: what happens then is
\* not known.
Wild == pc' = "wild" /\ UNCHANGED <<out, mem>>

NotMounted == [block_size |-> 0]
Mounted    == mnt # NotMounted

\* ext2_init, from kmain, which goes on when it fails.
ReadVolume(bad) ==
    LET sb    == read(KB, 1, bad)
        ext   == read(KB + 1, 1, bad)
        bs    == KB * 2 ^ sb[1].log_block_size
        descs == (sb[1].blocks_count + sb[1].blocks_per_group - 1) \div sb[1].blocks_per_group
        table == read((IF sb[1].log_block_size = 0 THEN 2 ELSE 1) * bs, descs, bad)
    IN  IF sb = Failed THEN NotMounted
        ELSE IF sb[1].magic # "ext2" THEN NotMounted
        ELSE IF (sb[1].rev_level >= 1 /\ ext = Failed) \/ table = Failed THEN NotMounted
        ELSE [block_size |-> bs, inodes_per_group |-> sb[1].inodes_per_group, bgdesc_table |-> table,
              inode_size |-> IF sb[1].rev_level >= 1 THEN ext[1].inode_size ELSE 1]

NoDevice == vol.cells = <<>>

ext2_init == /\ At("boot")
             /\ IF NoDevice THEN Wild /\ UNCHANGED <<mnt, faulted>>
                ELSE /\ \E bad \in Bad : mnt' = ReadVolume(bad) /\ Noting(bad)
                     /\ pc' = "done" /\ UNCHANGED <<out, mem>>
             /\ UNCHANGED <<vol, call, strs, i_num, fd, calls>>

\* ext2_open, ext2_stat and the commands begin with get_fp_num: the path is
\* copied and the walk starts at the root.  Without a volume the first inode is
\* looked up in what was never read.
Begin(c) == /\ call' = c
            /\ IF Mounted
               THEN /\ pc' = "walk" /\ strs' = c.path /\ i_num' = Root
                    /\ mem' = Taken(mem, {"path"} \cup IF c.who = "shell" THEN {"s"} ELSE {})
                    /\ UNCHANGED out
               ELSE Wild /\ UNCHANGED <<strs, i_num>>

\* Mutant: the path is freed only when something was found.
Walk_leaks ==
    /\ At("walk")
    /\ LET t == strtok_r(strs, "/") IN
       \E bad \in Bad :
          IF t.tok = <<>> \/ i_num = 0
          THEN /\ pc' = "walked"
               /\ mem' = IF i_num = 0 THEN mem ELSE Without(mem, {"path"})
               /\ UNCHANGED <<strs, i_num, faulted>>
          ELSE /\ i_num' = lookup_inode_num(get_inode(i_num, bad), t.tok, bad)
               /\ strs' = t.save
               /\ Noting(bad)
               /\ UNCHANGED <<pc, mem>>
    /\ UNCHANGED <<vol, mnt, call, fd, out, calls>>

\* One turn of the loop of get_fp_num, and its end.
Walk == /\ At("walk")
        /\ LET t == strtok_r(strs, "/") IN
           \E bad \in Bad :
              IF t.tok = <<>> \/ i_num = 0
              THEN /\ pc' = "walked" /\ mem' = Without(mem, {"path"})
                   /\ UNCHANGED <<strs, i_num, faulted>>
              ELSE /\ i_num' = lookup_inode_num(get_inode(i_num, bad), t.tok, bad)
                   /\ strs' = t.save
                   /\ Noting(bad)
                   /\ UNCHANGED <<pc, mem>>
        /\ UNCHANGED <<vol, mnt, call, fd, out, calls>>

\* The rest of ext2_open.
Create == "creat" \in call.flags

Opened(inode) ==
    IF inode = Null
    THEN IF Create THEN Wild /\ UNCHANGED fd ELSE Done(call.who, ENOENT, <<>>, mem) /\ UNCHANGED fd
    ELSE IF "excl" \in call.flags
         THEN Done(call.who, EEXIST, <<>>, Taken(mem, {"inode"})) /\ UNCHANGED fd
    ELSE IF inode.mode = "dir" /\ "wronly" \in call.flags
         THEN Done(call.who, EISDIR, <<>>, Taken(mem, {"inode"})) /\ UNCHANGED fd
    ELSE /\ fd' = [fd EXCEPT ![call.who] = [inode |-> inode, i_num |-> i_num]]
         /\ IF call.who = "shell"
            THEN pc' = "show" /\ mem' = Taken(mem, {"inode", "private"}) /\ UNCHANGED out
            ELSE Done(call.who, 0, <<i_num>>, Taken(mem, {"inode", "private"}))

ext2_open == /\ At("walked") /\ call.op = "open"
             /\ \E bad \in Bad : Opened(get_inode(i_num, bad)) /\ Noting(bad)
             /\ UNCHANGED <<vol, mnt, call, strs, i_num, calls>>

\* The rest of ext2_stat, which takes it that the inode can be read.
\* Mutant: also that there is one.
ext2_stat_unchecked ==
    /\ At("walked") /\ call.op = "stat"
    /\ \E bad \in Bad :
         LET inode == get_inode(i_num, bad) IN
         /\ IF inode = Null THEN Wild ELSE Done(call.who, 0, <<i_num, inode.mode, inode.size>>, mem)
         /\ Noting(bad)
    /\ UNCHANGED <<vol, mnt, call, strs, i_num, fd, calls>>

ext2_stat == /\ At("walked") /\ call.op = "stat"
             /\ \E bad \in Bad :
                  LET inode == get_inode(i_num, bad) IN
                  /\ IF i_num = 0 THEN Done(call.who, ENOENT, <<>>, mem)
                     ELSE IF inode = Null THEN Wild
                     ELSE Done(call.who, 0, <<i_num, inode.mode, inode.size>>, mem)
                  /\ Noting(bad)
             /\ UNCHANGED <<vol, mnt, call, strs, i_num, fd, calls>>

\* ext2_read and ext2_close.
ext2_read(f, off, len, bad) == IF len = 0 THEN <<>> ELSE ext2_read_inode(f.inode, off, len, bad)

Closed == [inode |-> Null, i_num |-> 0]
IsOpen == fd["other"].inode # Null

CallRead(off, len) ==
    /\ IsOpen
    /\ call' = [NoCall EXCEPT !.op = "read", !.off = off, !.len = len]
    /\ \E bad \in Bad : LET data == ext2_read(fd["other"], off, len, bad)
                        IN  Done("other", Len(data), data, mem) /\ Noting(bad)
    /\ UNCHANGED <<strs, i_num, fd>>

Close == /\ IsOpen
         /\ call' = [NoCall EXCEPT !.op = "close"]
         /\ Done("other", 0, <<>>, Without(mem, {"inode", "private"}))
         /\ fd' = [fd EXCEPT !["other"] = Closed]
         /\ UNCHANGED <<strs, i_num, faulted>>

\* kshell_proc with a copy s of the line.  Its vnode is gone when it returns.
\* A line without a word is not freed.
Command(line) ==
    LET cmd == strtok_r(line.text, Space)
        fp  == strtok_r(cmd.save, Space).tok
        c(op) == [NoCall EXCEPT !.op = op, !.who = "shell", !.path = fp,
                                 !.cmd = line.cmd, !.names = line.names]
    IN  IF cmd.tok \in {<<"read">>, <<"stat">>} /\ fp # <<>>
        THEN Begin(c(IF cmd.tok = <<"read">> THEN "open" ELSE "stat")) /\ UNCHANGED <<fd, faulted>>
        ELSE /\ call' = [c("line") EXCEPT !.path = line.text]
             /\ IF cmd.tok # <<>> THEN Done("shell", 0, <<>>, Taken(mem, {"s"}))
                ELSE pc' = "done" /\ out' = NoOut /\ mem' = Taken(mem, {"s"})
             /\ UNCHANGED <<strs, i_num, fd, faulted>>

\* What the read command prints: the whole buffer, of which only a part may
\* have been read, up to the first zero.
Shown(data, size) ==
    LET fdata == data \o [k \in 1 .. size - Len(data) |-> Dust]
    IN  SubSeq(fdata, 1, Min({k \in 0 .. size : k = size \/ fdata[k + 1] = Zero}))

ShowFile == /\ At("show")
        /\ LET f == fd["shell"] IN
           \E bad \in Bad :
              /\ Done("shell", 0, Shown(ext2_read(f, 0, f.inode.size, bad), f.inode.size), Taken(mem, {"fdata"}))
              /\ Noting(bad)
        /\ fd' = [fd EXCEPT !["shell"] = Closed]
        /\ UNCHANGED <<vol, mnt, call, strs, i_num, calls>>

Start == /\ At("idle") /\ calls < MaxCalls
         /\ calls' = calls + 1
         /\ UNCHANGED <<vol, mnt>>
         /\ \/ \E line \in Lines : Command(line)
            \/ \E c \in Opens : /\ c.op = "open" => ~ IsOpen
                                /\ Begin(c) /\ UNCHANGED <<fd, faulted>>
            \/ \E r \in Reads : CallRead(r[1], r[2])
            \/ Close

\* The caller goes on.
Return == /\ At("done")
          /\ pc' = "idle"
          /\ call' = NoCall /\ strs' = <<>> /\ i_num' = 0 /\ out' = NoOut
          /\ mem' = Freed /\ faulted' = FALSE
          /\ UNCHANGED <<vol, mnt, fd, calls>>

Ext2Init == /\ vol \in Volumes
        /\ mnt = NotMounted /\ pc = "boot" /\ call = NoCall
        /\ strs = <<>> /\ i_num = 0 /\ out = NoOut
        /\ fd = [w \in {"other", "shell"} |-> Closed]
        /\ mem = Freed /\ faulted = FALSE /\ calls = 0

Ext2Next == ext2_init \/ Start \/ Walk \/ ext2_open \/ ext2_stat \/ ShowFile \/ Return

Ext2Spec == Ext2Init /\ [][Ext2Next]_ext2_vars
-----------------------------------------------------------------------------
(* What is called.                                                         *)

IsSeq(s) == Len(s) \in Nat /\ s = [k \in 1 .. Len(s) |-> s[k]]

\* The path has these names, and between, before and after them separators.
Spells(path, names) ==
    \E pos \in [1 .. Len(names) -> 1 .. Len(path)] :
        /\ \A i \in 1 .. Len(names) : path[pos[i]] = names[i] /\ names[i] # "/"
        /\ \A i, j \in 1 .. Len(names) : i < j => pos[i] + 1 < pos[j]
        /\ \A k \in 1 .. Len(path) : path[k] = "/" \/ \E i \in 1 .. Len(names) : pos[i] = k

\* The line has the command at a, spaces before it and after it up to b, and
\* then the path up to c.
Parts(text, a, b, c) ==
    /\ text[a] # Space /\ \A k \in 1 .. a - 1 : text[k] = Space
    /\ a < b /\ \A k \in a + 1 .. b : text[k] = Space
    /\ b < c /\ \A k \in b + 1 .. c : text[k] # Space
    /\ c < Len(text) => text[c + 1] = Space

IsFor(line) ==
    LET places == {p \in (1 .. Len(line.text)) \X (1 .. Len(line.text)) \X (1 .. Len(line.text)) :
                      line.text[p[1]] \in {"read", "stat"} /\ Parts(line.text, p[1], p[2], p[3])}
    IN  IF line.cmd \in {"read", "stat"}
        THEN \E p \in places : /\ line.text[p[1]] = line.cmd
                               /\ Spells(SubSeq(line.text, p[2] + 1, p[3]), line.names)
        ELSE places = {}

ASSUME CallsAssumption ==
    /\ Span \in Nat \ {0}
    /\ Reads \subseteq Nat \X Nat
    /\ \A c \in Opens : /\ c.op \in {"open", "stat"} /\ c.who = "other" /\ c.cmd = "none"
                        /\ IsSeq(c.path) /\ IsSeq(c.names) /\ Spells(c.path, c.names)
    /\ \A line \in Lines : IsSeq(line.text) /\ IsSeq(line.names) /\ IsFor(line)

-----------------------------------------------------------------------------
(* Properties.                                                             *)

\* The volumes that offsets of 32 bits can address.
Within == Len(vol.cells) <= Span

Exists    == call.names \in DOMAIN vol.where
Ino       == vol.where[call.names]

\* A file in the middle of a path is searched as if it were a directory, and
\* may seem to hold an entry of that name.
ThroughFile == \E k \in 1 .. Len(call.names) - 1 :
                  LET dir == SubSeq(call.names, 1, k)
                  IN  dir \in DOMAIN vol.where /\ ~ IsDir(vol, vol.where[dir])

\* ext2_open and ext2_stat find the file the path names, or none if there is
\* none: over several blocks of a directory, past deleted entries and gaps, over
\* all groups of inodes.  Sectors that fail may hide a file but never lead to
\* another.
FoundIsFile ==
    (At("done") /\ call.op \in {"open", "stat"} /\ ~ ThroughFile /\ Within) =>
        /\ out.res = ENOENT => ~ Exists \/ faulted
        /\ out.res # ENOENT => Exists
        /\ (out.res = 0 /\ call.op = "stat") =>
              out.data = <<Ino, vol.truth[Ino].mode, vol.truth[Ino].size>>
        /\ (out.res = 0 /\ call.op = "open" /\ call.who = "other") => out.data = <<Ino>>

\* ext2_read returns the piece of the file asked for, as far as the file goes,
\* if it is one of the volume, through direct blocks and all levels of tables and over holes.  If sectors
\* fail it is shorter, or has zeros behind a table that failed; it is never
\* anything else.
ReadIsFile ==
    (At("done") /\ call.op = "read" /\ fd["other"].i_num \in DOMAIN vol.truth /\ Within) =>
        LET file == FileOf(vol, fd["other"].i_num)
            want == SubSeq(file, call.off + 1, Min({call.off + call.len, Len(file)}))
        IN  /\ Len(out.data) <= Len(want)
            /\ \A k \in DOMAIN out.data : out.data[k] \in {want[k], Zero}
            /\ ~ faulted => out.data = want

\* A line "read path" shows the file of that name, up to the first zero in it,
\* however many spaces and slashes there are.  If sectors fail it may show what
\* was in memory.
UpToZero(s) == SubSeq(s, 1, Min({k \in 0 .. Len(s) : k = Len(s) \/ s[k + 1] = Zero}))

ShownIsFile ==
    (At("done") /\ call.cmd = "read" /\ Exists /\ ~ ThroughFile /\ ~ faulted /\ Within) =>
        call.op = "open" /\ out.data = UpToZero(FileOf(vol, Ino))

\* What a call takes from the heap it frees before it returns, whichever way it
\* ends and whatever fails, except: the copy of a line without a word; the
\* inode of an open that is refused; all that the read command opened.
Left == CASE call.op = "line" -> IF strspn(call.path, Space) = Len(call.path) THEN {"s"} ELSE {}
          [] call.op = "open" /\ out.res = 0 ->
                IF call.who = "shell" THEN {"inode", "private", "fdata"} ELSE {"inode", "private"}
          [] call.op = "open" /\ out.res \in {EEXIST, EISDIR} -> {"inode"}
          [] OTHER -> {}

BlocksFreed == At("done") => mem = IF call.op = "close" THEN Without(Freed, {"inode", "private"})
                                   ELSE Taken(Freed, Left)

\* The code follows a null pointer only: without a disk, after a mount that
\* failed, to create a file, and when an inode cannot be read.  That is so too if
\* its number is out of range, as one may be that was found in a file, or read
\* from where a block is not.
WildOnlyIf == At("wild") => ~ Mounted \/ Create \/ faulted \/ ThroughFile \/ ~ Within
=============================================================================
