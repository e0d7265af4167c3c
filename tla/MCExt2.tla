------------------------------- MODULE MCExt2 -------------------------------
(* Model-checking instance of Ext2: two direct blocks, blocks of two cells  *)
(* (and so of two pointers) or of four, volumes written out, and offsets    *)
(* that wrap around at 70.                                                  *)
EXTENDS Ext2, TLC

Piece(n) == [inode |-> 0, rec_len |-> n, name |-> <<"data">>]
Entry0(name, ino, len) == [inode |-> ino, rec_len |-> len, name |-> <<name>>]
Inode(mode, size, block) == [mode |-> mode, size |-> size, block |-> block]
None == [inode |-> 0]

Image(n, cells) == [k \in 1 .. n |-> IF k - 1 \in DOMAIN cells THEN cells[k - 1] ELSE Piece(k)]
SuperBlock(magic, log, rev, n, bpg, ipg) ==
    [magic |-> magic, log_block_size |-> log, rev_level |-> rev, blocks_count |-> n,
     blocks_per_group |-> bpg, inodes_per_group |-> ipg]

\* Revision 0, three groups of two inodes.  A file that uses every table and
\* has holes; a root directory of three blocks, with a deleted entry and a gap
\* with an old name; a file that looks like a directory; an empty one.
Small ==
    Image(70,
      2 :> SuperBlock("ext2", 0, 0, 35, 12, 2)
      @@ 4 :> 4 @@ 5 :> 5 @@ 6 :> 6
      @@ 8 :> None @@ 9 :> Inode("dir", 6, <<7, 8, 10, 0, 0>>)
      @@ 10 :> Inode("dir", 2, <<11, 0, 0, 0, 0>>)
      @@ 11 :> Inode("file", 31, <<12, 13, 14, 17, 23>>)
      @@ 12 :> Inode("file", 1, <<34, 0, 0, 0, 0>>)
      @@ 13 :> Inode("file", 0, <<0, 0, 0, 0, 0>>)
      @@ 14 :> Entry0("d", 3, 1) @@ 15 :> Entry0("f", 0, 1)
      @@ 16 :> Entry0("x", 5, 2) @@ 17 :> Entry0("f", 3, 1)
      @@ 18 :> Entry0("f", 4, 2) @@ 19 :> Zero
      @@ 20 :> 9 @@ 21 :> 0
      @@ 22 :> Entry0("g", 6, 1) @@ 23 :> Entry0("f", 5, 1)
      @@ 28 :> 15 @@ 29 :> 16
      @@ 34 :> 18 @@ 35 :> 19 @@ 36 :> 20 @@ 37 :> 0 @@ 38 :> 21 @@ 39 :> 22
      @@ 46 :> 24 @@ 47 :> 25 @@ 48 :> 26 @@ 49 :> 0 @@ 50 :> 29 @@ 51 :> 30
      @@ 52 :> 27 @@ 53 :> 28 @@ 58 :> 31 @@ 59 :> 0 @@ 60 :> 32 @@ 61 :> 33
      @@ 68 :> Entry0("g", 6, 1))

SmallTruth ==
    [where |-> (<<>> :> 2 @@ <<"d">> :> 3 @@ <<"f">> :> 4 @@ <<"x">> :> 5
                @@ <<"d", "g">> :> 6 @@ <<"d", "f">> :> 5),
     truth |-> (2 :> [mode |-> "dir", size |-> 6, blocks |-> <<7, 8, 9>>,
                       starts |-> <<<<0, 1>>, <<0>>, <<0>>>>]
                @@ 3 :> [mode |-> "dir", size |-> 2, blocks |-> <<11>>, starts |-> <<<<0, 1>>>>]
                @@ 4 :> [mode |-> "file", size |-> 31,
                         blocks |-> <<12, 13, 15, 16, 20, 0, 21, 22, 27, 28, 0, 0, 31, 0, 32, 33>>]
                @@ 5 :> [mode |-> "file", size |-> 1, blocks |-> <<34>>]
                @@ 6 :> [mode |-> "file", size |-> 0, blocks |-> <<>>])]

\* Revision 1: larger blocks, and inodes of two cells.
Large ==
    Image(24,
      2 :> SuperBlock("ext2", 1, 1, 6, 6, 3) @@ 3 :> [inode_size |-> 2]
      @@ 4 :> 2
      @@ 10 :> Inode("dir", 4, <<4, 0, 0, 0, 0>>)
      @@ 12 :> Inode("file", 7, <<5, 0, 0, 0, 0>>)
      @@ 16 :> Entry0("q", 0, 1) @@ 17 :> Entry0("f", 3, 3))

LargeTruth ==
    [where |-> (<<>> :> 2 @@ <<"f">> :> 3),
     truth |-> (2 :> [mode |-> "dir", size |-> 4, blocks |-> <<4>>, starts |-> <<<<0, 1>>>>]
                @@ 3 :> [mode |-> "file", size |-> 7, blocks |-> <<5, 0>>])]

\* Larger than offsets can say: the block of the file is read elsewhere.
Huge == Image(74, 2 :> SuperBlock("ext2", 0, 0, 37, 37, 3) @@ 4 :> 3
                  @@ 7 :> Inode("dir", 2, <<5, 0, 0, 0, 0>>) @@ 8 :> Inode("file", 2, <<36, 0, 0, 0, 0>>)
                  @@ 10 :> Entry0("f", 3, 2))
HugeTruth ==
    [where |-> (<<>> :> 2 @@ <<"f">> :> 3),
     truth |-> (2 :> [mode |-> "dir", size |-> 2, blocks |-> <<5>>, starts |-> <<<<0>>>>]
                @@ 3 :> [mode |-> "file", size |-> 2, blocks |-> <<36>>])]

Volume(cells, bs, t) == [cells |-> cells, bs |-> bs, where |-> t.where, truth |-> t.truth]

MCVolumes == {Volume(Small, 2, SmallTruth), Volume(Large, 4, LargeTruth),
              Volume(Huge, 2, HugeTruth),
              Volume(Image(8, 2 :> SuperBlock("other", 0, 0, 4, 4, 2)), 2, SmallTruth),
              Volume(<<>>, 2, SmallTruth)}

Line(text, cmd, names) == [text |-> text, cmd |-> cmd, names |-> names]
MCLines == {Line(<<"read", " ", " ", "f">>, "read", <<"f">>),
            Line(<<" ", "read", " ", "/", "/", "d", "/", "f", " ", "x">>, "read", <<"d", "f">>),
            Line(<<"stat", " ", "d", "/", "/", "g">>, "stat", <<"d", "g">>),
            Line(<<"stat", " ", "g">>, "stat", <<"g">>), Line(<<"read", " ", "/">>, "read", <<>>),
            Line(<<"read", " ">>, "none", <<>>), Line(<<" ", " ">>, "none", <<>>),
            Line(<<"ls">>, "none", <<>>)}

Open(path, names, flags) ==
    [NoCall EXCEPT !.op = "open", !.who = "other", !.path = path, !.names = names, !.flags = flags]
MCOpens == {Open(<<"/", "f">>, <<"f">>, {}), Open(<<"d", "/", "f", "/">>, <<"d", "f">>, {}),
            Open(<<"d", "/", "g">>, <<"d", "g">>, {"excl"}), Open(<<"/">>, <<>>, {}),
            Open(<<"d">>, <<"d">>, {"wronly"}), Open(<<"f">>, <<"f">>, {"wronly", "creat"}),
            Open(<<"q">>, <<"q">>, {}), Open(<<"q">>, <<"q">>, {"creat"}),
            Open(<<"x", "/", "g">>, <<"x", "g">>, {}),
            [Open(<<"d", "/", "q">>, <<"d", "q">>, {}) EXCEPT !.op = "stat"],
            [Open(<<"x">>, <<"x">>, {}) EXCEPT !.op = "stat"]}

\* Any one sector.
MCFaults == {{s} : s \in 0 .. 36}

\* Within blocks and across them, to the end of the file and past it.
MCReads == {<<0, 0>>, <<0, 40>>, <<1, 2>>, <<3, 3>>, <<7, 2>>, <<11, 6>>, <<22, 5>>, <<30, 1>>, <<31, 4>>}
=============================================================================
