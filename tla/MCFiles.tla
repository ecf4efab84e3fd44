-------------------------------- MODULE MCFiles --------------------------------
(* Sectors of 2 bytes, blocks of 4; a file has 2 direct blocks and tables of *)
(* 2, so that file 4 reaches its double indirect blocks.  The root (inode 2) *)
(* holds d (3), f (4), the program e (5), s of one byte (6) and two devices, *)
(* st (7) and c (8).  The last block of f cannot be read.                   *)
EXTENDS Files

E(ino, name, type) == [inode |-> ino, name |-> name, type |-> type]
I(size, mode, i_block, entries) ==
  [i_size |-> size, mode |-> mode, i_block |-> i_block, entries |-> entries]

RootEntries == <<E(2, <<".">>, "dir"), E(2, <<".", ".">>, "dir"), E(3, <<"d">>, "dir"), E(4, <<"f">>, "file"),
                 E(5, <<"e">>, "file"), E(6, <<"s">>, "file"), E(7, <<"s", "t">>, "device"), E(8, <<"c">>, "device")>>
DirEntries == <<E(3, <<".">>, "dir"), E(2, <<".", ".">>, "dir"), E(5, <<"e">>, "file")>>

Descriptors == 8 :> 3
Inode == 13 :> I(4, "dir", <<7, 0, 0, 0, 0>>, RootEntries)
      @@ 14 :> I(4, "dir", <<8, 0, 0, 0, 0>>, DirEntries)
      @@ 15 :> I(27, "file", <<10, 13, 20, 21, 0>>, <<>>)
      @@ 16 :> I(14, "file", <<17, 18, 23, 0, 0>>, <<>>)
      @@ 17 :> I(1, "file", <<25, 0, 0, 0, 0>>, <<>>)
      @@ 18 :> I(0, "device", <<0, 0, 0, 0, 0>>, <<>>)
      @@ 19 :> I(0, "device", <<0, 0, 0, 0, 0>>, <<>>)
Tables == 20 :> <<11, 15>> @@ 21 :> <<22, 26>> @@ 22 :> <<12, 16>> @@ 23 :> <<19, 24>> @@ 26 :> <<27, 0>>
Data == 4 :> <<10, 13, 11, 15, 12, 16, 27>> @@ 5 :> <<17, 18, 19, 24>> @@ 6 :> <<25>>
Bad == {55}
Program == 5 :> [phoff |-> 2, phentsize |-> 2, p_type |-> "PT_LOAD", p_offset |-> 4, p_filesz |-> 9]

M == <<"m">>
Dirs == {<<Slash, M>>, <<Slash, M, Slash, M>>, <<Slash, <<"m", "n">>, Slash>>}
Files1 == {<<Slash, M, Slash, <<"f">>>>, <<Slash, M, Slash, Slash, <<"e">>, Blank, M>>,
           <<Slash, M, Slash, <<"s", "t">>>>, <<Slash, M, Slash, <<"c">>>>}
Args == {<<<<"d">>>>, <<<<".", ".">>>>, <<Slash, M>>, <<Slash>>, <<<<"m">>>>, <<<<"s">>>>, <<Slash, M, Slash, <<"f">>>>}
================================================================================
