---------------------------------- MODULE Ext2 ----------------------------------
(***************************************************************************)
(* Reading an ext2 file system: kernel/driver/ext2.c, on read_disk of      *)
(* disk.c.                                                                 *)
(*                                                                         *)
(* The image is constant.  What lies on the disk is given twice: as the    *)
(* driver finds it (descriptors and inodes by address, indirect blocks by  *)
(* number, directories as their entries) and as it is meant (Blocks, the   *)
(* data blocks of each file in order), so that what the driver computes    *)
(* can be compared with the file.  A byte is <<inode, index>> of the file  *)
(* it belongs to.  Names are sequences of letters.  read_disk fetches too  *)
(* few sectors for some requests; what it delivers then is other memory.   *)
(* Nobody learns of a read that fails.  The sectors that fail hold no      *)
(* descriptors, inodes and directories.                                    *)
(***************************************************************************)
EXTENDS Integers, Sequences, SequencesExt

CONSTANTS
  SIZE_T,                                  \* values of a size_t, 2^64 in the code
  SECTOR_SIZE, block_size, start_offset,   \* in bytes; a block is start_offset long, 1024
  DirectBlocks, addresses_per_block,       \* 12 and block_size / 4 in the code
  DescriptorSize, inode_size, number_of_inodes_per_group,
  DescriptorAt,     \* address -> block the group's inode table starts with
  InodeAt,          \* address -> i_size, mode, i_block, entries (of a directory)
  IndirectBlock,    \* block -> its addresses_per_block entries
  Blocks,           \* inode -> data blocks, what the image is meant to hold
  BadSectors        \* commands that touch one of them fail

EXT2_ROOT_INODE == 2
Other == <<0, 0>>           \* a byte that belongs to no file
Min2(a, b) == IF a <= b THEN a ELSE b
Max2(a, b) == IF a >= b THEN a ELSE b

\* v of x, where x is evaluated once.
Of(x, v(_)) == CHOOSE y \in {v(z) : z \in {x}} : TRUE

\* The byte at a disk address.
DiskByte(a) ==
  LET b == (a - start_offset) \div block_size + 1
      owners == UNION {{<<f, k>> : k \in {i \in DOMAIN Blocks[f] : Blocks[f][i] = b}} : f \in DOMAIN Blocks}
      o == CHOOSE o \in owners : TRUE
  IN  IF a < start_offset \/ owners = {} THEN Other
      ELSE <<o[1], (o[2] - 1) * block_size + ((a - start_offset) % block_size)>>

\* read_disk: byte j of size bytes from offset on.  It ignores what read_ahci returns; after a
\* command that failed the buffer holds what malloc put there.
SectorsRead(size) == (size + SECTOR_SIZE - 1) \div SECTOR_SIZE
ReadFails(offset, size) ==
  \E i \in 0 .. SectorsRead(size) - 1 : offset \div SECTOR_SIZE + i \in BadSectors
read_disk(offset, size, j) ==
  IF ~ ReadFails(offset, size) /\ (offset % SECTOR_SIZE) + j < SectorsRead(size) * SECTOR_SIZE
  THEN DiskByte(offset + j) ELSE Other

\* ext2_read_inode_metadata, by way of ext2_read_block_group_descriptor.
ext2_read_inode_metadata(ino) ==
  LET bgdt  == start_offset + Max2(block_size, start_offset)
      group == (ino - 1) \div number_of_inodes_per_group
      index == (ino - 1) % number_of_inodes_per_group
      table == DescriptorAt[bgdt + DescriptorSize * group]
  IN  InodeAt[start_offset + (table - 1) * block_size + index * inode_size]

ext2_get_inode_size(ino) == ext2_read_inode_metadata(ino).i_size

------------------------------------------------------------------------------
\* The n-th block of a file, n from 0.

OffsetOfBlock(b) == IF b = 0 THEN 0 ELSE (b - 1) * block_size + start_offset

\* A table that could not be read is all zeros.
get_indirect_block_entry(b, index) ==
  IF b = 0 \/ index >= addresses_per_block \/ ReadFails(OffsetOfBlock(b), block_size) THEN 0
  ELSE IndirectBlock[b][index + 1]

\* It takes the inner index modulo the wrong table.
NthBlockFlat(i_block, n, single, double, triple) ==
  LET A == addresses_per_block
      Entry(b, i) == get_indirect_block_entry(b, i)
  IN  IF n < DirectBlocks THEN i_block[n + 1]
      ELSE IF single < A THEN Entry(i_block[DirectBlocks + 1], single)
      ELSE Entry(Entry(i_block[DirectBlocks + 2], double \div A), single \div A)

NthBlock(i_block, n, single, double, triple) ==
  LET A == addresses_per_block
      Indirect(k) == i_block[DirectBlocks + k]
      Entry(b, i) == get_indirect_block_entry(b, i)
  IN  CASE n < DirectBlocks -> i_block[n + 1]
        [] n >= DirectBlocks /\ single < A -> Entry(Indirect(1), single)
        [] single >= A /\ double < A * A ->
             Entry(Entry(Indirect(2), double \div A), double % A)
        [] double >= A * A /\ triple < A * A * A ->
             Entry(Entry(Entry(Indirect(3), triple \div (A * A)), (triple % (A * A)) \div A), triple % A)
        [] OTHER -> 0

ext2_get_nth_block_offset_of_inode(ino, n) ==
  LET A      == addresses_per_block
      single == n - DirectBlocks
  IN  Of(ext2_read_inode_metadata(ino).i_block,
         LAMBDA i_block : Of(NthBlock(i_block, n, single, single - A, single - A - A * A), OffsetOfBlock))

------------------------------------------------------------------------------
\* ext2_read_inode.  It ends before this offset.
EndOffset(ino, offset, count) == Min2(ext2_get_inode_size(ino), (offset + count) % SIZE_T)

\* end_offset is one less, as a size_t: for 0 it is the largest one, and the loop does not end.
Runaway(ino, offset, count) == EndOffset(ino, offset, count) = 0

\* How many bytes it reads.
CountRead(ino, offset, count) == Max2(0, EndOffset(ino, offset, count) - offset)

\* Byte j of n.  Each round of the loop but the last reads block_size bytes, from wherever in a
\* block it starts.
ByteRead(ino, offset, n, j) ==
  LET round == j \div block_size
      at    == offset + round * block_size
      size  == Min2(block_size, n - round * block_size)
  IN  Of(ext2_get_nth_block_offset_of_inode(ino, at \div block_size),
         LAMBDA block : read_disk(block + (at % block_size), size, j % block_size))

ext2_read_inode(ino, offset, count) ==
  Of(CountRead(ino, offset, count), LAMBDA n : [j \in 0 .. n - 1 |-> ByteRead(ino, offset, n, j)])

------------------------------------------------------------------------------
\* Directories.

\* strncmp over the shorter of the two lengths.
SameName(entry, name) ==
  LET n == Min2(Len(entry.name), Len(name)) IN SubSeq(entry.name, 1, n) = SubSeq(name, 1, n)

NoEntry == [inode |-> 0, name |-> <<>>, type |-> "unknown"]

\* The first entry with that name.
ext2_find_inode_in_dir_by_name(dir, name) ==
  LET entries == ext2_read_inode_metadata(dir).entries
      k       == {i \in DOMAIN entries : SameName(entries[i], name)}
  IN  IF k = {} THEN NoEntry ELSE entries[CHOOSE i \in k : \A j \in k : i <= j]

\* ext2_get_inode_number_at_path: the components after the root, all but the last directories.
ext2_get_inode_number_at_path(names) ==
  LET At[k \in 0 .. Len(names)] ==
        IF k = 0 THEN EXT2_ROOT_INODE
        ELSE IF At[k - 1] = 0 THEN 0
        ELSE LET e == ext2_find_inode_in_dir_by_name(At[k - 1], names[k])
             IN  IF k < Len(names) /\ e.type # "dir" THEN 0 ELSE e.inode
  IN  At[Len(names)]

\* ext2_list_dir: append_node puts each name in front.
ext2_list_dir(ino) ==
  LET entries == ext2_read_inode_metadata(ino).entries
  IN  Reverse([i \in DOMAIN entries |-> entries[i].name])
================================================================================
