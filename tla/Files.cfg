CONSTANTS
  SIZE_T = 32
  SECTOR_SIZE = 2
  block_size = 4
  start_offset = 4
  DirectBlocks = 2
  addresses_per_block = 2
  DescriptorSize = 18
  inode_size = 1
  number_of_inodes_per_group = 16
  DescriptorAt <- Descriptors
  InodeAt <- Inode
  IndirectBlock <- Tables
  Blocks <- Data
  BadSectors <- Bad
  NumFds = 1
  SizeofEhdr = 2
  Elf <- Program
  NewDirs <- Dirs
  Paths <- Files1
  Words <- Args
  Counts = {1, 9}
  Offsets = {0, 14}
  MaxNodes = 3
  MaxPath = 5
SPECIFICATION Spec
INVARIANTS PathMeaning ReadDelivers ElfLoadsSegment 
CHECK_DEADLOCK FALSE
