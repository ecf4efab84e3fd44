--------------------------------- MODULE Files ---------------------------------
(***************************************************************************)
(* Files from path to byte: kernel/arch/x86_64/vfs.c, libc/file_op, the    *)
(* ELF loader (kernel/process/elf.c) and the shell's path commands         *)
(* (user/shell/fs.c), on the file system of Ext2.                          *)
(*                                                                         *)
(* A path is a sequence of tokens: names, slashes, blanks.  The tree of    *)
(* vfs_nodes is a sequence of nodes, known by the order they are made in;  *)
(* a mounted node is the ext2 image.  The kernel is not preempted, so each *)
(* call is one step.  size_t is SIZE_T values wide.  Three places read a   *)
(* byte of the heap they have not written: the walk of vfs_get_node, one   *)
(* past the end of its path; the path that open keeps without its end; the *)
(* path that the shell joins.  AfterText is what they find.  Memory that   *)
(* was not read from a file is taken never to hold a valid ELF header.     *)
(***************************************************************************)
EXTENDS Ext2, FiniteSets, TLC

CONSTANTS
  NumFds,                  \* MAX_NUM_OF_FILE_DESCRIPTORS
  SizeofEhdr,              \* size of an ELF header
  Elf,                     \* ELF files: inode -> phoff, phentsize, p_type, p_offset, p_filesz
  NewDirs, Paths, Words,   \* paths for mkdir and mount, for opening, and arguments of the shell
  Counts, Offsets,         \* arguments of read, write and lseek
  MaxNodes, MaxPath        \* bounds of a run

Slash == <<"/">>
Blank == <<" ">>
NULL == <<>>                \* no path
O_RDONLY == 0
O_WRONLY == 1
O_RDWR == 2
Root == 1
Top == {<<Root, EXT2_ROOT_INODE>>}   \* where paths start
Fds == 0 .. NumFds - 1
Neg(n) == SIZE_T - n        \* -n as size_t

VARIABLES
  nodes,     \* type, name, kids (newest first)
  fdp_arr,   \* file_path, current_offset, flags
  curr_wd,   \* the shell's
  here,      \* ghost: the directories that following every cd from the last one leads to
  last,      \* ghost: what the last step read or loaded
  hung       \* ext2_read_inode does not end

vars == <<nodes, fdp_arr, curr_wd, here, last, hung>>

------------------------------------------------------------------------------
\* Paths.

\* preprocess_path: up to the first blank, runs of slashes as one, none at the end.
preprocess_path(path) ==
  LET blanks == {i \in DOMAIN path : path[i] = Blank}
      text   == IF blanks = {} THEN path
                ELSE SubSeq(path, 1, (CHOOSE i \in blanks : \A j \in blanks : i <= j) - 1)
      Kept(t) == SelectSeq([i \in DOMAIN t |-> i], LAMBDA i : ~ (i > 1 /\ t[i] = Slash /\ t[i - 1] = Slash))
      Single(t) == Of(Kept(t), LAMBDA k : [i \in DOMAIN k |-> t[k[i]]])
  IN  Of(Of(text, Single), LAMBDA s : IF Len(s) > 1 /\ Last(s) = Slash THEN Front(s) ELSE s)

AfterText == <<>>

Components(path) == SelectSeq(path, LAMBDA t : t # Slash)

\* It does not look for the end of the node's name.
FindChildPrefix(n, name) ==
  LET found == {i \in DOMAIN nodes[n].kids :
                  LET m == nodes[nodes[n].kids[i]].name IN Len(m) >= Len(name) /\ SubSeq(m, 1, Len(name)) = name}
  IN  IF found = {} THEN 0 ELSE nodes[n].kids[CHOOSE i \in found : \A j \in found : i <= j]
find_child_node(n, name) ==
  LET found == {i \in DOMAIN nodes[n].kids : nodes[nodes[n].kids[i]].name = name}
  IN  IF found = {} THEN 0 ELSE nodes[n].kids[CHOOSE i \in found : \A j \in found : i <= j]

\* vfs_get_node: the last node found and the components after it; node 0 for a path that is
\* empty or blank.  A mounted node ends the search.  The test for the end of the path never
\* holds (strchr finds the terminator), so a walk that found every component goes on with what
\* lies behind them.
NodeAt(names) ==
  LET At[k \in 0 .. Len(names)] ==
        IF k = 0 THEN Root
        ELSE IF At[k - 1] = 0 \/ nodes[At[k - 1]].type # "dir" THEN 0
        ELSE find_child_node(At[k - 1], names[k])
      Depth(a) == CHOOSE k \in DOMAIN a : a[k] # 0 /\ \A j \in DOMAIN a : j > k => a[j] = 0
  IN  Of(At, LAMBDA a : Of(Depth(a), LAMBDA d : [node |-> a[d], remaining |-> SubSeq(names, d + 1, Len(names))]))
vfs_get_node(path) ==
  LET Walk(p) == Of(NodeAt(Components(p)), LAMBDA r : IF r.remaining # <<>> \/ p = <<Slash>> THEN r
                                                      ELSE NodeAt(Components(p \o AfterText)))
  IN  Of(preprocess_path(path), LAMBDA p : IF p = <<>> THEN [node |-> 0, remaining |-> <<>>] ELSE Walk(p))

\* The node found for a path and the inode in it; inode 0 if there is none.
Mounted(r) == r.node # 0 /\ nodes[r.node].type = "ext2"
Found(path) ==
  Of(vfs_get_node(path),
     LAMBDA r : [node |-> r.node, remaining |-> r.remaining, mounted |-> Mounted(r),
                 inode |-> IF Mounted(r) THEN ext2_get_inode_number_at_path(r.remaining) ELSE 0])

\* vfs_path_exists: 0 no, 1 a directory, 2 a file, -1 something else in ext2.
ModeCode(mode) == IF mode = "dir" THEN 1 ELSE IF mode = "file" THEN 2 ELSE -1
vfs_path_exists(path) ==
  Of(Found(path),
     LAMBDA r : CASE r.mounted /\ r.inode # 0 -> ModeCode(ext2_read_inode_metadata(r.inode).mode)
                  [] ~ r.mounted /\ r.node # 0 /\ r.remaining = <<>> -> 1
                  [] OTHER -> 0)

\* vfs_list_dir: a path that goes on after a directory lists that directory.
vfs_list_dir(path) ==
  Of(Found(path),
     LAMBDA r : CASE r.mounted /\ r.inode # 0 -> ext2_list_dir(r.inode)
                  [] ~ r.mounted /\ r.node # 0 ->
                       Reverse([i \in DOMAIN nodes[r.node].kids |-> nodes[nodes[r.node].kids[i]].name])
                  [] OTHER -> <<>>)

\* vfs_get_file_size and vfs_read: 0 for a directory of the tree, -1 as size_t for no path.
NoBytes(r) == IF r.node # 0 /\ ~ r.mounted THEN 0 ELSE Neg(1)
vfs_get_file_size(path) ==
  Of(Found(path), LAMBDA r : IF r.inode # 0 THEN ext2_get_inode_size(r.inode) ELSE NoBytes(r))

vfs_read(path, offset, count) ==
  Of(Found(path),
     LAMBDA r : IF r.inode = 0 THEN [n |-> NoBytes(r), bytes |-> <<>>, hangs |-> FALSE]
                ELSE [n |-> CountRead(r.inode, offset, count), bytes |-> ext2_read_inode(r.inode, offset, count),
                      hangs |-> Runaway(r.inode, offset, count)])

------------------------------------------------------------------------------
\* Descriptors, as functions of a table.

FreeFd(arr) ==
  LET free == {i \in Fds : arr[i].file_path = NULL}
  IN  IF free = {} THEN -1 ELSE CHOOSE i \in free : \A j \in free : i <= j

\* open: the path is kept without its end.
Opened(arr, fd, path, flags) ==
  [arr EXCEPT ![fd] = [file_path |-> path \o AfterText, current_offset |-> 0, flags |-> flags]]
Closed(arr, fd) == [arr EXCEPT ![fd].file_path = NULL]

\* lseek: the new offset, or the old one with an answer of -3.  The test for SEEK_END compares
\* an unsigned number with 0.
SoughtOffset(cur, size, offset, whence) ==
  CASE whence = "SEEK_SET" -> IF offset < size THEN offset ELSE cur
    [] whence = "SEEK_CUR" -> IF (offset + cur) % SIZE_T < size THEN (offset + cur) % SIZE_T ELSE cur
    [] whence = "SEEK_END" -> (size + Neg(offset) + Neg(1)) % SIZE_T
Sought(arr, fd, offset, whence) ==
  Of(vfs_get_file_size(arr[fd].file_path),
     LAMBDA size : [arr EXCEPT ![fd].current_offset = SoughtOffset(@, size, offset, whence)])

\* read and write: the offset moves by one less than they return.
Moved(arr, fd, n) == [arr EXCEPT ![fd].current_offset = (@ + n + Neg(1)) % SIZE_T]

CanRead(arr, fd) == arr[fd].flags \in {O_RDONLY, O_RDWR} /\ arr[fd].file_path # NULL
CanWrite(arr, fd) == arr[fd].flags \in {O_WRONLY, O_RDWR} /\ arr[fd].file_path # NULL

Read(arr, fd, count) == vfs_read(arr[fd].file_path, arr[fd].current_offset, count)

------------------------------------------------------------------------------
Nothing == [op |-> "none"]

Init ==
  /\ nodes = <<[type |-> "dir", name |-> Slash, kids |-> <<>>]>>
  /\ fdp_arr = [fd \in Fds |-> [file_path |-> NULL, current_offset |-> 0, flags |-> 0]]
  /\ curr_wd = <<Slash>> /\ here = Top /\ last = Nothing /\ hung = FALSE

\* vfs_mkdir: only the last component may be new, in a directory that is not mounted.  Its name
\* starts one behind the last separator found; without one, that drops the first letter.
NewName(path, r) ==
  IF path[1] # Slash /\ r.node = Root THEN Tail(r.remaining[1]) ELSE r.remaining[1]
vfs_mkdir(path) ==
  /\ ~ hung /\ Len(nodes) < MaxNodes
  /\ \E r \in {vfs_get_node(path)} :
       /\ r.node # 0 /\ ~ Mounted(r) /\ Len(r.remaining) = 1
       /\ nodes' = Append([nodes EXCEPT ![r.node].kids = <<Len(nodes) + 1>> \o @],
                          [type |-> "dir", name |-> NewName(path, r), kids |-> <<>>])
  /\ last' = Nothing /\ UNCHANGED <<fdp_arr, curr_wd, here, hung>>

\* mount_file_system: on an empty directory.
mount_file_system(path) ==
  /\ ~ hung
  /\ \E r \in {vfs_get_node(path)} :
       /\ r.node # 0 /\ r.remaining = <<>> /\ nodes[r.node].type = "dir" /\ nodes[r.node].kids = <<>>
       /\ nodes' = [nodes EXCEPT ![r.node].type = "ext2"]
  /\ last' = Nothing /\ UNCHANGED <<fdp_arr, curr_wd, here, hung>>

open(path, flags) ==
  /\ ~ hung /\ vfs_path_exists(path) # 0 /\ FreeFd(fdp_arr) # -1
  /\ fdp_arr' = Opened(fdp_arr, FreeFd(fdp_arr), path, flags)
  /\ last' = Nothing /\ UNCHANGED <<nodes, curr_wd, here, hung>>

close(fd) ==
  /\ ~ hung /\ fdp_arr[fd].file_path # NULL
  /\ fdp_arr' = Closed(fdp_arr, fd)
  /\ last' = Nothing /\ UNCHANGED <<nodes, curr_wd, here, hung>>

read(fd, count) ==
  /\ ~ hung /\ CanRead(fdp_arr, fd)
  /\ \E r \in {Read(fdp_arr, fd, count)} :
       \/ /\ r.hangs
          /\ hung' = TRUE /\ last' = Nothing /\ UNCHANGED fdp_arr
       \/ /\ ~ r.hangs
          /\ fdp_arr' = Moved(fdp_arr, fd, r.n)
          /\ last' = [op |-> "read", path |-> fdp_arr[fd].file_path,
                      offset |-> fdp_arr[fd].current_offset, count |-> count, bytes |-> r.bytes]
          /\ UNCHANGED hung
  /\ UNCHANGED <<nodes, curr_wd, here>>

\* vfs_write writes nothing.
write(fd) ==
  /\ ~ hung /\ CanWrite(fdp_arr, fd)
  /\ fdp_arr' = Moved(fdp_arr, fd, 0)
  /\ last' = Nothing /\ UNCHANGED <<nodes, curr_wd, here, hung>>

lseek(fd, offset, whence) ==
  /\ ~ hung /\ fdp_arr[fd].file_path # NULL
  /\ fdp_arr' = Sought(fdp_arr, fd, offset, whence)
  /\ last' = Nothing /\ UNCHANGED <<nodes, curr_wd, here, hung>>

------------------------------------------------------------------------------
\* readelf.

\* A seek and a read: the outcomes for the table, what was read, whether it hangs.
ReadAt(s, fd, offset, count) ==
  UNION {{IF s.hung \/ r.hangs THEN [s EXCEPT !.hung = TRUE, !.bytes = <<>>]
          ELSE [arr |-> Moved(arr, fd, r.n), bytes |-> r.bytes, hung |-> FALSE] : r \in {Read(arr, fd, count)}}
         : arr \in {Sought(s.arr, fd, offset, "SEEK_SET")}}

FileBytes(ino, offset, n) == [j \in 0 .. n - 1 |-> <<ino, offset + j>>]

\* The ELF files whose header, and whose first program header, these bytes are.
HeaderOf(bytes) == {ino \in DOMAIN Elf : bytes = FileBytes(ino, 0, SizeofEhdr)}
ProgramOf(bytes) == {ino \in DOMAIN Elf : /\ bytes = FileBytes(ino, Elf[ino].phoff, Elf[ino].phentsize)
                                          /\ Elf[ino].p_type = "PT_LOAD"}

\* readelf_ps that reads the segment from where the program header ended.
readelf_psOnward(s, fd, ino) ==
  UNION {IF ino \in ProgramOf(phdr.bytes) THEN {[phdr EXCEPT !.bytes = Read(phdr.arr, fd, Elf[ino].p_filesz).bytes]}
         ELSE {[phdr EXCEPT !.bytes = <<>>]}
         : phdr \in ReadAt(s, fd, Elf[ino].phoff, Elf[ino].phentsize)}
readelf_ps(s, fd, ino) ==
  UNION {IF ino \in ProgramOf(phdr.bytes) THEN ReadAt(phdr, fd, Elf[ino].p_offset, Elf[ino].p_filesz)
         ELSE {[phdr EXCEPT !.bytes = <<>>]}
         : phdr \in ReadAt(s, fd, Elf[ino].phoff, Elf[ino].phentsize)}

\* readelf: the descriptor is closed only when all went well.  Without one (open gave -1) it
\* looks at the entry before the table, taken to be empty: nothing is read.
readelf(path) ==
  /\ ~ hung /\ vfs_path_exists(path) # 0
  /\ \E fd \in {FreeFd(fdp_arr)} \ {-1} :
     \E opened \in {Opened(fdp_arr, fd, path, O_RDONLY)} :
     \E header \in ReadAt([arr |-> opened, bytes |-> <<>>, hung |-> FALSE], fd, 0, SizeofEhdr) :
       \/ /\ HeaderOf(header.bytes) = {}
          /\ fdp_arr' = header.arr /\ hung' = header.hung /\ last' = Nothing
       \/ \E ino \in HeaderOf(header.bytes) : \E ps \in readelf_ps(header, fd, ino) :
            /\ hung' = ps.hung
            /\ IF ps.bytes = <<>> THEN fdp_arr' = ps.arr /\ last' = Nothing
               ELSE fdp_arr' = Closed(ps.arr, fd) /\ last' = [op |-> "elf", path |-> path, bytes |-> ps.bytes]
  /\ UNCHANGED <<nodes, curr_wd, here>>

------------------------------------------------------------------------------
\* The shell.

\* The path that a word of a command means.
Joined(word) ==
  preprocess_path(IF word[1] = Slash THEN word ELSE curr_wd \o <<Slash>> \o AfterText \o word)

\* The places that names lead to from a place: a node of the tree, and an inode where the node
\* is mounted.  The reference for here and for what paths mean.
EntriesOf(dirs) == UNION {Range(ext2_read_inode_metadata(d).entries) : d \in dirs}
Follow(places, names) ==
  LET From(p, name) ==
        IF nodes[p[1]].type = "ext2" THEN {<<p[1], e.inode>> : e \in {x \in EntriesOf({p[2]}) : x.name = name /\ x.inode # 0}}
        ELSE {<<n, EXT2_ROOT_INODE>> : n \in {k \in Range(nodes[p[1]].kids) : nodes[k].name = name}}
      At[k \in 0 .. Len(names)] ==
        IF k = 0 THEN places ELSE UNION {From(p, names[k]) : p \in At[k - 1]}
  IN  At[Len(names)]

shcmd_cd(word) ==
  /\ ~ hung
  /\ \E path \in {Joined(word)} : vfs_path_exists(path) = 1 /\ Len(path) <= MaxPath /\ curr_wd' = path
  /\ here' = Follow(IF word[1] = Slash THEN Top ELSE here, Components(preprocess_path(word)))
  /\ last' = Nothing /\ UNCHANGED <<nodes, fdp_arr, hung>>

\* shcmd_cat: the size it asks for is where SEEK_END leads to, one less than the file's.
shcmd_cat(word) ==
  /\ ~ hung
  /\ \E path \in {Joined(word)}, fd \in {FreeFd(fdp_arr)} \ {-1} :
       /\ vfs_path_exists(path) = 2
       /\ \E opened \in {Opened(fdp_arr, fd, path, O_RDONLY)} :
          \E arr \in {Sought(opened, fd, 0, "SEEK_END")} :
          \E s \in ReadAt([arr |-> arr, bytes |-> <<>>, hung |-> FALSE], fd, 0, arr[fd].current_offset) :
            /\ fdp_arr' = IF s.hung THEN s.arr ELSE Closed(s.arr, fd)
            /\ hung' = s.hung
  /\ last' = Nothing /\ UNCHANGED <<nodes, curr_wd, here>>

\* Only kmain makes directories and mounts, before it starts the first program.
Booting == last = Nothing /\ curr_wd = <<Slash>> /\ \A fd \in Fds : fdp_arr[fd].file_path = NULL

Next ==
  \/ \E path \in NewDirs : Booting /\ vfs_mkdir(path)
  \/ \E path \in NewDirs : Booting /\ mount_file_system(path)
  \/ \E path \in Paths : readelf(path) \/ \E flags \in {O_RDONLY, O_WRONLY} : open(path, flags)
  \/ \E fd \in Fds : \/ close(fd)
                     \/ write(fd)
                     \/ \E n \in Counts : read(fd, n)
                     \/ \E n \in Offsets, whence \in {"SEEK_SET", "SEEK_CUR", "SEEK_END"} : lseek(fd, n, whence)
  \/ \E word \in Words : shcmd_cd(word) \/ shcmd_cat(word)

Spec == Init /\ [][Next]_vars

------------------------------------------------------------------------------
\* What paths mean: what following their names from the top leads to.

PlacesOf(path) == Follow(Top, Components(preprocess_path(path)))
InExt2(p) == nodes[p[1]].type = "ext2"
Kind(p) == IF InExt2(p) THEN ext2_read_inode_metadata(p[2]).mode ELSE "dir"
IsA(path, kind) == \E p \in PlacesOf(path) : Kind(p) = kind

\* No component of the path begins like another name in its ext2 directory.
Unambiguous(path) ==
  \A names \in {Components(preprocess_path(path))} : \A k \in DOMAIN names :
    \A p \in Follow(Top, SubSeq(names, 1, k - 1)) : InExt2(p) =>
      \A e \in EntriesOf({p[2]}) : SameName(e, names[k]) => e.name = names[k]

\* The names in the directory that a path leads to.
Listing(path) ==
  UNION {IF InExt2(p) THEN {e.name : e \in EntriesOf({p[2]})} ELSE {nodes[k].name : k \in Range(nodes[p[1]].kids)}
         : p \in PlacesOf(path)}

\* path_exists tells nothing, a directory and a file apart, however directories are made, mounted
\* and spelled: names lead to one place, also through a mount (vfs.c:438), with slashes to spare
\* and although the walk reads behind the path (vfs.c:467); and list_dir shows a directory's
\* names.  In ext2 it holds for names that do not begin like another (ext2.c:49).
PathMeaning ==
  \A path \in Paths \cup NewDirs :
    /\ Cardinality(PlacesOf(path)) <= 1
    /\ Unambiguous(path) =>
         \A code \in {vfs_path_exists(path)} :
           /\ code = 0 <=> PlacesOf(path) = {}
           /\ code = 1 <=> IsA(path, "dir")
           /\ code = 2 <=> IsA(path, "file")
           /\ code = 1 => Range(vfs_list_dir(path)) = Listing(path)

\* The header's answers of path_exists (vfs.h:73-75): 0 for nothing, 1 for a directory, 2
\* otherwise.  For an inode that is neither file nor directory the code answers -1 (vfs.c:119).
DocumentedCodes ==
  \A path \in Paths : Unambiguous(path) =>
    vfs_path_exists(path) = IF PlacesOf(path) = {} THEN 0 ELSE IF IsA(path, "dir") THEN 1 ELSE 2

\* All entries of a directory are gone through until a match is found (ext2.c:47): what is found
\* for a name is the entry with that name.  The comparison stops at the end of the shorter name.
EntryOfThatName ==
  \A path \in Paths : \A p \in PlacesOf(path) : InExt2(p) => Found(path).inode = p[2]

\* What the path of an open file names, and nothing else begins like.
FileNamed(path, ino) == Unambiguous(path) /\ \E p \in PlacesOf(path) : InExt2(p) /\ p[2] = ino

\* The blocks with these bytes of a file are on sectors that can be read.
Readable(ino, offset, n) ==
  \A k \in DOMAIN Blocks[ino] :
    (k - 1) * block_size < offset + n /\ k * block_size > offset =>
      ~ ReadFails(OffsetOfBlock(Blocks[ino][k]), block_size)

\* read delivers the bytes of the file at the descriptor's offset, through direct and indirect
\* blocks, after any calls on the descriptor, if it starts with a block or stays inside a sector:
\* ext2.c:164 does not look at where in a block it starts, nor disk.c:55 where in a sector.  No
\* read of another file or block that failed before it shows; its own failure is not reported.
ReadDelivers ==
  last.op = "read" =>
    \A ino \in DOMAIN Blocks : FileNamed(last.path, ino) =>
      LET n == CountRead(ino, last.offset, last.count)
      IN  /\ Readable(ino, last.offset, n)
          /\ last.offset % block_size = 0 \/ (last.offset % SECTOR_SIZE) + n <= SECTOR_SIZE
          => last.bytes = FileBytes(ino, last.offset, n)

\* A program that is loaded is the program's segment, byte for byte, although every read leaves
\* the offset one short (file_op.c:58).  A segment that starts inside a block is read as ext2.c:164 reads.
ElfLoadsSegment ==
  last.op = "elf" =>
    \A ino \in DOMAIN Elf :
      /\ FileNamed(last.path, ino)
      /\ Elf[ino].p_offset % block_size = 0 /\ Readable(ino, Elf[ino].p_offset, Elf[ino].p_filesz)
      => last.bytes = FileBytes(ino, Elf[ino].p_offset, Elf[ino].p_filesz)

================================================================================
