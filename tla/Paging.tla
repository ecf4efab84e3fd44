-------------------------------- MODULE Paging --------------------------------
(***************************************************************************)
(* Page frames and page tables: kernel/arch/x86_64/mmu/pframe.c, page.c.   *)
(*                                                                         *)
(* Memory is counted in pages.  Frame f is the physical page f; what it    *)
(* holds matters only when it is used as a table: mem[f] is what it is     *)
(* then, the function from the indexes of its present entries to frames.   *)
(* A frame nobody has cleared holds what it held before.  A virtual page is *)
(* reached by four indexes below a PML4.  The code edits the tables that   *)
(* the recursive entry of the PML4 in cr3 leads to, which need not be the  *)
(* tables in use.  The frame allocator keeps one byte per frame, the pid   *)
(* of its owner, 0 for a free frame.  Flags and the TLB are left out: the  *)
(* code invalidates what it changes.                                       *)
(***************************************************************************)
EXTENDS Integers, FiniteSets, Sequences

CONSTANTS
  NumPages,   \* frames of the machine, MEMORY_SIZE_PAGES
  Radix       \* entries of a table, 512 in the code

ASSUME PagingAssumption == NumPages \in Nat /\ Radix \in Nat /\ Radix > 1

Frame == 0 .. NumPages - 1
Index == 0 .. Radix - 1
REC == Radix - 1            \* PML4_RECURSIVE_ENTRY_NUM
NoFrame == -1               \* no translation; NULL of allocate_page

\* The indexes of page v in PML4, PDPT, PD and PT.
PageIndexesUnmasked(v) ==
  <<v \div (Radix * Radix * Radix), v \div (Radix * Radix), v \div Radix, v>>
PageIndexes(v) ==
  <<(v \div (Radix * Radix * Radix)) % Radix, (v \div (Radix * Radix)) % Radix,
    (v \div Radix) % Radix, v % Radix>>

\* Entry i of the table in frame f.
Entry(mem, f, i) == IF f \in DOMAIN mem /\ i \in DOMAIN mem[f] THEN mem[f][i] ELSE NoFrame

SetEntry(mem, f, i, to) ==
  [mem EXCEPT ![f] = [j \in DOMAIN mem[f] \cup {i} |-> IF j = i THEN to ELSE mem[f][j]]]

\* Frame f becomes a table without entries.
ClearTable(mem, f) == [mem EXCEPT ![f] = <<>>]

\* is_page_mapped: the frame that page v stands for under the PML4 in frame root.
Walk(mem, root, v) ==
  LET ix == PageIndexes(v)
  IN  Entry(mem, Entry(mem, Entry(mem, Entry(mem, root, ix[1]), ix[2]), ix[3]), ix[4])

\* allocate_page: the first free frame.
FreeFrames(bitmap) == {f \in Frame : bitmap[f] = 0}
allocate_page(bitmap) ==
  IF FreeFrames(bitmap) = {} THEN NoFrame
  ELSE CHOOSE f \in FreeFrames(bitmap) : \A g \in FreeFrames(bitmap) : f <= g

\* Its mark: the frame belongs to pid now.
Marked(bitmap, f, pid) == [bitmap EXCEPT ![f] = pid]

\* One of the three levels of map_page: go from table s.at to the table its entry i leads
\* to, which is allocated for pid and cleared if there is none.
EnsureTable(s, i, pid) ==
  LET next == Entry(s.mem, s.at, i)
      new  == allocate_page(s.bitmap)
  IN  IF ~ s.ok THEN s
      ELSE IF next # NoFrame THEN [s EXCEPT !.at = next]
      ELSE IF new = NoFrame THEN [s EXCEPT !.ok = FALSE]
      ELSE [mem    |-> ClearTable(SetEntry(s.mem, s.at, i, new), new),
            bitmap |-> Marked(s.bitmap, new, pid),
            at     |-> new,
            ok     |-> TRUE]

\* map_page below the PML4 in frame root, as the set of its one outcome.  ok is FALSE when it
\* returned for lack of a frame.
map_page(mem, bitmap, root, v, p, pid) ==
  LET ix == PageIndexes(v)
      S1 == {EnsureTable([mem |-> mem, bitmap |-> bitmap, at |-> root, ok |-> TRUE], ix[1], pid)}
      S2 == {EnsureTable(s, ix[2], pid) : s \in S1}
      S3 == {EnsureTable(s, ix[3], pid) : s \in S2}
  IN  {IF s.ok THEN [s EXCEPT !.mem = SetEntry(@, s.at, ix[4], p)] ELSE s : s \in S3}

\* unmap_page below root, of a page that is mapped there.
unmap_page(mem, root, v) ==
  LET ix == PageIndexes(v)
      pt == Entry(mem, Entry(mem, Entry(mem, root, ix[1]), ix[2]), ix[3])
  IN  [mem EXCEPT ![pt] = [i \in DOMAIN mem[pt] \ {ix[4]} |-> mem[pt][i]]]

\* The tables below a PML4 that some pages need, each by the indexes that lead to it.
TablesFor(pages) ==
  UNION {LET ix == PageIndexes(v)
         IN  {<<ix[1]>>, <<ix[1], ix[2]>>, <<ix[1], ix[2], ix[3]>>} : v \in pages}

\* The entries of the tables in S, and the tables these lead to.  The recursive entry of a
\* PML4 leads up, not down, and is left out by giving it as skip.
EntriesOf(mem, S, skip) == {e \in S \X (Index \ skip) : Entry(mem, e[1], e[2]) # NoFrame}
TablesBelow(mem, S, skip) == {mem[e[1]][e[2]] : e \in EntriesOf(mem, S, skip)}
==============================================================================
