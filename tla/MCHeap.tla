------------------------------- MODULE MCHeap --------------------------------
(***************************************************************************)
(* The heap on a small instance, with the properties that follow a list    *)
(* from its head to its end.                                               *)
(***************************************************************************)
EXTENDS Heap

MaxChunks == MaxEnd \div MinChunk

\* What is met by following fd from h; NULL is among it when the walk ends.
ReachedFrom(h) ==
  LET at[i \in 0..MaxChunks] ==
        IF i = 0 THEN h ELSE IF at[i - 1] = NULL THEN NULL ELSE fd[at[i - 1]]
  IN  {at[i] : i \in 0..MaxChunks}

\* A walk of the free list or of the allocated list ends and meets exactly the
\* free and exactly the allocated chunks: malloc finds whatever has been freed
\* and free finds whatever has been allocated, until a stale bk is used.
ListsComplete ==
  ~ damaged =>
    /\ ReachedFrom(mchunk) = {c \in Chunks : Allocated(c)} \cup {NULL}
    /\ ReachedFrom(unsorted_bin_head) = {c \in Chunks : ~ Allocated(c)} \cup {NULL}

\* Every malloc and every free returns, until a stale bk is used: an undamaged
\* walk reaches the end of its list.
CallsReturn == (pc # "idle") ~> (pc = "idle" \/ damaged)

\* A block found by free is unlinked from the allocated list and linked to the free list
\* (docs/Heap.md:76), so between calls no chunk is on both.  A chunk that malloc has reused is
\* unlinked through the bk it had on the free list (malloc.c:85 stores fd only): it stays the head
\* of mchunk, and malloc and free walk into each other's list.
ListsShareNoChunk ==
  pc = "idle" => ReachedFrom(mchunk) \cap ReachedFrom(unsorted_bin_head) \subseteq {NULL}

\* All chunks lie in the memory that init_heap allocates in advance (malloc.c:57).  Nobody
\* compares the break with heap_total_size.
ChunksInsideHeap == \A c \in Chunks : c + size[c] <= Base + TotalSize
==============================================================================
