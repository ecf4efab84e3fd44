-------------------------------- MODULE Heap ---------------------------------
(***************************************************************************)
(* The kernel heap: libc/memory/malloc.c, free.c, heap.c and aalign of     *)
(* memory.c.  The heap is a bump area (heap_end) carved into chunks that   *)
(* are never split, merged or returned; every chunk is on one of two       *)
(* doubly linked lists, mchunk (allocated) or unsorted_bin_head (free).    *)
(*                                                                         *)
(* The links are kept as the code keeps them, in the chunk headers: fd and *)
(* bk map a chunk's address to the two pointers stored there.  A call is a *)
(* sequence of steps, one per iteration of its list walk, so that a walk   *)
(* over a damaged list can go on for ever, as it does in the code.  The    *)
(* heap has one caller at a time: interrupt handlers do not allocate and   *)
(* the scheduler never preempts ring 0.                                    *)
(*                                                                         *)
(* A chunk's data pointer is set once, to its address + 32, and never      *)
(* changes: it is the operator Data, not a field.  Payload bytes (the      *)
(* memsets) and mchunk_prev_size, which nothing reads, are left out.       *)
(***************************************************************************)
EXTENDS Integers, FiniteSets

CONSTANTS
  Requests,   \* sizes the callers pass to malloc
  HeapBase,   \* base_addr passed to init_heap
  HeapSize,   \* size passed to init_heap
  MaxEnd      \* bound: no malloc is called if it could push heap_end beyond it

ASSUME HeapAssumption ==
  /\ Requests \subseteq Nat
  /\ HeapBase \in Nat \ {0}
  /\ HeapSize \in Nat
  /\ MaxEnd \in Nat

NULL == 0
HeaderSize == 32     \* sizeof(malloc_chunk), packed
MinChunk == 64       \* HEAP_CHUNK_MIN_SIZE_BYTES, also sizeof(malloc_state)

aalign(addr, alignment) ==
  IF alignment = 0 \/ addr % alignment = 0 THEN addr
  ELSE (addr \div alignment + 1) * alignment

VARIABLES
  heap_end,           \* malloc_state.heap_end
  mchunk,             \* head of the allocated list
  unsorted_bin_head,  \* head of the free list
  size,               \* mchunk_size of every chunk carved so far
  fd, bk,             \* the links in every chunk's header
  pc,                 \* "idle", or the call in progress
  arg,                \* that call's argument
  cur,                \* the walk's cursor
  live,               \* ghost: pointer in a caller's hands |-> bytes it asked for
  damaged             \* ghost: a chunk was unlinked through a stale bk

lists == <<mchunk, unsorted_bin_head, fd, bk>>
vars == <<heap_end, mchunk, unsorted_bin_head, size, fd, bk, pc, arg, cur, live, damaged>>

Base == aalign(HeapBase, MinChunk)        \* g_heap_malloc_state_base
TotalSize == aalign(HeapSize, MinChunk)   \* heap_total_size
Chunks == DOMAIN size
Data(c) == c + HeaderSize

\* f with a cell written through a pointer that the code has tested for NULL.
Put(f, p, v) == IF p = NULL THEN f ELSE [f EXCEPT ![p] = v]

\* f with the header of the chunk just carved at a.
Extend(f, a, v) == [c \in DOMAIN f \cup {a} |-> IF c = a THEN v ELSE f[c]]

------------------------------------------------------------------------------
\* init_heap: an empty heap right after its malloc_state.
Init ==
  /\ heap_end = Base + MinChunk
  /\ mchunk = NULL /\ unsorted_bin_head = NULL
  /\ size = [c \in {} |-> 0] /\ fd = [c \in {} |-> NULL] /\ bk = [c \in {} |-> NULL]
  /\ pc = "idle" /\ arg = 0 /\ cur = NULL
  /\ live = [p \in {} |-> 0]
  /\ damaged = FALSE

Max2(m, n) == IF m >= n THEN m ELSE n

\* The request rounded as malloc rounds it, and the chunk carved for it.
Rounded(n) == aalign(n, 16)
ChunkSize(n) == HeaderSize + Max2(MinChunk - HeaderSize, Rounded(n))

\* sbrk: how far it moves heap_end; it never looks at heap_total_size.
SbrkUnaligned(increment) == increment
SbrkData(increment) == aalign(increment - HeaderSize, MinChunk)
Sbrk(increment) == aalign(increment, MinChunk)

\* malloc(n) begins its walk at the head of the free list.
MallocCall(n) ==
  /\ pc = "idle"
  /\ heap_end + Sbrk(ChunkSize(n)) <= MaxEnd
  /\ pc' = "malloc" /\ arg' = n /\ cur' = unsorted_bin_head
  /\ UNCHANGED <<heap_end, lists, size, live, damaged>>

\* The first-fit test on a free chunk.
FitsWithoutHeader(c, n) == size[c] >= Rounded(n)
Fits(c, n) == size[c] >= Rounded(n) + HeaderSize

MallocWalkHeadOnly ==
  /\ pc = "malloc" /\ cur # NULL
  /\ ~ Fits(cur, arg)
  /\ cur' = NULL
  /\ UNCHANGED <<heap_end, lists, size, pc, arg, live, damaged>>

MallocWalk ==
  /\ pc = "malloc" /\ cur # NULL
  /\ ~ Fits(cur, arg)
  /\ cur' = fd[cur]
  /\ UNCHANGED <<heap_end, lists, size, pc, arg, live, damaged>>

\* malloc returns the block of chunk c to its caller.
MallocReturn(c) ==
  /\ live' = [p \in DOMAIN live \cup {Data(c)} |->
                 IF p = Data(c) THEN arg ELSE live[p]]
  /\ pc' = "idle" /\ arg' = 0 /\ cur' = NULL
  /\ UNCHANGED damaged

\* A fitting chunk leaves the free list and becomes the head of mchunk.  Its bk
\* is not written: only fd is stored back into a reused header (malloc.c:85,91).
MallocReuseNoUnlink ==
  /\ pc = "malloc" /\ cur # NULL
  /\ Fits(cur, arg)
  /\ fd' = [fd EXCEPT ![cur] = mchunk]
  /\ bk' = Put(bk, mchunk, cur)
  /\ mchunk' = cur
  /\ MallocReturn(cur)
  /\ UNCHANGED <<heap_end, size, unsorted_bin_head>>

MallocReuse ==
  /\ pc = "malloc" /\ cur # NULL
  /\ Fits(cur, arg)
  /\ fd' = [Put(fd, bk[cur], fd[cur]) EXCEPT ![cur] = mchunk]
  /\ unsorted_bin_head' = IF bk[cur] = NULL THEN fd[cur] ELSE unsorted_bin_head
  /\ bk' = Put(Put(bk, fd[cur], bk[cur]), mchunk, cur)
  /\ mchunk' = cur
  /\ MallocReturn(cur)
  /\ UNCHANGED <<heap_end, size>>

\* No free chunk fits: carve a new one at the break and link it at the head.
MallocExpand ==
  /\ pc = "malloc" /\ cur = NULL
  /\ LET new == heap_end
     IN  /\ heap_end' = heap_end + Sbrk(ChunkSize(arg))
         /\ size' = Extend(size, new, ChunkSize(arg))
         /\ fd' = Extend(fd, new, mchunk)
         /\ bk' = Extend(Put(bk, mchunk, new), new, NULL)
         /\ mchunk' = new
         /\ MallocReturn(new)
  /\ UNCHANGED unsorted_bin_head

------------------------------------------------------------------------------
\* free(p) begins its walk at the head of the allocated list.  Callers pass
\* pointers they own, NULL, and pointers already freed (vfs.c frees a searched
\* path twice when a lookup fails).
FreeCall(p) ==
  /\ pc = "idle"
  /\ pc' = "free" /\ arg' = p /\ cur' = mchunk
  /\ UNCHANGED <<heap_end, lists, size, live, damaged>>

FreeMatchesBelow(c) == Data(c) <= arg
FreeMatches(c) == Data(c) = arg

FreeWalk ==
  /\ pc = "free" /\ cur # NULL
  /\ ~ FreeMatches(cur)
  /\ cur' = fd[cur]
  /\ UNCHANGED <<heap_end, lists, size, pc, arg, live, damaged>>

FreeReturn ==
  /\ live' = [p \in DOMAIN live \ {arg} |-> live[p]]
  /\ pc' = "idle" /\ arg' = 0 /\ cur' = NULL

\* The chunk leaves mchunk, through whatever its bk holds, and becomes the head
\* of the free list.
FreeFoundOneWay ==
  /\ pc = "free" /\ cur # NULL
  /\ FreeMatches(cur)
  /\ fd' = [Put(fd, bk[cur], fd[cur]) EXCEPT ![cur] = unsorted_bin_head]
  /\ mchunk' = IF bk[cur] = NULL THEN fd[cur] ELSE mchunk
  /\ bk' = Put([bk EXCEPT ![cur] = NULL], unsorted_bin_head, cur)
  /\ unsorted_bin_head' = cur
  /\ damaged' = (damaged \/ (cur = mchunk /\ bk[cur] # NULL))
  /\ FreeReturn
  /\ UNCHANGED <<heap_end, size>>

FreeFoundNoUnlink ==
  /\ pc = "free" /\ cur # NULL
  /\ FreeMatches(cur)
  /\ fd' = [fd EXCEPT ![cur] = unsorted_bin_head]
  /\ bk' = Put([bk EXCEPT ![cur] = NULL], unsorted_bin_head, cur)
  /\ unsorted_bin_head' = cur
  /\ damaged' = (damaged \/ (cur = mchunk /\ bk[cur] # NULL))
  /\ FreeReturn
  /\ UNCHANGED <<heap_end, size, mchunk>>

FreeFound ==
  /\ pc = "free" /\ cur # NULL
  /\ FreeMatches(cur)
  /\ fd' = [Put(fd, bk[cur], fd[cur]) EXCEPT ![cur] = unsorted_bin_head]
  /\ mchunk' = IF bk[cur] = NULL THEN fd[cur] ELSE mchunk
  /\ bk' = Put([Put(bk, fd[cur], bk[cur]) EXCEPT ![cur] = NULL], unsorted_bin_head, cur)
  /\ unsorted_bin_head' = cur
  /\ damaged' = (damaged \/ (cur = mchunk /\ bk[cur] # NULL))
  /\ FreeReturn
  /\ UNCHANGED <<heap_end, size>>

\* The walk ends without a match: free ignores the pointer.
FreeMiss ==
  /\ pc = "free" /\ cur = NULL
  /\ FreeReturn
  /\ UNCHANGED <<heap_end, lists, size, damaged>>

Step == MallocWalk \/ MallocReuse \/ MallocExpand \/ FreeWalk \/ FreeFound \/ FreeMiss

Next ==
  \/ \E n \in Requests : MallocCall(n)
  \/ \E p \in {NULL} \cup {Data(c) : c \in Chunks} : FreeCall(p)
  \/ Step

Spec == Init /\ [][Next]_vars

\* A call in progress runs on: nothing else uses the CPU until it returns.
FairSpec == Spec /\ WF_vars(Step)

------------------------------------------------------------------------------
\* The state of the heap: aligned, every pointer NULL or a chunk of the heap.
TypeOK ==
  /\ heap_end \in Nat /\ heap_end % MinChunk = 0
  /\ Chunks \subseteq Nat \ {NULL}
  /\ \A c \in Chunks : c % MinChunk = 0
  /\ size \in [Chunks -> Nat]
  /\ fd \in [Chunks -> Chunks \cup {NULL}]
  /\ bk \in [Chunks -> Chunks \cup {NULL}]
  /\ mchunk \in Chunks \cup {NULL}
  /\ unsorted_bin_head \in Chunks \cup {NULL}
  /\ pc \in {"idle", "malloc", "free"}
  /\ arg \in Nat
  /\ cur \in Chunks \cup {NULL}
  /\ live \in [DOMAIN live -> Nat]
  /\ DOMAIN live \subseteq {Data(c) : c \in Chunks}
  /\ damaged \in BOOLEAN

\* sbrk carves every chunk, of 64 bytes or more, out of fresh memory after the
\* malloc_state: chunks never overlap each other or the unused rest of the heap,
\* damaged lists or not.
ChunksDisjoint ==
  \A c \in Chunks :
    /\ size[c] >= MinChunk
    /\ Base + MinChunk <= c /\ c + size[c] <= heap_end
    /\ \A d \in Chunks : c # d => c + size[c] <= d \/ d + size[d] <= c

\* Whatever a caller holds has room for what it asked for, even when the first
\* fit came from a longer free chunk or from a damaged list.
LiveBlocksFit ==
  \A c \in Chunks : Data(c) \in DOMAIN live => live[Data(c)] <= size[c] - HeaderSize

\* The two lists are doubly linked, hold allocated and free chunks respectively
\* and share none, until a stale bk is used.  The one link not promised is the bk
\* of the head of mchunk: malloc leaves it pointing at a chunk that is still free.
Allocated(c) == Data(c) \in DOMAIN live
LinksConsistent ==
  ~ damaged =>
    /\ mchunk # NULL =>
         Allocated(mchunk) /\ (bk[mchunk] # NULL => ~ Allocated(bk[mchunk]))
    /\ unsorted_bin_head # NULL => ~ Allocated(unsorted_bin_head) /\ bk[unsorted_bin_head] = NULL
    /\ \A c \in Chunks :
         /\ fd[c] # NULL => bk[fd[c]] = c /\ (Allocated(fd[c]) <=> Allocated(c))
         /\ c \notin {mchunk, unsorted_bin_head} =>
               bk[c] # NULL /\ fd[bk[c]] = c /\ (Allocated(bk[c]) <=> Allocated(c))

\* malloc hands out a block nobody holds, and takes none away, until a stale bk
\* is used.
NoDoubleAllocation ==
  [][ ~ damaged /\ pc = "malloc" /\ pc' = "idle"
        => \E p \in DOMAIN live' \ DOMAIN live : DOMAIN live' = DOMAIN live \cup {p} ]_vars

\* A pointer nobody holds (freed before, or never allocated) is ignored by free.
UnknownFreeIgnored ==
  [][ ~ damaged /\ pc = "free" /\ arg \notin DOMAIN live => UNCHANGED lists ]_vars

\* malloc moves the break only when no free chunk is long enough, so the heap
\* does not grow while it could reuse memory.
GrowsOnlyWhenNothingFits ==
  [][ ~ damaged /\ heap_end' # heap_end
        => \A c \in Chunks : ~ Allocated(c) => ~ Fits(c, arg) ]_vars

\* Until a stale bk is used, the heap is the allocator its callers expect.
Alloc == INSTANCE Allocator WITH blocks <- live, broken <- damaged
ImplementsAllocator == Alloc!Spec
==============================================================================
