----------------------------- MODULE HeapProofs ------------------------------
(***************************************************************************)
(* Proofs about the kernel heap (Heap.tla) for every set of request sizes, *)
(* every base address and every heap size.                                 *)
(***************************************************************************)
EXTENDS Heap, TLAPS

\* aalign rounds up to a multiple of the alignment, by less than one alignment:
\* what malloc (16) and sbrk (64) use it for.
LEMMA AlignUp ==
  ASSUME NEW a \in Nat, NEW m \in {16, 64}
  PROVE  /\ aalign(a, m) \in Nat
         /\ a <= aalign(a, m) /\ aalign(a, m) < a + m
         /\ aalign(a, m) % m = 0
<1>1. CASE m = 16
  BY <1>1, SMT DEF aalign
<1>2. CASE m = 64
  BY <1>2, SMT DEF aalign
<1>3. QED
  BY <1>1, <1>2

\* The chunk carved for a request holds its header, the request and at least 32
\* bytes, and sbrk moves the break past all of it.
LEMMA CarvedSize ==
  ASSUME NEW n \in Nat
  PROVE  /\ Rounded(n) \in Nat /\ n <= Rounded(n)
         /\ ChunkSize(n) \in Nat /\ ChunkSize(n) >= MinChunk
         /\ ChunkSize(n) - HeaderSize >= Rounded(n)
         /\ Sbrk(ChunkSize(n)) \in Nat /\ Sbrk(ChunkSize(n)) >= ChunkSize(n)
         /\ Sbrk(ChunkSize(n)) % MinChunk = 0
<1>1. Rounded(n) \in Nat /\ n <= Rounded(n)
  BY AlignUp DEF Rounded
<1>2. /\ ChunkSize(n) \in Nat /\ ChunkSize(n) >= MinChunk
      /\ ChunkSize(n) - HeaderSize >= Rounded(n)
  BY <1>1 DEF ChunkSize, Max2, MinChunk, HeaderSize
<1>3. /\ Sbrk(ChunkSize(n)) \in Nat /\ Sbrk(ChunkSize(n)) >= ChunkSize(n)
      /\ Sbrk(ChunkSize(n)) % MinChunk = 0
  BY <1>2, AlignUp DEF Sbrk, MinChunk
<1>4. QED
  BY <1>1, <1>2, <1>3

LEMMA BaseAligned == Base \in Nat /\ Base > 0 /\ Base % MinChunk = 0
  BY AlignUp, HeapAssumption DEF Base, MinChunk

\* The break is past the malloc_state and every chunk is below it.
EndOK == heap_end >= Base + MinChunk

Inv == TypeOK /\ EndOK /\ ChunksDisjoint /\ LiveBlocksFit

LEMMA InitInv == Init => Inv
<1> SUFFICES ASSUME Init PROVE Inv
  OBVIOUS
<1>1. heap_end \in Nat /\ heap_end % MinChunk = 0 /\ heap_end >= Base + MinChunk
  BY BaseAligned DEF Init, MinChunk
<1>2. TypeOK
  BY <1>1 DEF Init, TypeOK, Chunks, Data
<1>3. ChunksDisjoint /\ LiveBlocksFit
  BY DEF Init, ChunksDisjoint, LiveBlocksFit, Chunks
<1>4. QED
  BY <1>1, <1>2, <1>3 DEF Inv, EndOK


LEMMA StepInv == Inv /\ [Next]_vars => Inv'
<1> SUFFICES ASSUME Inv, [Next]_vars PROVE Inv'
  OBVIOUS
<1> USE DEF Inv, NULL
<1>1. ASSUME NEW n \in Requests, MallocCall(n) PROVE Inv'
  <2>1. TypeOK'
    BY <1>1, HeapAssumption DEF TypeOK, MallocCall, lists, Chunks
  <2>2. QED
    BY <1>1, <2>1 DEF MallocCall, lists, EndOK, ChunksDisjoint, LiveBlocksFit, Chunks
<1>2. ASSUME NEW p \in {NULL} \cup {Data(c) : c \in Chunks}, FreeCall(p) PROVE Inv'
  <2>1. p \in Nat
    BY <1>2 DEF TypeOK, Data, HeaderSize
  <2>2. TypeOK'
    BY <1>2, <2>1 DEF TypeOK, FreeCall, lists, Chunks
  <2>3. QED
    BY <1>2, <2>2 DEF FreeCall, lists, EndOK, ChunksDisjoint, LiveBlocksFit, Chunks
<1>3. CASE MallocWalk
  <2>1. TypeOK'
    BY <1>3 DEF TypeOK, MallocWalk, lists, Chunks
  <2>2. QED
    BY <1>3, <2>1 DEF MallocWalk, lists, EndOK, ChunksDisjoint, LiveBlocksFit, Chunks
<1>4. CASE FreeWalk
  <2>1. TypeOK'
    BY <1>4 DEF TypeOK, FreeWalk, lists, Chunks
  <2>2. QED
    BY <1>4, <2>1 DEF FreeWalk, lists, EndOK, ChunksDisjoint, LiveBlocksFit, Chunks
<1>5. CASE MallocReuse
  <2>1. cur \in Chunks /\ size' = size /\ heap_end' = heap_end
    BY <1>5 DEF MallocReuse, TypeOK
  <2>2. /\ DOMAIN live' = DOMAIN live \cup {Data(cur)}
        /\ live' \in [DOMAIN live' -> Nat]
        /\ live'[Data(cur)] = arg
        /\ \A p \in DOMAIN live : p # Data(cur) => live'[p] = live[p]
    BY <1>5 DEF MallocReuse, MallocReturn, TypeOK
  <2>3. TypeOK'
    <3>1. fd' \in [Chunks -> Chunks \cup {NULL}] /\ bk' \in [Chunks -> Chunks \cup {NULL}]
      BY <1>5, <2>1 DEF MallocReuse, Put, TypeOK
    <3>2. DOMAIN live' \subseteq {Data(c) : c \in Chunks}
      BY <2>1, <2>2 DEF TypeOK
    <3>3. QED
      BY <1>5, <2>1, <2>2, <3>1, <3>2 DEF MallocReuse, MallocReturn, TypeOK, Chunks
  <2>4. LiveBlocksFit'
    <3>1. arg <= Rounded(arg) /\ Rounded(arg) \in Nat
      BY CarvedSize DEF TypeOK
    <3>2. size[cur] \in Nat /\ size[cur] >= Rounded(arg) + HeaderSize
      BY <1>5, <2>1 DEF MallocReuse, Fits, TypeOK
    <3>3. live'[Data(cur)] <= size[cur] - HeaderSize
      BY <2>2, <3>1, <3>2 DEF HeaderSize, TypeOK
    <3>4. \A c \in Chunks : c # cur => Data(c) # Data(cur)
      BY <2>1 DEF Data, HeaderSize, TypeOK
    <3>5. QED
      BY <2>1, <2>2, <3>3, <3>4 DEF LiveBlocksFit, Chunks
  <2>5. QED
    BY <2>1, <2>3, <2>4 DEF EndOK, ChunksDisjoint, Chunks
<1>6. CASE MallocExpand
  <2> DEFINE new == heap_end
  <2>1. /\ heap_end' \in Nat /\ heap_end' % MinChunk = 0
        /\ ChunkSize(arg) \in Nat /\ ChunkSize(arg) >= MinChunk
        /\ heap_end' >= new + ChunkSize(arg)
        /\ new \in Nat \ {NULL}
    <3>1. \A x, y \in Nat : x % 64 = 0 /\ y % 64 = 0 => (x + y) % 64 = 0
      BY SMT
    <3> DEFINE inc == Sbrk(ChunkSize(arg))
    <3>2. /\ ChunkSize(arg) \in Nat /\ ChunkSize(arg) >= MinChunk
          /\ inc \in Nat /\ inc >= ChunkSize(arg) /\ inc % MinChunk = 0
      BY CarvedSize DEF TypeOK
    <3>3. heap_end' = heap_end + inc /\ heap_end \in Nat /\ heap_end % MinChunk = 0
      BY <1>6 DEF MallocExpand, TypeOK
    <3>4. new # NULL
      BY <3>3, BaseAligned DEF EndOK, MinChunk
    <3> HIDE DEF inc
    <3>5. QED
      BY <3>1, <3>2, <3>3, <3>4 DEF MinChunk
  <2>2. new \notin Chunks
    BY <2>1 DEF ChunksDisjoint, TypeOK, MinChunk
  <2>3. /\ Chunks' = Chunks \cup {new}
        /\ size' \in [Chunks' -> Nat]
        /\ size'[new] = ChunkSize(arg)
        /\ \A c \in Chunks : size'[c] = size[c]
    BY <1>6, <2>1, <2>2 DEF MallocExpand, Extend, TypeOK, Chunks
  <2>4. /\ DOMAIN live' = DOMAIN live \cup {Data(new)}
        /\ live' \in [DOMAIN live' -> Nat]
        /\ live'[Data(new)] = arg
        /\ \A p \in DOMAIN live : p # Data(new) => live'[p] = live[p]
    BY <1>6 DEF MallocExpand, MallocReturn, TypeOK
  <2>5. TypeOK'
    <3>1. /\ fd' \in [Chunks' -> Chunks' \cup {NULL}]
          /\ bk' \in [Chunks' -> Chunks' \cup {NULL}]
      BY <1>6, <2>3 DEF MallocExpand, Extend, Put, TypeOK, Chunks
    <3>2. DOMAIN live' \subseteq {Data(c) : c \in Chunks'}
      BY <2>3, <2>4 DEF TypeOK
    <3>3. \A c \in Chunks' : c % MinChunk = 0
      BY <2>3 DEF TypeOK
    <3>4. QED
      BY <1>6, <2>1, <2>3, <2>4, <3>1, <3>2, <3>3 DEF MallocExpand, MallocReturn, TypeOK
  <2>6. ChunksDisjoint'
    <3>1. \A c \in Chunks : c \in Nat /\ size[c] \in Nat /\ c + size[c] <= new
      BY DEF ChunksDisjoint, TypeOK
    <3>2. Base' = Base
      BY DEF Base
    <3>3. QED
      BY <2>1, <2>3, <3>1, <3>2, BaseAligned DEF ChunksDisjoint, EndOK, MinChunk
  <2>7. LiveBlocksFit'
    <3>1. arg <= ChunkSize(arg) - HeaderSize
      BY <2>1, CarvedSize DEF HeaderSize, MinChunk, TypeOK
    <3>2. \A c \in Chunks : Data(c) # Data(new)
      BY <2>1, <2>2 DEF Data, HeaderSize, TypeOK
    <3>3. QED
      BY <2>3, <2>4, <3>1, <3>2 DEF LiveBlocksFit
  <2>8. EndOK'
    BY <2>1, BaseAligned DEF EndOK, MinChunk, TypeOK
  <2>9. QED
    BY <2>5, <2>6, <2>7, <2>8
<1>7. ASSUME FreeReturn, UNCHANGED <<heap_end, size>>,
             fd' \in [Chunks -> Chunks \cup {NULL}],
             bk' \in [Chunks -> Chunks \cup {NULL}],
             mchunk' \in Chunks \cup {NULL},
             unsorted_bin_head' \in Chunks \cup {NULL},
             damaged' \in BOOLEAN
      PROVE  Inv'
  <2>1. /\ DOMAIN live' \subseteq DOMAIN live
        /\ \A p \in DOMAIN live' : live'[p] = live[p]
        /\ live' \in [DOMAIN live' -> Nat]
    BY <1>7 DEF FreeReturn, TypeOK
  <2>2. TypeOK'
    BY <1>7, <2>1 DEF FreeReturn, TypeOK, Chunks
  <2>3. LiveBlocksFit'
    BY <1>7, <2>1 DEF LiveBlocksFit, Chunks
  <2>4. QED
    BY <1>7, <2>2, <2>3 DEF EndOK, ChunksDisjoint, Chunks
<1>8. CASE FreeFound
  <2>1. cur \in Chunks
    BY <1>8 DEF FreeFound, TypeOK
  <2>2. /\ fd' \in [Chunks -> Chunks \cup {NULL}]
        /\ bk' \in [Chunks -> Chunks \cup {NULL}]
    BY <1>8, <2>1 DEF FreeFound, Put, TypeOK
  <2>3. /\ mchunk' \in Chunks \cup {NULL}
        /\ unsorted_bin_head' \in Chunks \cup {NULL}
        /\ damaged' \in BOOLEAN
    BY <1>8, <2>1 DEF FreeFound, TypeOK
  <2>4. QED
    BY <1>7, <1>8, <2>2, <2>3 DEF FreeFound
<1>9. CASE FreeMiss
  BY <1>7, <1>9 DEF FreeMiss, lists, TypeOK
<1>10. CASE UNCHANGED vars
  <2>1. TypeOK'
    BY <1>10 DEF vars, TypeOK, Chunks
  <2>2. QED
    BY <1>10, <2>1 DEF vars, EndOK, ChunksDisjoint, LiveBlocksFit, Chunks
<1>11. QED
  BY <1>1, <1>2, <1>3, <1>4, <1>5, <1>6, <1>8, <1>9, <1>10 DEF Next, Step

\* Type correctness of the heap for every set of request sizes: every pointer the
\* code follows is NULL or the address of a chunk.
THEOREM HeapTypeOK == Spec => []TypeOK
<1>1. Spec => []Inv
  BY InitInv, StepInv, PTL DEF Spec
<1>2. Inv => TypeOK
  BY DEF Inv
<1>3. QED
  BY <1>1, <1>2, PTL

\* Chunks carved by sbrk never overlap, whatever the lists look like.
THEOREM HeapChunksDisjoint == Spec => []ChunksDisjoint
<1>1. Spec => []Inv
  BY InitInv, StepInv, PTL DEF Spec
<1>2. Inv => ChunksDisjoint
  BY DEF Inv
<1>3. QED
  BY <1>1, <1>2, PTL

\* A block is never shorter than the request it was handed out for.
THEOREM HeapBlocksFit == Spec => []LiveBlocksFit
<1>1. Spec => []Inv
  BY InitInv, StepInv, PTL DEF Spec
<1>2. Inv => LiveBlocksFit
  BY DEF Inv
<1>3. QED
  BY <1>1, <1>2, PTL

------------------------------------------------------------------------------
\* The shape of the two lists as a fact about plain functions: C the chunks, A
\* the allocated ones, f and b the links, m and u the heads.
Linked(C, A, f, b, m, u) ==
  /\ m # NULL => m \in A /\ (b[m] # NULL => b[m] \notin A)
  /\ u # NULL => u \notin A /\ b[u] = NULL
  /\ \A c \in C :
       /\ f[c] # NULL => b[f[c]] = c /\ (f[c] \in A <=> c \in A)
       /\ c \notin {m, u} => b[c] # NULL /\ f[b[c]] = c /\ (b[c] \in A <=> c \in A)

\* The order of each list: ranks fall along f, by one place at a time, from the
\* head, and no two chunks of a list share a rank.  So a list does not run in a
\* circle and a walk from its head meets all of it.
Ordered(C, A, f, m, u, r) ==
  /\ r \in [C -> Nat]
  /\ \A c \in C : f[c] # NULL => r[f[c]] < r[c]
  /\ \A c, d \in C : (c \in A <=> d \in A) =>
       /\ r[d] < r[c] => f[c] # NULL /\ r[d] <= r[f[c]]
       /\ r[d] = r[c] => d = c
  /\ \A c \in A : m # NULL /\ r[c] <= r[m]
  /\ \A c \in C \ A : u # NULL /\ r[c] <= r[u]

IsHeap(C, A, f, b, m, u) ==
  /\ NULL \notin C /\ A \subseteq C
  /\ f \in [C -> C \cup {NULL}] /\ b \in [C -> C \cup {NULL}]
  /\ m \in C \cup {NULL} /\ u \in C \cup {NULL}

\* Moving a free chunk to the head of the allocated list keeps both lists linked,
\* although its bk is left as it was: what malloc does with a fitting chunk.
LEMMA ReuseKeepsLinked ==
  ASSUME NEW C, NEW A, NEW f, NEW b, NEW m, NEW u, NEW r, NEW x \in C,
         IsHeap(C, A, f, b, m, u), Linked(C, A, f, b, m, u), Ordered(C, A, f, m, u, r),
         x \notin A
  PROVE  /\ Linked(C, A \cup {x},
                [Put(f, b[x], f[x]) EXCEPT ![x] = m],
                Put(Put(b, f[x], b[x]), m, x),
                x,
                IF b[x] = NULL THEN f[x] ELSE u)
         /\ \E q : Ordered(C, A \cup {x}, [Put(f, b[x], f[x]) EXCEPT ![x] = m],
                           x, IF b[x] = NULL THEN f[x] ELSE u, q)
<1> DEFINE f2 == [Put(f, b[x], f[x]) EXCEPT ![x] = m]
           b2 == Put(Put(b, f[x], b[x]), m, x)
           u2 == IF b[x] = NULL THEN f[x] ELSE u
           A2 == A \cup {x}
<1> USE DEF IsHeap, NULL
<1>1. x # m /\ (b[x] = NULL <=> x = u) /\ b[x] # x /\ f[x] # x
  BY DEF Linked, Ordered
<1>2. \A c \in C : f2[c] = IF c = x THEN m ELSE IF c = b[x] THEN f[x] ELSE f[c]
  BY <1>1 DEF Put
<1>3. \A c \in C : b2[c] = IF c = m THEN x ELSE IF c = f[x] THEN b[x] ELSE b[c]
  BY <1>1 DEF Put
<1>4. f[x] # NULL => f[x] # m /\ f[x] \notin A
  BY DEF Linked
<1>5. b[x] # NULL => b[x] # m /\ b[x] \notin A
  BY <1>1 DEF Linked
<1> HIDE DEF f2, b2
<1>6. b2[x] # NULL => b2[x] \notin A2
  BY <1>1, <1>3, <1>5
<1>7. u2 # NULL => u2 \notin A2 /\ b2[u2] = NULL
  BY <1>1, <1>3, <1>4 DEF Linked
<1>8. \A c \in C : f2[c] # NULL => b2[f2[c]] = c /\ (f2[c] \in A2 <=> c \in A2)
  <2> SUFFICES ASSUME NEW c \in C, f2[c] # NULL
               PROVE  b2[f2[c]] = c /\ (f2[c] \in A2 <=> c \in A2)
    OBVIOUS
  <2>1. CASE c = x
    BY <2>1, <1>2, <1>3 DEF Linked
  <2>2. CASE c # x /\ c = b[x]
    BY <2>2, <1>1, <1>2, <1>3, <1>4, <1>5 DEF Linked
  <2>3. CASE c # x /\ c # b[x]
    <3>1. f2[c] = f[c] /\ b[f[c]] = c /\ f[c] # x /\ f[c] # f[x] /\ f[c] \in C
      BY <2>3, <1>2 DEF Linked
    <3>2. f[c] # m
      BY <3>1, <2>3 DEF Linked
    <3>3. QED
      BY <2>3, <3>1, <3>2, <1>3 DEF Linked
  <2>4. QED
    BY <2>1, <2>2, <2>3
<1>9. \A c \in C : c \notin {x, u2}
        => b2[c] # NULL /\ f2[b2[c]] = c /\ (b2[c] \in A2 <=> c \in A2)
  <2> SUFFICES ASSUME NEW c \in C, c # x, c # u2
               PROVE  b2[c] # NULL /\ f2[b2[c]] = c /\ (b2[c] \in A2 <=> c \in A2)
    OBVIOUS
  <2>1. CASE c = m
    BY <2>1, <1>1, <1>2, <1>3 DEF Linked
  <2>2. CASE c # m /\ c = f[x]
    BY <2>2, <1>1, <1>2, <1>3, <1>4, <1>5 DEF Linked
  <2>3. CASE c # m /\ c # f[x]
    <3>1. c # u
      BY <2>3, <1>1 DEF Linked
    <3>2. b2[c] = b[c] /\ b[c] # NULL /\ f[b[c]] = c /\ (b[c] \in A <=> c \in A) /\ b[c] \in C
      BY <2>3, <3>1, <1>3 DEF Linked
    <3>3. b[c] # x /\ b[c] # b[x]
      BY <3>2, <2>3, <1>1 DEF Linked
    <3>4. QED
      BY <3>2, <3>3, <1>2
  <2>4. QED
    BY <2>1, <2>2, <2>3
<1> DEFINE q == [r EXCEPT ![x] = IF m = NULL THEN 0 ELSE r[m] + 1]
<1>10. Ordered(C, A2, f2, x, u2, q)
  <2>1. q \in [C -> Nat] /\ \A c \in C : c # x => q[c] = r[c]
    BY DEF Ordered
  <2>2. \A c \in C : f2[c] # NULL => q[f2[c]] < q[c]
    BY <2>1, <1>1, <1>2, <1>4, <1>5 DEF Ordered, Linked
  <2>3. ASSUME NEW c \in C, NEW d \in C, c \in A2 <=> d \in A2
        PROVE  /\ q[d] < q[c] => f2[c] # NULL /\ q[d] <= q[f2[c]]
               /\ q[d] = q[c] => d = c
    BY <2>1, <2>3, <1>1, <1>2, <1>4, <1>5 DEF Ordered, Linked
  <2>4. \A c \in A2 : x # NULL /\ q[c] <= q[x]
    BY <2>1, <1>1, <1>4, <1>5 DEF Ordered, Linked
  <2>5. \A c \in C \ A2 : u2 # NULL /\ q[c] <= q[u2]
    BY <2>1, <1>1, <1>4, <1>5 DEF Ordered, Linked
  <2>6. QED
    BY <2>1, <2>2, <2>3, <2>4, <2>5 DEF Ordered
<1>11. QED
  BY <1>6, <1>7, <1>8, <1>9, <1>10 DEF Linked, f2, b2

\* Linking a newly carved chunk at the head of the allocated list.
LEMMA ExpandKeepsLinked ==
  ASSUME NEW C, NEW A, NEW f, NEW b, NEW m, NEW u, NEW r, NEW x,
         IsHeap(C, A, f, b, m, u), Linked(C, A, f, b, m, u), Ordered(C, A, f, m, u, r),
         x \notin C, x # NULL
  PROVE  /\ Linked(C \cup {x}, A \cup {x}, Extend(f, x, m),
                Extend(Put(b, m, x), x, NULL), x, u)
         /\ \E q : Ordered(C \cup {x}, A \cup {x}, Extend(f, x, m), x, u, q)
<1> DEFINE f2 == Extend(f, x, m)
           b2 == Extend(Put(b, m, x), x, NULL)
<1> USE DEF IsHeap, NULL
<1>1. \A c \in C \cup {x} : f2[c] = IF c = x THEN m ELSE f[c]
  BY DEF Extend
<1>2. \A c \in C \cup {x} : b2[c] = IF c = x THEN NULL ELSE IF c = m THEN x ELSE b[c]
  BY DEF Extend, Put
<1> HIDE DEF f2, b2
<1>3. \A c \in C : f[c] # NULL => f[c] # m
  BY DEF Linked
<1>4. Linked(C \cup {x}, A \cup {x}, f2, b2, x, u)
  BY <1>1, <1>2, <1>3 DEF Linked
<1> DEFINE q == [c \in C \cup {x} |->
                   IF c # x THEN r[c] ELSE IF m = NULL THEN 0 ELSE r[m] + 1]
<1>5. Ordered(C \cup {x}, A \cup {x}, f2, x, u, q)
  BY <1>1 DEF Ordered, Linked
<1>6. QED
  BY <1>4, <1>5 DEF f2, b2

\* Moving an allocated chunk to the head of the free list keeps both lists linked
\* unless the chunk heads mchunk with a stale bk: what free does.
LEMMA FreeKeepsLinked ==
  ASSUME NEW C, NEW A, NEW f, NEW b, NEW m, NEW u, NEW r, NEW x \in C,
         IsHeap(C, A, f, b, m, u), Linked(C, A, f, b, m, u), Ordered(C, A, f, m, u, r),
         x \in A,
         x = m => b[x] = NULL
  PROVE  /\ Linked(C, A \ {x},
                [Put(f, b[x], f[x]) EXCEPT ![x] = u],
                Put([Put(b, f[x], b[x]) EXCEPT ![x] = NULL], u, x),
                IF b[x] = NULL THEN f[x] ELSE m,
                x)
         /\ \E q : Ordered(C, A \ {x}, [Put(f, b[x], f[x]) EXCEPT ![x] = u],
                           IF b[x] = NULL THEN f[x] ELSE m, x, q)
<1> DEFINE f2 == [Put(f, b[x], f[x]) EXCEPT ![x] = u]
           b2 == Put([Put(b, f[x], b[x]) EXCEPT ![x] = NULL], u, x)
           m2 == IF b[x] = NULL THEN f[x] ELSE m
           A2 == A \ {x}
<1> USE DEF IsHeap, NULL
<1>1. x # u /\ (b[x] = NULL <=> x = m) /\ b[x] # x /\ f[x] # x
  BY DEF Linked, Ordered
<1>2. \A c \in C : f2[c] = IF c = x THEN u ELSE IF c = b[x] THEN f[x] ELSE f[c]
  BY <1>1 DEF Put
<1>3. \A c \in C : b2[c] = IF c = u THEN x ELSE IF c = x THEN NULL
                           ELSE IF c = f[x] THEN b[x] ELSE b[c]
  BY <1>1 DEF Put
<1>4. f[x] # NULL => f[x] # u /\ f[x] \in A /\ f[x] # m
  BY DEF Linked
<1>5. b[x] # NULL => b[x] \in A /\ b[x] # u
  BY <1>1 DEF Linked
<1> HIDE DEF f2, b2
<1>6. m2 # NULL => m2 \in A2 /\ (b2[m2] # NULL => b2[m2] \notin A2)
  BY <1>1, <1>3, <1>4, <1>5 DEF Linked
<1>7. b2[x] = NULL
  BY <1>1, <1>3
<1>8. \A c \in C : f2[c] # NULL => b2[f2[c]] = c /\ (f2[c] \in A2 <=> c \in A2)
  <2> SUFFICES ASSUME NEW c \in C, f2[c] # NULL
               PROVE  b2[f2[c]] = c /\ (f2[c] \in A2 <=> c \in A2)
    OBVIOUS
  <2>1. CASE c = x
    BY <2>1, <1>2, <1>3 DEF Linked
  <2>2. CASE c # x /\ c = b[x]
    BY <2>2, <1>1, <1>2, <1>3, <1>4, <1>5 DEF Linked
  <2>3. CASE c # x /\ c # b[x]
    <3>1. f2[c] = f[c] /\ b[f[c]] = c /\ f[c] # x /\ f[c] # f[x] /\ f[c] \in C /\ f[c] # u
      BY <2>3, <1>2 DEF Linked
    <3>2. QED
      BY <2>3, <3>1, <1>3 DEF Linked
  <2>4. QED
    BY <2>1, <2>2, <2>3
<1>9. \A c \in C : c \notin {m2, x}
        => b2[c] # NULL /\ f2[b2[c]] = c /\ (b2[c] \in A2 <=> c \in A2)
  <2> SUFFICES ASSUME NEW c \in C, c # x, c # m2
               PROVE  b2[c] # NULL /\ f2[b2[c]] = c /\ (b2[c] \in A2 <=> c \in A2)
    OBVIOUS
  <2>1. CASE c = u
    BY <2>1, <1>1, <1>2, <1>3 DEF Linked
  <2>2. CASE c # u /\ c = f[x]
    BY <2>2, <1>1, <1>2, <1>3, <1>4, <1>5 DEF Linked
  <2>3. CASE c # u /\ c # f[x]
    <3>1. c # m
      BY <2>3, <1>1 DEF Linked
    <3>2. b2[c] = b[c] /\ b[c] # NULL /\ f[b[c]] = c /\ (b[c] \in A <=> c \in A) /\ b[c] \in C
      BY <2>3, <3>1, <1>3 DEF Linked
    <3>3. b[c] # x /\ b[c] # b[x]
      BY <3>2, <2>3, <1>1 DEF Linked
    <3>4. QED
      BY <3>2, <3>3, <1>2
  <2>4. QED
    BY <2>1, <2>2, <2>3
<1> DEFINE q == [r EXCEPT ![x] = IF u = NULL THEN 0 ELSE r[u] + 1]
<1>10. Ordered(C, A2, f2, m2, x, q)
  <2>1. q \in [C -> Nat] /\ \A c \in C : c # x => q[c] = r[c]
    BY DEF Ordered
  <2>2. \A c \in C : f2[c] # NULL => q[f2[c]] < q[c]
    BY <2>1, <1>1, <1>2, <1>4, <1>5 DEF Ordered, Linked
  <2>3. ASSUME NEW c \in C, NEW d \in C, c \in A2 <=> d \in A2
        PROVE  /\ q[d] < q[c] => f2[c] # NULL /\ q[d] <= q[f2[c]]
               /\ q[d] = q[c] => d = c
    BY <2>1, <2>3, <1>1, <1>2, <1>4, <1>5 DEF Ordered, Linked
  <2>4. \A c \in A2 : m2 # NULL /\ q[c] <= q[m2]
    BY <2>1, <1>1, <1>4, <1>5 DEF Ordered, Linked
  <2>5. \A c \in C \ A2 : x # NULL /\ q[c] <= q[x]
    BY <2>1, <1>1, <1>4, <1>5 DEF Ordered, Linked
  <2>6. QED
    BY <2>1, <2>2, <2>3, <2>4, <2>5 DEF Ordered
<1>11. QED
  BY <1>6, <1>7, <1>8, <1>9, <1>10 DEF Linked, f2, b2

------------------------------------------------------------------------------
AllocatedChunks == {c \in Chunks : Allocated(c)}

\* What a walk has still to meet: malloc's cursor is a free chunk no further down
\* the list than any fitting chunk, free's an allocated one no further down than
\* the chunk to be freed.
CursorOK(r) ==
  /\ pc = "malloc" =>
       /\ cur # NULL => ~ Allocated(cur)
       /\ \A x \in Chunks : ~ Allocated(x) /\ Fits(x, arg) => cur # NULL /\ r[x] <= r[cur]
  /\ pc = "free" =>
       /\ cur # NULL => Allocated(cur)
       /\ \A x \in Chunks : Allocated(x) /\ FreeMatches(x) => cur # NULL /\ r[x] <= r[cur]

\* The inductive invariant behind the list properties.
ListInv ==
  /\ Inv
  /\ ~ damaged =>
       /\ Linked(Chunks, AllocatedChunks, fd, bk, mchunk, unsorted_bin_head)
       /\ \E r : /\ Ordered(Chunks, AllocatedChunks, fd, mchunk, unsorted_bin_head, r)
                 /\ CursorOK(r)

LEMMA ListInvIsHeap ==
  TypeOK => IsHeap(Chunks, AllocatedChunks, fd, bk, mchunk, unsorted_bin_head)
  BY DEF TypeOK, IsHeap, AllocatedChunks

LEMMA InitListInv == Init => ListInv
<1> SUFFICES ASSUME Init PROVE ListInv
  OBVIOUS
<1>1. Inv
  BY InitInv
<1>2. Chunks = {} /\ AllocatedChunks = {}
  BY DEF Init, Chunks, AllocatedChunks
<1>3. Linked(Chunks, AllocatedChunks, fd, bk, mchunk, unsorted_bin_head)
  BY <1>2 DEF Init, Linked, NULL
<1>4. Ordered(Chunks, AllocatedChunks, fd, mchunk, unsorted_bin_head, [c \in {} |-> 0])
  BY <1>2 DEF Ordered
<1>5. CursorOK([c \in {} |-> 0])
  BY DEF Init, CursorOK
<1>6. QED
  BY <1>1, <1>3, <1>4, <1>5 DEF ListInv

\* Data is one to one on chunks, so adding or removing one pointer changes the
\* allocated set by one chunk.
LEMMA OnePointer ==
  ASSUME TypeOK, NEW x \in Chunks
  PROVE  /\ \A c \in Chunks : Data(c) = Data(x) => c = x
         /\ {c \in Chunks : Data(c) \in DOMAIN live \cup {Data(x)}} = AllocatedChunks \cup {x}
         /\ {c \in Chunks : Data(c) \in DOMAIN live \ {Data(x)}} = AllocatedChunks \ {x}
  BY DEF TypeOK, Data, HeaderSize, AllocatedChunks, Allocated

LEMMA StepListInv == ListInv /\ [Next]_vars => ListInv'
<1> SUFFICES ASSUME ListInv, [Next]_vars PROVE ListInv'
  OBVIOUS
<1>1. Inv /\ Inv' /\ TypeOK /\ TypeOK'
  BY StepInv DEF ListInv, Inv
<1> DEFINE L == Linked(Chunks, AllocatedChunks, fd, bk, mchunk, unsorted_bin_head)
           R(r) == Ordered(Chunks, AllocatedChunks, fd, mchunk, unsorted_bin_head, r)
           Goal == L' /\ \E r : R(r)' /\ CursorOK(r)'
<1>2. IsHeap(Chunks, AllocatedChunks, fd, bk, mchunk, unsorted_bin_head)
  BY <1>1, ListInvIsHeap
<1> USE DEF NULL
<1>3. SUFFICES ASSUME ~ damaged', ~ damaged PROVE Goal
  <2>1. damaged => damaged'
    BY DEF Next, Step, vars, MallocCall, FreeCall, MallocWalk, FreeWalk, MallocReuse,
           MallocExpand, MallocReturn, FreeFound, FreeMiss
  <2>2. QED
    BY <1>1, <1>3, <2>1 DEF ListInv
<1>4. PICK r : L /\ R(r) /\ CursorOK(r)
  BY <1>3 DEF ListInv
<1>5. ASSUME UNCHANGED <<lists, size, live>>, CursorOK(r)' PROVE Goal
  <2>1. Chunks' = Chunks /\ AllocatedChunks' = AllocatedChunks
    BY <1>5 DEF Chunks, AllocatedChunks, Allocated
  <2>2. L' /\ R(r)'
    BY <1>4, <1>5, <2>1 DEF lists
  <2>3. QED
    BY <1>5, <2>2
<1>6. ASSUME L', \E q : R(q)', pc' = "idle" PROVE Goal
  BY <1>6 DEF CursorOK
<1> HIDE DEF Goal
<1>7. ASSUME NEW n \in Requests, MallocCall(n) PROVE Goal
  <2>1. CursorOK(r)'
    BY <1>1, <1>4, <1>7
    DEF MallocCall, lists, CursorOK, Linked, Ordered, AllocatedChunks, Allocated, Chunks, TypeOK
  <2>2. QED
    BY <1>5, <1>7, <2>1 DEF MallocCall
<1>8. ASSUME NEW p \in {NULL} \cup {Data(c) : c \in Chunks}, FreeCall(p)
      PROVE  Goal
  <2>1. CursorOK(r)'
    BY <1>1, <1>4, <1>8
    DEF FreeCall, lists, CursorOK, Linked, Ordered, AllocatedChunks, Allocated, Chunks, TypeOK
  <2>2. QED
    BY <1>5, <1>8, <2>1 DEF FreeCall
<1>9. CASE MallocWalk
  <2>1. cur \in Chunks /\ cur \notin AllocatedChunks /\ ~ Fits(cur, arg)
    BY <1>1, <1>4, <1>9 DEF MallocWalk, CursorOK, AllocatedChunks, TypeOK
  <2>2. fd[cur] # NULL => fd[cur] \in Chunks /\ fd[cur] \notin AllocatedChunks
    BY <1>1, <1>4, <2>1 DEF Linked, TypeOK
  <2>3. ASSUME NEW x \in Chunks, ~ Allocated(x), Fits(x, arg)
        PROVE  fd[cur] # NULL /\ r[x] <= r[fd[cur]]
    <3>1. r[x] <= r[cur] /\ x # cur /\ x \notin AllocatedChunks
      BY <1>4, <1>9, <2>1, <2>3 DEF CursorOK, MallocWalk, AllocatedChunks
    <3>2. QED
      BY <1>4, <2>1, <2>3, <3>1 DEF Ordered
  <2>4. CursorOK(r)'
    BY <1>9, <2>2, <2>3
    DEF MallocWalk, CursorOK, AllocatedChunks, Allocated, Chunks, Fits, FreeMatches
  <2>5. QED
    BY <1>5, <1>9, <2>4 DEF MallocWalk
<1>10. CASE FreeWalk
  <2>1. cur \in AllocatedChunks /\ cur \in Chunks /\ ~ FreeMatches(cur)
    BY <1>1, <1>4, <1>10 DEF FreeWalk, CursorOK, AllocatedChunks, TypeOK
  <2>2. fd[cur] # NULL => fd[cur] \in AllocatedChunks
    BY <1>1, <1>4, <2>1 DEF Linked, TypeOK, AllocatedChunks
  <2>3. ASSUME NEW x \in Chunks, Allocated(x), FreeMatches(x)
        PROVE  fd[cur] # NULL /\ r[x] <= r[fd[cur]]
    <3>1. r[x] <= r[cur] /\ x # cur /\ x \in AllocatedChunks
      BY <1>4, <1>10, <2>1, <2>3 DEF CursorOK, FreeWalk, AllocatedChunks
    <3>2. QED
      BY <1>4, <2>1, <2>3, <3>1 DEF Ordered
  <2>4. CursorOK(r)'
    BY <1>10, <2>2, <2>3
    DEF FreeWalk, CursorOK, AllocatedChunks, Allocated, Chunks, Fits, FreeMatches
  <2>5. QED
    BY <1>5, <1>10, <2>4 DEF FreeWalk
<1>11. CASE MallocReuse
  <2>1. cur \in Chunks /\ cur \notin AllocatedChunks
    BY <1>1, <1>4, <1>11 DEF MallocReuse, CursorOK, AllocatedChunks, TypeOK
  <2>2. Chunks' = Chunks /\ AllocatedChunks' = AllocatedChunks \cup {cur}
    BY <1>1, <1>11, <2>1, OnePointer
    DEF MallocReuse, MallocReturn, AllocatedChunks, Allocated, Chunks
  <2>3. L' /\ \E q : R(q)'
    BY <1>2, <1>4, <1>11, <2>1, <2>2, ReuseKeepsLinked DEF MallocReuse
  <2>4. QED
    BY <1>6, <1>11, <2>3 DEF MallocReuse, MallocReturn
<1>12. CASE MallocExpand
  <2>1. heap_end \notin Chunks /\ heap_end # NULL
    BY <1>1, BaseAligned DEF Inv, ChunksDisjoint, TypeOK, EndOK, MinChunk
  <2>2. Chunks' = Chunks \cup {heap_end}
    BY <1>12 DEF MallocExpand, Extend, Chunks
  <2>3. AllocatedChunks' = AllocatedChunks \cup {heap_end}
    <3>1. \A c \in Chunks : Data(c) # Data(heap_end)
      BY <1>1, <2>1 DEF TypeOK, Data, HeaderSize
    <3>2. DOMAIN live' = DOMAIN live \cup {Data(heap_end)}
      BY <1>12 DEF MallocExpand, MallocReturn
    <3>3. QED
      BY <2>2, <3>1, <3>2 DEF AllocatedChunks, Allocated
  <2>4. L' /\ \E q : R(q)'
    BY <1>2, <1>4, <1>12, <2>1, <2>2, <2>3, ExpandKeepsLinked DEF MallocExpand
  <2>5. QED
    BY <1>6, <1>12, <2>4 DEF MallocExpand, MallocReturn
<1>13. CASE FreeFound
  <2>1. cur \in AllocatedChunks /\ cur \in Chunks
    BY <1>1, <1>4, <1>13 DEF FreeFound, CursorOK, AllocatedChunks, TypeOK
  <2>2. Chunks' = Chunks /\ AllocatedChunks' = AllocatedChunks \ {cur}
    BY <1>1, <1>13, <2>1, OnePointer
    DEF FreeFound, FreeReturn, FreeMatches, AllocatedChunks, Allocated, Chunks
  <2>3. cur = mchunk => bk[cur] = NULL
    BY <1>3, <1>13 DEF FreeFound
  <2>4. L' /\ \E q : R(q)'
    BY <1>2, <1>4, <1>13, <2>1, <2>2, <2>3, FreeKeepsLinked DEF FreeFound
  <2>5. QED
    BY <1>6, <1>13, <2>4 DEF FreeFound, FreeReturn
<1>14. CASE FreeMiss
  <2>1. arg \notin DOMAIN live
    BY <1>1, <1>4, <1>14 DEF FreeMiss, CursorOK, TypeOK, Allocated, FreeMatches
  <2>2. live' = live
    BY <1>1, <1>14, <2>1 DEF FreeMiss, FreeReturn, TypeOK
  <2>3. CursorOK(r)'
    BY <1>14 DEF FreeMiss, FreeReturn, CursorOK
  <2>4. QED
    BY <1>5, <1>14, <2>2, <2>3 DEF FreeMiss
<1>15. CASE UNCHANGED vars
  <2>1. CursorOK(r)'
    BY <1>4, <1>15 DEF vars, CursorOK, Allocated, Chunks, Fits, FreeMatches
  <2>2. QED
    BY <1>5, <1>15, <2>1 DEF vars, lists
<1>16. QED
  BY <1>7, <1>8, <1>9, <1>10, <1>11, <1>12, <1>13, <1>14, <1>15 DEF Next, Step

LEMMA ListInvariant == Spec => []ListInv
  BY InitListInv, StepListInv, PTL DEF Spec

\* Allocated and free chunks stay on two properly linked, disjoint lists for as
\* long as free is not called on a head of mchunk with a stale bk.
THEOREM HeapLinksConsistent == Spec => []LinksConsistent
<1>1. ListInv => LinksConsistent
  <2> SUFFICES ASSUME ListInv, ~ damaged PROVE LinksConsistent
    BY DEF LinksConsistent
  <2>1. TypeOK /\ Linked(Chunks, AllocatedChunks, fd, bk, mchunk, unsorted_bin_head)
    BY DEF ListInv, Inv
  <2>2. QED
    BY <2>1 DEF LinksConsistent, Linked, AllocatedChunks, Allocated, TypeOK, NULL
<1>2. QED
  BY <1>1, ListInvariant, PTL

\* The pointer malloc is about to return is nobody's.
LEMMA FreshPointer ==
  ASSUME ListInv, ~ damaged, MallocReuse \/ MallocExpand
  PROVE  /\ live' = [p \in DOMAIN live \cup {Data(IF cur = NULL THEN heap_end ELSE cur)} |->
                       IF p = Data(IF cur = NULL THEN heap_end ELSE cur) THEN arg ELSE live[p]]
         /\ Data(IF cur = NULL THEN heap_end ELSE cur) \notin DOMAIN live
<1>1. TypeOK /\ Inv
  BY DEF ListInv, Inv
<1>2. CASE MallocReuse
  <2>1. cur # NULL /\ ~ Allocated(cur)
    BY <1>2 DEF ListInv, CursorOK, MallocReuse
  <2>2. QED
    BY <1>2, <2>1 DEF MallocReuse, MallocReturn, Allocated
<1>3. CASE MallocExpand
  <2>1. \A c \in Chunks : Data(c) # Data(heap_end)
    BY <1>1 DEF Inv, ChunksDisjoint, TypeOK, MinChunk, Data, HeaderSize
  <2>2. Data(heap_end) \notin DOMAIN live
    BY <1>1, <2>1 DEF TypeOK
  <2>3. cur = NULL
    BY <1>3 DEF MallocExpand
  <2>4. QED
    BY <1>3, <2>2, <2>3 DEF MallocExpand, MallocReturn
<1>4. QED
  BY <1>2, <1>3

\* malloc never hands out a block that a caller still holds, for as long as free
\* is not called on a head of mchunk with a stale bk.
THEOREM HeapNoDoubleAllocation == Spec => NoDoubleAllocation
<1>1. ListInv /\ [Next]_vars =>
        [~ damaged /\ pc = "malloc" /\ pc' = "idle"
           => \E p \in DOMAIN live' \ DOMAIN live : DOMAIN live' = DOMAIN live \cup {p}]_vars
  <2> SUFFICES ASSUME ListInv, Next, ~ damaged, pc = "malloc", pc' = "idle"
               PROVE  \E p \in DOMAIN live' \ DOMAIN live : DOMAIN live' = DOMAIN live \cup {p}
    OBVIOUS
  <2>1. MallocReuse \/ MallocExpand
    BY DEF Next, Step, MallocCall, FreeCall, MallocWalk, FreeWalk, FreeFound, FreeMiss
  <2>2. QED
    BY <2>1, FreshPointer
<1>2. QED
  BY <1>1, ListInvariant, PTL DEF Spec, NoDoubleAllocation

\* free ignores a pointer nobody holds: a second free of the same path in vfs.c is
\* harmless while the lists are sound.
THEOREM HeapUnknownFreeIgnored == Spec => UnknownFreeIgnored
<1>1. ListInv /\ [Next]_vars =>
        [~ damaged /\ pc = "free" /\ arg \notin DOMAIN live => UNCHANGED lists]_vars
  <2> SUFFICES ASSUME ListInv, Next, ~ damaged, pc = "free", arg \notin DOMAIN live
               PROVE  UNCHANGED lists
    OBVIOUS
  <2>1. ~ FreeFound
    BY DEF ListInv, CursorOK, FreeFound, FreeMatches, Allocated
  <2>2. QED
    BY <2>1 DEF Next, Step, MallocCall, FreeCall, MallocWalk, FreeWalk, FreeMiss,
                MallocReuse, MallocExpand
<1>2. QED
  BY <1>1, ListInvariant, PTL DEF Spec, UnknownFreeIgnored

\* The heap grows only when malloc has seen every free chunk and none fits.
THEOREM HeapGrowsOnlyWhenNothingFits == Spec => GrowsOnlyWhenNothingFits
<1>1. ListInv /\ [Next]_vars =>
        [~ damaged /\ heap_end' # heap_end
           => \A c \in Chunks : ~ Allocated(c) => ~ Fits(c, arg)]_vars
  <2> SUFFICES ASSUME ListInv, Next, ~ damaged, heap_end' # heap_end
               PROVE  \A c \in Chunks : ~ Allocated(c) => ~ Fits(c, arg)
    OBVIOUS
  <2>1. MallocExpand
    BY DEF Next, Step, MallocCall, FreeCall, MallocWalk, FreeWalk, FreeFound, FreeMiss,
           MallocReuse
  <2>2. QED
    BY <2>1 DEF ListInv, CursorOK, MallocExpand
<1>2. QED
  BY <1>1, ListInvariant, PTL DEF Spec, GrowsOnlyWhenNothingFits

------------------------------------------------------------------------------
\* malloc() and free() implement the allocator their callers expect, up to the
\* first use of a stale bk.
THEOREM HeapImplementsAllocator == Spec => ImplementsAllocator
<1>1. Init => Alloc!Init
  BY DEF Init, Alloc!Init
<1>2. ListInv /\ [Next]_vars => [Alloc!Next]_<<live, damaged>>
  <2> SUFFICES ASSUME ListInv, Next PROVE Alloc!Next \/ UNCHANGED <<live, damaged>>
    BY DEF vars
  <2>1. ASSUME NEW n \in Requests, MallocCall(n) PROVE UNCHANGED <<live, damaged>>
    BY <2>1 DEF MallocCall
  <2>2. ASSUME NEW p \in {NULL} \cup {Data(c) : c \in Chunks}, FreeCall(p)
        PROVE  UNCHANGED <<live, damaged>>
    BY <2>2 DEF FreeCall
  <2>3. CASE MallocWalk \/ FreeWalk
    BY <2>3 DEF MallocWalk, FreeWalk
  <2>4. CASE damaged' = TRUE
    BY <2>4 DEF Alloc!Next, Alloc!Break
  <2>5. ASSUME ~ damaged, MallocReuse \/ MallocExpand PROVE Alloc!Next
    <3> DEFINE x == IF cur = NULL THEN heap_end ELSE cur
               p == Data(x)
    <3>1. /\ p \notin DOMAIN live
          /\ live' = [q \in DOMAIN live \cup {p} |-> IF q = p THEN arg ELSE live[q]]
      BY <2>5, FreshPointer
    <3>2. damaged' = damaged
      BY <2>5 DEF MallocReuse, MallocExpand, MallocReturn
    <3>3. Inv /\ Inv' /\ TypeOK /\ TypeOK'
      BY StepInv DEF ListInv, Inv
    <3>4. x \in Chunks'
      BY <2>5, <3>3 DEF MallocReuse, MallocExpand, Extend, TypeOK, Chunks
    <3>5. \A q \in DOMAIN live : ~ Alloc!Overlap(p, arg, q, live[q])
      <4> SUFFICES ASSUME NEW q \in DOMAIN live PROVE ~ Alloc!Overlap(p, arg, q, live[q])
        OBVIOUS
      <4>1. PICK c \in Chunks : q = Data(c)
        BY <3>3 DEF TypeOK
      <4>2. c \in Chunks' /\ c # x /\ live'[q] = live[q] /\ q \in DOMAIN live'
        BY <2>5, <3>1, <4>1 DEF MallocReuse, MallocExpand, Extend, Chunks
      <4>3. live'[p] = arg /\ p \in DOMAIN live'
        BY <3>1
      <4>4. /\ live[q] <= size'[c] - HeaderSize
            /\ arg <= size'[x] - HeaderSize
        BY <3>3, <3>4, <4>1, <4>2, <4>3 DEF Inv, LiveBlocksFit
      <4>5. c + size'[c] <= x \/ x + size'[x] <= c
        BY <3>3, <3>4, <4>2 DEF Inv, ChunksDisjoint
      <4>6. /\ c \in Nat /\ x \in Nat /\ size'[c] \in Nat /\ size'[x] \in Nat
            /\ live[q] \in Nat /\ arg \in Nat
        BY <3>3, <3>4, <4>2 DEF TypeOK
      <4>7. QED
        BY <4>1, <4>4, <4>5, <4>6 DEF Alloc!Overlap, Data, HeaderSize
    <3>6. Alloc!Malloc(p, live'[p])
      BY <2>5, <3>1, <3>2, <3>5 DEF Alloc!Malloc
    <3>7. QED
      BY <3>1, <3>6 DEF Alloc!Next
  <2>6. ASSUME ~ damaged, damaged' # TRUE, FreeFound \/ FreeMiss
        PROVE  Alloc!Next \/ UNCHANGED <<live, damaged>>
    <3>1. TypeOK /\ damaged' = damaged
      BY <2>6 DEF ListInv, Inv, TypeOK, FreeFound, FreeMiss
    <3>2. live' = [q \in DOMAIN live \ {arg} |-> live[q]]
      BY <2>6 DEF FreeFound, FreeMiss, FreeReturn
    <3>3. CASE arg \in DOMAIN live
      BY <2>6, <3>1, <3>2, <3>3 DEF Alloc!Next, Alloc!Free
    <3>4. CASE arg \notin DOMAIN live
      BY <3>1, <3>2, <3>4 DEF TypeOK
    <3>5. QED
      BY <3>3, <3>4
  <2>7. damaged => damaged'
    BY DEF Next, Step, MallocCall, FreeCall, MallocWalk, FreeWalk, MallocReuse,
           MallocExpand, MallocReturn, FreeFound, FreeMiss
  <2>8. damaged \in BOOLEAN /\ damaged' \in BOOLEAN
    BY StepInv DEF ListInv, Inv, TypeOK
  <2>9. QED
    BY <2>1, <2>2, <2>3, <2>4, <2>5, <2>6, <2>7, <2>8 DEF Next, Step
<1>3. QED
  BY <1>1, <1>2, ListInvariant, PTL DEF Spec, ImplementsAllocator, Alloc!Spec
==============================================================================
