------------------------------ MODULE Allocator ------------------------------
(***************************************************************************)
(* What a caller of malloc() and free() may rely on: the bytes asked for   *)
(* are the caller's alone until it frees them; they overlap no other block *)
(* in use.  The promise is void once `broken' is set; Heap says exactly which *)
(* step of libc/memory sets it.                                            *)
(***************************************************************************)
EXTENDS Integers

VARIABLES
  blocks,  \* address of each block in use |-> the bytes asked for
  broken   \* the allocator has lost track of its blocks

Overlap(p, m, q, n) == p < q + n /\ q < p + m

Init == blocks = [p \in {} |-> 0] /\ broken = FALSE

\* malloc(n) returns p: n bytes that overlap nothing in use.
Malloc(p, n) ==
  /\ ~broken
  /\ p \notin DOMAIN blocks
  /\ \A q \in DOMAIN blocks : ~ Overlap(p, n, q, blocks[q])
  /\ blocks' = [q \in DOMAIN blocks \cup {p} |-> IF q = p THEN n ELSE blocks[q]]
  /\ UNCHANGED broken

\* free(p) ends the use of p and of nothing else; unknown pointers are ignored.
Free(p) ==
  /\ ~broken
  /\ p \in DOMAIN blocks
  /\ blocks' = [q \in DOMAIN blocks \ {p} |-> blocks[q]]
  /\ UNCHANGED broken

Break == broken' = TRUE

Next ==
  \/ \E p \in DOMAIN blocks' \ DOMAIN blocks : Malloc(p, blocks'[p])
  \/ \E p \in DOMAIN blocks : Free(p)
  \/ Break

Spec == Init /\ [][Next]_<<blocks, broken>>
==============================================================================
