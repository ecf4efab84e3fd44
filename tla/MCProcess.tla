------------------------------ MODULE MCProcess -------------------------------
(***************************************************************************)
(* The kernel on a machine of 42 pages, laid out in the order of           *)
(* mlayout.h, tables with eight entries.                                   *)
(***************************************************************************)
EXTENDS Process, TLC

Low == 0 .. 2
Image == {4}
Boot == {5}
Pml4 == 12 .. 13
Heap == 31 .. 32
ProcHeap == {31}
Hardware == {33}

\* Memory when kmain starts: the boot loader's PML4, left-over bytes where the kernel's PML4
\* will be and in frames that are never tables, and zeros in the untouched frames.
Memory == [f \in Frame |-> CASE f = 1 -> 0 :> 0
                             [] f = 12 -> 0 :> 34 @@ 3 :> 34 @@ 7 :> 5
                             [] f \in {3, 34} -> 1 :> 3
                             [] OTHER -> <<>>]

\* The same machine started again without its memory being cleared: with this for RAM,
\* FramesExclusive is violated.
Stale == [f \in Frame |-> IF f \in Reserve THEN 0 :> Slot(0) ELSE Memory[f]]
==============================================================================
