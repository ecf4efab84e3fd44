------------------------------ MODULE CharQueue ------------------------------
(***************************************************************************)
(* What the reader of the keyboard may rely on: a bounded first-in         *)
(* first-out queue of characters.  Putting may silently drop what finds no *)
(* room; what is taken comes out once and in order, and EOF is answered    *)
(* exactly when the queue is empty.  The promise is void once `broken' is  *)
(* set; Keyboard says which step sets it.                                  *)
(***************************************************************************)
EXTENDS Naturals, Sequences

CONSTANTS Capacity, EOF

VARIABLES queue, got, broken

Init == queue = <<>> /\ got = EOF /\ broken = FALSE

\* One key press or call puts the characters s.
Put(s) ==
  /\ ~ broken
  /\ queue' = queue \o s
  /\ Len(queue') <= Capacity
  /\ UNCHANGED <<got, broken>>

Get ==
  /\ ~ broken
  /\ queue # <<>>
  /\ got' = Head(queue) /\ queue' = Tail(queue)
  /\ UNCHANGED broken

GetEmpty ==
  /\ ~ broken
  /\ queue = <<>>
  /\ got' = EOF
  /\ UNCHANGED <<queue, broken>>

Break == broken' = TRUE

Next ==
  \/ \E i \in 1 .. Len(queue') : Put(SubSeq(queue', i, Len(queue')))
  \/ Get
  \/ GetEmpty
  \/ Break

Spec == Init /\ [][Next]_<<queue, got, broken>>
==============================================================================
