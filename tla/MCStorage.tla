------------------------------- MODULE MCStorage -------------------------------
(***************************************************************************)
(* A machine with an ISA bridge and an AHCI controller in one slot, a PCI  *)
(* bridge, and another controller behind it; four-sector drives.           *)
(***************************************************************************)
EXTENDS Storage, TLC

Fn(class, sub, multi, abar) ==
  [o \in {0, 10, 11, 14, 24, 25, 36} |->
     CASE o = 0 -> 1 [] o = 10 -> sub [] o = 11 -> class [] o = 14 -> multi
       [] o = 24 -> 0 [] o = 25 -> 1 [] o = 36 -> abar]
Machine ==
  (<<0, 0, 0>> :> Fn(6, 0, 0, 0)) @@ (<<0, 1, 0>> :> Fn(6, 1, 128, 0)) @@ (<<0, 1, 2>> :> Fn(1, 6, 0, 16))
  @@ (<<0, 2, 0>> :> Fn(6, 4, 1, 0)) @@ (<<1, 0, 0>> :> Fn(1, 6, 0, 16))

AllPorts == {<<<<0, 1, 2>>, 0>>, <<<<0, 1, 2>>, 1>>, <<<<0, 1, 2>>, 3>>, <<<<1, 0, 0>>, 0>>}
Drives == [p \in AllPorts |-> CASE p[2] = 1 -> "asleep" [] OTHER -> "sata"]

Asked ==
  {[op |-> "read", disk_id |-> 0, offset |-> 1, size |-> 2],
   [op |-> "read", disk_id |-> 1, offset |-> 2, size |-> 5],
   [op |-> "write", disk_id |-> 0, offset |-> 2, size |-> 1],
   [op |-> "write", disk_id |-> 7, offset |-> 2, size |-> 3],
   [op |-> "write", disk_id |-> 0, offset |-> 1, size |-> 2]}
================================================================================
