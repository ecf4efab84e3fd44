-------------------------------- MODULE MCNet ---------------------------------
(***************************************************************************)
(* The network with a short ring, a small cache and a few frames.          *)
(***************************************************************************)
EXTENDS Net

Reply(ip, mac, n) ==
  [oper |-> "reply", spa |-> ip, sha |-> mac, tpa |-> "self", pad0 |-> TRUE, tha0 |-> FALSE, len |-> n]
Request(n) ==
  [oper |-> "request", spa |-> "a", sha |-> "m1", tpa |-> "self", pad0 |-> TRUE, tha0 |-> TRUE, len |-> n]

\* Replies from the gateway, with two answers, and from two other hosts, and a request
\* for this host, which is ignored before the first query has set its address.
\* Lengths are scaled down with the ring: 9 fills 16 bytes of it and 17 fills 24.
SomeFrames ==
  {Reply("gw", "m1", 9), Reply("gw", "m2", 17), Reply("a", "m1", 17), Reply("b", "m1", 17), Request(9)}

\* Just what it takes to interrupt a send with another.
FewFrames == {Reply("gw", "m1", 9), Request(9)}

\* What happens after two sends have overlapped is left to the run that looks for it.
Apart == ~ overlap
==============================================================================
