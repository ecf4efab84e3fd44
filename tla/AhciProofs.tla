----------------------------- MODULE AhciProofs ------------------------------
(***************************************************************************)
(* Proofs about Ahci, for any machine, number of slots, sector and PRDT    *)
(* entry size, and any requests whose buffers are memory: the HBA never    *)
(* has more than one command besides the one waited for, and that one only *)
(* behind a stopped engine; so a port stays usable, no table is rewritten  *)
(* under the HBA, and every transfer is the one that was asked for.        *)
(***************************************************************************)
EXTENDS Ahci, NumberLemmas

------------------------------------------------------------------------------
\* The inductive invariant.

Places == {"issue", "ready", "wait", "reset", "returned"}
Calls ==
  [pc : Places, request : {call.request}, op : {"identify", "read", "write"}, port : Ports,
   start : Nat, count : Nat, buf : Nat, slot : Slots \cup {NoSlot}, spun : BOOLEAN, failed : BOOLEAN,
   late : BOOLEAN, saved : {call.saved}]

Typed ==
  /\ port \in [Ports -> [ci : SUBSET Slots, tfes : BOOLEAN, busy : BOOLEAN, running : BOOLEAN]]
  /\ table = [p \in Ports |-> [s \in Slots |-> table[p][s]]]
  /\ platter = [p \in Ports |-> [b \in Bytes |-> platter[p][b]]]
  /\ mem = [a \in Addresses |-> mem[a]]
  /\ probe \in Seq(Ports) /\ drives \in Seq(Ports)
  /\ call = Idle \/ call \in Calls

\* The commands at a port that nobody waits for.
Waiting == call # Idle /\ call.pc \in {"wait", "reset"}
Left(p) == IF Waiting /\ call.port = p THEN port[p].ci \ {call.slot} ELSE port[p].ci

\* There is at most one, and only behind an engine that has stopped.
AtMostOneLeft ==
  \A p \in Ports : /\ port[p].running => Left(p) = {}
                   /\ \A s, t \in Left(p) : s = t

\* An error shows at the call that waits, and stops an engine with nothing else to do.
ErrorsSeen ==
  call # Idle =>
    /\ call.pc = "ready" => call.slot \in Slots /\ call.slot \notin port[call.port].ci /\ ~ port[call.port].tfes
    /\ call.pc \in {"wait", "reset"} => call.slot \in Slots
    /\ call.pc = "wait" /\ port[call.port].tfes => ~ port[call.port].running /\ Left(call.port) = {}

\* Ports that are still to be probed have no command; the first may be being identified.
Unprobed ==
  /\ \A i, j \in 1 .. Len(probe) : probe[i] = probe[j] => i = j
  /\ \A i \in 1 .. Len(probe) : port[probe[i]].ci = {} \/ (i = 1 /\ call # Idle)
  /\ call # Idle => (probe # <<>> <=> call.op = "identify") /\ (probe # <<>> => call.port = probe[1])

Inv == Typed /\ AtMostOneLeft /\ ErrorsSeen /\ Unprobed

------------------------------------------------------------------------------
\* What a call moves.

Length == call.count * SECTOR_SIZE
First == call.start * SECTOR_SIZE

\* The call is that of the request, and until a retry has found its buffer moved, the table
\* of its command has the buffer.
Asked ==
  call # Idle /\ call.op # "identify" =>
    /\ call.request \in Requests
    /\ call.start = call.request.offset \div SECTOR_SIZE
    /\ call.count = UPPER_DIVIDE(call.request.size, SECTOR_SIZE)
    /\ call.op = "write" => call.request.op = "write"
Tabled ==
  call # Idle /\ call.pc \in {"ready", "wait", "reset"} /\ call.op # "identify" /\ ~ call.late =>
    table[call.port][call.slot] = [op |-> call.op, start |-> call.start, prdt |-> Prdt(Base, call.count)]

\* The command has been carried out.
Carried ==
  \/ call.pc \in {"wait", "reset"} /\ call.slot \notin port[call.port].ci
  \/ call.pc = "returned" /\ ~ call.failed

Reading ==
  call # Idle /\ call.op = "read" /\ ~ call.late =>
    /\ \A a \in Addresses : a \notin Base .. Base + Length - 1 => mem[a] = Garbage
    /\ Carried => \A k \in 0 .. Length - 1 : mem[Base + k] = platter[call.port][First + k]

Writing ==
  call # Idle /\ call.op = "write" /\ ~ call.late /\ call.request.offset % SECTOR_SIZE = 0 =>
    /\ \A k \in 0 .. Length - 1 :
         mem[Base + k] = IF k < call.request.size THEN <<"new", k>> ELSE call.saved[First + k]
    /\ \A b \in Bytes : b \notin First .. First + Length - 1 => platter[call.port][b] = call.saved[b]
    /\ Carried => \A b \in Bytes : b \in First .. First + Length - 1 =>
                    platter[call.port][b] = mem[Base + (b - First)]

DataInv == Asked /\ Tabled /\ Reading /\ Writing

------------------------------------------------------------------------------
\* Operators.

PortStates == [ci : SUBSET Slots, tfes : BOOLEAN, busy : BOOLEAN, running : BOOLEAN]

\* stop_cmd and start_cmd.
LEMMA RestartedIs ==
  ASSUME port \in [Ports -> PortStates], NEW p \in Ports
  PROVE  /\ Restarted(p) \in [Ports -> PortStates]
         /\ Restarted(p)[p] = [ci |-> {}, tfes |-> port[p].tfes, busy |-> TRUE, running |-> TRUE]
         /\ \A q \in Ports : q # p => Restarted(p)[q] = port[q]
BY DEF Restarted, PortStates

\* port_reset.
LEMMA PortResetIs ==
  ASSUME port \in [Ports -> PortStates], NEW p \in Ports
  PROVE  /\ port_reset(p) \in [Ports -> PortStates]
         /\ \A q \in Ports : /\ port_reset(p)[q].ci = port[q].ci /\ port_reset(p)[q].running = port[q].running
                              /\ port_reset(p)[q].tfes = port[q].tfes
<1>1. (Kind[p] # "absent") \in BOOLEAN
  OBVIOUS
<1>2. QED
  BY <1>1 DEF port_reset, PortStates

LEMMA Resets ==
  ASSUME port \in [Ports -> PortStates], NEW p \in Ports, port' = Restarted(p)
  PROVE  /\ port'[p].ci = {} /\ port'[p].tfes = port[p].tfes
         /\ \A q \in Ports : q # p => port'[q] = port[q]
<1>1. /\ Restarted(p)[p] = [ci |-> {}, tfes |-> port[p].tfes, busy |-> TRUE, running |-> TRUE]
      /\ \A q \in Ports : q # p => Restarted(p)[q] = port[q]
  BY RestartedIs
<1>2. QED
  BY <1>1

\* find_cmdslot returns a slot that is not in ci, if there is one.
LEMMA FindSlot ==
  ASSUME NEW p \in Ports
  PROVE  \/ find_cmdslot(p) = NoSlot
         \/ /\ find_cmdslot(p) \in Slots /\ find_cmdslot(p) \notin port[p].ci
            /\ find_cmdslot(p) # NoSlot
<1>1. FreeSlots(p) \in SUBSET Nat /\ NoSlot \notin Nat
  BY AhciAssumption DEF FreeSlots, Slots, NoSlot
<1>2. CASE FreeSlots(p) = {}
  BY <1>2 DEF find_cmdslot
<1>3. CASE FreeSlots(p) # {}
  <2>1. \E s \in FreeSlots(p) : \A t \in FreeSlots(p) : s <= t
    BY <1>1, <1>3, LeastElement
  <2>2. find_cmdslot(p) \in FreeSlots(p)
    BY <1>3, <2>1 DEF find_cmdslot
  <2>3. QED
    BY <2>2, <1>1 DEF FreeSlots
<1>4. QED
  BY <1>2, <1>3

\* UPPER_DIVIDE rounds up.
LEMMA UpperDivide ==
  ASSUME NEW n \in Nat, NEW d \in Nat, d > 0
  PROVE  /\ UPPER_DIVIDE(n, d) \in Nat
         /\ n <= UPPER_DIVIDE(n, d) * d /\ UPPER_DIVIDE(n, d) * d < n + d
         /\ n = 0 => UPPER_DIVIDE(n, d) = 0
         /\ n > 0 => UPPER_DIVIDE(n, d) > 0
<1> DEFINE q == (n + d - 1) \div d
           r == (n + d - 1) % d
<1>1. q \in Int /\ r \in 0 .. d - 1 /\ n + d - 1 = d * q + r
  OBVIOUS
<1>2. UPPER_DIVIDE(n, d) = q
  BY DEF UPPER_DIVIDE
<1> HIDE DEF q, r
<1>3. d * q = q * d /\ d * q >= n /\ d * q < n + d
  BY <1>1
<1>4. q >= 0
  <2>1. q < 0 => d * q <= 0 - d
    BY <1>1
  <2>2. QED
    BY <2>1, <1>1, <1>3
<1>5. n = 0 => q = 0
  <2>1. q > 0 => d * q >= d
    BY <1>1
  <2>2. QED
    BY <2>1, <1>1, <1>3, <1>4
<1>6. n > 0 => q > 0
  <2>1. q = 0 => d * q = 0
    OBVIOUS
  <2>2. QED
    BY <2>1, <1>1, <1>3, <1>4
<1>7. QED
  BY <1>1, <1>2, <1>3, <1>4, <1>5, <1>6

\* Filling the PRDT moves buf on.
LEMMA AdvancedTyped ==
  ASSUME NEW buf \in Nat, NEW count \in Nat
  PROVE  Advanced(buf, count) \in Nat
<1> DEFINE n == UPPER_DIVIDE(count, PRDT_SECTORS)
<1>1. n \in Nat /\ (count > 0 => n > 0)
  BY UpperDivide, AhciAssumption
<1> HIDE DEF n
<1>2. CASE count = 0
  BY <1>2 DEF Advanced
<1>3. CASE count > 0
  <2>1. n - 1 \in Nat
    BY <1>1, <1>3
  <2>2. (n - 1) * PRDT_SECTORS * SECTOR_SIZE \in Nat
    BY <2>1, AhciAssumption
  <2>3. QED
    BY <2>2, <1>3 DEF Advanced, n
<1>4. QED
  BY <1>2, <1>3

------------------------------------------------------------------------------
\* Types.

LEMMA InitTyped == Init => Typed
BY ProbeAssumption DEF Init, Typed, Stopped, PortStates

\* A new call.
LEMMA CommandTyped ==
  ASSUME NEW request, NEW op \in {"identify", "read", "write"}, NEW p \in Ports, NEW start \in Nat,
         NEW count \in Nat, NEW buf \in Nat, call' = Command(request, op, p, start, count, buf)
  PROVE  call' \in Calls' /\ call' # Idle
<1>1. call' \in Calls'
  BY DEF Command, Calls, Places
<1>2. call'.pc # Idle.pc
  BY DEF Command, Idle
<1>3. QED
  BY <1>1, <1>2

LEMMA CallIs ==
  ASSUME call \in Calls
  PROVE  /\ call # Idle /\ call.port \in Ports /\ call.pc \in Places
         /\ call.op \in {"identify", "read", "write"} /\ call.start \in Nat /\ call.count \in Nat
         /\ call.buf \in Nat /\ call.slot \in Slots \cup {NoSlot}
<1>1. call.pc \in Places
  BY DEF Calls
<1>2. call.pc # Idle.pc
  BY <1>1 DEF Places, Idle
<1>3. QED
  BY <1>2 DEF Calls

\* What is not idle has its fields.
LEMMA Called == ASSUME Typed, call.pc # "idle" PROVE call \in Calls
BY DEF Typed, Idle

LEMMA TypedProbe == ASSUME Typed, ProbePort PROVE Typed'
<1>1. probe # <<>> /\ Head(probe) \in Ports /\ Tail(probe) \in Seq(Ports)
  BY DEF Typed, ProbePort
<1> DEFINE p == Head(probe)
<1>2. CASE check_type(p) = "sata"
  <2>1. /\ port' = Restarted(p)
        /\ table' = [table EXCEPT ![p] = [s \in Slots |-> NoCommand]]
        /\ call' = Command("probe", "identify", p, 0, 0, 0)
        /\ UNCHANGED <<probe, platter, mem, drives>>
    BY <1>2 DEF ProbePort
  <2>2. port' \in [Ports -> PortStates]
    BY <1>1, <2>1, RestartedIs DEF Typed, PortStates
  <2>3. call' \in Calls'
    BY <1>1, <2>1, CommandTyped
  <2>4. table' = [q \in Ports |-> [s \in Slots |-> table'[q][s]]]
    BY <1>1, <2>1 DEF Typed
  <2>5. QED
    BY <2>1, <2>2, <2>3, <2>4 DEF Typed, PortStates
<1>3. CASE check_type(p) # "sata"
  <2>1. port' = port_reset(p) /\ probe' = Tail(probe) /\ UNCHANGED <<table, call, platter, mem, drives>>
    BY <1>3 DEF ProbePort
  <2>2. port' \in [Ports -> PortStates]
    BY <1>1, <2>1, PortResetIs DEF Typed, PortStates
  <2>3. QED
    BY <1>1, <2>1, <2>2 DEF Typed, PortStates, Calls
<1>4. QED
  BY <1>2, <1>3

LEMMA TypedAsk == ASSUME Typed, NEW r \in Requests, AskDisk(r) PROVE Typed'
<1>1. r.offset \in Nat /\ r.size \in Nat /\ r.disk_id \in Nat
  BY RequestAssumption
<1>2. r.offset \div SECTOR_SIZE \in Nat /\ UPPER_DIVIDE(r.size, SECTOR_SIZE) \in Nat
  <2>1. r.offset \div SECTOR_SIZE \in Nat
    BY <1>1, AhciAssumption, Division
  <2>2. UPPER_DIVIDE(r.size, SECTOR_SIZE) \in Nat
    BY <1>1, AhciAssumption, UpperDivide
  <2>3. QED
    BY <2>1, <2>2
<1>3. find_disk(r.disk_id) \in Ports
  BY <1>1 DEF find_disk, Typed, AskDisk
<1>4. call' \in Calls'
  BY <1>2, <1>3, CommandTyped, AhciAssumption DEF AskDisk
<1>5. mem' = [a \in Addresses |-> mem'[a]]
  BY DEF AskDisk
<1>6. QED
  BY <1>4, <1>5 DEF AskDisk, Typed

LEMMA TypedIssue == ASSUME Typed, Issue PROVE Typed'
<1>1. call \in Calls /\ call.port \in Ports
  BY Called, CallIs DEF Issue
<1> DEFINE p == call.port
           s == find_cmdslot(p)
<1>2. port' = [port EXCEPT ![p].tfes = FALSE] /\ UNCHANGED <<platter, mem, probe, drives>>
  BY DEF Issue
<1>3. port' \in [Ports -> PortStates]
  BY <1>1, <1>2, ZenonT(30) DEF Typed, PortStates
<1>4. CASE s = NoSlot
  <2>1. call' = Failed /\ UNCHANGED table
    BY <1>4 DEF Issue
  <2>2. call' \in Calls'
    BY <1>1, <2>1 DEF Failed, Calls, Places
  <2>3. QED
    BY <1>2, <1>3, <2>1, <2>2 DEF Typed, PortStates
<1>5. CASE s # NoSlot
  <2>1. /\ table' = [table EXCEPT ![p][s] = [op |-> call.op, start |-> call.start,
                                             prdt |-> Prdt(call.buf, call.count)]]
        /\ call' = [call EXCEPT !.pc = "ready", !.slot = s, !.spun = FALSE,
                                !.late = @ \/ (call.op # "identify" /\ call.buf # Base),
                                !.buf = Advanced(call.buf, call.count)]
    BY <1>5 DEF Issue
  <2>2. s \in Slots
    BY <1>1, <1>5, FindSlot
  <2>3. Advanced(call.buf, call.count) \in Nat
    BY <1>1, CallIs, AdvancedTyped
  <2> HIDE DEF s
  <2>4. call' \in Calls'
    BY <1>1, <2>1, <2>2, <2>3 DEF Calls, Places
  <2>5. table' = [q \in Ports |-> [t \in Slots |-> table'[q][t]]]
    BY <1>1, <2>1 DEF Typed
  <2>6. QED
    BY <1>2, <1>3, <2>4, <2>5 DEF Typed, PortStates
<1>6. QED
  BY <1>4, <1>5

LEMMA TypedDriver ==
  ASSUME Typed, ErrorsSeen, Start \/ Hung \/ Poll \/ Timeout \/ Retry \/ ReadReturned \/ WriteReturned
  PROVE  Typed'
<1>1. call \in Calls /\ call.port \in Ports /\ call.slot \in Slots \cup {NoSlot}
  <2>1. call.pc # "idle"
    BY DEF Start, Hung, Poll, Timeout, Retry, ReadReturned, WriteReturned
  <2>2. QED
    BY <2>1, Called, CallIs
<1>2. UNCHANGED <<table, platter, mem, probe, drives>>
  BY DEF Start, Hung, Poll, Timeout, Retry, ReadReturned, WriteReturned
<1>3. port' \in [Ports -> PortStates]
  <2>1. port \in [Ports -> PortStates]
    BY DEF Typed, PortStates
  <2>2. CASE Hung \/ Retry
    BY <2>1, <2>2, <1>1, RestartedIs DEF Hung, Retry
  <2>3. CASE Start
    <3>1. port' = [port EXCEPT ![call.port].ci = @ \cup {call.slot}]
      BY <2>3 DEF Start
    <3>2. call.slot \in Slots
      BY <2>3, <1>1, CallIs DEF Start, ErrorsSeen
    <3>3. QED
      BY <3>1, <3>2, <2>1, <1>1 DEF PortStates
  <2>4. CASE Poll \/ Timeout \/ ReadReturned \/ WriteReturned
    BY <2>1, <2>4 DEF Poll, Timeout, ReadReturned, WriteReturned
  <2>5. QED
    BY <2>2, <2>3, <2>4
<1>4. call' = Idle \/ call' \in Calls'
  <2>1. CASE Start
    BY <2>1, <1>1 DEF Start, Calls, Places
  <2>2. CASE Hung
    BY <2>2, <1>1 DEF Hung, Calls, Places
  <2>3. CASE Poll
    BY <2>3, <1>1 DEF Poll, Failed, Calls, Places
  <2>4. CASE Timeout
    BY <2>4, <1>1 DEF Timeout, Calls, Places
  <2>5. CASE Retry
    BY <2>5, <1>1 DEF Retry, Calls, Places
  <2>6. QED
    BY <2>1, <2>2, <2>3, <2>4, <2>5 DEF ReadReturned, WriteReturned
<1>5. QED
  BY <1>2, <1>3, <1>4 DEF Typed, PortStates

LEMMA TypedIdentified == ASSUME Typed, Unprobed, Identified PROVE Typed'
<1>1. call \in Calls /\ call.port \in Ports /\ call # Idle
  BY Called, CallIs DEF Identified
<1>2. probe # <<>> /\ Tail(probe) \in Seq(Ports) /\ Append(drives, call.port) \in Seq(Ports)
  BY <1>1 DEF Typed, Unprobed, Identified
<1>3. QED
  BY <1>2 DEF Typed, Identified

LEMMA TypedWriteHalf == ASSUME Typed, WriteHalf PROVE Typed'
<1>1. call \in Calls /\ call.port \in Ports /\ call.start \in Nat /\ call.count \in Nat
  BY Called, CallIs DEF WriteHalf
<1>2. call' \in Calls'
  BY <1>1, AhciAssumption DEF WriteHalf, Command, Calls, Places
<1>3. mem' = [a \in Addresses |-> mem'[a]]
  BY DEF WriteHalf, Filled
<1>4. QED
  BY <1>2, <1>3 DEF WriteHalf, Typed

\* A transfer leaves memory memory and disks disks.
LEMMA TypedTransfer ==
  ASSUME Typed, NEW p \in Ports, NEW s \in Slots, NEW n, Transfer(p, s, n)
  PROVE  /\ platter' = [q \in Ports |-> [b \in Bytes |-> platter'[q][b]]]
         /\ mem' = [a \in Addresses |-> mem'[a]]
         /\ table[p][s].op # "read" => mem' = mem
         /\ table[p][s].op # "write" => platter' = platter
<1> DEFINE cells == Cells(table[p][s].start, SubSeq(table[p][s].prdt, 1, n))
           moved == [b \in Bytes |-> IF \E c \in cells : c[2] = b
                                     THEN mem[(CHOOSE c \in cells : c[2] = b)[1]] ELSE platter[p][b]]
           taken == [a \in Addresses |-> IF \E c \in cells : c[1] = a
                                         THEN platter[p][(CHOOSE c \in cells : c[1] = a)[2]] ELSE mem[a]]
<1>1. /\ mem' = IF table[p][s].op # "read" THEN mem ELSE taken
      /\ platter' = IF table[p][s].op # "write" THEN platter ELSE [platter EXCEPT ![p] = moved]
  BY DEF Transfer
<1>2. moved = [b \in Bytes |-> moved[b]] /\ taken = [a \in Addresses |-> taken[a]]
  OBVIOUS
<1> HIDE DEF moved, taken
<1>3. QED
  BY <1>1, <1>2 DEF Typed

LEMMA TypedHardware ==
  ASSUME Typed, NEW p \in Ports, Execute(p) \/ Fault(p) \/ BecomesReady(p)
  PROVE  Typed'
<1>1. port \in [Ports -> PortStates] /\ port[p].ci \in SUBSET Slots
  BY DEF Typed, PortStates
<1>2. UNCHANGED <<table, probe, drives, call>>
  BY DEF Execute, Fault, BecomesReady
<1>3. port' \in [Ports -> PortStates]
  <2>1. CASE Execute(p)
    <3>1. PICK s \in port[p].ci : port' = [port EXCEPT ![p].ci = @ \ {s}]
      BY <2>1 DEF Execute
    <3>2. QED
      BY <3>1, <1>1 DEF PortStates
  <2>2. CASE Fault(p)
    BY <2>2, <1>1 DEF Fault, PortStates
  <2>3. CASE BecomesReady(p)
    BY <2>3, <1>1 DEF BecomesReady, PortStates
  <2>4. QED
    BY <2>1, <2>2, <2>3
<1>4. /\ platter' = [q \in Ports |-> [b \in Bytes |-> platter'[q][b]]]
      /\ mem' = [a \in Addresses |-> mem'[a]]
  <2>1. CASE Execute(p) \/ Fault(p)
    <3>1. PICK s \in port[p].ci : \E n : Transfer(p, s, n)
      BY <2>1 DEF Execute, Fault
    <3>2. QED
      BY <3>1, <1>1, TypedTransfer
  <2>2. CASE BecomesReady(p)
    BY <2>2 DEF BecomesReady, Typed
  <2>3. QED
    BY <2>1, <2>2
<1>5. QED
  BY <1>2, <1>3, <1>4 DEF Typed, PortStates, Calls

------------------------------------------------------------------------------
\* Slots and errors.

Engine == AtMostOneLeft /\ ErrorsSeen

LEMMA InitInv == Init => Inv
<1>1. Init => AtMostOneLeft
  BY DEF Init, AtMostOneLeft, Left, Waiting, Stopped
<1>2. Init => ErrorsSeen
  BY DEF Init, ErrorsSeen
<1>3. Init => Unprobed
  BY ProbeAssumption DEF Init, Unprobed, Stopped
<1>4. QED
  BY <1>1, <1>2, <1>3, InitTyped DEF Inv

\* A call that waits for nothing has left what its port has.
LEMMA LeftIs ==
  ASSUME NEW p
  PROVE  /\ Left(p) \subseteq port[p].ci
         /\ ~ (Waiting /\ call.port = p) => Left(p) = port[p].ci
         /\ Waiting /\ call.port = p => Left(p) = port[p].ci \ {call.slot}
BY DEF Left

\* Where the ports are as they were and nothing is waited for before or after.
LEMMA EngineKept ==
  ASSUME AtMostOneLeft, ~ Waiting, ~ Waiting', \A p \in Ports : port'[p].ci = port[p].ci /\ port'[p].running = port[p].running
  PROVE  AtMostOneLeft'
BY DEF AtMostOneLeft, Left

\* Where less is left, and an engine started only with nothing left.
LEMMA EngineLess ==
  ASSUME AtMostOneLeft,
         \A p \in Ports : Left(p)' \subseteq Left(p) /\ (port'[p].running => port[p].running \/ Left(p)' = {})
  PROVE  AtMostOneLeft'
<1> SUFFICES ASSUME NEW p \in Ports
             PROVE  /\ port'[p].running => Left(p)' = {}
                    /\ \A s, t \in Left(p)' : s = t
  BY DEF AtMostOneLeft
<1>1. Left(p)' \subseteq Left(p) /\ (port'[p].running => port[p].running \/ Left(p)' = {})
  OBVIOUS
<1>2. (port[p].running => Left(p) = {}) /\ \A s, t \in Left(p) : s = t
  BY DEF AtMostOneLeft
<1>3. QED
  BY <1>1, <1>2

LEMMA EngineProbe == ASSUME Inv, ProbePort PROVE Engine'
<1>1. call = Idle /\ ~ Waiting
  BY DEF ProbePort, Waiting
<1> DEFINE p == Head(probe)
<1>2. p \in Ports
  BY DEF ProbePort, Inv, Typed
<1>3. CASE check_type(p) = "sata"
  <2>1. port' = Restarted(p) /\ call' = Command("probe", "identify", p, 0, 0, 0)
    BY <1>3 DEF ProbePort
  <2>2. call'.pc = "issue" /\ ~ Waiting'
    BY <2>1 DEF Command, Waiting
  <2>3. port'[p].ci = {} /\ \A q \in Ports : q # p => port'[q] = port[q]
    <3>1. port \in [Ports -> PortStates]
      BY DEF Inv, Typed, PortStates
    <3> HIDE DEF p
    <3>2. QED
      BY <1>2, <2>1, <3>1, Resets
  <2>4. AtMostOneLeft'
    BY <1>1, <1>2, <2>2, <2>3 DEF Inv, AtMostOneLeft, Left
  <2>5. ErrorsSeen'
    BY <2>2 DEF ErrorsSeen
  <2>6. QED
    BY <2>4, <2>5 DEF Engine
<1>4. CASE check_type(p) # "sata"
  <2>1. port' = port_reset(p) /\ call' = Idle
    BY <1>1, <1>4 DEF ProbePort
  <2>2. \A q \in Ports : port'[q].ci = port[q].ci /\ port'[q].running = port[q].running
    BY <1>2, <2>1, PortResetIs DEF Inv, Typed, PortStates
  <2>3. AtMostOneLeft'
    BY <1>1, <2>1, <2>2 DEF Inv, AtMostOneLeft, Left, Waiting
  <2>4. QED
    BY <2>1, <2>3 DEF Engine, ErrorsSeen
<1>5. QED
  BY <1>3, <1>4

LEMMA EngineIssue == ASSUME Inv, Issue PROVE Engine'
<1>1. call \in Calls /\ call.port \in Ports /\ call.pc = "issue" /\ ~ Waiting
  BY Called, CallIs DEF Issue, Inv, Waiting
<1> DEFINE p == call.port
           s == find_cmdslot(p)
<1>2. /\ \A q \in Ports : port'[q].ci = port[q].ci /\ port'[q].running = port[q].running
      /\ ~ port'[p].tfes
  BY <1>1 DEF Issue, Inv, Typed
<1>3. call'.port = p /\ call' # Idle
      /\ \/ call'.pc = "returned"
         \/ call'.pc = "ready" /\ call'.slot = s /\ s # NoSlot
  <2>1. CASE s = NoSlot
    <3>1. call' = Failed
      BY <2>1 DEF Issue
    <3>2. call'.port = p /\ call'.pc = "returned"
      BY <1>1, <3>1 DEF Failed, Calls
    <3>3. QED
      BY <3>2 DEF Idle
  <2>2. CASE s # NoSlot
    <3>1. call' = [call EXCEPT !.pc = "ready", !.slot = s, !.spun = FALSE,
                               !.late = @ \/ (call.op # "identify" /\ call.buf # Base),
                               !.buf = Advanced(call.buf, call.count)]
      BY <2>2 DEF Issue
    <3> HIDE DEF s
    <3>2. call'.port = p /\ call'.pc = "ready" /\ call'.slot = s
      BY <1>1, <3>1 DEF Calls
    <3>3. QED
      BY <3>2, <2>2 DEF Idle
  <2>3. QED
    BY <2>1, <2>2
<1>4. s # NoSlot => s \in Slots /\ s \notin port[p].ci
  BY <1>1, FindSlot
<1> HIDE DEF s
<1>5. ~ Waiting'
  BY <1>3 DEF Waiting
<1>6. AtMostOneLeft'
  BY <1>1, <1>2, <1>5, EngineKept DEF Inv
<1>7. ErrorsSeen'
  BY <1>1, <1>2, <1>3, <1>4 DEF ErrorsSeen
<1>8. QED
  BY <1>6, <1>7 DEF Engine

LEMMA EngineStart == ASSUME Inv, Start PROVE Engine'
<1>1. call \in Calls /\ call.port \in Ports /\ call.pc = "ready" /\ call # Idle /\ ~ Waiting
  BY Called, CallIs DEF Start, Inv, Waiting
<1> PICK p \in Ports : p = call.port
  BY <1>1
<1>2. call.slot \in Slots /\ call.slot \notin port[p].ci /\ ~ port[p].tfes
  BY <1>1 DEF Inv, ErrorsSeen
<1>3. call' = [call EXCEPT !.pc = "wait"] /\ port' = [port EXCEPT ![p].ci = @ \cup {call.slot}]
  BY DEF Start
<1>4. call'.pc = "wait" /\ call'.port = p /\ call'.slot = call.slot /\ call' # Idle
  BY <1>1, <1>3 DEF Calls, Idle
<1>5. /\ \A q \in Ports : port'[q].running = port[q].running /\ (q # p => port'[q].ci = port[q].ci)
      /\ port'[p].ci = port[p].ci \cup {call.slot} /\ port'[p].tfes = port[p].tfes
  BY <1>1, <1>3 DEF Inv, Typed
<1>6. Waiting' /\ Left(p)' = Left(p)
  BY <1>1, <1>2, <1>4, <1>5 DEF Waiting, Left
<1>7. \A q \in Ports : q # p => Left(q)' = Left(q)
  BY <1>1, <1>4, <1>5 DEF Left
<1>8. AtMostOneLeft'
  <2>1. ASSUME NEW q \in Ports PROVE Left(q)' \subseteq Left(q) /\ (port'[q].running => port[q].running)
    BY <1>5, <1>6, <1>7
  <2>2. QED
    BY <2>1, EngineLess DEF Inv
<1>9. ErrorsSeen'
  BY <1>2, <1>4, <1>5 DEF ErrorsSeen
<1>10. QED
  BY <1>8, <1>9 DEF Engine

\* The port of a call is reset: it then has nothing.
LEMMA EngineReset == ASSUME Inv, Hung \/ Retry PROVE Engine'
<1>1. call \in Calls /\ call.port \in Ports /\ call # Idle /\ call.pc \in {"ready", "reset"}
  BY Called, CallIs DEF Hung, Retry, Inv
<1> PICK p \in Ports : p = call.port
  BY <1>1
<1>2. /\ port'[p].ci = {} /\ port'[p].tfes = port[p].tfes
      /\ \A q \in Ports : q # p => port'[q] = port[q]
  <2>1. port \in [Ports -> PortStates] /\ port' = Restarted(p)
    BY DEF Inv, Typed, PortStates, Hung, Retry
  <2>2. QED
    BY <2>1, Resets
<1>3. call'.port = p /\ call' # Idle /\ call'.slot = call.slot
      /\ (call'.pc = "issue" \/ (call'.pc = "ready" /\ call.pc = "ready"))
  BY <1>1 DEF Hung, Retry, Calls, Idle
<1>4. ~ Waiting' /\ Left(p)' = {}
  BY <1>2, <1>3 DEF Waiting, Left
<1>5. \A q \in Ports : q # p => Left(q)' = Left(q)
  BY <1>1, <1>2, <1>3, <1>4 DEF Left
<1>6. AtMostOneLeft'
  <2>1. ASSUME NEW q \in Ports
        PROVE  Left(q)' \subseteq Left(q) /\ (port'[q].running => port[q].running \/ Left(q)' = {})
    BY <1>2, <1>4, <1>5
  <2>2. QED
    BY <2>1, EngineLess DEF Inv
<1>7. ErrorsSeen'
  BY <1>1, <1>2, <1>3 DEF Inv, ErrorsSeen
<1>8. QED
  BY <1>6, <1>7 DEF Engine

LEMMA EnginePoll == ASSUME Inv, Poll PROVE Engine'
<1>1. call \in Calls /\ call.port \in Ports /\ call # Idle /\ call.pc = "wait" /\ Waiting
  BY Called, CallIs DEF Poll, Inv, Waiting
<1> PICK p \in Ports : p = call.port
  BY <1>1
<1>2. port' = port /\ call'.pc = "returned" /\ call'.port = p /\ call' # Idle
  BY <1>1 DEF Poll, Failed, Calls, Idle
<1>3. ~ Waiting'
  BY <1>2 DEF Waiting
<1>4. \A q \in Ports : q # p => Left(q)' = Left(q)
  BY <1>1, <1>2, <1>3 DEF Left
<1>5. CASE port[p].tfes
  <2>1. ~ port[p].running /\ Left(p) = {}
    BY <1>1, <1>5 DEF Inv, ErrorsSeen
  <2>2. Left(p)' \subseteq {call.slot}
    BY <1>1, <1>2, <1>3, <2>1 DEF Left
  <2>3. QED
    BY <1>2, <1>4, <2>1, <2>2 DEF Inv, Engine, AtMostOneLeft, ErrorsSeen
<1>6. CASE ~ port[p].tfes
  <2>1. call.slot \notin port[p].ci
    BY <1>6 DEF Poll
  <2>2. Left(p)' = Left(p)
    BY <1>1, <1>2, <1>3, <2>1 DEF Left
  <2>3. QED
    BY <1>2, <1>4, <2>2 DEF Inv, Engine, AtMostOneLeft, ErrorsSeen
<1>7. QED
  BY <1>5, <1>6

LEMMA EngineTimeout == ASSUME Inv, Timeout PROVE Engine'
<1>1. call \in Calls /\ call.port \in Ports /\ call # Idle /\ call.pc = "wait"
  BY Called, CallIs DEF Timeout, Inv
<1>2. port' = port /\ call'.pc = "reset" /\ call'.port = call.port /\ call' # Idle /\ call'.slot = call.slot
  BY <1>1 DEF Timeout, Calls, Idle
<1>3. Waiting /\ Waiting' /\ \A q \in Ports : Left(q)' = Left(q)
  BY <1>1, <1>2 DEF Waiting, Left
<1>4. QED
  BY <1>1, <1>2, <1>3 DEF Inv, Engine, AtMostOneLeft, ErrorsSeen

\* Calls begin and end with nothing waited for.
LEMMA EngineCalls ==
  ASSUME Inv, (\E r \in Requests : AskDisk(r)) \/ Identified \/ ReadReturned \/ WriteHalf \/ WriteReturned
  PROVE  Engine'
<1>1. port' = port /\ ~ Waiting
  BY DEF AskDisk, Identified, ReadReturned, WriteHalf, WriteReturned, Waiting
<1>2. call' = Idle \/ call'.pc = "issue"
  BY DEF AskDisk, Identified, ReadReturned, WriteHalf, WriteReturned, Command
<1>3. ~ Waiting'
  BY <1>2 DEF Waiting, Idle
<1>4. AtMostOneLeft'
  BY <1>1, <1>3 DEF Inv, AtMostOneLeft, Left
<1>5. ErrorsSeen'
  BY <1>2 DEF ErrorsSeen
<1>6. QED
  BY <1>4, <1>5 DEF Engine

\* A running engine has only the command that is waited for.
LEMMA RunsOnlyCall ==
  ASSUME Inv, NEW p \in Ports, port[p].running, NEW s \in port[p].ci
  PROVE  /\ Waiting /\ call.port = p /\ call.slot = s /\ call \in Calls
         /\ port[p].ci = {call.slot} /\ Left(p) = {}
<1>1. Left(p) = {}
  BY DEF Inv, AtMostOneLeft
<1>2. Waiting /\ call.port = p /\ port[p].ci \ {call.slot} = {}
  BY <1>1 DEF Left
<1>3. call \in Calls
  BY <1>2 DEF Waiting, Inv, Typed
<1>4. QED
  BY <1>1, <1>2, <1>3

LEMMA EngineHardware ==
  ASSUME Inv, NEW p \in Ports, Execute(p) \/ Fault(p) \/ BecomesReady(p)
  PROVE  Engine'
<1>1. call' = call /\ (Waiting' <=> Waiting)
  BY DEF Execute, Fault, BecomesReady, Waiting
<1>2. port \in [Ports -> PortStates]
  BY DEF Inv, Typed, PortStates
<1>3. CASE Execute(p)
  <2>1. PICK s \in port[p].ci : port' = [port EXCEPT ![p].ci = @ \ {s}]
    BY <1>3 DEF Execute
  <2>2. /\ \A q \in Ports : port'[q].running = port[q].running /\ port'[q].tfes = port[q].tfes
        /\ \A q \in Ports : port'[q].ci \subseteq port[q].ci
    BY <1>2, <2>1 DEF PortStates
  <2>3. \A q \in Ports : Left(q)' \subseteq Left(q)
    BY <1>1, <2>2 DEF Left
  <2>4. AtMostOneLeft'
    BY <2>2, <2>3, EngineLess DEF Inv
  <2>5. ErrorsSeen'
    <3>1. call # Idle => call.port \in Ports
      BY CallIs DEF Inv, Typed
    <3>2. QED
      BY <3>1, <1>1, <2>2, <2>3 DEF Inv, ErrorsSeen
  <2>6. QED
    BY <2>4, <2>5 DEF Engine
<1>4. CASE Fault(p)
  <2>1. PICK s \in port[p].ci : port[p].running
    BY <1>4 DEF Fault
  <2>2. Waiting /\ call.port = p /\ call \in Calls /\ Left(p) = {}
    BY <2>1, RunsOnlyCall
  <2>3. port' = [port EXCEPT ![p].tfes = TRUE, ![p].running = FALSE]
    BY <1>4 DEF Fault
  <2>4. /\ \A q \in Ports : port'[q].ci = port[q].ci /\ (port'[q].running => port[q].running)
        /\ ~ port'[p].running
    BY <1>2, <2>3 DEF PortStates
  <2>5. \A q \in Ports : Left(q)' = Left(q)
    BY <1>1, <2>4 DEF Left
  <2>6. AtMostOneLeft'
    BY <2>4, <2>5, EngineLess DEF Inv
  <2>7. ErrorsSeen'
    <3>1. call.pc # "ready"
      BY <2>2 DEF Waiting
    <3>2. QED
      BY <3>1, <1>1, <2>2, <2>4, <2>5 DEF Inv, ErrorsSeen
  <2>8. QED
    BY <2>6, <2>7 DEF Engine
<1>5. CASE BecomesReady(p)
  <2>1. port' = [port EXCEPT ![p].busy = FALSE]
    BY <1>5 DEF BecomesReady
  <2>2. \A q \in Ports : /\ port'[q].ci = port[q].ci /\ port'[q].running = port[q].running
                         /\ port'[q].tfes = port[q].tfes
    BY <1>2, <2>1 DEF PortStates
  <2>3. \A q \in Ports : Left(q)' = Left(q)
    BY <1>1, <2>2 DEF Left
  <2>4. AtMostOneLeft'
    BY <2>2, <2>3, EngineLess DEF Inv
  <2>5. ErrorsSeen'
    <3>1. call # Idle => call.port \in Ports
      BY CallIs DEF Inv, Typed
    <3>2. QED
      BY <3>1, <1>1, <2>2, <2>3 DEF Inv, ErrorsSeen
  <2>6. QED
    BY <2>4, <2>5 DEF Engine
<1>6. QED
  BY <1>3, <1>4, <1>5

------------------------------------------------------------------------------
\* Ports that are still to be probed.

\* The call goes on; only its port may get a command.
LEMMA UnprobedSame ==
  ASSUME Typed, Unprobed, UNCHANGED probe, call # Idle, call' # Idle, call'.op = call.op, call'.port = call.port,
         \A q \in Ports : q # call.port => port'[q].ci \subseteq port[q].ci
  PROVE  Unprobed'
<1>1. ASSUME NEW i \in 1 .. Len(probe) PROVE port'[probe[i]].ci = {} \/ i = 1
  <2> SUFFICES ASSUME i # 1 PROVE port'[probe[i]].ci = {}
    OBVIOUS
  <2>1. 1 \in 1 .. Len(probe) /\ probe # <<>> /\ probe[i] \in Ports
    BY DEF Typed
  <2>2. probe[i] # call.port
    BY <2>1 DEF Unprobed
  <2>3. port[probe[i]].ci = {}
    BY DEF Unprobed
  <2>4. QED
    BY <2>1, <2>2, <2>3
<1>2. call'# Idle => (probe' # <<>> <=> call'.op = "identify") /\ (probe' # <<>> => call'.port = probe'[1])
  BY DEF Unprobed
<1>3. \A i, j \in 1 .. Len(probe') : probe'[i] = probe'[j] => i = j
  BY DEF Unprobed
<1>4. \A i \in 1 .. Len(probe') : port'[probe'[i]].ci = {} \/ (i = 1 /\ call' # Idle)
  BY <1>1
<1>5. QED
  BY <1>2, <1>3, <1>4 DEF Unprobed

\* The first port is done with.
LEMMA UnprobedTail ==
  ASSUME Typed, Unprobed, probe # <<>>, probe' = Tail(probe), call' = Idle,
         \A q \in Ports : port'[q].ci = port[q].ci
  PROVE  Unprobed'
<1>1. /\ Len(probe') = Len(probe) - 1 /\ Len(probe) \in Nat
      /\ \A i \in 1 .. Len(probe') : i + 1 \in 2 .. Len(probe) /\ probe'[i] = probe[i + 1]
  BY DEF Typed
<1>2. ASSUME NEW i \in 1 .. Len(probe'), NEW j \in 1 .. Len(probe'), probe'[i] = probe'[j] PROVE i = j
  <2>1. probe[i + 1] = probe[j + 1] /\ i + 1 \in 1 .. Len(probe) /\ j + 1 \in 1 .. Len(probe)
    BY <1>1, <1>2
  <2>2. i + 1 = j + 1
    BY <2>1 DEF Unprobed
  <2>3. QED
    BY <2>2, <1>1
<1>3. ASSUME NEW i \in 1 .. Len(probe') PROVE port'[probe'[i]].ci = {}
  <2>1. i + 1 \in 1 .. Len(probe) /\ i + 1 # 1 /\ probe'[i] = probe[i + 1]
    BY <1>1
  <2>2. probe[i + 1] \in Ports
    BY <2>1 DEF Typed
  <2>3. QED
    BY <2>1, <2>2 DEF Unprobed
<1>4. QED
  BY <1>2, <1>3 DEF Unprobed

LEMMA UnprobedProbe == ASSUME Inv, ProbePort PROVE Unprobed'
<1>1. call = Idle /\ probe # <<>> /\ Head(probe) = probe[1] /\ probe[1] \in Ports
  BY DEF ProbePort, Inv, Typed
<1>2. CASE check_type(Head(probe)) = "sata"
  <2>1. port' = Restarted(probe[1]) /\ call' = Command("probe", "identify", probe[1], 0, 0, 0) /\ UNCHANGED probe
    BY <1>1, <1>2 DEF ProbePort
  <2>2. call'.pc = "issue" /\ call'.op = "identify" /\ call'.port = probe[1]
    BY <2>1 DEF Command
  <2>3. call' # Idle
    BY <2>2 DEF Idle
  <2>4. port \in [Ports -> PortStates]
    BY DEF Inv, Typed, PortStates
  <2>5. PICK p \in Ports : p = probe[1]
    BY <1>1
  <2>6. port'[p].ci = {} /\ \A q \in Ports : q # p => port'[q] = port[q]
    <3>1. port' = Restarted(p)
      BY <2>1, <2>5
    <3>2. QED
      BY <3>1, <2>4, Resets
  <2>7. ASSUME NEW i \in 1 .. Len(probe) PROVE port'[probe[i]].ci = {}
    <3>1. port[probe[i]].ci = {} /\ probe[i] \in Ports
      BY <1>1 DEF Inv, Unprobed, Typed
    <3>2. QED
      BY <3>1, <2>6
  <2>8. QED
    BY <1>1, <2>1, <2>2, <2>3, <2>7 DEF Inv, Unprobed
<1>3. CASE check_type(Head(probe)) # "sata"
  <2>1. port' = port_reset(probe[1]) /\ probe' = Tail(probe) /\ call' = Idle
    BY <1>1, <1>3 DEF ProbePort
  <2>2. PICK p \in Ports : p = probe[1]
    BY <1>1
  <2>3. \A q \in Ports : port'[q].ci = port[q].ci
    BY <2>1, <2>2, PortResetIs DEF Inv, Typed, PortStates
  <2>4. QED
    BY <1>1, <2>1, <2>3, UnprobedTail DEF Inv
<1>4. QED
  BY <1>2, <1>3

LEMMA UnprobedDriver == ASSUME Inv, Issue \/ Start \/ Hung \/ Poll \/ Timeout \/ Retry PROVE Unprobed'
<1>1. call \in Calls /\ call.port \in Ports /\ call # Idle
  BY Called, CallIs DEF Inv, Issue, Start, Hung, Poll, Timeout, Retry
<1>2. port \in [Ports -> PortStates]
  BY DEF Inv, Typed, PortStates
<1>3. UNCHANGED probe
  BY DEF Issue, Start, Hung, Poll, Timeout, Retry
<1>4. call' # Idle /\ call'.op = call.op /\ call'.port = call.port
  <2>1. call'.pc # "idle" /\ call'.op = call.op /\ call'.port = call.port
    <3>1. CASE Issue
      BY <3>1, <1>1 DEF Issue, Failed, Calls
    <3>2. CASE Start \/ Hung \/ Poll
      BY <3>2, <1>1 DEF Start, Hung, Poll, Failed, Calls, Places
    <3>3. CASE Timeout \/ Retry
      BY <3>3, <1>1 DEF Timeout, Retry, Calls
    <3>4. QED
      BY <3>1, <3>2, <3>3
  <2>2. QED
    BY <2>1 DEF Idle
<1>5. \A q \in Ports : q # call.port => port'[q].ci = port[q].ci
  <2>1. CASE Issue \/ Start
    BY <2>1, <1>1, <1>2 DEF Issue, Start, PortStates
  <2>2. CASE Hung \/ Retry
    BY <2>2, <1>1, <1>2, Resets DEF Hung, Retry
  <2>3. CASE Poll \/ Timeout
    BY <2>3 DEF Poll, Timeout
  <2>4. QED
    BY <2>1, <2>2, <2>3
<1>6. QED
  BY <1>1, <1>3, <1>4, <1>5, UnprobedSame DEF Inv

LEMMA UnprobedCalls ==
  ASSUME Inv, (\E r \in Requests : AskDisk(r)) \/ Identified \/ ReadReturned \/ WriteHalf \/ WriteReturned
  PROVE  Unprobed'
<1>1. CASE Identified
  <2>1. probe # <<>>
    BY <1>1, Called, CallIs DEF Identified, Inv, Unprobed
  <2>2. QED
    BY <1>1, <2>1, UnprobedTail DEF Inv, Identified
<1>2. CASE (\E r \in Requests : AskDisk(r)) \/ ReadReturned \/ WriteHalf \/ WriteReturned
  <2>1. probe = <<>> /\ UNCHANGED probe
    <3>1. CASE \E r \in Requests : AskDisk(r)
      BY <3>1 DEF AskDisk
    <3>2. CASE ReadReturned \/ WriteHalf \/ WriteReturned
      <4>1. call # Idle /\ call.op # "identify" /\ UNCHANGED probe
        BY <3>2, Called, CallIs DEF ReadReturned, WriteHalf, WriteReturned, Inv
      <4>2. QED
        BY <4>1 DEF Inv, Unprobed
    <3>3. QED
      BY <1>2, <3>1, <3>2
  <2>2. call' = Idle \/ call'.op \in {"read", "write"}
    BY <1>2 DEF AskDisk, ReadReturned, WriteHalf, WriteReturned, Command
  <2>3. QED
    BY <2>1, <2>2 DEF Unprobed
<1>3. QED
  BY <1>1, <1>2

LEMMA UnprobedHardware ==
  ASSUME Inv, NEW p \in Ports, Execute(p) \/ Fault(p) \/ BecomesReady(p)
  PROVE  Unprobed'
<1>1. UNCHANGED <<call, probe>>
  BY DEF Execute, Fault, BecomesReady
<1>2. port \in [Ports -> PortStates]
  BY DEF Inv, Typed, PortStates
<1>3. \A q \in Ports : port'[q].ci \subseteq port[q].ci
  <2>1. CASE Execute(p)
    <3>1. PICK s \in port[p].ci : port' = [port EXCEPT ![p].ci = @ \ {s}]
      BY <2>1 DEF Execute
    <3>2. QED
      BY <3>1, <1>2 DEF PortStates
  <2>2. CASE Fault(p) \/ BecomesReady(p)
    BY <2>2, <1>2 DEF Fault, BecomesReady, PortStates
  <2>3. QED
    BY <2>1, <2>2
<1>4. ASSUME NEW i \in 1 .. Len(probe), port[probe[i]].ci = {} PROVE port'[probe[i]].ci = {}
  <2>1. probe[i] \in Ports
    BY DEF Inv, Typed
  <2>2. QED
    BY <2>1, <1>3, <1>4
<1>5. QED
  BY <1>1, <1>4 DEF Inv, Unprobed

------------------------------------------------------------------------------
\* The invariant and what follows from it.

LEMMA InvUnchanged == ASSUME Inv, UNCHANGED vars PROVE Inv'
<1>1. UNCHANGED <<port, table, platter, mem, probe, drives, call>>
  BY DEF vars
<1>2. Typed' /\ AtMostOneLeft'
  BY <1>1 DEF Inv, Typed, Calls, AtMostOneLeft, Left, Waiting
<1>3. ErrorsSeen' /\ Unprobed'
  BY <1>1 DEF Inv, ErrorsSeen, Unprobed, Left, Waiting
<1>4. QED
  BY <1>2, <1>3 DEF Inv

LEMMA NextInv == Inv /\ [Next]_vars => Inv'
<1> SUFFICES ASSUME Inv, [Next]_vars PROVE Inv'
  OBVIOUS
<1>1. Typed /\ ErrorsSeen /\ Unprobed
  BY DEF Inv
<1>2. CASE ProbePort
  BY <1>1, <1>2, TypedProbe, EngineProbe, UnprobedProbe DEF Inv, Engine
<1>3. CASE Issue
  BY <1>1, <1>3, TypedIssue, EngineIssue, UnprobedDriver DEF Inv, Engine
<1>4. CASE Start
  BY <1>1, <1>4, TypedDriver, EngineStart, UnprobedDriver DEF Inv, Engine
<1>5. CASE Hung \/ Retry
  BY <1>1, <1>5, TypedDriver, EngineReset, UnprobedDriver DEF Inv, Engine
<1>6. CASE Poll
  BY <1>1, <1>6, TypedDriver, EnginePoll, UnprobedDriver DEF Inv, Engine
<1>7. CASE Timeout
  BY <1>1, <1>7, TypedDriver, EngineTimeout, UnprobedDriver DEF Inv, Engine
<1>8. CASE Identified
  BY <1>1, <1>8, TypedIdentified, EngineCalls, UnprobedCalls DEF Inv, Engine
<1>9. CASE ReadReturned \/ WriteReturned
  BY <1>1, <1>9, TypedDriver, EngineCalls, UnprobedCalls DEF Inv, Engine
<1>10. CASE WriteHalf
  BY <1>1, <1>10, TypedWriteHalf, EngineCalls, UnprobedCalls DEF Inv, Engine
<1>11. CASE Ask
  <2>1. PICK r \in Requests : AskDisk(r)
    BY <1>11 DEF Ask
  <2>2. QED
    BY <1>1, <2>1, TypedAsk, EngineCalls, UnprobedCalls DEF Inv, Engine
<1>12. CASE Hardware
  <2>1. PICK p \in Ports : Execute(p) \/ Fault(p) \/ BecomesReady(p)
    BY <1>12 DEF Hardware
  <2>2. QED
    BY <1>1, <2>1, TypedHardware, EngineHardware, UnprobedHardware DEF Inv, Engine
<1>13. CASE UNCHANGED vars
  BY <1>13, InvUnchanged
<1>14. QED
  BY <1>2, <1>3, <1>4, <1>5, <1>6, <1>7, <1>8, <1>9, <1>10, <1>11, <1>12, <1>13 DEF Next, Driver, Done

LEMMA SpecInv == Spec => []Inv
<1>1. QED
  BY InitInv, NextInv, PTL DEF Spec

\* find_cmdslot (ahci.c:219) always finds a slot for the next call: errors leave commands in ci,
\* but at most one of them, so a machine with two slots or more is never out of them.
THEOREM AhciRecoverable == Spec => []Recoverable
<1>1. Inv => Recoverable
  <2> SUFFICES ASSUME Inv, call = Idle, NEW p \in Ports PROVE FreeSlots(p) # {}
    BY DEF Recoverable
  <2>1. Left(p) = port[p].ci
    BY DEF Left, Waiting
  <2>2. \A s, t \in port[p].ci : s = t
    BY <2>1 DEF Inv, AtMostOneLeft
  <2>3. 0 \in Slots /\ 1 \in Slots /\ 0 # 1
    BY AhciAssumption, SlotsAssumption DEF Slots
  <2>4. QED
    BY <2>2, <2>3 DEF FreeSlots
<1>2. QED
  BY <1>1, SpecInv, PTL

\* A command table is not rewritten while the HBA has its command: read_ahci and write_ahci
\* fill in the table of a slot that ci does not have (ahci.c:219, 396), and port_rebase
\* clears the tables of ports that have no command yet (ahci.c:189).
THEOREM AhciSlotNotReused == Spec => SlotNotReused
<1>1. Inv /\ [Next]_vars => [\A p \in Ports : \A s \in port[p].ci : table'[p][s] = table[p][s]]_vars
  <2> SUFFICES ASSUME Inv, Next, NEW p \in Ports, NEW s \in port[p].ci PROVE table'[p][s] = table[p][s]
    OBVIOUS
  <2>1. s \in Slots
    BY DEF Inv, Typed
  <2>2. CASE ProbePort
    <3>1. call = Idle /\ probe # <<>> /\ Head(probe) = probe[1] /\ 1 \in 1 .. Len(probe) /\ probe[1] \in Ports
      BY <2>2 DEF ProbePort, Inv, Typed
    <3>2. port[Head(probe)].ci = {}
      BY <3>1 DEF Inv, Unprobed
    <3>3. p # Head(probe)
      BY <3>2
    <3>4. QED
      BY <2>2, <3>1, <3>3 DEF ProbePort, Inv, Typed
  <2>3. CASE Issue
    <3>1. call.port \in Ports
      BY <2>3, Called, CallIs DEF Inv, Issue
    <3>2. find_cmdslot(call.port) = NoSlot \/ find_cmdslot(call.port) \notin port[call.port].ci
      BY <3>1, FindSlot
    <3>3. PICK q, f, command :
            /\ q = call.port /\ f = find_cmdslot(q)
            /\ table' = table \/ (f # NoSlot /\ table' = [table EXCEPT ![q][f] = command])
      BY <2>3 DEF Issue
    <3>4. p \in DOMAIN table /\ DOMAIN table[p] = Slots
      BY DEF Inv, Typed
    <3>5. ~ (p = q /\ s = f) \/ table' = table
      BY <3>2, <3>3
    <3>6. CASE table' = [table EXCEPT ![q][f] = command] /\ p # q
      BY <3>4, <3>6
    <3>7. CASE table' = [table EXCEPT ![q][f] = command] /\ p = q /\ s # f
      <4>1. table'[p] = [table[p] EXCEPT ![f] = command]
        BY <3>4, <3>7
      <4>2. QED
        BY <2>1, <3>4, <3>7, <4>1
    <3>8. QED
      BY <3>3, <3>5, <3>6, <3>7
  <2>4. CASE ~ ProbePort /\ ~ Issue
    <3>1. UNCHANGED table
      BY <2>4 DEF Next, Driver, Start, Hung, Poll, Timeout, Retry, Identified, ReadReturned, WriteHalf, WriteReturned,
                  Ask, AskDisk, Hardware, Execute, Fault, BecomesReady, Done, vars
    <3>2. QED
      BY <3>1
  <2>5. QED
    BY <2>2, <2>3, <2>4
<1>2. QED
  BY <1>1, SpecInv, PTL DEF Spec, SlotNotReused

------------------------------------------------------------------------------
\* The regions of a transfer.

Regions(count) == UPPER_DIVIDE(count, PRDT_SECTORS)
SectorsIn(count, i) == IF i = Regions(count) THEN count - (Regions(count) - 1) * PRDT_SECTORS ELSE PRDT_SECTORS

\* Each region follows the one before, and all of them hold the sectors.
LEMMA RegionsFit ==
  ASSUME NEW count \in Nat, NEW i \in 1 .. Regions(count)
  PROVE  /\ Regions(count) \in Nat /\ SectorsIn(count, i) \in Nat
         /\ (i - 1) * PRDT_SECTORS \in Nat
         /\ i < Regions(count) => (i - 1) * PRDT_SECTORS + SectorsIn(count, i) = i * PRDT_SECTORS
         /\ i = Regions(count) => (i - 1) * PRDT_SECTORS + SectorsIn(count, i) = count
         /\ (i - 1) * PRDT_SECTORS + SectorsIn(count, i) <= count
<1> DEFINE n == Regions(count)
           P == PRDT_SECTORS
<1>1. P \in Nat /\ P > 0
  BY AhciAssumption
<1>2. n \in Nat /\ count <= n * P /\ n * P < count + P
  BY <1>1, UpperDivide DEF Regions
<1>3. SectorsIn(count, i) = IF i = n THEN count - (n - 1) * P ELSE P
  BY DEF SectorsIn
<1> HIDE DEF n, P
<1>4. i \in Nat /\ i >= 1 /\ i <= n
  BY <1>2 DEF n
<1>5. (i - 1) * P \in Nat /\ (i - 1) * P = i * P - P /\ (n - 1) * P = n * P - P
  BY <1>1, <1>2, <1>4
<1>6. i < n => i * P <= n * P - P
  <2> SUFFICES ASSUME i < n PROVE i * P <= n * P - P
    OBVIOUS
  <2>1. i <= n - 1 /\ n - 1 \in Nat
    BY <1>2, <1>4
  <2>2. i * P <= (n - 1) * P
    BY <2>1, <1>1, <1>4
  <2>3. QED
    BY <2>2, <1>5
<1>7. i * P \in Int /\ n * P \in Int
  BY <1>1, <1>2, <1>4
<1>8. CASE i = n
  <2>1. SectorsIn(count, i) = count - (n * P - P)
    BY <1>3, <1>5, <1>8
  <2>2. n * P = i * P
    BY <1>8
  <2>3. QED
    BY <2>1, <2>2, <1>1, <1>2, <1>5, <1>7, <1>8 DEF n, P
<1>9. CASE i < n
  <2>1. SectorsIn(count, i) = P
    BY <1>3, <1>9, <1>2, <1>4
  <2>2. QED
    BY <2>1, <1>1, <1>2, <1>4, <1>5, <1>6, <1>7, <1>9 DEF n, P
<1>10. QED
  BY <1>2, <1>4, <1>8, <1>9

LEMMA PrdtIs ==
  ASSUME NEW count \in Nat, NEW m \in 0 .. Regions(count)
  PROVE  LET part == SubSeq(Prdt(Base, count), 1, m)
         IN  /\ Regions(count) \in Nat /\ Len(Prdt(Base, count)) = Regions(count)
             /\ SubSeq(Prdt(Base, count), 1, Regions(count)) = Prdt(Base, count)
             /\ Len(part) = m
             /\ \A i \in 1 .. m : /\ part[i].dba = Base + (i - 1) * PRDT_SECTORS * SECTOR_SIZE
                                  /\ part[i].sectors = SectorsIn(count, i)
<1> DEFINE prdt == Prdt(Base, count)
           Region(i) == [dba |-> Base + (i - 1) * PRDT_SECTORS * SECTOR_SIZE, sectors |-> SectorsIn(count, i)]
           n == Regions(count)
<1>1. n \in Nat
  BY AhciAssumption, UpperDivide DEF Regions
<1>2. prdt = [i \in 1 .. n |-> Region(i)]
  BY DEF Prdt, Regions, SectorsIn
<1> HIDE DEF prdt, n, Region
<1>3. prdt \in Seq({Region(i) : i \in 1 .. n}) /\ Len(prdt) = n /\ \A i \in 1 .. n : prdt[i] = Region(i)
  BY <1>1, <1>2
<1>4. m \in 0 .. n
  BY DEF n
<1>5. Len(SubSeq(prdt, 1, m)) = m /\ \A i \in 1 .. m : SubSeq(prdt, 1, m)[i] = prdt[i]
  BY <1>1, <1>3, <1>4
<1>6. SubSeq(prdt, 1, n) = prdt
  BY <1>1, <1>3
<1>7. \A i \in 1 .. m : SubSeq(prdt, 1, m)[i] = Region(i)
  BY <1>1, <1>3, <1>4, <1>5
<1>8. ASSUME NEW i \in 1 .. m
      PROVE  /\ SubSeq(prdt, 1, m)[i].dba = Base + (i - 1) * PRDT_SECTORS * SECTOR_SIZE
             /\ SubSeq(prdt, 1, m)[i].sectors = SectorsIn(count, i)
  <2>1. /\ Region(i).dba = Base + (i - 1) * PRDT_SECTORS * SECTOR_SIZE
        /\ Region(i).sectors = SectorsIn(count, i)
    BY DEF Region
  <2>2. SubSeq(prdt, 1, m)[i] = Region(i)
    BY <1>7
  <2>3. QED
    BY <2>1, <2>2, Zenon
<1>9. QED
  BY <1>1, <1>3, <1>5, <1>6, <1>8 DEF n, prdt

\* The sum that the HBA keeps of the regions' sectors: where each one is on the disk.
LEMMA SectorsAre ==
  ASSUME NEW count \in Nat, NEW m \in 0 .. Regions(count)
  PROVE  \A i \in 1 .. m : SectorsOf(SubSeq(Prdt(Base, count), 1, m))[i - 1] = (i - 1) * PRDT_SECTORS
<1> DEFINE prdt == SubSeq(Prdt(Base, count), 1, m)
           n == Regions(count)
           Sum(f) == f = [i \in 0 .. Len(prdt) |-> IF i = 0 THEN 0 ELSE f[i - 1] + prdt[i].sectors]
           total == [i \in 0 .. m |-> IF i = n THEN count ELSE i * PRDT_SECTORS]
           sum == SectorsOf(prdt)
<1>1. n \in Nat /\ Len(prdt) = m /\ \A i \in 1 .. m : prdt[i].sectors = SectorsIn(count, i)
  BY PrdtIs
<1>2. sum = CHOOSE f : Sum(f)
  BY DEF SectorsOf
<1>3. m \in Nat /\ m <= n
  BY <1>1
<1> HIDE DEF prdt, n
<1>4. n = 0 => count = 0
  BY AhciAssumption, UpperDivide DEF n, Regions
<1>5. ASSUME NEW i \in 0 .. m
      PROVE  total[i] = IF i = 0 THEN 0 ELSE total[i - 1] + prdt[i].sectors
  <2>1. CASE i = 0
    <3>1. 0 * PRDT_SECTORS = 0
      BY AhciAssumption
    <3>2. QED
      BY <2>1, <3>1, <1>4
  <2>2. CASE i # 0
    <3>1. i \in 1 .. n /\ i \in 1 .. m /\ i - 1 \in 0 .. m /\ i - 1 # n /\ i \in Nat
      BY <1>3, <2>2, <1>1
    <3>2. /\ i < n => (i - 1) * PRDT_SECTORS + SectorsIn(count, i) = i * PRDT_SECTORS
          /\ i = n => (i - 1) * PRDT_SECTORS + SectorsIn(count, i) = count
      BY <3>1, RegionsFit DEF n
    <3>3. total[i - 1] = (i - 1) * PRDT_SECTORS
      BY <3>1
    <3>4. total[i] = IF i = n THEN count ELSE i * PRDT_SECTORS
      OBVIOUS
    <3>5. i < n \/ i = n
      BY <3>1, <1>1
    <3> HIDE DEF total
    <3>6. QED
      BY <2>2, <3>1, <3>2, <3>3, <3>4, <3>5, <1>1
  <2>3. QED
    BY <2>1, <2>2
<1>6. Sum(total)
  <2>1. total = [i \in 0 .. m |-> total[i]]
    OBVIOUS
  <2> HIDE DEF total
  <2>2. QED
    BY <2>1, <1>1, <1>5
<1>7. Sum(sum)
  BY <1>2, <1>6
<1> HIDE DEF sum
<1>8. \A i \in 0 .. m : sum[i] = IF i = 0 THEN 0 ELSE sum[i - 1] + prdt[i].sectors
  BY <1>1, <1>7
<1> HIDE DEF Sum, total
<1> DEFINE S == {i \in Nat : i \in 0 .. m => sum[i] = total[i]}
<1>9. 0 \in S
  BY <1>3, <1>5, <1>8
<1>10. ASSUME NEW i \in Nat, i \in S PROVE i + 1 \in S
  <2> SUFFICES ASSUME i + 1 \in 0 .. m PROVE sum[i + 1] = total[i + 1]
    OBVIOUS
  <2>1. i \in 0 .. m /\ i + 1 # 0 /\ (i + 1) - 1 = i
    BY <1>3
  <2>2. sum[i] = total[i]
    BY <1>10, <2>1
  <2>3. sum[i + 1] = sum[i] + prdt[i + 1].sectors
    BY <2>1, <1>8
  <2>4. total[i + 1] = total[i] + prdt[i + 1].sectors
    BY <2>1, <1>5
  <2>5. QED
    BY <2>2, <2>3, <2>4
<1> HIDE DEF S
<1>11. \A i \in Nat : i \in S
  BY <1>9, <1>10, SetInduction
<1>12. ASSUME NEW i \in 1 .. m PROVE sum[i - 1] = (i - 1) * PRDT_SECTORS
  <2>1. i - 1 \in Nat /\ i - 1 \in 0 .. m /\ i - 1 # n
    BY <1>1, <1>3
  <2>2. sum[i - 1] = total[i - 1]
    BY <2>1, <1>11 DEF S
  <2>3. total[i - 1] = (i - 1) * PRDT_SECTORS
    BY <2>1 DEF total
  <2>4. QED
    BY <2>2, <2>3
<1>13. QED
  BY <1>12 DEF sum, prdt

\* A transfer moves bytes of the buffer and of the sectors, to and from the same place in each.
LEMMA CellsWithin ==
  ASSUME NEW count \in Nat, NEW m \in 0 .. Regions(count), NEW start \in Nat,
         NEW c \in Cells(start, SubSeq(Prdt(Base, count), 1, m))
  PROVE  \E k \in 0 .. count * SECTOR_SIZE - 1 : c[1] = Base + k /\ c[2] = start * SECTOR_SIZE + k
<1> DEFINE prdt == SubSeq(Prdt(Base, count), 1, m)
           Z == SECTOR_SIZE
<1>1. /\ Regions(count) \in Nat /\ Len(prdt) = m
      /\ \A i \in 1 .. m : /\ prdt[i].dba = Base + (i - 1) * PRDT_SECTORS * SECTOR_SIZE
                           /\ prdt[i].sectors = SectorsIn(count, i)
                           /\ SectorsOf(prdt)[i - 1] = (i - 1) * PRDT_SECTORS
  BY PrdtIs, SectorsAre
<1> HIDE DEF prdt
<1>2. PICK i \in 1 .. m : \E k \in 0 .. prdt[i].sectors * SECTOR_SIZE - 1 :
        c = <<prdt[i].dba + k, (start + SectorsOf(prdt)[i - 1]) * SECTOR_SIZE + k>>
  BY <1>1 DEF Cells, prdt
<1>3. PICK k \in 0 .. prdt[i].sectors * SECTOR_SIZE - 1 :
        c = <<prdt[i].dba + k, (start + SectorsOf(prdt)[i - 1]) * SECTOR_SIZE + k>>
  BY <1>2
<1> DEFINE before == (i - 1) * PRDT_SECTORS
           here == SectorsIn(count, i)
           at == before * Z + k
<1>4. i \in 1 .. Regions(count)
  BY <1>1
<1>5. before \in Nat /\ here \in Nat /\ before + here <= count
  BY <1>4, RegionsFit
<1>6. Z \in Nat /\ Z > 0 /\ Base \in Nat
  BY AhciAssumption
<1>7. k \in 0 .. here * Z - 1 /\ c[1] = (Base + before * Z) + k /\ c[2] = (start + before) * Z + k
  BY <1>1, <1>3
<1> HIDE DEF before, here, Z, at
<1>8. before * Z \in Nat /\ here * Z \in Nat /\ (before + here) * Z = before * Z + here * Z
      /\ (start + before) * Z = start * Z + before * Z /\ start * Z \in Nat /\ count * Z \in Nat
  BY <1>5, <1>6
<1>9. (before + here) * Z <= count * Z
  BY <1>5, <1>6
<1>10. at \in 0 .. count * Z - 1
  BY <1>7, <1>8, <1>9 DEF at
<1>11. c[1] = Base + at /\ c[2] = start * Z + at
  BY <1>6, <1>7, <1>8 DEF at
<1>12. QED
  BY <1>10, <1>11 DEF Z

\* And the whole transfer moves them all.
LEMMA CellsAll ==
  ASSUME NEW count \in Nat, NEW start \in Nat, NEW k \in 0 .. count * SECTOR_SIZE - 1
  PROVE  <<Base + k, start * SECTOR_SIZE + k>> \in Cells(start, Prdt(Base, count))
<1> DEFINE n == Regions(count)
           prdt == Prdt(Base, count)
           Z == SECTOR_SIZE
           P == PRDT_SECTORS
           w == P * Z
           q == k \div w
           r == k % w
<1>1. Z \in Nat /\ Z > 0 /\ P \in Nat /\ P > 0 /\ Base \in Nat
  BY AhciAssumption
<1>2. n \in Nat /\ count <= n * P
  BY <1>1, UpperDivide DEF Regions
<1>3. /\ Len(prdt) = n
      /\ \A i \in 1 .. n : /\ prdt[i].dba = Base + (i - 1) * P * Z
                           /\ prdt[i].sectors = SectorsIn(count, i)
                           /\ SectorsOf(prdt)[i - 1] = (i - 1) * P
  <2>1. n \in 0 .. n
    BY <1>2
  <2>2. SubSeq(prdt, 1, n) = prdt
    BY <2>1, PrdtIs
  <2>3. /\ Len(SubSeq(prdt, 1, n)) = n
        /\ \A i \in 1 .. n : /\ SubSeq(prdt, 1, n)[i].dba = Base + (i - 1) * P * Z
                             /\ SubSeq(prdt, 1, n)[i].sectors = SectorsIn(count, i)
    BY <2>1, PrdtIs
  <2>4. \A i \in 1 .. n : SectorsOf(SubSeq(prdt, 1, n))[i - 1] = (i - 1) * P
    BY <2>1, SectorsAre
  <2> HIDE DEF prdt, n, P, Z
  <2>5. QED
    BY <2>2, <2>3, <2>4
<1>4. k \in Nat /\ w \in Nat /\ w > 0 /\ k < count * Z
  BY <1>1
<1>5. q \in Nat /\ r \in 0 .. w - 1 /\ k = q * w + r
  BY <1>4, Division
<1> HIDE DEF n, prdt, P, Z, w, q, r
<1>6. q < n
  <2> SUFFICES ASSUME q >= n PROVE FALSE
    BY <1>2, <1>5
  <2>0. w \in Nat /\ w = P * Z
    BY <1>4 DEF w
  <2>1. q * w >= n * w
    BY <1>2, <1>5, <2>0
  <2>2. n * w = (n * P) * Z
    BY <2>0, <1>1, <1>2
  <2>3. (n * P) * Z >= count * Z
    BY <1>1, <1>2
  <2>4. q * w \in Int /\ n * w \in Int /\ count * Z \in Int
    BY <1>1, <1>2, <1>5, <2>0
  <2>5. QED
    BY <1>4, <1>5, <2>1, <2>2, <2>3, <2>4
<1> DEFINE i == q + 1
           here == SectorsIn(count, i)
<1>7. i \in 1 .. n /\ i - 1 = q
  BY <1>2, <1>5, <1>6
<1>8. /\ q * P \in Nat /\ here \in Nat
      /\ i < n => q * P + here = i * P
      /\ i = n => q * P + here = count
  <2>1. i \in 1 .. Regions(count)
    BY <1>7 DEF n
  <2>2. /\ (i - 1) * PRDT_SECTORS \in Nat /\ SectorsIn(count, i) \in Nat
        /\ i < Regions(count) => (i - 1) * PRDT_SECTORS + SectorsIn(count, i) = i * PRDT_SECTORS
        /\ i = Regions(count) => (i - 1) * PRDT_SECTORS + SectorsIn(count, i) = count
    BY <2>1, RegionsFit
  <2> HIDE DEF i
  <2>3. QED
    BY <2>2, <1>7 DEF n, P
<1> HIDE DEF here, i
<1>9. q * w = (q * P) * Z /\ q * w \in Nat
  BY <1>1, <1>5 DEF w
<1>10. r < here * Z
  <2>1. CASE i < n
    <3>1. i * P = q * P + P
      BY <1>1, <1>5, <1>7 DEF i
    <3>2. here = P
      BY <1>1, <1>8, <2>1, <3>1
    <3>3. QED
      BY <3>2, <1>1, <1>5 DEF w
  <2>2. CASE i = n
    <3>1. (q * P) * Z + here * Z = count * Z
      <4>1. q * P + here = count /\ q * P \in Nat
        BY <1>8, <2>2
      <4>2. (q * P + here) * Z = (q * P) * Z + here * Z
        BY <1>1, <1>8
      <4>3. QED
        BY <4>1, <4>2
    <3>2. here * Z \in Int /\ (q * P) * Z \in Int
      BY <1>1, <1>8
    <3>3. QED
      BY <3>1, <3>2, <1>4, <1>5, <1>9
  <2>3. QED
    BY <2>1, <2>2, <1>2, <1>7
<1>11. r \in 0 .. prdt[i].sectors * SECTOR_SIZE - 1
  <2>1. here * Z \in Int /\ prdt[i].sectors = here
    BY <1>1, <1>3, <1>7, <1>8 DEF here
  <2>2. r \in Nat
    BY <1>4, <1>5
  <2>3. QED
    BY <1>10, <2>1, <2>2 DEF Z
<1>12. <<prdt[i].dba + r, (start + SectorsOf(prdt)[i - 1]) * SECTOR_SIZE + r>> \in Cells(start, prdt)
  BY <1>3, <1>7, <1>11 DEF Cells
<1>13. prdt[i].dba + r = Base + k
  <2>1. prdt[i].dba = Base + (q * P) * Z
    BY <1>3, <1>7
  <2>2. r \in Int
    BY <1>4, <1>5
  <2>3. QED
    BY <2>1, <2>2, <1>1, <1>5, <1>9
<1>14. (start + SectorsOf(prdt)[i - 1]) * SECTOR_SIZE + r = start * SECTOR_SIZE + k
  <2>1. SectorsOf(prdt)[i - 1] = q * P
    BY <1>3, <1>7
  <2>2. (start + q * P) * Z = start * Z + (q * P) * Z /\ start * Z \in Nat
    BY <1>1, <1>8
  <2>3. r \in Int
    BY <1>4, <1>5
  <2>4. QED
    BY <2>1, <2>2, <2>3, <1>5, <1>9 DEF Z
<1>15. QED
  BY <1>12, <1>13, <1>14 DEF prdt

\* What a command of the driver's making does, done or broken off after m regions.
LEMMA TransferMoves ==
  ASSUME Typed, NEW p \in Ports, NEW s \in Slots, NEW op \in {"read", "write"}, NEW start \in Nat, NEW count \in Nat,
         Base + count * SECTOR_SIZE <= MemSize,
         table[p][s] = [op |-> op, start |-> start, prdt |-> Prdt(Base, count)],
         NEW m \in 0 .. Regions(count), Transfer(p, s, m)
  PROVE  /\ op = "read" =>
              /\ platter' = platter
              /\ \A a \in Addresses : a \notin Base .. Base + count * SECTOR_SIZE - 1 => mem'[a] = mem[a]
              /\ m = Regions(count) =>
                   \A k \in 0 .. count * SECTOR_SIZE - 1 : mem'[Base + k] = platter[p][start * SECTOR_SIZE + k]
         /\ op = "write" =>
              /\ mem' = mem
              /\ \A b \in Bytes : b \notin start * SECTOR_SIZE .. start * SECTOR_SIZE + count * SECTOR_SIZE - 1 =>
                                    platter'[p][b] = platter[p][b]
              /\ m = Regions(count) =>
                   \A b \in Bytes : b \in start * SECTOR_SIZE .. start * SECTOR_SIZE + count * SECTOR_SIZE - 1 =>
                                      platter'[p][b] = mem[Base + (b - start * SECTOR_SIZE)]
<1> DEFINE cells == Cells(start, SubSeq(Prdt(Base, count), 1, m))
           length == count * SECTOR_SIZE
           first == start * SECTOR_SIZE
           ToMem(a, c) == c \in cells /\ c[1] = a
           ToDisk(b, c) == c \in cells /\ c[2] = b
<1>1. length \in Nat /\ first \in Nat /\ Base \in Nat /\ MemSize \in Nat
  BY AhciAssumption
<1>2. \A c \in cells : \E k \in 0 .. length - 1 : c[1] = Base + k /\ c[2] = first + k
  BY CellsWithin
<1>3. m = Regions(count) => \A k \in 0 .. length - 1 : <<Base + k, first + k>> \in cells
  <2>1. Regions(count) \in Nat /\ SubSeq(Prdt(Base, count), 1, Regions(count)) = Prdt(Base, count)
    BY PrdtIs
  <2>2. QED
    BY <2>1, CellsAll
<1>4. /\ mem' = IF op # "read" THEN mem
                ELSE [a \in Addresses |-> IF \E c \in cells : c[1] = a
                                          THEN platter[p][(CHOOSE c \in cells : c[1] = a)[2]] ELSE mem[a]]
      /\ platter' = IF op # "write" THEN platter
                    ELSE [platter EXCEPT ![p] = [b \in Bytes |-> IF \E c \in cells : c[2] = b
                                          THEN mem[(CHOOSE c \in cells : c[2] = b)[1]] ELSE platter[p][b]]]
  BY DEF Transfer
<1> HIDE DEF cells, length, first
<1>5. CASE op = "read"
  <2>1. ASSUME NEW a \in Addresses, a \notin Base .. Base + length - 1 PROVE mem'[a] = mem[a]
    <3>1. \A c \in cells : c[1] # a
      BY <1>1, <1>2, <2>1
    <3>2. QED
      BY <3>1, <1>4, <1>5
  <2>2. ASSUME m = Regions(count), NEW k \in 0 .. length - 1 PROVE mem'[Base + k] = platter[p][first + k]
    <3>1. Base + k \in Addresses
      BY <1>1 DEF Addresses, length
    <3>2. \E c \in cells : c[1] = Base + k
      BY <1>3, <2>2
    <3>3. PICK c : c = CHOOSE d \in cells : d[1] = Base + k
      OBVIOUS
    <3>4. c \in cells /\ c[1] = Base + k
      BY <3>2, <3>3
    <3>5. c[2] = first + k
      <4>1. PICK j \in 0 .. length - 1 : c[1] = Base + j /\ c[2] = first + j
        BY <1>2, <3>4
      <4>2. j = k
        BY <4>1, <3>4, <1>1
      <4>3. QED
        BY <4>1, <4>2
    <3>6. mem'[Base + k] = platter[p][c[2]]
      BY <1>4, <1>5, <3>1, <3>2, <3>3
    <3>7. QED
      BY <3>5, <3>6
  <2>3. QED
    BY <1>4, <1>5, <2>1, <2>2 DEF length, first
<1>6. CASE op = "write"
  <2>1. \A b \in Bytes : platter'[p][b] = IF \E c \in cells : c[2] = b
                                          THEN mem[(CHOOSE c \in cells : c[2] = b)[1]] ELSE platter[p][b]
    <3>1. p \in DOMAIN platter
      BY DEF Typed
    <3>2. QED
      BY <3>1, <1>4, <1>6
  <2>2. ASSUME NEW b \in Bytes, b \notin first .. first + length - 1 PROVE platter'[p][b] = platter[p][b]
    <3>1. \A c \in cells : c[2] # b
      BY <1>1, <1>2, <2>2
    <3>2. QED
      BY <3>1, <2>1
  <2>3. ASSUME m = Regions(count), NEW b \in Bytes, b \in first .. first + length - 1
        PROVE  platter'[p][b] = mem[Base + (b - first)]
    <3>1. b - first \in 0 .. length - 1 /\ first + (b - first) = b
      BY <1>1, <2>3
    <3>2. \E c \in cells : c[2] = b
      BY <1>3, <2>3, <3>1
    <3>3. PICK c : c = CHOOSE d \in cells : d[2] = b
      OBVIOUS
    <3>4. c \in cells /\ c[2] = b
      BY <3>2, <3>3
    <3>5. c[1] = Base + (b - first)
      <4>1. PICK j \in 0 .. length - 1 : c[1] = Base + j /\ c[2] = first + j
        BY <1>2, <3>4
      <4>2. j = b - first
        BY <4>1, <3>4, <1>1
      <4>3. QED
        BY <4>1, <4>2
    <3>6. platter'[p][b] = mem[c[1]]
      BY <2>1, <3>2, <3>3
    <3>7. QED
      BY <3>5, <3>6
  <2>4. QED
    BY <1>4, <1>6, <2>2, <2>3 DEF length, first
<1>7. QED
  BY <1>5, <1>6

------------------------------------------------------------------------------
\* What a call has moved.

\* The call is still the same one.
SameCall ==
  /\ call' # Idle /\ call'.request = call.request /\ call'.op = call.op /\ call'.port = call.port
  /\ call'.start = call.start /\ call'.count = call.count /\ call'.saved = call.saved

\* Where nothing is moved and nothing more is carried out.
LEMMA DataKept ==
  ASSUME DataInv, call # Idle, SameCall, UNCHANGED <<mem, platter>>, call.late => call'.late, Carried' => Carried
  PROVE  Asked' /\ Reading' /\ Writing'
<1>1. Length' = Length /\ First' = First
  BY DEF SameCall, Length, First
<1>2. Asked'
  BY DEF DataInv, Asked, SameCall
<1>3. Reading'
  BY <1>1 DEF DataInv, Reading, SameCall
<1>4. Writing'
  BY <1>1 DEF DataInv, Writing, SameCall
<1>5. QED
  BY <1>2, <1>3, <1>4

LEMMA DataIssue == ASSUME Inv, DataInv, Issue PROVE DataInv'
<1>1. call \in Calls /\ call.port \in Ports /\ call # Idle
  BY Called, CallIs DEF Inv, Issue
<1> DEFINE p == call.port
           s == find_cmdslot(p)
<1>2. UNCHANGED <<mem, platter>>
  BY DEF Issue
<1>3. CASE s = NoSlot
  <2>1. call' = [call EXCEPT !.pc = "returned", !.failed = TRUE]
    BY <1>3 DEF Issue, Failed
  <2>2. /\ call'.pc = "returned" /\ call'.failed = TRUE /\ call'.late = call.late
        /\ call'.request = call.request /\ call'.op = call.op /\ call'.port = call.port
        /\ call'.start = call.start /\ call'.count = call.count /\ call'.saved = call.saved
    BY <1>1, <2>1 DEF Calls
  <2>3. SameCall
    BY <2>2 DEF SameCall, Idle
  <2>4. ~ Carried'
    BY <2>2 DEF Carried
  <2>5. Tabled'
    BY <2>2 DEF Tabled
  <2>6. QED
    BY <1>1, <1>2, <2>2, <2>3, <2>4, <2>5, DataKept DEF DataInv
<1>4. CASE s # NoSlot
  <2>1. /\ table' = [table EXCEPT ![p][s] = [op |-> call.op, start |-> call.start,
                                             prdt |-> Prdt(call.buf, call.count)]]
        /\ call' = [call EXCEPT !.pc = "ready", !.slot = s, !.spun = FALSE,
                                !.late = @ \/ (call.op # "identify" /\ call.buf # Base),
                                !.buf = Advanced(call.buf, call.count)]
    BY <1>4 DEF Issue
  <2>2. s \in Slots
    BY <1>1, <1>4, FindSlot
  <2> HIDE DEF s
  <2>3. /\ call'.pc = "ready" /\ call'.slot = s
        /\ call'.late = (call.late \/ (call.op # "identify" /\ call.buf # Base))
        /\ call'.request = call.request /\ call'.op = call.op /\ call'.port = call.port
        /\ call'.start = call.start /\ call'.count = call.count /\ call'.saved = call.saved
    BY <1>1, <2>1 DEF Calls
  <2>4. SameCall
    BY <2>3 DEF SameCall, Idle
  <2>5. ~ Carried'
    BY <2>3 DEF Carried
  <2>6. table'[p][s] = [op |-> call.op, start |-> call.start, prdt |-> Prdt(call.buf, call.count)]
    <3>1. p \in DOMAIN table /\ DOMAIN table[p] = Slots
      BY <1>1 DEF Inv, Typed
    <3>2. QED
      BY <2>1, <2>2, <3>1
  <2>7. Tabled'
    BY <2>3, <2>6 DEF Tabled
  <2>8. QED
    BY <1>1, <1>2, <2>3, <2>4, <2>5, <2>7, DataKept DEF DataInv
<1>5. QED
  BY <1>3, <1>4

LEMMA DataDriver == ASSUME Inv, DataInv, Start \/ Hung \/ Poll \/ Timeout \/ Retry PROVE DataInv'
<1>1. call \in Calls /\ call.port \in Ports /\ call # Idle
  BY Called, CallIs DEF Inv, Start, Hung, Poll, Timeout, Retry
<1>2. UNCHANGED <<mem, platter, table>>
  BY DEF Start, Hung, Poll, Timeout, Retry
<1>3. /\ call'.request = call.request /\ call'.op = call.op /\ call'.port = call.port
      /\ call'.start = call.start /\ call'.count = call.count /\ call'.saved = call.saved
      /\ call'.late = call.late /\ call'.slot = call.slot /\ call'.pc # "idle"
      /\ call'.pc \in {"ready", "wait", "reset"} => call.pc \in {"ready", "wait", "reset"}
  <2>1. CASE Start
    BY <1>1, <2>1 DEF Start, Calls
  <2>2. CASE Hung
    BY <1>1, <2>2 DEF Hung, Calls, Places
  <2>3. CASE Poll
    BY <1>1, <2>3 DEF Poll, Failed, Calls
  <2>4. CASE Timeout
    BY <1>1, <2>4 DEF Timeout, Calls
  <2>5. CASE Retry
    BY <1>1, <2>5 DEF Retry, Calls
  <2>6. QED
    BY <2>1, <2>2, <2>3, <2>4, <2>5
<1>4. SameCall
  BY <1>3 DEF SameCall, Idle
<1>5. Carried' => Carried
  <2>1. CASE Start
    <3>1. call'.pc = "wait" /\ port' = [port EXCEPT ![call.port].ci = @ \cup {call.slot}]
      BY <1>1, <2>1 DEF Start, Calls
    <3>2. call.slot \in port'[call.port].ci
      BY <1>1, <3>1 DEF Inv, Typed
    <3>3. QED
      BY <1>3, <3>1, <3>2 DEF Carried
  <2>2. CASE Hung \/ Retry
    <3>1. call'.pc \in {"ready", "issue"}
      BY <1>1, <2>2 DEF Hung, Retry, Calls
    <3>2. QED
      BY <3>1 DEF Carried
  <2>3. CASE Poll
    <3>1. CASE port[call.port].tfes
      <4>1. call'.pc = "returned" /\ call'.failed = TRUE
        BY <1>1, <2>3, <3>1 DEF Poll, Failed, Calls
      <4>2. QED
        BY <4>1 DEF Carried
    <3>2. CASE ~ port[call.port].tfes
      BY <2>3, <3>2 DEF Poll, Carried
    <3>3. QED
      BY <3>1, <3>2
  <2>4. CASE Timeout
    <3>1. call'.pc = "reset" /\ port' = port /\ call.slot \in port[call.port].ci
      BY <1>1, <2>4 DEF Timeout, Calls
    <3>2. QED
      BY <1>3, <3>1 DEF Carried
  <2>5. QED
    BY <2>1, <2>2, <2>3, <2>4
<1>6. Tabled'
  BY <1>1, <1>2, <1>3 DEF DataInv, Tabled
<1>7. QED
  BY <1>1, <1>2, <1>3, <1>4, <1>5, <1>6, DataKept DEF DataInv

\* Requests' numbers, and a buffer that is memory.
LEMMA RequestIs ==
  ASSUME call \in Calls, Asked, call.op # "identify"
  PROVE  /\ call.request \in Requests /\ call.request.offset \in Nat /\ call.request.size \in Nat
         /\ Length \in Nat /\ First \in Nat /\ Base \in Nat /\ Base + Length <= MemSize
         /\ call.request.size <= Length
         /\ call.request.offset = First + (call.request.offset % SECTOR_SIZE)
         /\ call.request.offset % SECTOR_SIZE \in Nat
<1>1. /\ call.request \in Requests
      /\ call.start = call.request.offset \div SECTOR_SIZE
      /\ call.count = UPPER_DIVIDE(call.request.size, SECTOR_SIZE)
  BY CallIs DEF Asked
<1>2. /\ call.request.offset \in Nat /\ call.request.size \in Nat
      /\ Base + UPPER_DIVIDE(call.request.size, SECTOR_SIZE) * SECTOR_SIZE <= MemSize
  BY <1>1, RequestAssumption
<1>3. PICK offset \in Nat, size \in Nat : offset = call.request.offset /\ size = call.request.size
  BY <1>2
<1>4. SECTOR_SIZE \in Nat /\ SECTOR_SIZE > 0 /\ Base \in Nat
  BY AhciAssumption
<1>5. UPPER_DIVIDE(size, SECTOR_SIZE) \in Nat /\ size <= UPPER_DIVIDE(size, SECTOR_SIZE) * SECTOR_SIZE
  BY <1>4, UpperDivide
<1>6. /\ offset \div SECTOR_SIZE \in Nat /\ offset % SECTOR_SIZE \in 0 .. SECTOR_SIZE - 1
      /\ offset = (offset \div SECTOR_SIZE) * SECTOR_SIZE + (offset % SECTOR_SIZE)
  BY <1>4, Division
<1>7. Length = UPPER_DIVIDE(size, SECTOR_SIZE) * SECTOR_SIZE /\ First = (offset \div SECTOR_SIZE) * SECTOR_SIZE
  BY <1>1, <1>3 DEF Length, First
<1>8. Length \in Nat /\ First \in Nat
  BY <1>4, <1>5, <1>6, <1>7
<1>9. offset % SECTOR_SIZE \in Nat
  BY <1>4, <1>6
<1>10. QED
  BY <1>1, <1>2, <1>3, <1>4, <1>5, <1>6, <1>7, <1>8, <1>9

LEMMA DataAsk == ASSUME Inv, NEW r \in Requests, AskDisk(r) PROVE DataInv'
<1>1. call' = Command(r, "read", find_disk(r.disk_id), r.offset \div SECTOR_SIZE, UPPER_DIVIDE(r.size, SECTOR_SIZE), Base)
  BY DEF AskDisk
<1>2. /\ call'.pc = "issue" /\ call'.op = "read" /\ call'.request = r
      /\ call'.start = r.offset \div SECTOR_SIZE /\ call'.count = UPPER_DIVIDE(r.size, SECTOR_SIZE)
  BY <1>1 DEF Command
<1>3. \A a \in Addresses : mem'[a] = Garbage
  BY DEF AskDisk
<1>4. ~ Carried'
  BY <1>2 DEF Carried
<1>5. QED
  BY <1>2, <1>3, <1>4 DEF DataInv, Asked, Tabled, Reading, Writing

LEMMA DataProbe == ASSUME Inv, DataInv, ProbePort PROVE DataInv'
<1>1. call' = Idle \/ call'.op = "identify"
  BY DEF ProbePort, Command
<1>2. QED
  BY <1>1 DEF DataInv, Asked, Tabled, Reading, Writing

LEMMA DataReturned == ASSUME Identified \/ ReadReturned \/ WriteReturned PROVE DataInv'
<1>1. call' = Idle
  BY DEF Identified, ReadReturned, WriteReturned
<1>2. QED
  BY <1>1 DEF DataInv, Asked, Tabled, Reading, Writing

\* The second half of write_disk begins with what the first has read and the new bytes.
LEMMA DataWriteHalf == ASSUME Inv, DataInv, WriteHalf PROVE DataInv'
<1>1. /\ call \in Calls /\ call.port \in Ports /\ call # Idle /\ call.pc = "returned" /\ call.op = "read"
      /\ call.request.op = "write"
  BY Called, CallIs DEF Inv, WriteHalf
<1>2. call' = [Command(call.request, "write", call.port, call.start, call.count, Base)
                 EXCEPT !.late = call.late \/ call.failed]
  BY DEF WriteHalf
<1>3. /\ call'.pc = "issue" /\ call'.op = "write" /\ call'.request = call.request /\ call'.port = call.port
      /\ call'.start = call.start /\ call'.count = call.count /\ call'.saved = platter[call.port]
      /\ call'.late = (call.late \/ call.failed)
  BY <1>2 DEF Command
<1>4. ~ Carried'
  BY <1>3 DEF Carried
<1>5. Asked' /\ Tabled' /\ Reading'
  BY <1>1, <1>3 DEF DataInv, Asked, Tabled, Reading
<1>6. Writing'
  <2>1. Length' = Length /\ First' = First /\ platter' = platter /\ mem' = Filled(call.request)
    BY <1>3 DEF Length, First, WriteHalf
  <2> SUFFICES ASSUME ~ call'.late, call.request.offset % SECTOR_SIZE = 0
               PROVE  \A k \in 0 .. Length - 1 :
                        mem'[Base + k] = IF k < call.request.size THEN <<"new", k>> ELSE platter[call.port][First + k]
    BY <1>3, <1>4, <2>1 DEF Writing
  <2>2. /\ call.request.size \in Nat /\ Length \in Nat /\ Base \in Nat /\ Base + Length <= MemSize
        /\ MemSize \in Nat
    BY <1>1, RequestIs, AhciAssumption DEF DataInv
  <2>3. ~ call.late /\ Carried
    BY <1>1, <1>3 DEF Carried
  <2>4. \A k \in 0 .. Length - 1 : mem[Base + k] = platter[call.port][First + k]
    BY <1>1, <2>3 DEF DataInv, Reading
  <2>5. ASSUME NEW k \in 0 .. Length - 1
        PROVE  mem'[Base + k] = IF k < call.request.size THEN <<"new", k>> ELSE mem[Base + k]
    <3>1. Base - 0 = Base /\ Base + k \in Addresses /\ (Base + k) - Base = k
      BY <2>2 DEF Addresses
    <3>2. Base + k \in Base .. Base + call.request.size - 1 <=> k < call.request.size
      BY <2>2
    <3>3. Filled(call.request) =
            [a \in Addresses |-> IF a \in Base .. Base + call.request.size - 1 THEN <<"new", a - Base>> ELSE mem[a]]
      BY <3>1 DEF Filled
    <3>4. Filled(call.request)[Base + k] =
            IF k < call.request.size THEN <<"new", (Base + k) - Base>> ELSE mem[Base + k]
      BY <3>1, <3>2, <3>3
    <3>5. QED
      BY <2>1, <3>1, <3>4
  <2>6. QED
    BY <2>4, <2>5
<1>7. QED
  BY <1>5, <1>6 DEF DataInv

\* The HBA carries out, or fails at, nothing but the command of the call.
LEMMA DataHardware ==
  ASSUME Inv, DataInv, NEW p \in Ports, Execute(p) \/ Fault(p) \/ BecomesReady(p)
  PROVE  DataInv'
<1>1. UNCHANGED <<call, table>>
  BY DEF Execute, Fault, BecomesReady
<1>2. port \in [Ports -> PortStates]
  BY DEF Inv, Typed, PortStates
<1>3. Asked' /\ Tabled' /\ Length' = Length /\ First' = First
  BY <1>1 DEF DataInv, Asked, Tabled, Length, First
<1>4. CASE BecomesReady(p)
  <2>1. port' = [port EXCEPT ![p].busy = FALSE] /\ UNCHANGED <<mem, platter>>
    BY <1>4 DEF BecomesReady
  <2>2. \A q \in Ports : port'[q].ci = port[q].ci
    BY <1>2, <2>1 DEF PortStates
  <2>3. call # Idle => call.port \in Ports
    BY CallIs DEF Inv, Typed
  <2>4. call # Idle => (Carried' <=> Carried)
    BY <1>1, <2>2, <2>3 DEF Carried
  <2>5. Reading' /\ Writing'
    BY <1>1, <1>3, <2>1, <2>4 DEF DataInv, Reading, Writing
  <2>6. QED
    BY <1>3, <2>5 DEF DataInv
<1>5. CASE Execute(p) \/ Fault(p)
  <2>1. PICK s \in port[p].ci :
          /\ port[p].running
          /\ \/ Transfer(p, s, Len(table[p][s].prdt))
             \/ Fault(p) /\ \E n \in 0 .. Len(table[p][s].prdt) : Transfer(p, s, n)
    BY <1>5 DEF Execute, Fault
  <2>2. s \in Slots
    BY <1>2 DEF PortStates
  <2>3. /\ Waiting /\ call.port = p /\ call.slot = s /\ call \in Calls /\ call # Idle
        /\ call.pc \in {"wait", "reset"}
    BY <2>1, RunsOnlyCall DEF Waiting
  <2>4. Fault(p) => ~ Carried'
    <3> SUFFICES ASSUME Fault(p) PROVE ~ Carried'
      OBVIOUS
    <3>1. port' = [port EXCEPT ![p].tfes = TRUE, ![p].running = FALSE]
      BY DEF Fault
    <3>2. port'[p].ci = port[p].ci
      BY <1>2, <3>1 DEF PortStates
    <3>3. QED
      BY <1>1, <2>3, <3>2 DEF Carried
  <2>5. CASE call.op = "identify" \/ call.late
    BY <1>1, <1>3, <2>5 DEF DataInv, Reading, Writing
  <2>6. CASE call.op # "identify" /\ ~ call.late
    <3>1. table[p][s] = [op |-> call.op, start |-> call.start, prdt |-> Prdt(Base, call.count)]
      BY <2>3, <2>6 DEF DataInv, Tabled
    <3>2. call.op \in {"read", "write"} /\ call.start \in Nat /\ call.count \in Nat
      BY <2>3, <2>6, CallIs
    <3>3. Length \in Nat /\ First \in Nat /\ Base \in Nat /\ Base + Length <= MemSize
      BY <2>3, <2>6, RequestIs DEF DataInv
    <3>4. Regions(call.count) \in Nat /\ Len(table[p][s].prdt) = Regions(call.count)
      <4>1. Regions(call.count) \in Nat
        BY <3>2, AhciAssumption, UpperDivide DEF Regions
      <4>2. Len(Prdt(Base, call.count)) = Regions(call.count)
        BY <4>1, <3>2, PrdtIs
      <4>3. QED
        BY <4>1, <4>2, <3>1
    <3>5. PICK m \in 0 .. Regions(call.count) : Transfer(p, s, m) /\ (Fault(p) \/ m = Regions(call.count))
      BY <2>1, <3>4
    <3>6. /\ call.op = "read" =>
               /\ platter' = platter
               /\ \A a \in Addresses : a \notin Base .. Base + Length - 1 => mem'[a] = mem[a]
               /\ m = Regions(call.count) => \A k \in 0 .. Length - 1 : mem'[Base + k] = platter[p][First + k]
          /\ call.op = "write" =>
               /\ mem' = mem
               /\ \A b \in Bytes : b \notin First .. First + Length - 1 => platter'[p][b] = platter[p][b]
               /\ m = Regions(call.count) =>
                    \A b \in Bytes : b \in First .. First + Length - 1 => platter'[p][b] = mem[Base + (b - First)]
      BY <2>2, <3>1, <3>2, <3>3, <3>5, TransferMoves DEF Inv, Length, First
    <3>7. Reading'
      <4> SUFFICES ASSUME call.op = "read"
                   PROVE  /\ \A a \in Addresses : a \notin Base .. Base + Length - 1 => mem'[a] = Garbage
                          /\ Carried' => \A k \in 0 .. Length - 1 : mem'[Base + k] = platter'[p][First + k]
        BY <1>1, <1>3, <2>3 DEF Reading
      <4>1. \A a \in Addresses : a \notin Base .. Base + Length - 1 => mem[a] = Garbage
        BY <2>3, <2>6 DEF DataInv, Reading
      <4>2. \A a \in Addresses : a \notin Base .. Base + Length - 1 => mem'[a] = Garbage
        BY <3>6, <4>1
      <4>3. Carried' => \A k \in 0 .. Length - 1 : mem'[Base + k] = platter'[p][First + k]
        BY <2>4, <3>5, <3>6
      <4>4. QED
        BY <4>2, <4>3
    <3>8. Writing'
      <4> SUFFICES ASSUME call.op = "write", call.request.offset % SECTOR_SIZE = 0
                   PROVE  /\ \A k \in 0 .. Length - 1 :
                               mem'[Base + k] = IF k < call.request.size THEN <<"new", k>> ELSE call.saved[First + k]
                          /\ \A b \in Bytes : b \notin First .. First + Length - 1 => platter'[p][b] = call.saved[b]
                          /\ Carried' => \A b \in Bytes : b \in First .. First + Length - 1 =>
                                           platter'[p][b] = mem'[Base + (b - First)]
        BY <1>1, <1>3, <2>3 DEF Writing
      <4>1. mem' = mem
        BY <3>6
      <4>2. /\ \A k \in 0 .. Length - 1 :
                 mem[Base + k] = IF k < call.request.size THEN <<"new", k>> ELSE call.saved[First + k]
            /\ \A b \in Bytes : b \notin First .. First + Length - 1 => platter[p][b] = call.saved[b]
        BY <2>3, <2>6 DEF DataInv, Writing
      <4>3. \A b \in Bytes : b \notin First .. First + Length - 1 => platter'[p][b] = call.saved[b]
        BY <3>6, <4>2
      <4>4. Carried' => \A b \in Bytes : b \in First .. First + Length - 1 =>
                          platter'[p][b] = mem'[Base + (b - First)]
        BY <2>4, <3>5, <3>6, <4>1
      <4>5. QED
        BY <4>1, <4>2, <4>3, <4>4
    <3>9. QED
      BY <1>3, <3>7, <3>8 DEF DataInv
  <2>7. QED
    BY <2>5, <2>6
<1>6. QED
  BY <1>4, <1>5

LEMMA DataNext == Inv /\ DataInv /\ [Next]_vars => DataInv'
<1> SUFFICES ASSUME Inv, DataInv, [Next]_vars PROVE DataInv'
  OBVIOUS
<1>1. CASE ProbePort
  BY <1>1, DataProbe
<1>2. CASE Issue
  BY <1>2, DataIssue
<1>3. CASE Start \/ Hung \/ Poll \/ Timeout \/ Retry
  BY <1>3, DataDriver
<1>4. CASE Identified \/ ReadReturned \/ WriteReturned
  BY <1>4, DataReturned
<1>5. CASE WriteHalf
  BY <1>5, DataWriteHalf
<1>6. CASE Ask
  BY <1>6, DataAsk DEF Ask
<1>7. CASE Hardware
  BY <1>7, DataHardware DEF Hardware
<1>8. CASE UNCHANGED vars
  <2>1. UNCHANGED <<port, table, platter, mem, call>>
    BY <1>8 DEF vars
  <2>2. QED
    BY <2>1 DEF DataInv, Asked, Tabled, Reading, Writing, Carried, Length, First
<1>9. QED
  BY <1>1, <1>2, <1>3, <1>4, <1>5, <1>6, <1>7, <1>8 DEF Next, Driver, Done

LEMMA SpecData == Spec => [](Inv /\ DataInv)
<1>1. Init => DataInv
  BY DEF Init, DataInv, Asked, Tabled, Reading, Writing
<1>2. QED
  BY <1>1, DataNext, InitInv, NextInv, PTL DEF Spec

\* read_ahci that returns true has put the sectors it was asked for into the buffer and touched
\* no other memory, with any number of PRDT entries and whatever errors and timeouts came
\* before (ahci.c:396), unless a retry found the buffer pointer moved (ahci.c:461): read_disk
\* then delivers the bytes of the disk as far as the sectors it fetched reach.
THEOREM AhciReadExact == Spec => []ReadExact
<1>1. Inv /\ DataInv => ReadExact
  <2> SUFFICES ASSUME Inv, DataInv, call.pc = "returned", call.op = "read", ~ call.failed, ~ call.late
               PROVE  /\ \A i \in DOMAIN Delivered(call.request) :
                           (call.request.offset % SECTOR_SIZE) + i < Length =>
                             Delivered(call.request)[i] = platter[call.port][call.request.offset + i]
                      /\ \A a \in Addresses \ (Base .. Base + Length - 1) : mem[a] = Garbage
    BY DEF ReadExact, Length
  <2>1. call \in Calls /\ call # Idle
    BY Called, CallIs DEF Inv
  <2>2. /\ call.request.offset \in Nat /\ call.request.size \in Nat /\ Length \in Nat /\ First \in Nat /\ Base \in Nat
        /\ call.request.offset = First + (call.request.offset % SECTOR_SIZE)
        /\ call.request.offset % SECTOR_SIZE \in Nat
    BY <2>1, RequestIs DEF DataInv
  <2>3. /\ \A a \in Addresses : a \notin Base .. Base + Length - 1 => mem[a] = Garbage
        /\ \A k \in 0 .. Length - 1 : mem[Base + k] = platter[call.port][First + k]
    BY <2>1 DEF DataInv, Reading, Carried
  <2>4. PICK skip \in Nat : skip = call.request.offset % SECTOR_SIZE
    BY <2>2
  <2>5. ASSUME NEW i \in 0 .. call.request.size - 1, skip + i < Length
        PROVE  Delivered(call.request)[i] = platter[call.port][call.request.offset + i]
    <3>1. i \in Nat
      BY <2>2
    <3>2. skip + i \in 0 .. Length - 1 /\ (Base + skip) + i = Base + (skip + i)
          /\ call.request.offset + i = First + (skip + i)
      BY <2>2, <2>4, <2>5, <3>1
    <3>3. Delivered(call.request)[i] = mem[(Base + skip) + i]
      BY <2>4 DEF Delivered
    <3>4. QED
      BY <2>3, <3>2, <3>3
  <2>6. QED
    BY <2>3, <2>4, <2>5 DEF Delivered
<1>2. QED
  BY <1>1, SpecData, PTL

\* write_disk to a sector boundary of which no part has failed has put its bytes on the disk
\* and left every other byte of it as it was, also those in the same sectors, whatever errors
\* and timeouts came before (disk.c:75, ahci.c:303), under the same condition on retries.
THEOREM AhciWriteExact == Spec => []WriteExact
<1>1. Inv /\ DataInv => WriteExact
  <2> DEFINE Byte(b) == IF b - call.request.offset \in 0 .. call.request.size - 1
                        THEN <<"new", b - call.request.offset>> ELSE call.saved[b]
  <2> SUFFICES ASSUME Inv, DataInv, call.pc = "returned", call.op = "write", ~ call.failed, ~ call.late,
                      call.request.offset % SECTOR_SIZE = 0
               PROVE  platter[call.port] = [b \in Bytes |-> Byte(b)]
    BY DEF WriteExact
  <2>1. call \in Calls /\ call # Idle /\ call.port \in Ports
    BY Called, CallIs DEF Inv
  <2>2. /\ call.request.offset \in Nat /\ call.request.size \in Nat /\ Length \in Nat /\ First \in Nat /\ Base \in Nat
        /\ call.request.offset = First /\ call.request.size <= Length
    <3>1. /\ call.request.offset \in Nat /\ call.request.size \in Nat /\ Length \in Nat /\ First \in Nat /\ Base \in Nat
          /\ call.request.offset = First + (call.request.offset % SECTOR_SIZE) /\ call.request.size <= Length
      BY <2>1, RequestIs DEF DataInv
    <3>2. QED
      BY <3>1
  <2>3. /\ \A k \in 0 .. Length - 1 :
             mem[Base + k] = IF k < call.request.size THEN <<"new", k>> ELSE call.saved[First + k]
        /\ \A b \in Bytes : b \notin First .. First + Length - 1 => platter[call.port][b] = call.saved[b]
        /\ \A b \in Bytes : b \in First .. First + Length - 1 => platter[call.port][b] = mem[Base + (b - First)]
    BY <2>1 DEF DataInv, Writing, Carried
  <2>4. ASSUME NEW b \in Bytes PROVE platter[call.port][b] = Byte(b)
    <3>1. b \in Nat
      BY AhciAssumption DEF Bytes
    <3>2. CASE b \in First .. First + Length - 1
      <4>1. b - First \in 0 .. Length - 1 /\ First + (b - First) = b
        BY <2>2, <3>1, <3>2
      <4>2. platter[call.port][b] = IF b - First < call.request.size THEN <<"new", b - First>> ELSE call.saved[b]
        <5>1. platter[call.port][b] = mem[Base + (b - First)]
          BY <2>3, <3>2
        <5>2. mem[Base + (b - First)] =
                IF b - First < call.request.size THEN <<"new", b - First>> ELSE call.saved[First + (b - First)]
          BY <2>3, <4>1
        <5>3. QED
          BY <4>1, <5>1, <5>2
      <4>3. b - First \in 0 .. call.request.size - 1 <=> b - First < call.request.size
        BY <2>2, <3>1, <4>1
      <4>4. QED
        BY <2>2, <4>2, <4>3
    <3>3. CASE b \notin First .. First + Length - 1
      <4>1. b - First \notin 0 .. call.request.size - 1
        BY <2>2, <3>1, <3>3
      <4>2. QED
        BY <2>2, <2>3, <3>3, <4>1
    <3>4. QED
      BY <3>2, <3>3
  <2>5. platter[call.port] = [b \in Bytes |-> platter[call.port][b]]
    BY <2>1 DEF Inv, Typed
  <2> HIDE DEF Byte
  <2>6. QED
    BY <2>4, <2>5
<1>2. QED
  BY <1>1, SpecData, PTL
==============================================================================
