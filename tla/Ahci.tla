--------------------------------- MODULE Ahci ----------------------------------
(***************************************************************************)
(* Disks: kernel/driver/ahci.c and disk.c, on ports that are probed in a   *)
(* given order; Storage gives the order in which PCI enumeration has them. *)
(*                                                                         *)
(* The driver polls; there is one call at a time.  What the kernel does is *)
(* call, a record: what was asked (request), the command it is at (op,     *)
(* start, count, buf) and where (pc).  A port is what the driver sees of   *)
(* it and what the HBA does with it: commands in ci are carried out one at *)
(* a time while the engine runs, an error stops the engine with TFES set   *)
(* and ci as it was, clearing ST clears ci, a reset leaves the drive busy  *)
(* for a while.  Bytes of disks and memory are known by where they come    *)
(* from.  Memory around the temporary buffer of read_disk and write_disk   *)
(* is there to see what a transfer to a wrong address does.                *)
(***************************************************************************)
EXTENDS Integers, Sequences, FiniteSets

CONSTANTS
  Ports,           \* ports of all controllers, <<controller, number>>
  ProbeOrder,      \* ports in the order setup_ahci_controllers and probe_port come to them
  Kind,            \* what is at a port: "sata", "satapi", "absent", "asleep"
  SECTOR_SIZE,     \* in bytes
  PRDT_SECTORS,    \* sectors of one PRDT entry, 16 in the code
  cmdslots,        \* one global; of several controllers the last one's (ahci.c:48), taken to be all
  DiskSectors,     \* sectors of a drive
  Base, MemSize,   \* where malloc puts the buffer, and the memory around it
  Requests,        \* [op, disk_id, offset, size] of callers
  MaxCalls, MaxTimeouts, MaxErrors   \* bounds of a run

UPPER_DIVIDE(n, d) == (n + d - 1) \div d

ASSUME AhciAssumption ==
  /\ SECTOR_SIZE \in Nat /\ SECTOR_SIZE > 0
  /\ PRDT_SECTORS \in Nat /\ PRDT_SECTORS > 0
  /\ cmdslots \in Nat /\ cmdslots > 0
  /\ DiskSectors \in Nat /\ Base \in Nat /\ MemSize \in Nat
  /\ MaxCalls \in Nat /\ MaxTimeouts \in Nat /\ MaxErrors \in Nat
\* Every port is probed at most once.
ASSUME ProbeAssumption ==
  /\ ProbeOrder \in Seq(Ports)
  /\ \A i, j \in 1 .. Len(ProbeOrder) : ProbeOrder[i] = ProbeOrder[j] => i = j
\* The buffers that malloc gives are memory.
ASSUME RequestAssumption ==
  \A r \in Requests : /\ r.op \in {"read", "write"} /\ r.disk_id \in Nat
                       /\ r.offset \in Nat /\ r.size \in Nat
                       /\ Base + UPPER_DIVIDE(r.size, SECTOR_SIZE) * SECTOR_SIZE <= MemSize
\* Not for the single slot that cap may also report (ahci.c:48).
ASSUME SlotsAssumption == cmdslots >= 2

Slots == 0 .. cmdslots - 1
NoSlot == -1
Bytes == 0 .. DiskSectors * SECTOR_SIZE - 1
Addresses == 0 .. MemSize - 1
Garbage == <<"memory">>

VARIABLES
  port,      \* Ports -> ci, tfes, busy, running
  table,     \* Ports -> Slots -> the command in the slot's table
  platter,   \* Ports -> Bytes -> byte
  mem,       \* Addresses -> byte
  probe,     \* ports setup_ahci_controllers still has to look at
  drives,    \* list_drives in the order it grew: ports, the disk_id is the place
  call,
  calls, timeouts, errors

vars == <<port, table, platter, mem, probe, drives, call, calls, timeouts, errors>>
budget == <<calls, timeouts, errors>>

Idle == [pc |-> "idle"]
Command(request, op, p, start, count, buf) ==
  [pc |-> "issue", request |-> request, op |-> op, port |-> p, start |-> start, count |-> count,
   buf |-> buf, slot |-> NoSlot, spun |-> FALSE, failed |-> FALSE,
   late |-> FALSE, saved |-> platter[p]]   \* ghosts: a table got an advanced buf; the disk before

Stopped == [ci |-> {}, tfes |-> FALSE, busy |-> FALSE, running |-> FALSE]
NoCommand == [op |-> "none", start |-> 0, prdt |-> <<>>]

Init ==
  /\ port = [p \in Ports |-> Stopped]
  /\ table = [p \in Ports |-> [s \in Slots |-> NoCommand]]
  /\ platter = [p \in Ports |-> [a \in Bytes |-> <<"disk", p, a>>]]
  /\ mem = [a \in Addresses |-> Garbage]
  /\ probe = ProbeOrder /\ drives = <<>>
  /\ call = Idle /\ calls = 0 /\ timeouts = 0 /\ errors = 0

------------------------------------------------------------------------------
\* Boot: setup_ahci_controllers, initialize_ahci, probe_port.

check_type(p) == IF Kind[p] \in {"absent", "asleep"} THEN "null" ELSE Kind[p]

\* stop_cmd, then start_cmd.  The HBA answers the reset and both bits of cmd.
Restarted(p) == [port EXCEPT ![p] = [ci |-> {}, tfes |-> @.tfes, busy |-> TRUE, running |-> TRUE]]

\* What is at a port is busy after a reset.
port_reset(p) == [port EXCEPT ![p].busy = (Kind[p] # "absent")]

\* One round of probe_port: the port is reset; a SATA drive's port gets its tables (port_rebase)
\* and is asked to identify itself.  The link is taken to be up again when check_type looks.
ProbePort ==
  /\ call = Idle /\ probe # <<>>
  /\ LET p == Head(probe)
     IN  IF check_type(p) = "sata"
         THEN /\ port' = Restarted(p)
              /\ table' = [table EXCEPT ![p] = [s \in Slots |-> NoCommand]]
              /\ call' = Command("probe", "identify", p, 0, 0, 0)
              /\ UNCHANGED probe
         ELSE port' = port_reset(p) /\ probe' = Tail(probe) /\ UNCHANGED <<table, call>>
  /\ UNCHANGED <<platter, mem, drives, budget>>

------------------------------------------------------------------------------
\* Requests to disks.

\* A disk that is not there is the one at the end of list_drives, which is the first found.
find_disk(id) == IF id < Len(drives) THEN drives[id + 1] ELSE drives[1]

\* read_disk, and write_disk, which reads the sectors first.  malloc gives them fresh memory.
AskDisk(request) ==
  /\ call = Idle /\ probe = <<>> /\ drives # <<>> /\ calls < MaxCalls
  /\ call' = Command(request, "read", find_disk(request.disk_id), request.offset \div SECTOR_SIZE,
                     UPPER_DIVIDE(request.size, SECTOR_SIZE), Base)
  /\ mem' = [a \in Addresses |-> Garbage]
  /\ calls' = calls + 1
  /\ UNCHANGED <<port, table, platter, probe, drives, timeouts, errors>>

------------------------------------------------------------------------------
\* get_identify_sata, read_ahci and write_ahci are one procedure with different commands.

FreeSlots(p) == {s \in Slots : s \notin port[p].ci}
find_cmdslotFirst(p) == 0
find_cmdslot(p) ==
  IF FreeSlots(p) = {} THEN NoSlot ELSE CHOOSE s \in FreeSlots(p) : \A t \in FreeSlots(p) : s <= t

\* The physical region descriptors: PRDT_SECTORS sectors each, the rest in the last.
PrdtSwapped(buf, count) ==
  LET n == UPPER_DIVIDE(count, PRDT_SECTORS)
  IN  [i \in 1 .. n |-> [dba     |-> buf + (i - 1) * PRDT_SECTORS * SECTOR_SIZE,
                         sectors |-> IF i = 1 THEN count - (n - 1) * PRDT_SECTORS ELSE PRDT_SECTORS]]
Prdt(buf, count) ==
  LET n == UPPER_DIVIDE(count, PRDT_SECTORS)
  IN  [i \in 1 .. n |-> [dba     |-> buf + (i - 1) * PRDT_SECTORS * SECTOR_SIZE,
                         sectors |-> IF i = n THEN count - (n - 1) * PRDT_SECTORS ELSE PRDT_SECTORS]]
\* Filling them moves buf to the last one's address.
Advanced(buf, count) ==
  IF count = 0 THEN buf ELSE buf + (UPPER_DIVIDE(count, PRDT_SECTORS) - 1) * PRDT_SECTORS * SECTOR_SIZE

Failed == [call EXCEPT !.pc = "returned", !.failed = TRUE]

\* Up to the wait for the drive: status cleared, a slot taken, its table filled in.
Issue ==
  /\ call.pc = "issue"
  /\ LET p == call.port
         s == find_cmdslot(p)
     IN  /\ port' = [port EXCEPT ![p].tfes = FALSE]
         /\ IF s = NoSlot THEN call' = Failed /\ UNCHANGED table
            ELSE /\ table' = [table EXCEPT ![p][s] = [op |-> call.op, start |-> call.start,
                                                      prdt |-> Prdt(call.buf, call.count)]]
                 /\ call' = [call EXCEPT !.pc = "ready", !.slot = s, !.spun = FALSE,
                                         !.late = @ \/ (call.op # "identify" /\ call.buf # Base),
                                         !.buf = Advanced(call.buf, call.count)]
  /\ UNCHANGED <<platter, mem, probe, drives, budget>>

\* The drive is ready: the command goes to it.
Start ==
  /\ call.pc = "ready" /\ ~ port[call.port].busy
  /\ port' = [port EXCEPT ![call.port].ci = @ \cup {call.slot}]
  /\ call' = [call EXCEPT !.pc = "wait"]
  /\ UNCHANGED <<table, platter, mem, probe, drives, budget>>

\* The drive is busy for too long: the port is reset, once.
Hung ==
  /\ call.pc = "ready" /\ port[call.port].busy /\ ~ call.spun /\ timeouts < MaxTimeouts
  /\ port' = Restarted(call.port)
  /\ call' = [call EXCEPT !.spun = TRUE]
  /\ timeouts' = timeouts + 1
  /\ UNCHANGED <<table, platter, mem, probe, drives, calls, errors>>

\* The polling loop ends: the command is done, or it has failed.
Poll ==
  /\ call.pc = "wait"
  /\ call.slot \notin port[call.port].ci \/ port[call.port].tfes
  /\ call' = IF port[call.port].tfes THEN Failed ELSE [call EXCEPT !.pc = "returned"]
  /\ UNCHANGED <<port, table, platter, mem, probe, drives, budget>>

TimeoutNever == FALSE /\ UNCHANGED vars

\* The loop has counted down.  The HBA may still finish the command before the reset.  Behind
\* an engine that an error has stopped, time always runs out.
Timeout ==
  /\ call.pc = "wait"
  /\ call.slot \in port[call.port].ci /\ ~ port[call.port].tfes
  /\ timeouts < MaxTimeouts \/ ~ port[call.port].running
  /\ call' = [call EXCEPT !.pc = "reset"]
  /\ timeouts' = IF port[call.port].running THEN timeouts + 1 ELSE timeouts
  /\ UNCHANGED <<port, table, platter, mem, probe, drives, calls, errors>>

RetryNoStop ==
  /\ call.pc = "reset"
  /\ call' = [call EXCEPT !.pc = "issue"]
  /\ UNCHANGED <<port, table, platter, mem, probe, drives, budget>>

\* The procedure calls itself, with buf where it is now.
Retry ==
  /\ call.pc = "reset"
  /\ port' = Restarted(call.port)
  /\ call' = [call EXCEPT !.pc = "issue"]
  /\ UNCHANGED <<table, platter, mem, probe, drives, budget>>

------------------------------------------------------------------------------
\* What the callers do with the result, which they do not look at.

Identified ==
  /\ call.pc = "returned" /\ call.op = "identify"
  /\ drives' = Append(drives, call.port)
  /\ probe' = Tail(probe)
  /\ call' = Idle
  /\ UNCHANGED <<port, table, platter, mem, budget>>

\* memcpy to the caller, byte by byte from inside the buffer on.
Delivered(request) == [i \in 0 .. request.size - 1 |-> mem[Base + (request.offset % SECTOR_SIZE) + i]]

FilledWhole(request) ==
  [a \in Addresses |-> IF a \in Base .. Base + UPPER_DIVIDE(request.size, SECTOR_SIZE) * SECTOR_SIZE - 1
                       THEN <<"new", a - Base>> ELSE mem[a]]

\* memcpy from the caller: offset_sectors * 512 - offset is never positive.
Filled(request) ==
  LET at == Base - (request.offset % SECTOR_SIZE)
  IN  [a \in Addresses |-> IF a \in at .. at + request.size - 1 THEN <<"new", a - at>> ELSE mem[a]]

ReadReturned ==
  /\ call.pc = "returned" /\ call.op = "read" /\ call.request.op = "read"
  /\ call' = Idle
  /\ UNCHANGED <<port, table, platter, mem, probe, drives, budget>>

WriteHalf ==
  /\ call.pc = "returned" /\ call.op = "read" /\ call.request.op = "write"
  /\ mem' = Filled(call.request)
  /\ call' = [Command(call.request, "write", call.port, call.start, call.count, Base)
                EXCEPT !.late = call.late \/ call.failed]
  /\ UNCHANGED <<port, table, platter, probe, drives, budget>>

WriteReturned ==
  /\ call.pc = "returned" /\ call.op = "write"
  /\ call' = Idle
  /\ UNCHANGED <<port, table, platter, mem, probe, drives, budget>>

------------------------------------------------------------------------------
\* The HBA and the drives.

\* The sectors of the first i regions.
SectorsOf(prdt) ==
  LET sum[i \in 0 .. Len(prdt)] == IF i = 0 THEN 0 ELSE sum[i - 1] + prdt[i].sectors
  IN  sum

\* The memory address and the disk byte of each byte of a transfer.
Cells(start, prdt) ==
  UNION {{<<prdt[i].dba + k, (start + SectorsOf(prdt)[i - 1]) * SECTOR_SIZE + k>> :
            k \in 0 .. prdt[i].sectors * SECTOR_SIZE - 1} : i \in 1 .. Len(prdt)}

\* The transfer of the first n regions of the command in slot s of port p.
Transfer(p, s, n) ==
  LET cells == Cells(table[p][s].start, SubSeq(table[p][s].prdt, 1, n))
      op    == table[p][s].op
  IN  /\ mem' = IF op # "read" THEN mem
                ELSE [a \in Addresses |-> IF \E c \in cells : c[1] = a
                                          THEN platter[p][(CHOOSE c \in cells : c[1] = a)[2]] ELSE mem[a]]
      /\ platter' = IF op # "write" THEN platter
                    ELSE [platter EXCEPT ![p] = [b \in Bytes |-> IF \E c \in cells : c[2] = b
                                          THEN mem[(CHOOSE c \in cells : c[2] = b)[1]] ELSE @[b]]]

Execute(p) ==
  /\ port[p].running /\ ~ port[p].busy
  /\ \E s \in port[p].ci :
       /\ Transfer(p, s, Len(table[p][s].prdt))
       /\ port' = [port EXCEPT ![p].ci = @ \ {s}]
  /\ UNCHANGED <<table, probe, drives, call, budget>>

\* An error, perhaps after a part of the transfer.
Fault(p) ==
  /\ port[p].running /\ ~ port[p].busy /\ errors < MaxErrors
  /\ \E s \in port[p].ci : \E n \in 0 .. Len(table[p][s].prdt) : Transfer(p, s, n)
  /\ port' = [port EXCEPT ![p].tfes = TRUE, ![p].running = FALSE]
  /\ errors' = errors + 1
  /\ UNCHANGED <<table, probe, drives, call, calls, timeouts>>

BecomesReady(p) ==
  /\ port[p].busy
  /\ port' = [port EXCEPT ![p].busy = FALSE]
  /\ UNCHANGED <<table, platter, mem, probe, drives, call, budget>>

Ask == \E request \in Requests : AskDisk(request)
Driver ==
  \/ ProbePort \/ Issue \/ Start \/ Hung \/ Poll \/ Timeout \/ Retry
  \/ Identified \/ ReadReturned \/ WriteHalf \/ WriteReturned
Hardware == \E p \in Ports : Execute(p) \/ Fault(p) \/ BecomesReady(p)
Done == call = Idle /\ probe = <<>> /\ calls = MaxCalls /\ UNCHANGED vars
Next == Driver \/ Ask \/ Hardware \/ Done

\* The kernel runs; a drive that is not stopped becomes ready and carries out its commands.
Spec ==
  /\ Init /\ [][Next]_vars
  /\ WF_vars(Driver)
  /\ \A p \in Ports : WF_vars(Execute(p)) /\ WF_vars(BecomesReady(p))

------------------------------------------------------------------------------
\* A read that reports no error has put the sectors into the buffer and nothing anywhere else,
\* whatever timeouts came before (ahci.c:461), except a retry of a read of more than one PRDT
\* entry.  read_disk fetches as many sectors as the size fills (disk.c:55): the caller gets the
\* disk's bytes as far as these reach, and other memory beyond.
ReadExact ==
  call.pc = "returned" /\ call.op = "read" /\ ~ call.failed /\ ~ call.late =>
    LET fetched == call.count * SECTOR_SIZE
    IN  /\ \A i \in DOMAIN Delivered(call.request) :
             (call.request.offset % SECTOR_SIZE) + i < fetched =>
               Delivered(call.request)[i] = platter[call.port][call.request.offset + i]
        /\ \A a \in Addresses \ (Base .. Base + fetched - 1) : mem[a] = Garbage

\* A temporary buffer is there in order to use offsets inside a sector (disk.c:53): a read that
\* reports no error, the first time, gives the caller the disk's bytes.  The buffer has as many
\* sectors as the size fills; a request across a sector's end needs one more.
DeliversAll ==
  call.pc = "returned" /\ call.op = "read" /\ ~ call.failed /\ ~ call.late =>
    \A i \in DOMAIN Delivered(call.request) :
      Delivered(call.request)[i] = platter[call.port][call.request.offset + i]

\* A write to a sector boundary of which no part has failed changes its bytes and keeps their
\* neighbours in the sector, whatever timeouts came in between (ahci.c:383).
WriteExact ==
  call.pc = "returned" /\ call.op = "write" /\ ~ call.failed /\ ~ call.late
  /\ call.request.offset % SECTOR_SIZE = 0 =>
    platter[call.port] =
      [b \in Bytes |-> IF b - call.request.offset \in 0 .. call.request.size - 1
                       THEN <<"new", b - call.request.offset>> ELSE call.saved[b]]

\* A command table is never rewritten while its command is with the HBA: a failed command
\* stays in ci (ahci.c:454), and the next one has to take another slot.
SlotNotReused ==
  [][\A p \in Ports : \A s \in port[p].ci : table'[p][s] = table[p][s]]_vars

\* A failed command keeps its slot and the engine stopped, but never the last slot: the next
\* command gets one, runs into its timeout and resets the port.
Recoverable == call = Idle => \A p \in Ports : FreeSlots(p) # {}

\* Every call returns, whatever fails or times out, as long as not everything always does.
CallReturns == call # Idle ~> call = Idle
================================================================================
