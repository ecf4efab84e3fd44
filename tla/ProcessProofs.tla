---------------------------- MODULE ProcessProofs -----------------------------
(***************************************************************************)
(* Proofs about Process, for every size of memory, tables, windows and     *)
(* programs and every layout that LayoutAssumption allows: TypeOK,         *)
(* FramesExclusive, UserSeesOwnMemory and ContextPreserved hold at every   *)
(* moment, if memory that nobody has written is zero (ZeroedRAM).          *)
(*                                                                         *)
(* None of them is inductive: what a step of the kernel does depends on    *)
(* what is left of kmain, exec or exit. The inductive invariant Inv says   *)
(* where the kernel is: at one of the points Boot1 to Stopped, each of     *)
(* which gives the instructions that are left (the rest of a block, and    *)
(* the blocks after it) and what holds there. Common to all points but the *)
(* first is the tree of tables (Tree): a frame has one level, entries lead *)
(* to the next level, no two to the same table, tables lie in frames that  *)
(* are marked, and an untouched frame that is no table holds no entries.   *)
(* map_page keeps it because allocate_page finds a frame below the heap,   *)
(* the drivers and the processes, whose frames are not marked; and it      *)
(* finds one because the free frames of Reserve are never fewer than the   *)
(* tables that are missing for the pages still to map (Enough).            *)
(*                                                                         *)
(* alloc_proc keeps it although it clears nothing: the only frame that was *)
(* written and is free again is the boot loader's PML4, and before the     *)
(* first process some page of heap or drivers needs a page table of its    *)
(* own (Fresh), for which allocate_page takes that frame (Taken). What it  *)
(* takes after that is untouched.                                          *)
(*                                                                         *)
(* The parts: entries, tables and levels; map_page and unmap_page below a  *)
(* PML4; the instructions of kmain, alloc_proc, exec and run_proc in       *)
(* blocks; one lemma for each kind of instruction; one lemma Step... for   *)
(* each point; and what follows at all of them.                            *)
(***************************************************************************)
EXTENDS Process, NumberLemmas, FiniteSetTheorems, SequenceTheorems

------------------------------------------------------------------------------
\* The tables.

Tables == UNION {[S -> Frame] : S \in SUBSET Index}
Marking == [Frame -> 0 .. MAX_NUM_OF_PROCESS - 1]

\* The frames that tables are made of.
Usable ==
  {f \in Frame \ (KernelPages \cup PML4Pages) :
     f < PROC_ALLOC_START /\ \A g \in HeapPages \cup HardwarePages : f < g}

\* lv gives the level of a table: 1 for a PML4 to 4 for a page table, 0 for any other frame.
\* Entry i of table f leads to a table; the recursive entry of a PML4 does not count.
Levels == [Frame -> 0 .. 4]
Leads(m, lv, f, i) == lv[f] \in 1 .. 3 /\ ~ (lv[f] = 1 /\ i = REC) /\ Entry(m, f, i) # NoFrame

Tree(m, b, lv) ==
  /\ DOMAIN m = Frame /\ m \in [DOMAIN m -> Tables]
  /\ lv[PML4_KERNEL] = 1
  /\ \A f \in Frame : lv[f] > 0 => f = PML4_KERNEL \/ (f \in Usable /\ b[f] # 0)
  /\ \A f \in Untouched, i \in Index : lv[f] = 0 => Entry(m, f, i) = NoFrame
  /\ \A f \in Frame, i \in Index : Leads(m, lv, f, i) => lv[Entry(m, f, i)] = lv[f] + 1
  /\ \A f, g \in Frame, i, j \in Index :
       Leads(m, lv, f, i) /\ Leads(m, lv, g, j) /\ Entry(m, f, i) = Entry(m, g, j) => f = g /\ i = j

\* The table that the indexes n lead to below root, the tables for some pages that are missing
\* there, and enough free frames in R for them and for c more; the page table of page v.
TableAt(m, root, n) ==
  IF Len(n) = 1 THEN Entry(m, root, n[1])
  ELSE IF Len(n) = 2 THEN Entry(m, Entry(m, root, n[1]), n[2])
  ELSE Entry(m, Entry(m, Entry(m, root, n[1]), n[2]), n[3])
Missing(m, root, pages) == {n \in TablesFor(pages) : TableAt(m, root, n) = NoFrame}
Free(b, R) == {f \in R : b[f] = 0}
Enough(m, b, root, R, pages, c) ==
  Cardinality(Free(b, R)) >= Cardinality(Missing(m, root, pages)) + c
Pt(m, r, v) == Entry(m, Entry(m, Entry(m, r, PageIndexes(v)[1]), PageIndexes(v)[2]), PageIndexes(v)[3])
AllTables == Cardinality(TablesFor(MappedPages))

\* The PML4s are the tables of level 1.
Roots(lv) ==
  /\ \A id \in 1 .. Len(pcbs) : lv[pcbs[id].pml4] = 1
  /\ \A f \in Frame : lv[f] = 1 => \E id \in 1 .. Len(pcbs) : f = pcbs[id].pml4
  /\ \A id, jd \in 1 .. Len(pcbs) : pcbs[id].pml4 = pcbs[jd].pml4 => id = jd

Built == \E lv \in Levels : Tree(mem, bitmap, lv) /\ Roots(lv)

\* The window of id's memory below a PML4.
Shows(root, id) == \A v \in Window : Walk(mem, root, v) = Slot(id - 2) + v - WindowStart
PmlOf(id) == pcbs[id].pml4

------------------------------------------------------------------------------
\* The program of the kernel, block by block: Code is a block, Rest what follows it.

Maps(by, pages, offset, set) ==
  {[op |-> "map", pcb |-> by, v |-> v, p |-> v + offset, set |-> set] : v \in pages}
Unmaps(pages) == {[op |-> "unmap", v |-> v] : v \in pages}
Ops(names) == {[op |-> name] : name \in names}
Marks(frames, pid) == {[op |-> "mark", frames |-> frames, pid |-> pid]}
BootOffset == - (CHOOSE b \in BootPages : \A c \in BootPages : b <= c)

Rest3 == Do("alloc_proc") \o DoFor("exec", 2)
Code3 ==
  MapRange(kpcb, HeapPages, 0) \o MapRange(kpcb, BootPages, BootOffset)
  \o Do("ready") \o Do("sti") \o MapRange(kpcb, HardwarePages, 0)
Rest2b == Mark({PML4_BOOT, BootMark}, 0) \o (Code3 \o Rest3)
Code2b == Do("sti") \o Do("cli")
Rest2 == SetCr3(PML4_KERNEL) \o (Code2b \o Rest2b)
Code2 ==
  Do("cli") \o Mark(FirstPages, 1)
  \o MapRange(kpcb, LowPages, 0) \o MapRange(kpcb, KernelPages, 0) \o MapRange(kpcb, PML4Pages, 0) \o Do("cli")
Rest1a == SetRec(PML4_KERNEL, PML4_KERNEL) \o (Code2 \o Rest2)
Rest1c == SetRec(PML4_BOOT, PML4_KERNEL) \o Rest1a
Rest1 == Clear(PML4_KERNEL) \o Rest1c
Code1 ==
  Do("cli") \o Do("pic") \o Do("sti") \o Do("cli") \o Mark(FirstPages, 1)
  \o Do("sti") \o Do("cli") \o Mark({PML4_BOOT, BootMark}, 1)

\* For process id with PML4 q; z is what follows exec.
CodeOwn(id, q) == MapRange(kpcb, {q}, 0) \o MapWindow(kpcb, Slot(id - 2))
Rest6b(id, z) == DoFor("exec", id) \o z
Rest6(id, z) == DoFor("list", id) \o ((Do("ready") \o Do("sti")) \o Rest6b(id, z))
Rest5(id, z) == SetRec(PML4_KERNEL, PML4_KERNEL) \o (UnmapRange(Window) \o Rest6(id, z))
Code5(id, q) ==
  MapRange(id, {q}, 0) \o MapWindow(id, Slot(id - 2))
  \o MapRange(id, KernelPages, 0) \o MapRange(id, BootPages, BootOffset) \o MapRange(id, ProcHeapPages, 0)
Rest4a(id, q, z) == SetRec(PML4_KERNEL, q) \o (Code5(id, q) \o Rest5(id, z))
Rest4(id, q, z) == SetRec(q, q) \o Rest4a(id, q, z)

Rest8(q) == SetCr3(q) \o DoFor("jump_usermode", 2)
Code8 == Unset(MapWindow(kpcb, Slot(0)))
RunFirst(q) == DoFor("current", 2) \o (Code8 \o Rest8(q))
Rest7b(id, q, z) ==
  IF id = 2 THEN DoFor("first", 2) \o RunFirst(q)
  ELSE DoFor("copy_regs", id) \o ((DoFor("current", id) \o CodeOwn(id, q)) \o z)
Rest7(id, q, z) == UnmapRange(Window) \o Rest7b(id, q, z)

\* What follows exec: nothing in kmain, the return from the system call for a process.
Tails(id) == IF id = 2 THEN {<<>>} ELSE {SetCr3(c) \o Sysret("exec") : c \in Frame}

OwnMaps(id, q) == Maps(kpcb, {q}, 0, TRUE) \cup Maps(kpcb, Window, Slot(id - 2) - WindowStart, TRUE)
Block1 == Ops({"cli", "pic", "sti"}) \cup Marks(FirstPages, 1) \cup Marks({PML4_BOOT, BootMark}, 1)
Block2 ==
  Ops({"cli"}) \cup Marks(FirstPages, 1) \cup Maps(kpcb, EarlyPages, 0, TRUE)
Block3 ==
  Ops({"sti", "ready"})
  \cup Maps(kpcb, HeapPages \cup HardwarePages, 0, TRUE) \cup Maps(kpcb, BootPages, BootOffset, TRUE)
Block5(id, q) ==
  Maps(id, {q}, 0, TRUE) \cup Maps(id, Window, Slot(id - 2) - WindowStart, TRUE)
  \cup Maps(id, KernelPages \cup ProcHeapPages, 0, TRUE) \cup Maps(id, BootPages, BootOffset, TRUE)
Block8 == Maps(kpcb, Window, Slot(0) - WindowStart, FALSE)

Mapped(s, v) == \E k \in DOMAIN s : s[k].op = "map" /\ s[k].v = v

------------------------------------------------------------------------------
\* Where the kernel can be.

FirstTables == ClearTable(RAM, PML4_KERNEL)
Low(s, f) == bitmap[f] # 0 \/ \E k \in DOMAIN s : s[k].op = "mark" /\ f \in s[k].frames

Early ==
  /\ mode = "kernel" /\ Len(pcbs) = 1 /\ current_pcb = NULL /\ pcb_list = <<>>
  /\ process_pid_bitmap = {} /\ process_mem_bitmap = {}
  /\ at = 0

\* Before the kernel's PML4 is cleared, before the recursive entries are set, between them,
\* and until cr3 is the kernel's.
Boot1 ==
  /\ Early /\ ZeroedRAM /\ cr3 = PML4_BOOT /\ mem = RAM
  /\ \A f \in Frame : bitmap[f] # 0 => f \in FirstPages
  /\ \E s \in Seq(Block1) : todo = s \o Rest1 /\ \A f \in FirstPages : Low(s, f)

Boot1c ==
  /\ Early /\ ZeroedRAM /\ cr3 = PML4_BOOT /\ mem = FirstTables
  /\ \A f \in Frame : bitmap[f] # 0 <=> f \in FirstPages
  /\ todo = Rest1c

Boot1a ==
  /\ Early /\ ZeroedRAM /\ cr3 = PML4_BOOT /\ mem = SetEntry(FirstTables, PML4_BOOT, REC, PML4_KERNEL)
  /\ \A f \in Frame : bitmap[f] # 0 <=> f \in FirstPages
  /\ todo = Rest1a

Boot2 ==
  /\ Early /\ cr3 = PML4_BOOT
  /\ Entry(mem, PML4_BOOT, REC) = PML4_KERNEL /\ Entry(mem, PML4_KERNEL, REC) = PML4_KERNEL
  /\ \E lv \in Levels : Tree(mem, bitmap, lv) /\ Roots(lv) /\ lv[PML4_BOOT] = 0 /\ lv[BootMark] = 0
  /\ \A f \in FirstPages : bitmap[f] # 0
  /\ \A v \in LatePages : Pt(mem, PML4_KERNEL, v) = NoFrame
  /\ Enough(mem, bitmap, PML4_KERNEL, EarlyReserve, EarlyPages, 0)
  /\ Enough(mem, bitmap, PML4_KERNEL, Reserve, MappedPages, 2 * AllTables + 2)
  /\ \E s \in Seq(Block2) : todo = s \o Rest2 /\ \A f \in PML4Pages : bitmap[f] # 0 \/ Mapped(s, f)

\* On the kernel's tables, until the first process is allocated.
Recursive == cr3 = PML4_KERNEL /\ Entry(mem, PML4_KERNEL, REC) = PML4_KERNEL
Owned == \A f \in (FirstPages \ {PML4_BOOT, BootMark}) \cup PML4Pages : bitmap[f] # 0

Boot2b ==
  /\ Early /\ Recursive /\ Owned
  /\ \A v \in LatePages : Pt(mem, PML4_KERNEL, v) = NoFrame
  /\ \E lv \in Levels : Tree(mem, bitmap, lv) /\ Roots(lv) /\ lv[PML4_BOOT] = 0 /\ lv[BootMark] = 0
  /\ Enough(mem, bitmap, PML4_KERNEL, Reserve, MappedPages, 2 * AllTables + 2)
  /\ \E s \in Seq(Ops({"sti", "cli"})) : todo = s \o Rest2b

\* The boot loader's PML4 is free again, but a page is still to be mapped that needs a new page
\* table, and this is the first frame allocate_page finds.
Taken == bitmap[PML4_BOOT] # 0
Fresh(s) == Taken \/ \E k \in DOMAIN s : s[k].op = "map" /\ Pt(mem, PML4_KERNEL, s[k].v) = NoFrame

Boot3 ==
  /\ Early /\ Recursive /\ Built /\ Owned
  /\ Enough(mem, bitmap, PML4_KERNEL, Reserve, MappedPages, 2 * AllTables + 2)
  /\ \E s \in Seq(Block3) : todo = s \o Rest3 /\ Fresh(s)

\* alloc_proc and exec for process id.
Later(id) == IF id = 2 THEN AllTables + 1 ELSE 0
Older(id) == IF id = 2 THEN <<>> ELSE <<2>>
Making(id) ==
  /\ mode = "kernel" /\ Len(pcbs) = id /\ Built /\ Owned /\ Taken /\ cr3 = PML4_KERNEL
  /\ current_pcb = (IF id = 2 THEN NULL ELSE 2)
  /\ id = 2 => process_pid_bitmap = {2} /\ process_mem_bitmap = {0} /\ at = 0 /\ pcbs[2].ctx = 0

Alloc4(id) ==
  /\ Making(id) /\ pcb_list = Older(id) /\ Recursive
  /\ Enough(mem, bitmap, PML4_KERNEL, Reserve, MappedPages, Later(id) + AllTables)
  /\ \E z \in Tails(id) : \E s \in Seq(OwnMaps(id, PmlOf(id))) : todo = s \o Rest4(id, PmlOf(id), z)

Alloc4a(id) ==
  /\ Making(id) /\ pcb_list = Older(id) /\ Recursive
  /\ Enough(mem, bitmap, PML4_KERNEL, Reserve, MappedPages, Later(id) + AllTables)
  /\ \E z \in Tails(id) : todo = Rest4a(id, PmlOf(id), z)

Alloc5(id) ==
  /\ Making(id) /\ pcb_list = Older(id) /\ Entry(mem, PML4_KERNEL, REC) = PmlOf(id)
  /\ Enough(mem, bitmap, PmlOf(id), Reserve, MappedPages,
            Cardinality(Missing(mem, PML4_KERNEL, MappedPages)) + Later(id))
  /\ \E z \in Tails(id) : \E s \in Seq(Block5(id, PmlOf(id))) :
       /\ todo = s \o Rest5(id, z)
       /\ \A v \in Window : Walk(mem, PmlOf(id), v) = Slot(id - 2) + v - WindowStart \/ Mapped(s, v)

Made(id) ==
  /\ Making(id) /\ Recursive /\ Shows(PmlOf(id), id)
  /\ Enough(mem, bitmap, PML4_KERNEL, Reserve, MappedPages, Later(id))

Alloc6(id) ==
  /\ Made(id) /\ pcb_list = Older(id)
  /\ \E z \in Tails(id) : \E s \in Seq(Unmaps(Window)) : todo = s \o Rest6(id, z)

Alloc6b(id) ==
  /\ Made(id) /\ pcb_list = <<id>> \o Older(id)
  /\ \E z \in Tails(id) : \E s \in Seq(Ops({"ready", "sti"})) : todo = s \o Rest6b(id, z)

Exec7(id) ==
  /\ Made(id) /\ pcb_list = <<id>> \o Older(id)
  /\ \E z \in Tails(id) : \E s \in Seq(OwnMaps(id, PmlOf(id))) : todo = s \o Rest7(id, PmlOf(id), z)

Exec7b(id) ==
  /\ Made(id) /\ pcb_list = <<id>> \o Older(id)
  /\ \E z \in Tails(id) : \E s \in Seq(Unmaps(Window)) :
       /\ todo = s \o Rest7b(id, PmlOf(id), z)
       /\ Walk(mem, PML4_KERNEL, WindowStart) = NoFrame \/ \E k \in DOMAIN s : s[k].v = WindowStart

\* The first process, the only one that ever runs.
First ==
  /\ Len(pcbs) = 2 /\ Built /\ Owned /\ Taken /\ pcb_list = <<2>>
  /\ process_pid_bitmap = {2} /\ process_mem_bitmap = {0}
  /\ pcbs[2].state = "READY" /\ pcbs[2].ppid = KERNEL_PID
  /\ Entry(mem, PML4_KERNEL, REC) = PML4_KERNEL
  /\ Shows(PmlOf(2), 2)
  /\ Enough(mem, bitmap, PML4_KERNEL, Reserve, MappedPages, AllTables + 1)

Run8a ==
  /\ First /\ mode = "kernel" /\ cr3 = PML4_KERNEL /\ pcbs[2].ctx = at
  /\ todo = RunFirst(PmlOf(2))

Run8 ==
  /\ First /\ mode = "kernel" /\ cr3 = PML4_KERNEL /\ pcbs[2].ctx = at /\ current_pcb = 2
  /\ \E s \in Seq(Block8) :
       /\ todo = s \o Rest8(PmlOf(2))
       /\ \A v \in Window : Walk(mem, PML4_KERNEL, v) = Slot(0) + v - WindowStart \/ Mapped(s, v)

Ran == First /\ Shows(PML4_KERNEL, 2) /\ current_pcb = 2

Run8b == Ran /\ mode = "kernel" /\ cr3 = PmlOf(2) /\ pcbs[2].ctx = at /\ todo = DoFor("jump_usermode", 2)

InUser == Ran /\ mode = "user" /\ cr3 \in {PmlOf(2), PML4_KERNEL} /\ todo = <<>>

\* A switch, and a system call: one that returns, exec, exit.
InSwitch == Ran /\ mode = "kernel" /\ cr3 = PML4_KERNEL /\ pcbs[2].ctx = at /\ todo = DoFor("run_proc", 2)

InCall ==
  /\ Ran /\ mode = "kernel" /\ cr3 = PML4_KERNEL
  /\ \E call \in Calls : \E c \in {PmlOf(2), PML4_KERNEL} : \E s \in Seq(Ops({"sti", "cli", "wait_ticks", "wait_key"})) :
       todo = s \o (SetCr3(c) \o Sysret(call))
InReturn ==
  /\ Ran /\ mode = "kernel" /\ cr3 \in {PmlOf(2), PML4_KERNEL}
  /\ \E call \in Calls : todo = Sysret(call)

InExec ==
  /\ Ran /\ mode = "kernel" /\ cr3 = PML4_KERNEL
  /\ \E z \in Tails(3) : todo = Do("alloc_proc") \o (DoFor("exec", 3) \o z)

InExit ==
  /\ Ran /\ mode = "kernel" /\ cr3 = PML4_KERNEL
  /\ \E c \in {PmlOf(2), PML4_KERNEL} : todo = Do("exit") \o (SetCr3(c) \o Sysret("exit"))
Exiting ==
  /\ mode = "kernel" /\ cr3 = PML4_KERNEL /\ Built /\ Len(pcbs) = 2 /\ current_pcb = 2
  /\ Entry(mem, PML4_KERNEL, REC) = PML4_KERNEL
  /\ \E s \in Seq(Unmaps(Window \cup {PmlOf(2)})) : todo = s \o DoFor("run_proc", NULL)

Stopped == mode \in {"fault", "lost"} /\ Built /\ cr3 = PML4_KERNEL

Where ==
  \/ Boot1 \/ Boot1c \/ Boot1a \/ Boot2 \/ Boot2b \/ Boot3
  \/ \E id \in {2, 3} : \/ Alloc4(id) \/ Alloc4a(id) \/ Alloc5(id) \/ Alloc6(id) \/ Alloc6b(id)
                        \/ Exec7(id) \/ Exec7b(id)
  \/ Run8a \/ Run8 \/ Run8b \/ InUser \/ InSwitch \/ InCall \/ InReturn \/ InExec \/ InExit \/ Exiting
  \/ Stopped

PCBs == [pid : 0 .. MAX_NUM_OF_PROCESS - 1, ppid : 0 .. MAX_NUM_OF_PROCESS - 1, state : {"READY", "WAITING"},
         pml4 : Frame, real_mem_addr : Nat, ctx : 0 .. Contexts - 1]

Running ==
  /\ mode \in {"kernel", "user", "fault", "lost"} /\ {IF_, interrupts_ready, pic, key, skipped} \subseteq BOOLEAN
  /\ since \in 0 .. PROCESS_RUN_TIME /\ due \in 0 .. SleepTicks
Listed ==
  /\ pcbs \in Seq(PCBs) /\ Len(pcbs) \in 1 .. 3 /\ current_pcb \in 0 .. Len(pcbs)
  /\ pcb_list \in Seq({2, 3}) /\ \A k \in DOMAIN pcb_list : pcb_list[k] <= Len(pcbs)
  /\ pcbs[1].pid = KERNEL_PID /\ pcbs[1].pml4 = PML4_KERNEL
  /\ \A id \in 2 .. Len(pcbs) : pcbs[id].pid = id /\ pcbs[id].real_mem_addr = Slot(id - 2) /\ pcbs[id].pml4 \in Usable
Typed == bitmap \in Marking /\ Running /\ Listed /\ at \in 0 .. Contexts - 1 /\ regs = at

Inv == Typed /\ Where

------------------------------------------------------------------------------
\* Entries of tables.

\* The constants are numbers in their order, the kernel's PML4 is not taken for a table
\* again.
LEMMA Constants ==
  /\ NumPages \in Nat /\ Radix \in Nat /\ Radix > 1 /\ REC \in Index
  /\ \A f \in Frame : f \in Nat
  /\ NoFrame \notin Frame /\ NoFrame \in Int
  /\ PML4_KERNEL \in Frame /\ PML4_BOOT \in Frame /\ BootMark \in Frame
  /\ PML4_KERNEL # PML4_BOOT /\ PML4_KERNEL \notin Usable
<1>1. /\ NumPages \in Nat /\ Radix \in Nat /\ Radix > 1 /\ REC \in Index
      /\ \A f \in Frame : f \in Nat
      /\ NoFrame \notin Frame /\ NoFrame \in Int
  BY PagingAssumption DEF Frame, Index, REC, NoFrame
<1>2. /\ PML4_KERNEL \in Frame /\ PML4_BOOT \in Frame /\ BootMark \in Frame
      /\ PML4_BOOT \in LowPages /\ PML4_KERNEL \in PML4Pages
  BY ProcessAssumption
<1>3. PML4_BOOT <= PML4_BOOT
  BY <1>1, <1>2
<1>4. PML4_BOOT \in FirstPages
  BY <1>2, <1>3, Zenon DEF FirstPages
<1>5. PML4_KERNEL \notin FirstPages
  BY <1>2, LayoutAssumption
<1>6. PML4_KERNEL \notin Usable
  BY <1>2 DEF Usable
<1>7. QED
  BY <1>1, <1>2, <1>4, <1>5, <1>6

\* All of low memory and of the kernel is marked from the first, and frames of the kernel's PML4 are not.
LEMMA FirstPagesAre ==
  /\ FirstPages \subseteq Frame /\ LowPages \subseteq FirstPages /\ KernelPages \subseteq FirstPages
  /\ {PML4_BOOT, BootMark} \subseteq FirstPages /\ PML4_KERNEL \notin FirstPages
  /\ LowPages \subseteq Frame /\ KernelPages \subseteq Frame /\ PML4Pages \cap FirstPages = {}
<1>1. \A f \in Frame : f <= f
  BY Constants
<1>2. LowPages \subseteq Frame /\ KernelPages \subseteq Frame /\ {PML4_BOOT, BootMark} \subseteq LowPages
  BY ProcessAssumption
<1>3. FirstPages \subseteq Frame /\ LowPages \subseteq FirstPages /\ KernelPages \subseteq FirstPages
  BY <1>1, <1>2, Zenon DEF FirstPages
<1>4. PML4_KERNEL \notin FirstPages /\ PML4Pages \cap FirstPages = {}
  BY ProcessAssumption, LayoutAssumption
<1>5. QED
  BY <1>2, <1>3, <1>4

\* The indexes of a page are indexes.
LEMMA IndexesTyped ==
  ASSUME NEW v \in Int
  PROVE  /\ PageIndexes(v)[1] \in Index /\ PageIndexes(v)[2] \in Index
         /\ PageIndexes(v)[3] \in Index /\ PageIndexes(v)[4] \in Index
<1>1. \A x \in Int : x % Radix \in Index
  BY PagingAssumption DEF Index
<1>2. Radix * Radix \in Int /\ Radix * Radix > 0 /\ Radix * Radix * Radix \in Int /\ Radix * Radix * Radix > 0
  BY PagingAssumption
<1>3. /\ v \div (Radix * Radix * Radix) \in Int /\ v \div (Radix * Radix) \in Int /\ v \div Radix \in Int
  BY <1>2, PagingAssumption
<1>4. QED
  BY <1>1, <1>3 DEF PageIndexes

\* An entry is a frame or none, and only tables have entries.
LEMMA EntryTyped ==
  ASSUME NEW m, DOMAIN m \subseteq Frame, m \in [DOMAIN m -> Tables], NEW f, NEW i
  PROVE  /\ Entry(m, f, i) \in Frame \cup {NoFrame}
         /\ Entry(m, f, i) # NoFrame => f \in DOMAIN m /\ f \in Frame
         /\ f \notin Frame => Entry(m, f, i) = NoFrame
BY Constants DEF Entry, Tables

\* SetEntry sets one entry and leaves the other ones alone.
LEMMA SetEntryIs ==
  ASSUME NEW m, m \in [DOMAIN m -> Tables], NEW f \in DOMAIN m, NEW i \in Index, NEW to \in Frame
  PROVE  /\ DOMAIN SetEntry(m, f, i, to) = DOMAIN m
         /\ SetEntry(m, f, i, to) \in [DOMAIN m -> Tables]
         /\ Entry(SetEntry(m, f, i, to), f, i) = to
         /\ \A g, j : ~ (g = f /\ j = i) => Entry(SetEntry(m, f, i, to), g, j) = Entry(m, g, j)
<1> DEFINE new == [j \in DOMAIN m[f] \cup {i} |-> IF j = i THEN to ELSE m[f][j]]
<1>1. PICK S \in SUBSET Index : m[f] \in [S -> Frame]
  BY DEF Tables
<1>2. new \in [S \cup {i} -> Frame]
  BY <1>1
<1>3. new \in Tables
  BY <1>1, <1>2 DEF Tables
<1>4. new[i] = to /\ DOMAIN new = S \cup {i} /\ \A j : j # i /\ j \in S => new[j] = m[f][j]
  BY <1>1
<1>5. SetEntry(m, f, i, to) = [m EXCEPT ![f] = new]
  BY DEF SetEntry
<1> HIDE DEF new
<1>6. /\ [m EXCEPT ![f] = new] \in [DOMAIN m -> Tables]
      /\ [m EXCEPT ![f] = new][f] = new
      /\ \A g \in DOMAIN m : g # f => [m EXCEPT ![f] = new][g] = m[g]
  BY <1>3
<1>7. QED
  BY <1>1, <1>4, <1>5, <1>6 DEF Entry

\* ClearTable empties one table and leaves the other ones alone.
LEMMA ClearTableIs ==
  ASSUME NEW m, DOMAIN m = Frame, m \in [DOMAIN m -> Tables], NEW f \in Frame
  PROVE  /\ DOMAIN ClearTable(m, f) = Frame
         /\ ClearTable(m, f) \in [Frame -> Tables]
         /\ \A j : Entry(ClearTable(m, f), f, j) = NoFrame
         /\ \A g, j : g # f => Entry(ClearTable(m, f), g, j) = Entry(m, g, j)
<1>1. <<>> \in [{} -> Frame] /\ DOMAIN <<>> = {}
  OBVIOUS
<1>2. <<>> \in Tables
  BY <1>1 DEF Tables
<1>3. ClearTable(m, f)[f] = <<>> /\ \A g \in DOMAIN m : g # f => ClearTable(m, f)[g] = m[g]
  BY DEF ClearTable
<1>4. DOMAIN ClearTable(m, f) = Frame /\ ClearTable(m, f) \in [Frame -> Tables]
  BY <1>2 DEF ClearTable
<1>5. QED
  BY <1>1, <1>3, <1>4 DEF Entry

\* unmap_page takes away the one entry.
LEMMA UnmapIs ==
  ASSUME NEW m, m \in [DOMAIN m -> Tables], NEW pt \in DOMAIN m, NEW i,
         NEW n, n = [m EXCEPT ![pt] = [j \in DOMAIN m[pt] \ {i} |-> m[pt][j]]]
  PROVE  /\ DOMAIN n = DOMAIN m /\ n \in [DOMAIN m -> Tables]
         /\ Entry(n, pt, i) = NoFrame
         /\ \A g, j : ~ (g = pt /\ j = i) => Entry(n, g, j) = Entry(m, g, j)
<1> DEFINE new == [j \in DOMAIN m[pt] \ {i} |-> m[pt][j]]
<1>1. PICK S \in SUBSET Index : m[pt] \in [S -> Frame]
  BY DEF Tables
<1>2. new \in [S \ {i} -> Frame]
  BY <1>1
<1>3. new \in Tables
  BY <1>1, <1>2 DEF Tables
<1>4. DOMAIN new = S \ {i} /\ \A j \in S : j # i => new[j] = m[pt][j]
  BY <1>1
<1>5. n = [m EXCEPT ![pt] = new]
  OBVIOUS
<1> HIDE DEF new
<1>6. /\ n \in [DOMAIN m -> Tables] /\ n[pt] = new
      /\ \A g \in DOMAIN m : g # pt => n[g] = m[g]
  BY <1>3, <1>5
<1>7. QED
  BY <1>1, <1>4, <1>6 DEF Entry

\* allocate_page returns a free frame, and none lies before it.
LEMMA AllocatePage ==
  ASSUME NEW b, NEW g \in Frame, b[g] = 0
  PROVE  /\ allocate_page(b) \in Frame /\ b[allocate_page(b)] = 0
         /\ allocate_page(b) <= g
<1>1. FreeFrames(b) \in SUBSET Nat /\ g \in FreeFrames(b)
  BY Constants DEF FreeFrames
<1>2. \E f \in FreeFrames(b) : \A h \in FreeFrames(b) : f <= h
  BY <1>1, LeastElement
<1>3. allocate_page(b) \in FreeFrames(b) /\ \A h \in FreeFrames(b) : allocate_page(b) <= h
  BY <1>1, <1>2 DEF allocate_page
<1>4. QED
  BY <1>1, <1>3 DEF FreeFrames

------------------------------------------------------------------------------
\* map_page.

\* The first free frame is taken, if a table is made.
Took(b, lv, b2, lv2) ==
  (b2 = b /\ lv2 = lv) \/ (allocate_page(b) \in Frame /\ b2[allocate_page(b)] # 0)

\* Tables were added: those there were keep level and entries, and what was marked is.
Grown(m, b, lv, m2, b2, lv2) ==
  /\ lv2 \in Levels /\ Tree(m2, b2, lv2) /\ b2 \in Marking
  /\ \A f \in Frame : lv[f] > 0 => lv2[f] = lv[f]
  /\ \A f \in Frame : lv2[f] = 1 => lv[f] = 1
  /\ \A f \in Frame : b[f] # 0 => b2[f] = b[f] /\ (lv[f] = 0 => lv2[f] = 0)
  /\ \A f \in Frame, i \in Index : lv[f] > 0 /\ Entry(m, f, i) # NoFrame => Entry(m2, f, i) = Entry(m, f, i)
  /\ \A f \in Frame : lv[f] = 1 => Entry(m2, f, REC) = Entry(m, f, REC)
  /\ \A f \in Frame, i \in Index : lv[f] = 0 /\ b[f] # 0 => Entry(m2, f, i) = Entry(m, f, i)
  /\ \A f \in Frame, i \in Index : lv[f] = 4 => Entry(m2, f, i) = Entry(m, f, i)
  /\ \A f \in Frame, i \in Index : Leads(m2, lv2, f, i) => Leads(m, lv, f, i) \/ lv[Entry(m2, f, i)] = 0
  /\ Took(b, lv, b2, lv2)

\* Nothing added is a way to grow.
LEMMA GrownSame ==
  ASSUME NEW lv \in Levels, NEW m, NEW b \in Marking, Tree(m, b, lv)
  PROVE  Grown(m, b, lv, m, b, lv)
BY DEF Grown, Took

\* Growing twice is growing.
LEMMA GrownTwice ==
  ASSUME NEW lv \in Levels, NEW m, NEW b, NEW m2, NEW b2, NEW lv2, NEW m3, NEW b3, NEW lv3,
         Grown(m, b, lv, m2, b2, lv2), Grown(m2, b2, lv2, m3, b3, lv3)
  PROVE  Grown(m, b, lv, m3, b3, lv3)
<1>1. \A f \in Frame : lv[f] \in 0 .. 4 /\ lv2[f] \in 0 .. 4
  BY DEF Grown, Levels
<1>2. /\ lv3 \in Levels /\ Tree(m3, b3, lv3) /\ b3 \in Marking
      /\ \A f \in Frame : lv[f] > 0 => lv3[f] = lv[f]
      /\ \A f \in Frame : lv3[f] = 1 => lv[f] = 1
      /\ \A f \in Frame : b[f] # 0 => b3[f] = b[f] /\ (lv[f] = 0 => lv3[f] = 0)
  BY <1>1 DEF Grown
<1>3. \A f \in Frame, i \in Index : lv[f] > 0 /\ Entry(m, f, i) # NoFrame => Entry(m3, f, i) = Entry(m, f, i)
  BY <1>1 DEF Grown
<1>4. \A f \in Frame : lv[f] = 1 => Entry(m3, f, REC) = Entry(m, f, REC)
  BY <1>1 DEF Grown
<1>5. \A f \in Frame, i \in Index : lv[f] = 0 /\ b[f] # 0 => Entry(m3, f, i) = Entry(m, f, i)
  BY <1>1 DEF Grown
<1>6. \A f \in Frame, i \in Index : lv[f] = 4 => Entry(m3, f, i) = Entry(m, f, i)
  BY <1>1 DEF Grown
<1>7. ASSUME NEW f \in Frame, NEW i \in Index, Leads(m3, lv3, f, i)
      PROVE  Leads(m, lv, f, i) \/ lv[Entry(m3, f, i)] = 0
  <2>1. Entry(m3, f, i) \in Frame
    BY <1>2, <1>7, EntryTyped DEF Leads, Tree
  <2>2. CASE Leads(m2, lv2, f, i)
    <3>1. Entry(m3, f, i) = Entry(m2, f, i)
      BY <2>2, <1>1 DEF Leads, Grown
    <3>2. QED
      BY <2>2, <3>1 DEF Grown
  <2>3. CASE lv2[Entry(m3, f, i)] = 0
    BY <2>1, <2>3, <1>1 DEF Grown
  <2>4. QED
    BY <1>7, <2>2, <2>3 DEF Grown
<1>8. Took(b, lv, b3, lv3)
  BY DEF Grown, Took
<1>9. QED
  BY <1>2, <1>3, <1>4, <1>5, <1>6, <1>7, <1>8 DEF Grown

\* A new table, in frame new, behind entry i of table a.
LEMMA NewTable ==
  ASSUME NEW lv \in Levels, NEW m, NEW b \in Marking, Tree(m, b, lv),
         NEW a \in Frame, lv[a] \in 1 .. 3, NEW i \in Index, ~ (lv[a] = 1 /\ i = REC),
         NEW pid \in 1 .. MAX_NUM_OF_PROCESS - 1, Entry(m, a, i) = NoFrame,
         NEW new \in Usable, b[new] = 0, new = allocate_page(b)
  PROVE  \E m2, b2, lv2 :
           /\ m2 = ClearTable(SetEntry(m, a, i, new), new) /\ b2 = Marked(b, new, pid)
           /\ Grown(m, b, lv, m2, b2, lv2) /\ Entry(m2, a, i) = new /\ lv2[new] = lv[a] + 1
           /\ \A f \in Frame : f # new => lv2[f] = lv[f]
<1>0. PICK m2, b2, lv2 : /\ m2 = ClearTable(SetEntry(m, a, i, new), new) /\ b2 = Marked(b, new, pid)
                         /\ lv2 = [lv EXCEPT ![new] = lv[a] + 1]
  OBVIOUS
<1> USE Constants
<1>1. new \in Frame /\ new # PML4_KERNEL /\ lv[new] = 0 /\ a # new /\ a \in DOMAIN m
  <2>1. new \in Frame /\ new # PML4_KERNEL
    BY DEF Usable
  <2>2. lv[new] = 0
    BY <2>1 DEF Tree, Levels
  <2>3. QED
    BY <2>1, <2>2 DEF Tree
<1>2. lv2 \in Levels /\ lv2[new] = lv[a] + 1 /\ \A f \in Frame : f # new => lv2[f] = lv[f]
  BY <1>0, <1>1 DEF Levels
<1>3. b2 \in Marking /\ b2[new] = pid /\ \A f \in Frame : f # new => b2[f] = b[f]
  BY <1>0, <1>1 DEF Marking, Marked
<1>4. DOMAIN m = Frame /\ m \in [DOMAIN m -> Tables]
  BY DEF Tree
<1> DEFINE m1 == SetEntry(m, a, i, new)
<1>5. /\ DOMAIN m1 = DOMAIN m /\ m1 \in [DOMAIN m1 -> Tables]
      /\ Entry(m1, a, i) = new
      /\ \A g, j : ~ (g = a /\ j = i) => Entry(m1, g, j) = Entry(m, g, j)
  BY <1>1, <1>4, SetEntryIs
<1> HIDE DEF m1
<1>6. /\ DOMAIN m2 = Frame /\ m2 \in [DOMAIN m2 -> Tables]
      /\ \A j : Entry(m2, new, j) = NoFrame
      /\ \A g, j : g # new => Entry(m2, g, j) = Entry(m1, g, j)
  <2>1. m2 = ClearTable(m1, new)
    BY <1>0 DEF m1
  <2>2. DOMAIN m1 = Frame
    BY <1>4, <1>5
  <2>3. /\ DOMAIN ClearTable(m1, new) = Frame
        /\ ClearTable(m1, new) \in [Frame -> Tables]
        /\ \A j : Entry(ClearTable(m1, new), new, j) = NoFrame
        /\ \A g, j : g # new => Entry(ClearTable(m1, new), g, j) = Entry(m1, g, j)
    BY <1>1, <1>5, <2>2, ClearTableIs
  <2>4. QED
    BY <1>1, <1>4, <1>5, <2>1, <2>3
<1>7. /\ Entry(m2, a, i) = new
      /\ \A g, j : g # new /\ ~ (g = a /\ j = i) => Entry(m2, g, j) = Entry(m, g, j)
  BY <1>1, <1>5, <1>6
<1>8. \A f \in Frame, j \in Index : Leads(m2, lv2, f, j) =>
        f # new /\ lv2[f] = lv[f] /\ ((f = a /\ j = i) \/ (Leads(m, lv, f, j) /\ Entry(m2, f, j) = Entry(m, f, j)))
  BY <1>1, <1>2, <1>6, <1>7 DEF Leads
<1>9. \A f \in Frame, j \in Index : Leads(m, lv, f, j) => Entry(m, f, j) \in Frame /\ Entry(m, f, j) # new
  <2>1. \A f \in Frame, j \in Index : Leads(m, lv, f, j) => Entry(m, f, j) \in Frame
    BY <1>4, EntryTyped DEF Leads
  <2>2. \A f \in Frame, j \in Index : Leads(m, lv, f, j) => lv[Entry(m, f, j)] = lv[f] + 1 /\ lv[f] \in 1 .. 3
    BY DEF Tree, Leads
  <2>3. QED
    BY <2>1, <2>2, <1>1
<1>10. Tree(m2, b2, lv2)
  <2>1. lv2[PML4_KERNEL] = 1
    BY <1>1, <1>2 DEF Tree
  <2>2. \A f \in Frame : lv2[f] > 0 => f = PML4_KERNEL \/ (f \in Usable /\ b2[f] # 0)
    BY <1>1, <1>2, <1>3, <1>6 DEF Tree
  <2>3. \A f \in Frame, j \in Index : Leads(m2, lv2, f, j) => lv2[Entry(m2, f, j)] = lv2[f] + 1
    <3> SUFFICES ASSUME NEW f \in Frame, NEW j \in Index, Leads(m2, lv2, f, j)
                 PROVE  lv2[Entry(m2, f, j)] = lv2[f] + 1
      OBVIOUS
    <3>1. CASE f = a /\ j = i
      BY <3>1, <1>1, <1>2, <1>7
    <3>2. CASE Leads(m, lv, f, j) /\ Entry(m2, f, j) = Entry(m, f, j)
      <4>1. lv[Entry(m, f, j)] = lv[f] + 1
        BY <3>2 DEF Tree
      <4>2. QED
        BY <4>1, <3>2, <1>2, <1>8, <1>9
    <3>3. QED
      BY <3>1, <3>2, <1>8
  <2>4. ASSUME NEW f \in Frame, NEW g \in Frame, NEW j \in Index, NEW k \in Index,
               Leads(m2, lv2, f, j), Leads(m2, lv2, g, k), Entry(m2, f, j) = Entry(m2, g, k)
        PROVE  f = g /\ j = k
    <3>1. CASE f = a /\ j = i
      <4>1. Entry(m2, g, k) = new
        BY <3>1, <2>4, <1>7
      <4>2. ~ (Leads(m, lv, g, k) /\ Entry(m2, g, k) = Entry(m, g, k))
        BY <4>1, <1>9
      <4>3. QED
        BY <3>1, <4>2, <2>4, <1>8
    <3>2. CASE g = a /\ k = i
      <4>1. Entry(m2, f, j) = new
        BY <3>2, <2>4, <1>7
      <4>2. ~ (Leads(m, lv, f, j) /\ Entry(m2, f, j) = Entry(m, f, j))
        BY <4>1, <1>9
      <4>3. QED
        BY <3>2, <4>2, <2>4, <1>8
    <3>3. CASE Leads(m, lv, f, j) /\ Leads(m, lv, g, k) /\ Entry(m, f, j) = Entry(m, g, k)
      BY <3>3 DEF Tree
    <3>4. QED
      BY <3>1, <3>2, <3>3, <2>4, <1>8
  <2>5. \A f \in Untouched, j \in Index : lv2[f] = 0 => Entry(m2, f, j) = NoFrame
    <3> SUFFICES ASSUME NEW f \in Untouched, NEW j \in Index, lv2[f] = 0 PROVE Entry(m2, f, j) = NoFrame
      OBVIOUS
    <3>1. f \in Frame
      BY DEF Untouched
    <3>2. f # new /\ lv[f] = 0 /\ f # a
      BY <3>1, <1>1, <1>2
    <3>3. QED
      BY <3>2, <1>7 DEF Tree
  <2>6. QED
    BY <2>1, <2>2, <2>3, <2>4, <2>5, <1>6 DEF Tree
<1>11. /\ \A f \in Frame : lv[f] > 0 => lv2[f] = lv[f]
       /\ \A f \in Frame : lv2[f] = 1 => lv[f] = 1
       /\ \A f \in Frame : b[f] # 0 => b2[f] = b[f] /\ (lv[f] = 0 => lv2[f] = 0)
  BY <1>1, <1>2, <1>3
<1>12. /\ \A f \in Frame, j \in Index : lv[f] > 0 /\ Entry(m, f, j) # NoFrame => Entry(m2, f, j) = Entry(m, f, j)
       /\ \A f \in Frame : lv[f] = 1 => Entry(m2, f, REC) = Entry(m, f, REC)
       /\ \A f \in Frame, j \in Index : lv[f] = 0 /\ b[f] # 0 => Entry(m2, f, j) = Entry(m, f, j)
       /\ \A f \in Frame, j \in Index : lv[f] = 4 => Entry(m2, f, j) = Entry(m, f, j)
       /\ \A f \in Frame, j \in Index : Leads(m2, lv2, f, j) => Leads(m, lv, f, j) \/ lv[Entry(m2, f, j)] = 0
  BY <1>1, <1>7, <1>8
<1>13. Took(b, lv, b2, lv2)
  BY <1>1, <1>3 DEF Took
<1>14. QED
  <2>1. Grown(m, b, lv, m2, b2, lv2)
    BY <1>2, <1>3, <1>10, <1>11, <1>12, <1>13 DEF Grown
  <2>2. /\ m2 = ClearTable(SetEntry(m, a, i, new), new) /\ b2 = Marked(b, new, pid)
        /\ Grown(m, b, lv, m2, b2, lv2) /\ Entry(m2, a, i) = new /\ lv2[new] = lv[a] + 1
        /\ \A f \in Frame : f # new => lv2[f] = lv[f]
    BY <2>1, <1>0, <1>2, <1>7, Zenon
  <2>3. QED
    BY <2>2, Zenon

\* EnsureTable finds the table or makes it.
Ensured(m, b, lv, a, i, pid, m2, b2, a2, lv2) ==
  /\ EnsureTable([mem |-> m, bitmap |-> b, at |-> a, ok |-> TRUE], i, pid)
       = [mem |-> m2, bitmap |-> b2, at |-> a2, ok |-> TRUE]
  /\ Grown(m, b, lv, m2, b2, lv2)
  /\ a2 \in Frame /\ lv2[a2] = lv[a] + 1 /\ Entry(m2, a, i) = a2
  /\ \A f \in Frame : f # a2 => lv2[f] = lv[f]
  /\ \/ b2 = b /\ m2 = m
     \/ Entry(m, a, i) = NoFrame /\ b2 = Marked(b, allocate_page(b), pid)

\* One level of map_page keeps the tree, if allocate_page has a usable frame when it is
\* asked.
LEMMA EnsureStep ==
  ASSUME NEW lv \in Levels, NEW m, NEW b \in Marking, Tree(m, b, lv),
         NEW a \in Frame, lv[a] \in 1 .. 3, NEW i \in Index, ~ (lv[a] = 1 /\ i = REC),
         NEW pid \in 1 .. MAX_NUM_OF_PROCESS - 1,
         Entry(m, a, i) = NoFrame => allocate_page(b) \in Usable /\ b[allocate_page(b)] = 0
  PROVE  \E m2, b2, a2, lv2 : Ensured(m, b, lv, a, i, pid, m2, b2, a2, lv2)
<1> DEFINE s == [mem |-> m, bitmap |-> b, at |-> a, ok |-> TRUE]
<1>1. CASE Entry(m, a, i) # NoFrame
  <2>1. EnsureTable(s, i, pid) = [mem |-> m, bitmap |-> b, at |-> Entry(m, a, i), ok |-> TRUE]
    BY <1>1 DEF EnsureTable
  <2>2. Entry(m, a, i) \in Frame /\ lv[Entry(m, a, i)] = lv[a] + 1
    BY <1>1, EntryTyped DEF Tree, Leads
  <2>3. Grown(m, b, lv, m, b, lv)
    BY GrownSame
  <2>4. Ensured(m, b, lv, a, i, pid, m, b, Entry(m, a, i), lv)
    BY <2>1, <2>2, <2>3 DEF Ensured
  <2>5. QED
    BY <2>4
<1>2. CASE Entry(m, a, i) = NoFrame
  <2>1. PICK new : new = allocate_page(b)
    OBVIOUS
  <2>2. new \in Usable /\ b[new] = 0 /\ new # NoFrame /\ new \in Frame
    BY <1>2, <2>1, Constants DEF Usable
  <2>3. PICK m2, b2, lv2 :
          /\ m2 = ClearTable(SetEntry(m, a, i, new), new) /\ b2 = Marked(b, new, pid)
          /\ Grown(m, b, lv, m2, b2, lv2) /\ Entry(m2, a, i) = new /\ lv2[new] = lv[a] + 1
          /\ \A f \in Frame : f # new => lv2[f] = lv[f]
    BY <1>2, <2>1, <2>2, NewTable
  <2>4. EnsureTable(s, i, pid) = [mem |-> m2, bitmap |-> b2, at |-> new, ok |-> TRUE]
    BY <1>2, <2>1, <2>2, <2>3 DEF EnsureTable
  <2>5. Ensured(m, b, lv, a, i, pid, m2, b2, new, lv2)
    BY <1>2, <2>1, <2>2, <2>3, <2>4 DEF Ensured
  <2>6. QED
    BY <2>5
<1>3. QED
  BY <1>1, <1>2

\* What leads to a table still does.
Keeps(m, lv, m2) == \A f \in Frame, i \in Index : Leads(m, lv, f, i) => Entry(m2, f, i) = Entry(m, f, i)

\* Growing keeps what leads to tables.
LEMMA GrownKeeps ==
  ASSUME NEW lv \in Levels, NEW m, NEW b, NEW m2, NEW b2, NEW lv2, Grown(m, b, lv, m2, b2, lv2)
  PROVE  Keeps(m, lv, m2)
BY DEF Keeps, Grown, Leads, Levels

\* The way down from a PML4.
LEMMA WayDown ==
  ASSUME NEW lv \in Levels, NEW m, NEW b, Tree(m, b, lv), NEW r \in Frame, lv[r] = 1,
         NEW i1 \in Index, i1 # REC, NEW i2 \in Index, NEW i3 \in Index,
         NEW x1, x1 = Entry(m, r, i1), NEW x2, x2 = Entry(m, x1, i2), NEW x3, x3 = Entry(m, x2, i3)
  PROVE  /\ x1 # NoFrame => x1 \in Frame /\ lv[x1] = 2 /\ Leads(m, lv, r, i1)
         /\ x2 # NoFrame => x1 # NoFrame /\ x2 \in Frame /\ lv[x2] = 3 /\ Leads(m, lv, x1, i2)
         /\ x3 # NoFrame => x2 # NoFrame /\ x3 \in Frame /\ lv[x3] = 4 /\ Leads(m, lv, x2, i3)
<1>1. DOMAIN m \subseteq Frame /\ m \in [DOMAIN m -> Tables]
  BY DEF Tree
<1>2. x1 # NoFrame => x1 \in Frame /\ lv[x1] = 2 /\ Leads(m, lv, r, i1)
  <2>1. x1 # NoFrame => x1 \in Frame /\ Leads(m, lv, r, i1)
    BY <1>1, EntryTyped DEF Leads
  <2>2. QED
    BY <2>1 DEF Tree
<1>3. x2 # NoFrame => x1 # NoFrame /\ x2 \in Frame /\ lv[x2] = 3 /\ Leads(m, lv, x1, i2)
  <2>1. x2 # NoFrame => x1 \in Frame /\ x2 \in Frame /\ x1 # NoFrame
    BY <1>1, EntryTyped, Constants
  <2>2. x2 # NoFrame => Leads(m, lv, x1, i2)
    BY <2>1, <1>2 DEF Leads
  <2>3. QED
    BY <2>1, <2>2, <1>2 DEF Tree
<1>4. x3 # NoFrame => x2 # NoFrame /\ x3 \in Frame /\ lv[x3] = 4 /\ Leads(m, lv, x2, i3)
  <2>1. x3 # NoFrame => x2 \in Frame /\ x3 \in Frame /\ x2 # NoFrame
    BY <1>1, EntryTyped, Constants
  <2>2. x3 # NoFrame => Leads(m, lv, x2, i3)
    BY <2>1, <1>3 DEF Leads
  <2>3. QED
    BY <2>1, <2>2, <1>3 DEF Tree
<1>5. QED
  BY <1>2, <1>3, <1>4

\* The tables on the way down from a PML4 stay where they are.
LEMMA WayKept ==
  ASSUME NEW lv \in Levels, NEW m, NEW b, Tree(m, b, lv), NEW r \in Frame, lv[r] = 1,
         NEW i1 \in Index, i1 # REC, NEW i2 \in Index, NEW i3 \in Index,
         NEW m2, Keeps(m, lv, m2)
  PROVE  /\ Entry(m, r, i1) # NoFrame => Entry(m2, r, i1) = Entry(m, r, i1)
         /\ Entry(m, Entry(m, r, i1), i2) # NoFrame =>
              Entry(m2, Entry(m2, r, i1), i2) = Entry(m, Entry(m, r, i1), i2)
         /\ Entry(m, Entry(m, Entry(m, r, i1), i2), i3) # NoFrame =>
              Entry(m2, Entry(m2, Entry(m2, r, i1), i2), i3) = Entry(m, Entry(m, Entry(m, r, i1), i2), i3)
<1>1. PICK x1, x2, x3 : x1 = Entry(m, r, i1) /\ x2 = Entry(m, x1, i2) /\ x3 = Entry(m, x2, i3)
  OBVIOUS
<1>2. /\ x1 # NoFrame => x1 \in Frame /\ lv[x1] = 2 /\ Leads(m, lv, r, i1)
      /\ x2 # NoFrame => x1 # NoFrame /\ x2 \in Frame /\ lv[x2] = 3 /\ Leads(m, lv, x1, i2)
      /\ x3 # NoFrame => x2 # NoFrame /\ x3 \in Frame /\ lv[x3] = 4 /\ Leads(m, lv, x2, i3)
  BY <1>1, WayDown
<1>3. x1 # NoFrame => Entry(m2, r, i1) = x1
  BY <1>1, <1>2 DEF Keeps
<1>4. x2 # NoFrame => Entry(m2, x1, i2) = x2
  BY <1>1, <1>2 DEF Keeps
<1>5. x3 # NoFrame => Entry(m2, x2, i3) = x3
  BY <1>1, <1>2 DEF Keeps
<1>6. QED
  BY <1>1, <1>2, <1>3, <1>4, <1>5

\* Pages that can be mapped.
Mappable(pages) == IsFiniteSet(pages) /\ \A v \in pages : v \in Int /\ PageIndexes(v)[1] # REC

\* A table that pages need is a PDPT, a PD or a page table of one of them.
LEMMA TablesForIs ==
  ASSUME NEW pages, NEW n \in TablesFor(pages)
  PROVE  \E v \in pages : \/ n = <<PageIndexes(v)[1]>>
                          \/ n = <<PageIndexes(v)[1], PageIndexes(v)[2]>>
                          \/ n = <<PageIndexes(v)[1], PageIndexes(v)[2], PageIndexes(v)[3]>>
BY DEF TablesFor

\* No table becomes missing.
LEMMA MissingShrinks ==
  ASSUME NEW lv \in Levels, NEW m, NEW b, Tree(m, b, lv), NEW r \in Frame, lv[r] = 1,
         NEW pages, Mappable(pages), NEW m2, Keeps(m, lv, m2)
  PROVE  Missing(m2, r, pages) \subseteq Missing(m, r, pages)
<1> SUFFICES ASSUME NEW n \in TablesFor(pages), TableAt(m, r, n) # NoFrame
             PROVE  TableAt(m2, r, n) # NoFrame
  BY DEF Missing
<1>1. PICK v \in pages : \/ n = <<PageIndexes(v)[1]>>
                         \/ n = <<PageIndexes(v)[1], PageIndexes(v)[2]>>
                         \/ n = <<PageIndexes(v)[1], PageIndexes(v)[2], PageIndexes(v)[3]>>
  BY TablesForIs
<1>2. PICK i1, i2, i3 : i1 = PageIndexes(v)[1] /\ i2 = PageIndexes(v)[2] /\ i3 = PageIndexes(v)[3]
  OBVIOUS
<1>3. i1 \in Index /\ i1 # REC /\ i2 \in Index /\ i3 \in Index
  BY <1>2, IndexesTyped DEF Mappable
<1>4. n = <<i1>> \/ n = <<i1, i2>> \/ n = <<i1, i2, i3>>
  BY <1>1, <1>2
<1>5. /\ Entry(m, r, i1) # NoFrame => Entry(m2, r, i1) # NoFrame
      /\ Entry(m, Entry(m, r, i1), i2) # NoFrame => Entry(m2, Entry(m2, r, i1), i2) # NoFrame
      /\ Entry(m, Entry(m, Entry(m, r, i1), i2), i3) # NoFrame =>
           Entry(m2, Entry(m2, Entry(m2, r, i1), i2), i3) # NoFrame
  BY <1>3, WayKept
<1>6. CASE n = <<i1>>
  <2>1. TableAt(m, r, n) = Entry(m, r, i1) /\ TableAt(m2, r, n) = Entry(m2, r, i1)
    BY <1>6 DEF TableAt
  <2>2. QED
    BY <2>1, <1>5
<1>7. CASE n = <<i1, i2>>
  <2>1. /\ TableAt(m, r, n) = Entry(m, Entry(m, r, i1), i2)
        /\ TableAt(m2, r, n) = Entry(m2, Entry(m2, r, i1), i2)
    BY <1>7 DEF TableAt
  <2>2. QED
    BY <2>1, <1>5
<1>8. CASE n = <<i1, i2, i3>>
  <2>1. /\ TableAt(m, r, n) = Entry(m, Entry(m, Entry(m, r, i1), i2), i3)
        /\ TableAt(m2, r, n) = Entry(m2, Entry(m2, Entry(m2, r, i1), i2), i3)
    BY <1>8 DEF TableAt
  <2>2. QED
    BY <2>1, <1>5
<1>9. QED
  BY <1>4, <1>6, <1>7, <1>8

\* There are finitely many frames.
LEMMA FrameFinite == \A R \in SUBSET Frame : IsFiniteSet(R)
<1>1. 0 \in Int /\ NumPages - 1 \in Int
  BY Constants
<1>2. IsFiniteSet(Frame)
  BY <1>1, FS_Interval DEF Frame
<1>3. QED
  BY <1>2, FS_Subset

\* Finitely many pages need finitely many tables.
LEMMA TablesForFinite ==
  ASSUME NEW pages, IsFiniteSet(pages)
  PROVE  IsFiniteSet(TablesFor(pages))
<1> DEFINE F(v) == {<<PageIndexes(v)[1]>>, <<PageIndexes(v)[1], PageIndexes(v)[2]>>,
                    <<PageIndexes(v)[1], PageIndexes(v)[2], PageIndexes(v)[3]>>}
           f == [v \in pages |-> F(v)]
           A == {F(v) : v \in pages}
<1>1. TablesFor(pages) = UNION A
  BY DEF TablesFor
<1>2. A = {f[v] : v \in pages}
  OBVIOUS
<1>3. IsFiniteSet({f[v] : v \in pages})
  <2>1. f \in Surjection(pages, {f[v] : v \in pages})
    BY DEF Surjection
  <2>2. QED
    BY <2>1, FS_Surjection
<1>4. \A S \in A : IsFiniteSet(S)
  <2> SUFFICES ASSUME NEW v \in pages PROVE IsFiniteSet(F(v))
    OBVIOUS
  <2>1. PICK e1, e2, e3 : F(v) = {e1, e2, e3}
    OBVIOUS
  <2>2. IsFiniteSet({e1})
    BY FS_Singleton
  <2>3. IsFiniteSet({e1} \cup {e2})
    BY <2>2, FS_AddElement
  <2>4. IsFiniteSet(({e1} \cup {e2}) \cup {e3})
    BY <2>3, FS_AddElement
  <2>5. F(v) = ({e1} \cup {e2}) \cup {e3}
    BY <2>1
  <2>6. QED
    BY <2>4, <2>5
<1>5. QED
  BY <1>1, <1>2, <1>3, <1>4, FS_UNION

\* A table of n is made in a frame: one fewer is missing, and at most one fewer is free.
LEMMA EnoughStep ==
  ASSUME NEW lv \in Levels, NEW m, NEW b \in Marking, Tree(m, b, lv), NEW r \in Frame, lv[r] = 1,
         NEW pages, Mappable(pages), NEW m2, Keeps(m, lv, m2),
         NEW R \in SUBSET Frame, NEW c \in Int, Enough(m, b, r, R, pages, c),
         NEW n \in TablesFor(pages), TableAt(m, r, n) = NoFrame, TableAt(m2, r, n) # NoFrame,
         NEW new \in Frame, NEW pid, NEW b2, b2 = Marked(b, new, pid)
  PROVE  Enough(m2, b2, r, R, pages, c)
<1>1. IsFiniteSet(TablesFor(pages)) /\ IsFiniteSet(R)
  BY TablesForFinite, FrameFinite DEF Mappable
<1>2. IsFiniteSet(Missing(m, r, pages)) /\ IsFiniteSet(Free(b, R)) /\ IsFiniteSet(Free(b2, R))
  BY <1>1, FS_Subset DEF Missing, Free
<1>3. n \in Missing(m, r, pages) /\ Missing(m2, r, pages) \subseteq Missing(m, r, pages) \ {n}
  BY MissingShrinks DEF Missing
<1>4. /\ IsFiniteSet(Missing(m, r, pages) \ {n})
      /\ Cardinality(Missing(m, r, pages) \ {n}) = Cardinality(Missing(m, r, pages)) - 1
  BY <1>2, <1>3, FS_RemoveElement
<1>5. /\ Cardinality(Missing(m2, r, pages)) <= Cardinality(Missing(m, r, pages) \ {n})
      /\ IsFiniteSet(Missing(m2, r, pages))
  BY <1>3, <1>4, FS_Subset
<1>6. Free(b, R) \ {new} \subseteq Free(b2, R)
  BY DEF Free, Marked, Marking
<1>7. Cardinality(Free(b, R) \ {new}) >= Cardinality(Free(b, R)) - 1 /\ IsFiniteSet(Free(b, R) \ {new})
  <2>0. PICK F : F = Free(b, R) /\ IsFiniteSet(F) /\ Cardinality(F) \in Nat
    BY <1>2, FS_CardinalityType
  <2>1. CASE new \in F
    <3>1. IsFiniteSet(F \ {new}) /\ Cardinality(F \ {new}) = Cardinality(F) - 1
      BY <2>0, <2>1, FS_RemoveElement
    <3>2. QED
      BY <3>1, <2>0
  <2>2. CASE new \notin F
    <3>1. F \ {new} = F
      BY <2>2
    <3>2. Cardinality(F \ {new}) = Cardinality(F) /\ IsFiniteSet(F \ {new})
      BY <3>1, <2>0
    <3>3. Cardinality(F) >= Cardinality(F) - 1
      BY <2>0
    <3>4. Cardinality(F \ {new}) >= Cardinality(F) - 1
      BY <3>2, <3>3
    <3>5. QED
      BY <3>2, <3>4, <2>0
  <2>3. QED
    BY <2>1, <2>2
<1>8. Cardinality(Free(b2, R)) >= Cardinality(Free(b, R) \ {new})
  BY <1>2, <1>6, FS_Subset
<1>9. /\ Cardinality(Missing(m, r, pages)) \in Nat /\ Cardinality(Missing(m2, r, pages)) \in Nat
      /\ Cardinality(Free(b, R)) \in Nat /\ Cardinality(Free(b2, R)) \in Nat
      /\ Cardinality(Free(b, R) \ {new}) \in Nat
  BY <1>2, <1>5, <1>7, FS_CardinalityType
<1>10. QED
  BY <1>4, <1>5, <1>7, <1>8, <1>9 DEF Enough

\* There is a free frame when a table is missing.
LEMMA EnoughFree ==
  ASSUME NEW m, NEW b, NEW r, NEW pages, Mappable(pages), NEW R \in SUBSET Frame, NEW c \in Nat,
         Enough(m, b, r, R, pages, c),
         NEW n \in TablesFor(pages), TableAt(m, r, n) = NoFrame
  PROVE  \E g \in R : b[g] = 0
<1>1. IsFiniteSet(TablesFor(pages)) /\ IsFiniteSet(R)
  BY TablesForFinite, FrameFinite DEF Mappable
<1>2. IsFiniteSet(Missing(m, r, pages)) /\ n \in Missing(m, r, pages)
  BY <1>1, FS_Subset DEF Missing
<1>3. Cardinality(Missing(m, r, pages)) \in Nat /\ Cardinality(Missing(m, r, pages)) # 0
  BY <1>2, FS_EmptySet, FS_CardinalityType
<1>4. Free(b, R) # {}
  <2>1. SUFFICES ASSUME Free(b, R) = {} PROVE FALSE
    OBVIOUS
  <2>2. Cardinality(Free(b, R)) = 0
    BY <2>1, FS_EmptySet
  <2>3. QED
    BY <2>2, <1>3 DEF Enough
<1>5. QED
  BY <1>4 DEF Free

\* Free frames up to one in R can be used.
Safe(b, R) == \A f \in Frame : b[f] = 0 /\ (\E g \in R : f <= g) => f \in Usable

EnoughKept(m, b, m2, b2, r, n) ==
  \A R \in SUBSET Frame : \A c \in Int : \A pages :
    Mappable(pages) /\ n \in TablesFor(pages) /\ Enough(m, b, r, R, pages, c) => Enough(m2, b2, r, R, pages, c)

\* One level of map_page: table a is where all but the last of the indexes n lead to.
Leveled(m, b, lv, a, i, pid, m2, b2, a2, lv2, R, r, n) ==
  /\ EnsureTable([mem |-> m, bitmap |-> b, at |-> a, ok |-> TRUE], i, pid)
       = [mem |-> m2, bitmap |-> b2, at |-> a2, ok |-> TRUE]
  /\ Grown(m, b, lv, m2, b2, lv2)
  /\ a2 \in Frame /\ lv2[a2] = lv[a] + 1 /\ Entry(m2, a, i) = a2
  /\ \A f \in Frame : f # a2 => lv2[f] = lv[f]
  /\ Safe(b2, R)
  /\ EnoughKept(m, b, m2, b2, r, n)

\* One level of map_page, below r, with as many free frames as tables are missing.
LEMMA EnsureLevel ==
  ASSUME NEW lv \in Levels, NEW m, NEW b \in Marking, Tree(m, b, lv), NEW r \in Frame, lv[r] = 1,
         NEW a \in Frame, lv[a] \in 1 .. 3, NEW i \in Index, ~ (lv[a] = 1 /\ i = REC),
         NEW pid \in 1 .. MAX_NUM_OF_PROCESS - 1,
         NEW pages, Mappable(pages), NEW n \in TablesFor(pages),
         TableAt(m, r, n) = Entry(m, a, i),
         \A m2 : Keeps(m, lv, m2) => TableAt(m2, r, n) = Entry(m2, a, i),
         NEW R \in SUBSET Frame, NEW c \in Nat, Enough(m, b, r, R, pages, c), Safe(b, R)
  PROVE  \E m2, b2, a2, lv2 : Leveled(m, b, lv, a, i, pid, m2, b2, a2, lv2, R, r, n)
<1>1. Entry(m, a, i) = NoFrame => allocate_page(b) \in Usable /\ b[allocate_page(b)] = 0
  <2> SUFFICES ASSUME Entry(m, a, i) = NoFrame PROVE allocate_page(b) \in Usable /\ b[allocate_page(b)] = 0
    OBVIOUS
  <2>1. PICK g \in R : b[g] = 0
    BY EnoughFree
  <2>2. allocate_page(b) \in Frame /\ b[allocate_page(b)] = 0 /\ allocate_page(b) <= g
    BY <2>1, AllocatePage
  <2>3. QED
    BY <2>2 DEF Safe
<1>a. PICK m2, b2, a2, lv2 : Ensured(m, b, lv, a, i, pid, m2, b2, a2, lv2)
  BY <1>1, EnsureStep
<1>2. /\ EnsureTable([mem |-> m, bitmap |-> b, at |-> a, ok |-> TRUE], i, pid)
           = [mem |-> m2, bitmap |-> b2, at |-> a2, ok |-> TRUE]
      /\ Grown(m, b, lv, m2, b2, lv2)
      /\ a2 \in Frame /\ lv2[a2] = lv[a] + 1 /\ Entry(m2, a, i) = a2
      /\ \A f \in Frame : f # a2 => lv2[f] = lv[f]
      /\ \/ b2 = b /\ m2 = m
         \/ Entry(m, a, i) = NoFrame /\ b2 = Marked(b, allocate_page(b), pid)
  BY <1>a DEF Ensured
<1>3. Safe(b2, R)
  BY <1>2 DEF Safe, Grown
<1>4. EnoughKept(m, b, m2, b2, r, n)
  <2>1. CASE b2 = b /\ m2 = m
    BY <2>1 DEF EnoughKept
  <2>2. CASE Entry(m, a, i) = NoFrame /\ b2 = Marked(b, allocate_page(b), pid)
    <3>1. Keeps(m, lv, m2)
      BY <1>2, GrownKeeps
    <3>2. TableAt(m, r, n) = NoFrame /\ TableAt(m2, r, n) # NoFrame
      BY <2>2, <3>1, <1>2, Constants
    <3>3. allocate_page(b) \in Frame
      BY <1>1, <2>2 DEF Usable
    <3> SUFFICES ASSUME NEW R2 \in SUBSET Frame, NEW c2 \in Int, NEW pages2, Mappable(pages2),
                        n \in TablesFor(pages2), Enough(m, b, r, R2, pages2, c2)
                 PROVE  Enough(m2, b2, r, R2, pages2, c2)
      BY DEF EnoughKept
    <3>4. QED
      BY <3>1, <3>2, <3>3, <2>2, EnoughStep
  <2>3. QED
    BY <2>1, <2>2, <1>2
<1>5. Leveled(m, b, lv, a, i, pid, m2, b2, a2, lv2, R, r, n)
  BY <1>2, <1>3, <1>4 DEF Leveled
<1>6. QED
  BY <1>5

\* Changing an entry of a page table, or the recursive entry of a PML4, changes no table.
LEMMA EntryChanged ==
  ASSUME NEW lv \in Levels, NEW m, NEW b, Tree(m, b, lv), NEW a \in Frame, NEW i \in Index,
         lv[a] = 4 \/ (lv[a] = 0 /\ a \notin Untouched) \/ (lv[a] = 1 /\ i = REC),
         NEW m2, DOMAIN m2 = DOMAIN m, m2 \in [DOMAIN m -> Tables],
         \A g, j : ~ (g = a /\ j = i) => Entry(m2, g, j) = Entry(m, g, j)
  PROVE  Tree(m2, b, lv) /\ Keeps(m, lv, m2)
<1>1. \A f \in Frame, j \in Index : Leads(m2, lv, f, j) => Leads(m, lv, f, j) /\ Entry(m2, f, j) = Entry(m, f, j)
  BY DEF Leads
<1>2. \A f \in Frame, j \in Index : Leads(m, lv, f, j) => Entry(m2, f, j) = Entry(m, f, j)
  BY DEF Leads
<1>3. \A f \in Frame, j \in Index : Leads(m2, lv, f, j) => lv[Entry(m2, f, j)] = lv[f] + 1
  BY <1>1 DEF Tree
<1>4. \A f, g \in Frame, j, k \in Index :
       Leads(m2, lv, f, j) /\ Leads(m2, lv, g, k) /\ Entry(m2, f, j) = Entry(m2, g, k) => f = g /\ j = k
  <2> SUFFICES ASSUME NEW f \in Frame, NEW g \in Frame, NEW j \in Index, NEW k \in Index,
                      Leads(m2, lv, f, j), Leads(m2, lv, g, k), Entry(m2, f, j) = Entry(m2, g, k)
               PROVE  f = g /\ j = k
    OBVIOUS
  <2>1. Leads(m, lv, f, j) /\ Leads(m, lv, g, k) /\ Entry(m, f, j) = Entry(m, g, k)
    BY <1>1
  <2>2. QED
    BY <2>1 DEF Tree
<1>5. /\ DOMAIN m2 = Frame /\ m2 \in [DOMAIN m2 -> Tables] /\ lv[PML4_KERNEL] = 1
      /\ \A f \in Frame : lv[f] > 0 => f = PML4_KERNEL \/ (f \in Usable /\ b[f] # 0)
  BY DEF Tree
<1>6. \A f \in Untouched, j \in Index : lv[f] = 0 => Entry(m2, f, j) = NoFrame
  <2> SUFFICES ASSUME NEW f \in Untouched, NEW j \in Index, lv[f] = 0 PROVE Entry(m2, f, j) = NoFrame
    OBVIOUS
  <2>1. f # a
    OBVIOUS
  <2>2. QED
    BY <2>1 DEF Tree
<1>7. QED
  BY <1>2, <1>3, <1>4, <1>5, <1>6 DEF Tree, Keeps

\* What map_page has done.
MapDone(m, b, lv, m2, b2, lv2, r, v, p) ==
  /\ lv2 \in Levels /\ Tree(m2, b2, lv2) /\ b2 \in Marking
  /\ \A f \in Frame : lv[f] > 0 => lv2[f] = lv[f]
  /\ \A f \in Frame : lv2[f] = 1 => lv[f] = 1
  /\ \A f \in Frame : b[f] # 0 => b2[f] = b[f] /\ (lv[f] = 0 => lv2[f] = 0)
  /\ Keeps(m, lv, m2)
  /\ \A f \in Frame : lv[f] = 1 => Entry(m2, f, REC) = Entry(m, f, REC)
  /\ \A f \in Frame, i \in Index : lv[f] = 0 /\ b[f] # 0 => Entry(m2, f, i) = Entry(m, f, i)
  /\ \A f \in Frame, i \in Index :
       lv[f] = 4 /\ ~ (f = Pt(m2, r, v) /\ i = PageIndexes(v)[4]) => Entry(m2, f, i) = Entry(m, f, i)
  /\ Walk(m2, r, v) = p
  /\ \A f \in Frame, i \in Index : Leads(m2, lv2, f, i) => Leads(m, lv, f, i) \/ lv[Entry(m2, f, i)] = 0
  /\ \A f \in Frame : lv2[f] = 4 => lv[f] = 4 \/ f = Pt(m2, r, v)
  /\ Took(b, lv, b2, lv2)

EnoughStill(m, b, m2, b2, r, v) ==
  \A R \in SUBSET Frame : \A c \in Int : \A pages :
    Mappable(pages) /\ v \in pages /\ Enough(m, b, r, R, pages, c) => Enough(m2, b2, r, R, pages, c)

\* The last step of map_page: entry i of page table a.
LEMMA LeafSet ==
  ASSUME NEW lv \in Levels, NEW m, NEW b \in Marking, Tree(m, b, lv), NEW a \in Frame, lv[a] = 4,
         NEW i \in Index, NEW p \in Frame, NEW m2, m2 = SetEntry(m, a, i, p)
  PROVE  /\ Tree(m2, b, lv) /\ Keeps(m, lv, m2)
         /\ Entry(m2, a, i) = p
         /\ \A g, j : ~ (g = a /\ j = i) => Entry(m2, g, j) = Entry(m, g, j)
<1>1. a \in DOMAIN m /\ m \in [DOMAIN m -> Tables]
  BY DEF Tree
<1>2. /\ DOMAIN m2 = DOMAIN m /\ m2 \in [DOMAIN m -> Tables]
      /\ Entry(m2, a, i) = p
      /\ \A g, j : ~ (g = a /\ j = i) => Entry(m2, g, j) = Entry(m, g, j)
  BY <1>1, SetEntryIs
<1>3. Tree(m2, b, lv) /\ Keeps(m, lv, m2)
  BY <1>2, EntryChanged
<1>4. QED
  BY <1>2, <1>3

\* The three levels.
Descended(m, b, lv, r, v, pid, m1, b1, a1, m2, b2, a2, m3, b3, a3, lv3) ==
  /\ EnsureTable([mem |-> m, bitmap |-> b, at |-> r, ok |-> TRUE], PageIndexes(v)[1], pid)
       = [mem |-> m1, bitmap |-> b1, at |-> a1, ok |-> TRUE]
  /\ EnsureTable([mem |-> m1, bitmap |-> b1, at |-> a1, ok |-> TRUE], PageIndexes(v)[2], pid)
       = [mem |-> m2, bitmap |-> b2, at |-> a2, ok |-> TRUE]
  /\ EnsureTable([mem |-> m2, bitmap |-> b2, at |-> a2, ok |-> TRUE], PageIndexes(v)[3], pid)
       = [mem |-> m3, bitmap |-> b3, at |-> a3, ok |-> TRUE]
  /\ Grown(m, b, lv, m3, b3, lv3)
  /\ a3 \in Frame /\ lv3[a3] = 4 /\ a3 = Entry(m3, Entry(m3, Entry(m3, r, PageIndexes(v)[1]), PageIndexes(v)[2]), PageIndexes(v)[3])
  /\ \A f \in Frame : lv3[f] = 4 => lv[f] = 4 \/ f = a3
  /\ EnoughStill(m, b, m3, b3, r, v)

\* The three levels of map_page one after the other: none of them runs out of frames.
LEMMA ThreeLevels ==
  ASSUME NEW lv \in Levels, NEW m, NEW b \in Marking, Tree(m, b, lv), NEW r \in Frame, lv[r] = 1,
         NEW v \in Int, NEW pid \in 1 .. MAX_NUM_OF_PROCESS - 1,
         NEW pages, Mappable(pages), v \in pages,
         NEW R \in SUBSET Frame, NEW c \in Nat, Enough(m, b, r, R, pages, c), Safe(b, R)
  PROVE  \E m1, b1, a1, m2, b2, a2, m3, b3, a3, lv3 :
           Descended(m, b, lv, r, v, pid, m1, b1, a1, m2, b2, a2, m3, b3, a3, lv3)
<1>0. PICK i1, i2, i3 : i1 = PageIndexes(v)[1] /\ i2 = PageIndexes(v)[2] /\ i3 = PageIndexes(v)[3]
  OBVIOUS
<1>1. i1 \in Index /\ i1 # REC /\ i2 \in Index /\ i3 \in Index
  BY <1>0, IndexesTyped DEF Mappable
<1>2. \A ps : v \in ps => <<i1>> \in TablesFor(ps) /\ <<i1, i2>> \in TablesFor(ps) /\ <<i1, i2, i3>> \in TablesFor(ps)
  BY <1>0 DEF TablesFor
<1>3. PICK m1, b1, a1, lv1 : Leveled(m, b, lv, r, i1, pid, m1, b1, a1, lv1, R, r, <<i1>>)
  <2>1. \A mm : TableAt(mm, r, <<i1>>) = Entry(mm, r, i1)
    BY DEF TableAt
  <2>2. <<i1>> \in TablesFor(pages)
    BY <1>2
  <2>3. lv[r] \in 1 .. 3
    OBVIOUS
  <2>4. QED
    BY <1>1, <2>1, <2>2, <2>3, EnsureLevel
<1>4. /\ Grown(m, b, lv, m1, b1, lv1) /\ a1 \in Frame /\ lv1[a1] = 2 /\ Entry(m1, r, i1) = a1
      /\ Safe(b1, R) /\ EnoughKept(m, b, m1, b1, r, <<i1>>)
  BY <1>3 DEF Leveled
<1>5. lv1 \in Levels /\ b1 \in Marking /\ Tree(m1, b1, lv1) /\ lv1[r] = 1 /\ Enough(m1, b1, r, R, pages, c)
  <2>1. lv1 \in Levels /\ b1 \in Marking /\ Tree(m1, b1, lv1) /\ lv1[r] = 1
    BY <1>4 DEF Grown
  <2>2. c \in Int /\ <<i1>> \in TablesFor(pages)
    BY <1>2
  <2>3. QED
    BY <2>1, <2>2, <1>4 DEF EnoughKept
<1>6. PICK m2, b2, a2, lv2 : Leveled(m1, b1, lv1, a1, i2, pid, m2, b2, a2, lv2, R, r, <<i1, i2>>)
  <2>1. \A mm : TableAt(mm, r, <<i1, i2>>) = Entry(mm, Entry(mm, r, i1), i2)
    BY DEF TableAt
  <2>2. \A mm : Keeps(m1, lv1, mm) => Entry(mm, r, i1) = a1
    BY <1>1, <1>4, <1>5, Constants DEF Keeps, Leads
  <2>3. TableAt(m1, r, <<i1, i2>>) = Entry(m1, a1, i2) /\ \A mm : Keeps(m1, lv1, mm) => TableAt(mm, r, <<i1, i2>>) = Entry(mm, a1, i2)
    BY <2>1, <2>2, <1>4
  <2>4. <<i1, i2>> \in TablesFor(pages)
    BY <1>2
  <2>5. lv1[a1] \in 1 .. 3 /\ lv1[a1] # 1
    BY <1>4
  <2>6. QED
    BY <1>1, <1>4, <1>5, <2>3, <2>4, <2>5, EnsureLevel
<1>7. /\ Grown(m1, b1, lv1, m2, b2, lv2) /\ a2 \in Frame /\ lv2[a2] = 3 /\ Entry(m2, a1, i2) = a2
      /\ Safe(b2, R) /\ EnoughKept(m1, b1, m2, b2, r, <<i1, i2>>)
  BY <1>6, <1>4 DEF Leveled
<1>8. /\ lv2 \in Levels /\ b2 \in Marking /\ Tree(m2, b2, lv2) /\ lv2[r] = 1 /\ Enough(m2, b2, r, R, pages, c)
      /\ lv2[a1] = 2 /\ Entry(m2, r, i1) = a1
  <2>1. lv2 \in Levels /\ b2 \in Marking /\ Tree(m2, b2, lv2) /\ lv2[r] = 1 /\ lv2[a1] = 2
    BY <1>4, <1>5, <1>7 DEF Grown
  <2>2. c \in Int /\ <<i1, i2>> \in TablesFor(pages)
    BY <1>2
  <2>3. Enough(m2, b2, r, R, pages, c)
    BY <2>2, <1>5, <1>7 DEF EnoughKept
  <2>4. Entry(m2, r, i1) = a1
    BY <1>1, <1>4, <1>5, <1>7, Constants DEF Grown
  <2>5. QED
    BY <2>1, <2>3, <2>4
<1>9. PICK m3, b3, a3, lv3 : Leveled(m2, b2, lv2, a2, i3, pid, m3, b3, a3, lv3, R, r, <<i1, i2, i3>>)
  <2>1. \A mm : TableAt(mm, r, <<i1, i2, i3>>) = Entry(mm, Entry(mm, Entry(mm, r, i1), i2), i3)
    BY DEF TableAt
  <2>2. \A mm : Keeps(m2, lv2, mm) => Entry(mm, r, i1) = a1 /\ Entry(mm, a1, i2) = a2
    BY <1>1, <1>4, <1>7, <1>8, Constants DEF Keeps, Leads
  <2>3. TableAt(m2, r, <<i1, i2, i3>>) = Entry(m2, a2, i3) /\ \A mm : Keeps(m2, lv2, mm) => TableAt(mm, r, <<i1, i2, i3>>) = Entry(mm, a2, i3)
    BY <2>1, <2>2, <1>7, <1>8
  <2>4. <<i1, i2, i3>> \in TablesFor(pages)
    BY <1>2
  <2>5. lv2[a2] \in 1 .. 3 /\ lv2[a2] # 1
    BY <1>7
  <2>6. QED
    BY <1>1, <1>7, <1>8, <2>3, <2>4, <2>5, EnsureLevel
<1>10. /\ Grown(m2, b2, lv2, m3, b3, lv3) /\ a3 \in Frame /\ lv3[a3] = 4 /\ Entry(m3, a2, i3) = a3
       /\ EnoughKept(m2, b2, m3, b3, r, <<i1, i2, i3>>)
  BY <1>9, <1>7 DEF Leveled
<1>11. Entry(m3, r, i1) = a1 /\ Entry(m3, a1, i2) = a2
  BY <1>1, <1>4, <1>7, <1>8, <1>10, Constants DEF Grown
<1>12. Grown(m, b, lv, m3, b3, lv3)
  BY <1>4, <1>5, <1>7, <1>8, <1>10, GrownTwice
<1>13. EnoughStill(m, b, m3, b3, r, v)
  <2> SUFFICES ASSUME NEW R2 \in SUBSET Frame, NEW c2 \in Int, NEW ps, Mappable(ps), v \in ps, Enough(m, b, r, R2, ps, c2)
               PROVE  Enough(m3, b3, r, R2, ps, c2)
    BY DEF EnoughStill
  <2>1. <<i1>> \in TablesFor(ps) /\ <<i1, i2>> \in TablesFor(ps) /\ <<i1, i2, i3>> \in TablesFor(ps)
    BY <1>2
  <2>2. Enough(m1, b1, r, R2, ps, c2)
    BY <2>1, <1>4 DEF EnoughKept
  <2>3. Enough(m2, b2, r, R2, ps, c2)
    BY <2>1, <2>2, <1>7 DEF EnoughKept
  <2>4. QED
    BY <2>1, <2>3, <1>10 DEF EnoughKept
<1>14. /\ EnsureTable([mem |-> m, bitmap |-> b, at |-> r, ok |-> TRUE], i1, pid)
            = [mem |-> m1, bitmap |-> b1, at |-> a1, ok |-> TRUE]
       /\ EnsureTable([mem |-> m1, bitmap |-> b1, at |-> a1, ok |-> TRUE], i2, pid)
            = [mem |-> m2, bitmap |-> b2, at |-> a2, ok |-> TRUE]
       /\ EnsureTable([mem |-> m2, bitmap |-> b2, at |-> a2, ok |-> TRUE], i3, pid)
            = [mem |-> m3, bitmap |-> b3, at |-> a3, ok |-> TRUE]
  BY <1>3, <1>6, <1>9 DEF Leveled
<1>15. a3 = Entry(m3, Entry(m3, Entry(m3, r, i1), i2), i3)
  BY <1>10, <1>11
<1>16. \A f \in Frame : lv3[f] = 4 => lv[f] = 4 \/ f = a3
  <2> SUFFICES ASSUME NEW f \in Frame, lv3[f] = 4, f # a3 PROVE lv[f] = 4
    OBVIOUS
  <2>1. lv2[f] = 4
    BY <1>9 DEF Leveled
  <2>2. f # a2 /\ lv1[f] = 4
    BY <2>1, <1>6, <1>7 DEF Leveled
  <2>3. f # a1
    BY <2>2, <1>4
  <2>4. QED
    BY <2>2, <2>3, <1>3 DEF Leveled
<1>17. Descended(m, b, lv, r, v, pid, m1, b1, a1, m2, b2, a2, m3, b3, a3, lv3)
  BY <1>0, <1>10, <1>12, <1>13, <1>14, <1>15, <1>16 DEF Descended
<1>18. QED
  BY <1>17

\* map_page maps the page, whatever tables that takes, and leaves the other pages alone.
LEMMA MapPageIs ==
  ASSUME NEW lv \in Levels, NEW m, NEW b \in Marking, Tree(m, b, lv), NEW r \in Frame, lv[r] = 1,
         NEW v \in Int, NEW p \in Frame, NEW pid \in 1 .. MAX_NUM_OF_PROCESS - 1,
         NEW pages, Mappable(pages), v \in pages,
         NEW R \in SUBSET Frame, NEW c \in Nat, Enough(m, b, r, R, pages, c), Safe(b, R),
         NEW s \in map_page(m, b, r, v, p, pid)
  PROVE  /\ s.ok = TRUE
         /\ \E lv2 : MapDone(m, b, lv, s.mem, s.bitmap, lv2, r, v, p)
         /\ EnoughStill(m, b, s.mem, s.bitmap, r, v)
<1>1. PICK i1, i2, i3, i4 : i1 = PageIndexes(v)[1] /\ i2 = PageIndexes(v)[2] /\ i3 = PageIndexes(v)[3] /\ i4 = PageIndexes(v)[4]
  OBVIOUS
<1>a. PICK m1, b1, a1, m2, b2, a2, m3, b3, a3, lv3 :
        Descended(m, b, lv, r, v, pid, m1, b1, a1, m2, b2, a2, m3, b3, a3, lv3)
  BY ThreeLevels
<1>2. /\ EnsureTable([mem |-> m, bitmap |-> b, at |-> r, ok |-> TRUE], i1, pid)
           = [mem |-> m1, bitmap |-> b1, at |-> a1, ok |-> TRUE]
      /\ EnsureTable([mem |-> m1, bitmap |-> b1, at |-> a1, ok |-> TRUE], i2, pid)
           = [mem |-> m2, bitmap |-> b2, at |-> a2, ok |-> TRUE]
      /\ EnsureTable([mem |-> m2, bitmap |-> b2, at |-> a2, ok |-> TRUE], i3, pid)
           = [mem |-> m3, bitmap |-> b3, at |-> a3, ok |-> TRUE]
      /\ Grown(m, b, lv, m3, b3, lv3)
      /\ a3 \in Frame /\ lv3[a3] = 4 /\ a3 = Entry(m3, Entry(m3, Entry(m3, r, i1), i2), i3)
      /\ \A f \in Frame : lv3[f] = 4 => lv[f] = 4 \/ f = a3
      /\ EnoughStill(m, b, m3, b3, r, v)
  BY <1>1, <1>a DEF Descended
<1>3. PICK m4 : m4 = SetEntry(m3, a3, i4, p)
  OBVIOUS
<1>4. s.mem = m4 /\ s.bitmap = b3 /\ s.ok = TRUE
  <2> DEFINE s1 == [mem |-> m1, bitmap |-> b1, at |-> a1, ok |-> TRUE]
             s2 == [mem |-> m2, bitmap |-> b2, at |-> a2, ok |-> TRUE]
             s3 == [mem |-> m3, bitmap |-> b3, at |-> a3, ok |-> TRUE]
  <2>1. map_page(m, b, r, v, p, pid) =
          {IF t.ok THEN [t EXCEPT !.mem = SetEntry(@, t.at, i4, p)] ELSE t :
             t \in {EnsureTable(u, i3, pid) : u \in {EnsureTable(w, i2, pid) :
               w \in {EnsureTable([mem |-> m, bitmap |-> b, at |-> r, ok |-> TRUE], i1, pid)}}}}
    BY <1>1 DEF map_page
  <2>2. {EnsureTable([mem |-> m, bitmap |-> b, at |-> r, ok |-> TRUE], i1, pid)} = {s1}
    BY <1>2
  <2>3. {EnsureTable(w, i2, pid) : w \in {s1}} = {s2}
    BY <1>2
  <2>4. {EnsureTable(u, i3, pid) : u \in {s2}} = {s3}
    BY <1>2
  <2>5. SetEntry(s3.mem, s3.at, i4, p) = m4 /\ s3.bitmap = b3
    BY <1>3
  <2>6. s3.ok = TRUE
    OBVIOUS
  <2>7. s \in {IF t.ok THEN [t EXCEPT !.mem = SetEntry(@, t.at, i4, p)] ELSE t : t \in {s3}}
    <3> HIDE DEF s1, s2, s3
    <3>1. QED
      BY <2>1, <2>2, <2>3, <2>4
  <2> HIDE DEF s1, s2, s3
  <2>8. s = [s3 EXCEPT !.mem = SetEntry(@, s3.at, i4, p)]
    BY <2>6, <2>7
  <2>9. s = [s3 EXCEPT !.mem = m4]
    BY <2>5, <2>8
  <2>10. s3 = [mem |-> m3, bitmap |-> b3, at |-> a3, ok |-> TRUE]
    BY DEF s3
  <2>11. s.mem = m4 /\ s.bitmap = b3
    BY <2>9, <2>10
  <2>12. s.ok = TRUE
    BY <2>9, <2>10
  <2>13. QED
    BY <2>11, <2>12
<1>5. i1 \in Index /\ i1 # REC /\ i2 \in Index /\ i3 \in Index /\ i4 \in Index
  BY <1>1, IndexesTyped DEF Mappable
<1>6. lv3 \in Levels /\ b3 \in Marking /\ Tree(m3, b3, lv3)
  BY <1>2 DEF Grown
<1>7. /\ Tree(m4, b3, lv3) /\ Keeps(m3, lv3, m4)
      /\ Entry(m4, a3, i4) = p
      /\ \A g, j : ~ (g = a3 /\ j = i4) => Entry(m4, g, j) = Entry(m3, g, j)
  BY <1>2, <1>3, <1>5, <1>6, LeafSet
<1>8. lv3[r] = 1
  BY <1>2 DEF Grown
<1>9. Entry(m4, Entry(m4, Entry(m4, r, i1), i2), i3) = a3
  <2>1. a3 # NoFrame
    BY <1>2, Constants
  <2>2. QED
    BY <2>1, <1>2, <1>5, <1>6, <1>7, <1>8, WayKept
<1>10. Pt(m4, r, v) = a3 /\ Walk(m4, r, v) = p
  <2>1. Pt(m4, r, v) = a3
    BY <1>1, <1>9 DEF Pt
  <2>2. Walk(m4, r, v) = Entry(m4, Pt(m4, r, v), i4)
    BY <1>1 DEF Walk, Pt
  <2>3. QED
    BY <2>1, <2>2, <1>7
<1>11. MapDone(m, b, lv, m4, b3, lv3, r, v, p)
  <2>1. Keeps(m, lv, m4)
    <3>1. Keeps(m, lv, m3)
      BY <1>2, GrownKeeps
    <3>2. \A f \in Frame, i \in Index : Leads(m, lv, f, i) => Leads(m3, lv3, f, i)
      BY <3>1, <1>2 DEF Keeps, Leads, Grown
    <3>3. QED
      BY <3>1, <3>2, <1>7 DEF Keeps
  <2>2. \A f \in Frame : lv[f] # 4 => f # a3 \/ lv[f] = 0
    BY <1>2 DEF Grown, Levels
  <2>3. \A f \in Frame : b[f] # 0 /\ lv[f] = 0 => f # a3
    BY <1>2 DEF Grown
  <2>4. \A f \in Frame : lv[f] = 1 => Entry(m4, f, REC) = Entry(m, f, REC)
    <3> SUFFICES ASSUME NEW f \in Frame, lv[f] = 1 PROVE Entry(m4, f, REC) = Entry(m, f, REC)
      OBVIOUS
    <3>1. f # a3
      BY <2>2
    <3>2. Entry(m4, f, REC) = Entry(m3, f, REC)
      BY <3>1, <1>7
    <3>3. QED
      BY <3>2, <1>2 DEF Grown
  <2>5. \A f \in Frame, i \in Index : lv[f] = 0 /\ b[f] # 0 => Entry(m4, f, i) = Entry(m, f, i)
    <3> SUFFICES ASSUME NEW f \in Frame, NEW i \in Index, lv[f] = 0, b[f] # 0 PROVE Entry(m4, f, i) = Entry(m, f, i)
      OBVIOUS
    <3>1. Entry(m4, f, i) = Entry(m3, f, i)
      BY <2>3, <1>7
    <3>2. QED
      BY <3>1, <1>2 DEF Grown
  <2>6. \A f \in Frame, i \in Index :
       lv[f] = 4 /\ ~ (f = Pt(m4, r, v) /\ i = PageIndexes(v)[4]) => Entry(m4, f, i) = Entry(m, f, i)
    <3> SUFFICES ASSUME NEW f \in Frame, NEW i \in Index, lv[f] = 4, ~ (f = a3 /\ i = i4)
                 PROVE Entry(m4, f, i) = Entry(m, f, i)
      BY <1>1, <1>10
    <3>1. Entry(m4, f, i) = Entry(m3, f, i)
      BY <1>7
    <3>2. QED
      BY <3>1, <1>2 DEF Grown
  <2>7. /\ \A f \in Frame : lv[f] > 0 => lv3[f] = lv[f]
        /\ \A f \in Frame : lv3[f] = 1 => lv[f] = 1
        /\ \A f \in Frame : b[f] # 0 => b3[f] = b[f] /\ (lv[f] = 0 => lv3[f] = 0)
    BY <1>2 DEF Grown
  <2>8. \A f \in Frame, i \in Index : Leads(m4, lv3, f, i) => Leads(m, lv, f, i) \/ lv[Entry(m4, f, i)] = 0
    <3> SUFFICES ASSUME NEW f \in Frame, NEW i \in Index, Leads(m4, lv3, f, i)
                 PROVE  Leads(m, lv, f, i) \/ lv[Entry(m4, f, i)] = 0
      OBVIOUS
    <3>1. f # a3
      BY <1>2 DEF Leads
    <3>2. Entry(m4, f, i) = Entry(m3, f, i) /\ Leads(m3, lv3, f, i)
      BY <3>1, <1>7 DEF Leads
    <3>3. QED
      BY <3>2, <1>2 DEF Grown
  <2>9. (\A f \in Frame : lv3[f] = 4 => lv[f] = 4 \/ f = Pt(m4, r, v)) /\ Took(b, lv, b3, lv3)
    BY <1>2, <1>10 DEF Grown
  <2>10. QED
    BY <2>1, <2>4, <2>5, <2>6, <2>7, <2>8, <2>9, <1>6, <1>7, <1>10 DEF MapDone
<1>12. EnoughStill(m, b, m4, b3, r, v)
  <2> SUFFICES ASSUME NEW R2 \in SUBSET Frame, NEW c2 \in Int, NEW ps, Mappable(ps), v \in ps, Enough(m, b, r, R2, ps, c2)
               PROVE  Enough(m4, b3, r, R2, ps, c2)
    BY DEF EnoughStill
  <2>1. Enough(m3, b3, r, R2, ps, c2)
    BY <1>2 DEF EnoughStill
  <2>2. Missing(m4, r, ps) \subseteq Missing(m3, r, ps)
    BY <1>6, <1>7, <1>8, MissingShrinks
  <2>3. IsFiniteSet(Missing(m3, r, ps))
    BY TablesForFinite, FS_Subset DEF Missing, Mappable
  <2>4. /\ Cardinality(Missing(m4, r, ps)) <= Cardinality(Missing(m3, r, ps)) /\ IsFiniteSet(Missing(m4, r, ps))
    BY <2>2, <2>3, FS_Subset
  <2>5. IsFiniteSet(Free(b3, R2))
    BY FrameFinite DEF Free
  <2>6. /\ Cardinality(Missing(m4, r, ps)) \in Nat /\ Cardinality(Missing(m3, r, ps)) \in Nat
        /\ Cardinality(Free(b3, R2)) \in Nat
    BY <2>3, <2>4, <2>5, FS_CardinalityType
  <2>7. QED
    BY <2>1, <2>4, <2>6 DEF Enough
<1>13. QED
  BY <1>4, <1>11, <1>12

------------------------------------------------------------------------------
\* unmap_page, and what mapping and unmapping do to other pages.

UnmapDone(m, b, lv, m2, r, v) ==
  /\ Tree(m2, b, lv) /\ Keeps(m, lv, m2) /\ Walk(m2, r, v) = NoFrame
  /\ \A f \in Frame, i \in Index : lv[f] # 4 => Entry(m2, f, i) = Entry(m, f, i)
  /\ \A f \in Frame, i \in Index :
       ~ (f = Pt(m, r, v) /\ i = PageIndexes(v)[4]) => Entry(m2, f, i) = Entry(m, f, i)
  /\ \A f \in Frame, i \in Index : Entry(m, f, i) = NoFrame => Entry(m2, f, i) = NoFrame

\* A page table is of level 4.
LEMMA PtIs ==
  ASSUME NEW lv \in Levels, NEW m, NEW b, Tree(m, b, lv), NEW r \in Frame, lv[r] = 1,
         NEW v \in Int, PageIndexes(v)[1] # REC, Pt(m, r, v) # NoFrame
  PROVE  Pt(m, r, v) \in Frame /\ lv[Pt(m, r, v)] = 4
<1>1. PICK i1, i2, i3 : i1 = PageIndexes(v)[1] /\ i2 = PageIndexes(v)[2] /\ i3 = PageIndexes(v)[3]
  OBVIOUS
<1>2. i1 \in Index /\ i1 # REC /\ i2 \in Index /\ i3 \in Index
  BY <1>1, IndexesTyped
<1>3. PICK x1, x2, x3 : x1 = Entry(m, r, i1) /\ x2 = Entry(m, x1, i2) /\ x3 = Entry(m, x2, i3)
  OBVIOUS
<1>4. x3 # NoFrame => x3 \in Frame /\ lv[x3] = 4
  BY <1>2, <1>3, WayDown
<1>5. Pt(m, r, v) = x3
  BY <1>1, <1>3 DEF Pt
<1>6. QED
  BY <1>4, <1>5

\* Walk is the entry of the page in its page table.
LEMMA WalkIs ==
  ASSUME NEW m, NEW r, NEW v
  PROVE  Walk(m, r, v) = Entry(m, Pt(m, r, v), PageIndexes(v)[4])
BY DEF Walk, Pt

\* A way that leads to a page table still does.
LEMMA PtKept ==
  ASSUME NEW lv \in Levels, NEW m, NEW b, Tree(m, b, lv), NEW r \in Frame, lv[r] = 1,
         NEW v \in Int, PageIndexes(v)[1] # REC, Pt(m, r, v) # NoFrame, NEW m2, Keeps(m, lv, m2)
  PROVE  Pt(m2, r, v) = Pt(m, r, v)
<1>1. PICK i1, i2, i3 : i1 = PageIndexes(v)[1] /\ i2 = PageIndexes(v)[2] /\ i3 = PageIndexes(v)[3]
  OBVIOUS
<1>2. i1 \in Index /\ i1 # REC /\ i2 \in Index /\ i3 \in Index
  BY <1>1, IndexesTyped
<1>3. Pt(m, r, v) = Entry(m, Entry(m, Entry(m, r, i1), i2), i3) /\ Pt(m2, r, v) = Entry(m2, Entry(m2, Entry(m2, r, i1), i2), i3)
  BY <1>1 DEF Pt
<1>4. QED
  BY <1>2, <1>3, WayKept

\* A page that is mapped has a page table.
LEMMA WalkPt ==
  ASSUME NEW lv \in Levels, NEW m, NEW b, Tree(m, b, lv), NEW r, NEW v, Walk(m, r, v) # NoFrame
  PROVE  Pt(m, r, v) # NoFrame /\ Pt(m, r, v) \in DOMAIN m
<1>1. DOMAIN m \subseteq Frame /\ m \in [DOMAIN m -> Tables]
  BY DEF Tree
<1>2. QED
  BY <1>1, WalkIs, EntryTyped, Constants

\* unmap_page, or its early return, keeps the tree and all entries but that of the page.
LEMMA UnmapPageIs ==
  ASSUME NEW lv \in Levels, NEW m, NEW b, Tree(m, b, lv), NEW r \in Frame, lv[r] = 1,
         NEW v \in Int, PageIndexes(v)[1] # REC,
         NEW m2, m2 = IF Walk(m, r, v) # NoFrame THEN unmap_page(m, r, v) ELSE m
  PROVE  UnmapDone(m, b, lv, m2, r, v)
<1>1. CASE Walk(m, r, v) = NoFrame
  BY <1>1 DEF UnmapDone, Keeps
<1>2. CASE Walk(m, r, v) # NoFrame
  <2>1. PICK pt, i4 : pt = Pt(m, r, v) /\ i4 = PageIndexes(v)[4]
    OBVIOUS
  <2>2. pt # NoFrame /\ pt \in DOMAIN m /\ pt \in Frame /\ lv[pt] = 4 /\ i4 \in Index
    BY <1>2, <2>1, WalkPt, PtIs, IndexesTyped
  <2>3. m2 = [m EXCEPT ![pt] = [j \in DOMAIN m[pt] \ {i4} |-> m[pt][j]]]
    BY <1>2, <2>1 DEF unmap_page, Pt
  <2>4. m \in [DOMAIN m -> Tables]
    BY DEF Tree
  <2>5. /\ DOMAIN m2 = DOMAIN m /\ m2 \in [DOMAIN m -> Tables]
        /\ Entry(m2, pt, i4) = NoFrame
        /\ \A g, j : ~ (g = pt /\ j = i4) => Entry(m2, g, j) = Entry(m, g, j)
    BY <2>2, <2>3, <2>4, UnmapIs, SMTT(30)
  <2>6. Tree(m2, b, lv) /\ Keeps(m, lv, m2)
    BY <2>2, <2>5, EntryChanged
  <2>7. Pt(m2, r, v) = pt
    BY <2>1, <2>2, <2>6, PtKept
  <2>8. Walk(m2, r, v) = NoFrame
    BY <2>1, <2>5, <2>7, WalkIs
  <2>9. \A f \in Frame, i \in Index : lv[f] # 4 => Entry(m2, f, i) = Entry(m, f, i)
    BY <2>2, <2>5
  <2>10. \A f \in Frame, i \in Index :
       ~ (f = Pt(m, r, v) /\ i = PageIndexes(v)[4]) => Entry(m2, f, i) = Entry(m, f, i)
    BY <2>1, <2>5
  <2>11. \A f \in Frame, i \in Index : Entry(m, f, i) = NoFrame => Entry(m2, f, i) = NoFrame
    BY <2>5
  <2>12. QED
    BY <2>6, <2>8, <2>9, <2>10, <2>11 DEF UnmapDone
<1>3. QED
  BY <1>1, <1>2

\* A page that is not mapped stays so.
LEMMA UnmapOnly ==
  ASSUME NEW lv \in Levels, NEW m, NEW b, Tree(m, b, lv), NEW r \in Frame, lv[r] = 1,
         NEW r2 \in Frame, NEW v, NEW w \in Int, NEW m2, UnmapDone(m, b, lv, m2, r2, v), PageIndexes(w)[1] # REC,
         Walk(m, r, w) = NoFrame
  PROVE  Walk(m2, r, w) = NoFrame
<1>0. PICK i1, i2, i3, i4 : i1 = PageIndexes(w)[1] /\ i2 = PageIndexes(w)[2] /\ i3 = PageIndexes(w)[3] /\ i4 = PageIndexes(w)[4]
  OBVIOUS
<1>1. i1 \in Index /\ i1 # REC /\ i2 \in Index /\ i3 \in Index /\ i4 \in Index
  BY <1>0, IndexesTyped
<1>2. PICK x1, x2, x3 : x1 = Entry(m, r, i1) /\ x2 = Entry(m, x1, i2) /\ x3 = Entry(m, x2, i3)
  OBVIOUS
<1>3. /\ x1 # NoFrame => x1 \in Frame /\ lv[x1] = 2
      /\ x2 # NoFrame => x1 # NoFrame /\ x2 \in Frame /\ lv[x2] = 3
      /\ x3 # NoFrame => x2 # NoFrame /\ x3 \in Frame /\ lv[x3] = 4
  BY <1>1, <1>2, WayDown
<1>4. DOMAIN m \subseteq Frame /\ m \in [DOMAIN m -> Tables] /\ DOMAIN m2 \subseteq Frame /\ m2 \in [DOMAIN m2 -> Tables]
  BY DEF UnmapDone, Tree
<1>5. \A i : Entry(m2, NoFrame, i) = NoFrame
  BY <1>4, EntryTyped, Constants
<1>6. Entry(m2, r, i1) = x1
  BY <1>1, <1>2 DEF UnmapDone
<1>7. Entry(m2, x1, i2) = x2
  <2>1. CASE x1 = NoFrame
    BY <2>1, <1>3, <1>5
  <2>2. CASE x1 # NoFrame
    BY <2>2, <1>1, <1>2, <1>3 DEF UnmapDone
  <2>3. QED
    BY <2>1, <2>2
<1>8. Entry(m2, x2, i3) = x3
  <2>1. CASE x2 = NoFrame
    BY <2>1, <1>3, <1>5
  <2>2. CASE x2 # NoFrame
    BY <2>2, <1>1, <1>2, <1>3 DEF UnmapDone
  <2>3. QED
    BY <2>1, <2>2
<1>9. Walk(m, r, w) = Entry(m, x3, i4) /\ Walk(m2, r, w) = Entry(m2, x3, i4)
  BY <1>0, <1>2, <1>6, <1>7, <1>8, SMTT(30) DEF Walk
<1>10. CASE x3 = NoFrame
  BY <1>10, <1>5, <1>9
<1>11. CASE x3 # NoFrame
  BY <1>11, <1>1, <1>3, <1>9 DEF UnmapDone
<1>12. QED
  BY <1>10, <1>11

\* Two ways to one page table are the same.
LEMMA SamePt ==
  ASSUME NEW lv \in Levels, NEW m, NEW b, Tree(m, b, lv), NEW r \in Frame, lv[r] = 1, NEW r2 \in Frame, lv[r2] = 1,
         NEW v \in Int, PageIndexes(v)[1] # REC, NEW w \in Int, PageIndexes(w)[1] # REC,
         Pt(m, r, v) # NoFrame, Pt(m, r, v) = Pt(m, r2, w)
  PROVE  /\ r = r2 /\ PageIndexes(v)[1] = PageIndexes(w)[1] /\ PageIndexes(v)[2] = PageIndexes(w)[2]
         /\ PageIndexes(v)[3] = PageIndexes(w)[3]
<1>1. PICK i1, i2, i3 : i1 = PageIndexes(v)[1] /\ i2 = PageIndexes(v)[2] /\ i3 = PageIndexes(v)[3]
  OBVIOUS
<1>2. PICK j1, j2, j3 : j1 = PageIndexes(w)[1] /\ j2 = PageIndexes(w)[2] /\ j3 = PageIndexes(w)[3]
  OBVIOUS
<1>3. /\ i1 \in Index /\ i1 # REC /\ i2 \in Index /\ i3 \in Index
      /\ j1 \in Index /\ j1 # REC /\ j2 \in Index /\ j3 \in Index
  BY <1>1, <1>2, IndexesTyped
<1>4. PICK x1, x2, x3 : x1 = Entry(m, r, i1) /\ x2 = Entry(m, x1, i2) /\ x3 = Entry(m, x2, i3)
  OBVIOUS
<1>5. PICK y1, y2, y3 : y1 = Entry(m, r2, j1) /\ y2 = Entry(m, y1, j2) /\ y3 = Entry(m, y2, j3)
  OBVIOUS
<1>6. x3 = y3 /\ x3 # NoFrame
  BY <1>1, <1>2, <1>4, <1>5 DEF Pt
<1>7. /\ x1 \in Frame /\ Leads(m, lv, r, i1)
      /\ x2 \in Frame /\ Leads(m, lv, x1, i2)
      /\ x3 \in Frame /\ Leads(m, lv, x2, i3)
  <2>1. /\ x1 # NoFrame => x1 \in Frame /\ lv[x1] = 2 /\ Leads(m, lv, r, i1)
        /\ x2 # NoFrame => x1 # NoFrame /\ x2 \in Frame /\ lv[x2] = 3 /\ Leads(m, lv, x1, i2)
        /\ x3 # NoFrame => x2 # NoFrame /\ x3 \in Frame /\ lv[x3] = 4 /\ Leads(m, lv, x2, i3)
    BY <1>3, <1>4, WayDown
  <2>2. QED
    BY <2>1, <1>6
<1>8. /\ y1 \in Frame /\ Leads(m, lv, r2, j1)
      /\ y2 \in Frame /\ Leads(m, lv, y1, j2)
      /\ y3 \in Frame /\ Leads(m, lv, y2, j3)
  <2>1. /\ y1 # NoFrame => y1 \in Frame /\ lv[y1] = 2 /\ Leads(m, lv, r2, j1)
        /\ y2 # NoFrame => y1 # NoFrame /\ y2 \in Frame /\ lv[y2] = 3 /\ Leads(m, lv, y1, j2)
        /\ y3 # NoFrame => y2 # NoFrame /\ y3 \in Frame /\ lv[y3] = 4 /\ Leads(m, lv, y2, j3)
    BY <1>3, <1>5, WayDown
  <2>2. QED
    BY <2>1, <1>6
<1>9. \A f, g \in Frame, i, j \in Index :
       Leads(m, lv, f, i) /\ Leads(m, lv, g, j) /\ Entry(m, f, i) = Entry(m, g, j) => f = g /\ i = j
  BY DEF Tree
<1>10. x2 = y2 /\ i3 = j3
  <2>1. Entry(m, x2, i3) = Entry(m, y2, j3)
    BY <1>4, <1>5, <1>6
  <2>2. QED
    BY <2>1, <1>3, <1>7, <1>8, <1>9
<1>11. x1 = y1 /\ i2 = j2
  <2>1. Entry(m, x1, i2) = Entry(m, y1, j2)
    BY <1>4, <1>5, <1>10
  <2>2. QED
    BY <2>1, <1>3, <1>7, <1>8, <1>9
<1>12. r = r2 /\ i1 = j1
  <2>1. Entry(m, r, i1) = Entry(m, r2, j1)
    BY <1>4, <1>5, <1>11
  <2>2. QED
    BY <2>1, <1>3, <1>7, <1>8, <1>9
<1>13. QED
  BY <1>1, <1>2, <1>10, <1>11, <1>12

------------------------------------------------------------------------------
\* The indexes of a page are its digits.

\* The quotient is determined by the remainder's bounds.
LEMMA Quotient ==
  ASSUME NEW a \in Nat, NEW d \in Nat, d > 0, NEW q \in Nat, NEW t \in Nat, t < d, a = q * d + t
  PROVE  a \div d = q
<1>1. PICK q2 \in Nat, t2 \in Nat : q2 = a \div d /\ t2 < d /\ a = q2 * d + t2
  BY Division
<1>2. q >= q2 + 1 => q * d >= q2 * d + d
  <2> SUFFICES ASSUME q >= q2 + 1 PROVE q * d >= q2 * d + d
    OBVIOUS
  <2>1. PICK k \in Nat : q = q2 + 1 + k
    <3>1. q - (q2 + 1) \in Nat /\ q = q2 + 1 + (q - (q2 + 1))
      OBVIOUS
    <3>2. QED
      BY <3>1
  <2>2. q * d = q2 * d + d + k * d /\ k * d >= 0
    BY <2>1
  <2>3. QED
    BY <2>2
<1>3. q2 >= q + 1 => q2 * d >= q * d + d
  <2> SUFFICES ASSUME q2 >= q + 1 PROVE q2 * d >= q * d + d
    OBVIOUS
  <2>1. PICK k \in Nat : q2 = q + 1 + k
    <3>1. q2 - (q + 1) \in Nat /\ q2 = q + 1 + (q2 - (q + 1))
      OBVIOUS
    <3>2. QED
      BY <3>1
  <2>2. q2 * d = q * d + d + k * d /\ k * d >= 0
    BY <2>1
  <2>3. QED
    BY <2>2
<1>4. PICK x \in Int, y \in Int : x = q * d /\ y = q2 * d
  OBVIOUS
<1>5. x + t = y + t2 /\ (q >= q2 + 1 => x >= y + d) /\ (q2 >= q + 1 => y >= x + d)
  BY <1>1, <1>2, <1>3, <1>4
<1>6. q = q2
  BY <1>1, <1>5
<1>7. QED
  BY <1>1, <1>6

\* Dividing twice is dividing by the product.
LEMMA DivideTwice ==
  ASSUME NEW a \in Nat, NEW d \in Nat, d > 0, NEW e \in Nat, e > 0
  PROVE  a \div (d * e) = (a \div d) \div e
<1>1. PICK q \in Nat, t \in Nat : q = a \div d /\ t < d /\ a = q * d + t
  BY Division
<1>2. PICK q2 \in Nat, t2 \in Nat : q2 = q \div e /\ t2 < e /\ q = q2 * e + t2
  BY Division
<1>3. a = q2 * (d * e) + (t2 * d + t)
  <2>1. q * d = (q2 * e) * d + t2 * d
    BY <1>2
  <2>2. (q2 * e) * d = q2 * (d * e)
    OBVIOUS
  <2>3. QED
    BY <2>1, <2>2, <1>1
<1>4. t2 * d + t \in Nat /\ t2 * d + t < d * e
  <2>1. PICK k \in Nat : e = t2 + 1 + k
    <3>1. e - (t2 + 1) \in Nat /\ e = t2 + 1 + (e - (t2 + 1))
      BY <1>2
    <3>2. QED
      BY <3>1
  <2>2. d * e = t2 * d + d + k * d
    BY <2>1
  <2>3. k * d >= 0 /\ t2 * d >= 0 /\ t2 * d \in Int /\ k * d \in Int
    OBVIOUS
  <2>4. QED
    BY <2>2, <2>3, <1>1
<1>5. d * e \in Nat /\ d * e > 0
  OBVIOUS
<1>6. a \div (d * e) = q2
  <2>1. PICK de, x : de = d * e /\ x = t2 * d + t
    OBVIOUS
  <2>2. de \in Nat /\ de > 0 /\ x \in Nat /\ x < de /\ a = q2 * de + x
    BY <2>1, <1>3, <1>4, <1>5
  <2>3. QED
    BY <2>1, <2>2, Quotient
<1>7. QED
  BY <1>1, <1>2, <1>6

\* Different pages have different indexes.
LEMMA SamePage ==
  ASSUME NEW v \in Nat, NEW w \in Nat, v < Radix * Radix * Radix * Radix, w < Radix * Radix * Radix * Radix,
         PageIndexes(v)[1] = PageIndexes(w)[1], PageIndexes(v)[2] = PageIndexes(w)[2],
         PageIndexes(v)[3] = PageIndexes(w)[3], PageIndexes(v)[4] = PageIndexes(w)[4]
  PROVE  v = w
<1>0. PICK R \in Nat : R = Radix /\ R > 1
  BY Constants
<1>1. \A x \in Nat : x < R * R * R * R =>
        /\ PageIndexes(x)[4] = x % R /\ PageIndexes(x)[3] = (x \div R) % R
        /\ PageIndexes(x)[2] = ((x \div R) \div R) % R
        /\ PageIndexes(x)[1] = ((x \div R) \div R) \div R
  <2> SUFFICES ASSUME NEW x \in Nat, x < R * R * R * R
               PROVE  /\ PageIndexes(x)[4] = x % R /\ PageIndexes(x)[3] = (x \div R) % R
                      /\ PageIndexes(x)[2] = ((x \div R) \div R) % R
                      /\ PageIndexes(x)[1] = ((x \div R) \div R) \div R
    OBVIOUS
  <2>1. R * R \in Nat /\ R * R > 0 /\ R * R * R \in Nat /\ R * R * R > 0
    BY <1>0
  <2>2. x \div (R * R) = (x \div R) \div R
    BY <1>0, DivideTwice
  <2>3. x \div (R * R * R) = (x \div (R * R)) \div R
    <3>1. PICK S \in Nat : S = R * R /\ S > 0
      BY <2>1
    <3>2. x \div (S * R) = (x \div S) \div R
      BY <3>1, <1>0, DivideTwice
    <3>3. QED
      BY <3>1, <3>2
  <2>4. (x \div (R * R * R)) % R = x \div (R * R * R)
    <3>1. PICK S \in Nat : S = R * R * R /\ S > 0
      BY <2>1
    <3>2. PICK q \in Nat, t \in Nat : q = x \div S /\ x = q * S + t
      BY <3>1, Division
    <3>3. q < R
      <4> SUFFICES ASSUME q >= R PROVE FALSE
        BY <1>0
      <4>1. PICK k \in Nat : q = R + k
        <5>1. q - R \in Nat /\ q = R + (q - R)
          BY <1>0
        <5>2. QED
          BY <5>1
      <4>2. q * S = R * S + k * S /\ k * S >= 0 /\ R * S = R * R * R * R
        BY <4>1, <3>1
      <4>3. PICK A \in Int, B \in Int, C \in Int : A = q * S /\ B = k * S /\ C = R * R * R * R
        OBVIOUS
      <4>4. A = C + B /\ B >= 0 /\ x = A + t /\ x < C
        BY <4>2, <4>3, <3>2
      <4>5. QED
        BY <4>4
    <3>4. q % R = q
      BY <3>3, <1>0
    <3>5. QED
      BY <3>1, <3>2, <3>4
  <2>5. QED
    BY <1>0, <2>2, <2>3, <2>4 DEF PageIndexes
<1>2. \A x, y \in Nat : x \div R = y \div R /\ x % R = y % R => x = y
  <2> SUFFICES ASSUME NEW x \in Nat, NEW y \in Nat, x \div R = y \div R, x % R = y % R PROVE x = y
    OBVIOUS
  <2>1. x = (x \div R) * R + (x % R) /\ y = (y \div R) * R + (y % R)
    BY <1>0, Division
  <2>2. QED
    BY <2>1
<1>3. \A x \in Nat : x \div R \in Nat
  BY <1>0, Division
<1>4. PICK v1 \in Nat, v2 \in Nat, w1 \in Nat, w2 \in Nat :
        v1 = v \div R /\ v2 = v1 \div R /\ w1 = w \div R /\ w2 = w1 \div R
  BY <1>3
<1>5. v2 \div R = w2 \div R /\ v2 % R = w2 % R /\ v1 % R = w1 % R /\ v % R = w % R
  BY <1>0, <1>1, <1>4
<1>6. v2 = w2
  BY <1>2, <1>5
<1>7. v1 = w1
  BY <1>2, <1>4, <1>5, <1>6
<1>8. QED
  BY <1>2, <1>4, <1>5, <1>7

\* The pages that are mapped can be mapped: never through the recursive entry.
LEMMA MappedFacts ==
  /\ Mappable(MappedPages) /\ Mappable(EarlyPages) /\ EarlyPages \subseteq MappedPages
  /\ Window \subseteq MappedPages /\ KernelPages \cup BootPages \cup HeapPages \cup HardwarePages \subseteq MappedPages
  /\ ProcHeapPages \subseteq MappedPages /\ LatePages \subseteq MappedPages
  /\ \A v \in MappedPages : v \in Nat /\ PageIndexes(v)[1] # REC /\ v < Radix * Radix * Radix * Radix
  /\ Usable \subseteq MappedPages
  /\ Reserve \subseteq Frame /\ EarlyReserve \subseteq Reserve
<1>1. /\ EarlyPages \subseteq MappedPages
      /\ Window \subseteq MappedPages /\ KernelPages \cup BootPages \cup HeapPages \cup HardwarePages \subseteq MappedPages
      /\ LatePages \subseteq MappedPages
      /\ Usable \subseteq MappedPages
      /\ Reserve \subseteq Frame /\ EarlyReserve \subseteq Reserve
  BY DEF LatePages,  MappedPages, MarkedPages, EarlyPages, Usable, Reserve, EarlyReserve
<1>2. /\ LowPages \cup KernelPages \cup PML4Pages \cup BootPages \cup HeapPages \cup HardwarePages \subseteq Frame
      /\ WindowStart \in Nat /\ PROC_MEM_PAGES \in Nat
  BY ProcessAssumption, LayoutAssumption
<1>3. MappedPages \subseteq Frame \cup Window /\ Window \subseteq Nat
  BY <1>2, FirstPagesAre DEF MappedPages, MarkedPages, Window
<1>4. IsFiniteSet(Window)
  <2>1. WindowStart \in Int /\ WindowStart + PROC_MEM_PAGES - 1 \in Int
    BY <1>2
  <2>2. QED
    BY <2>1, FS_Interval DEF Window
<1>5. IsFiniteSet(Frame)
  BY FrameFinite
<1>6. IsFiniteSet(Frame \cup Window)
  BY <1>4, <1>5, FS_Union
<1>7. IsFiniteSet(MappedPages) /\ IsFiniteSet(EarlyPages)
  <2>1. IsFiniteSet(MappedPages)
    BY <1>3, <1>6, FS_Subset
  <2>2. QED
    BY <1>1, <2>1, FS_Subset
<1>8. \A v \in MappedPages : v \in Nat /\ PageIndexes(v)[1] # REC /\ v < Radix * Radix * Radix * Radix
  BY <1>3, Constants, LayoutAssumption
<1>9. ProcHeapPages \subseteq MappedPages
  BY <1>1, ProcessAssumption
<1>10. QED
  BY <1>1, <1>7, <1>8, <1>9 DEF Mappable

------------------------------------------------------------------------------
\* What an operation on the page tables leaves alone, and what is left of the frames.

Others(m, lv, m2, r, v) ==
  \A q \in Frame, w \in MappedPages :
    lv[q] = 1 /\ ~ (q = r /\ w = v) /\ Walk(m, q, w) # NoFrame => Walk(m2, q, w) = Walk(m, q, w)

\* Two pages that share a page table.
OnePt(v, w) == \A k \in 1 .. 3 : PageIndexes(v)[k] = PageIndexes(w)[k]

MapOk(m, b, lv, m2, b2, lv2, r, v, p) ==
  /\ lv2 \in Levels /\ Tree(m2, b2, lv2) /\ b2 \in Marking
  /\ \A f \in Frame : lv[f] > 0 => lv2[f] = lv[f]
  /\ \A f \in Frame : lv2[f] = 1 => lv[f] = 1
  /\ \A f \in Frame : b[f] # 0 => b2[f] # 0 /\ (lv[f] = 0 => lv2[f] = 0)
  /\ Keeps(m, lv, m2)
  /\ \A f \in Frame : lv[f] = 1 => Entry(m2, f, REC) = Entry(m, f, REC)
  /\ \A f \in Frame, i \in Index : lv[f] = 0 /\ b[f] # 0 => Entry(m2, f, i) = Entry(m, f, i)
  /\ Others(m, lv, m2, r, v) /\ Walk(m2, r, v) = p
  /\ \A w \in MappedPages : Pt(m2, r, w) # NoFrame => Pt(m, r, w) # NoFrame \/ OnePt(v, w)
  /\ \/ allocate_page(b) \in Frame /\ b2[allocate_page(b)] # 0
     \/ \A w \in MappedPages : Pt(m2, r, w) # NoFrame => Pt(m, r, w) # NoFrame

EnoughAfter(m, b, m2, b2, r, v) ==
  \A R \in SUBSET Frame : \A c \in Int : \A pages :
    /\ Mappable(pages) /\ v \in pages /\ (v \notin R \/ b[v] # 0) /\ Enough(m, b, r, R, pages, c)
    => Enough(m2, b2, r, R, pages, c)

\* A page table of another page or another PML4 is another table.
LEMMA OthersMapped ==
  ASSUME NEW lv \in Levels, NEW m, NEW b, Tree(m, b, lv), NEW r \in Frame, lv[r] = 1, NEW v \in MappedPages,
         NEW m2, NEW b2, NEW lv2, NEW p, MapDone(m, b, lv, m2, b2, lv2, r, v, p)
  PROVE  Others(m, lv, m2, r, v)
<1> SUFFICES ASSUME NEW q \in Frame, NEW w \in MappedPages, lv[q] = 1, ~ (q = r /\ w = v), Walk(m, q, w) # NoFrame
             PROVE  Walk(m2, q, w) = Walk(m, q, w)
  BY DEF Others
<1>1. /\ lv2 \in Levels /\ Tree(m2, b2, lv2) /\ Keeps(m, lv, m2) /\ lv2[r] = 1 /\ lv2[q] = 1
      /\ \A f \in Frame, i \in Index :
           lv[f] = 4 /\ ~ (f = Pt(m2, r, v) /\ i = PageIndexes(v)[4]) => Entry(m2, f, i) = Entry(m, f, i)
  BY DEF MapDone
<1>2. /\ v \in Nat /\ PageIndexes(v)[1] # REC /\ v < Radix * Radix * Radix * Radix
      /\ w \in Nat /\ PageIndexes(w)[1] # REC /\ w < Radix * Radix * Radix * Radix
  BY MappedFacts
<1>3. Pt(m, q, w) # NoFrame
  BY WalkPt
<1>4. Pt(m, q, w) \in Frame /\ lv[Pt(m, q, w)] = 4
  BY <1>2, <1>3, PtIs
<1>5. Pt(m2, q, w) = Pt(m, q, w)
  BY <1>1, <1>2, <1>3, PtKept
<1>6. PageIndexes(w)[4] \in Index
  BY <1>2, IndexesTyped
<1>7. ~ (Pt(m, q, w) = Pt(m2, r, v) /\ PageIndexes(w)[4] = PageIndexes(v)[4])
  <2> SUFFICES ASSUME Pt(m, q, w) = Pt(m2, r, v), PageIndexes(w)[4] = PageIndexes(v)[4] PROVE FALSE
    OBVIOUS
  <2>1. Pt(m2, q, w) # NoFrame /\ Pt(m2, q, w) = Pt(m2, r, v)
    BY <1>3, <1>5
  <2>2. /\ q = r /\ PageIndexes(w)[1] = PageIndexes(v)[1] /\ PageIndexes(w)[2] = PageIndexes(v)[2]
        /\ PageIndexes(w)[3] = PageIndexes(v)[3]
    BY <2>1, <1>1, <1>2, SamePt
  <2>3. w = v
    BY <2>2, <1>2, SamePage
  <2>4. QED
    BY <2>2, <2>3
<1>8. Entry(m2, Pt(m, q, w), PageIndexes(w)[4]) = Entry(m, Pt(m, q, w), PageIndexes(w)[4])
  BY <1>1, <1>4, <1>6, <1>7
<1>9. QED
  BY <1>5, <1>8, WalkIs

\* A page table that was a table before was the page table of the same pages.
LEMMA PtOld ==
  ASSUME NEW lv \in Levels, NEW m, NEW b, Tree(m, b, lv), NEW r \in Frame, lv[r] = 1, NEW v,
         NEW m2, NEW b2, NEW lv2, NEW p, MapDone(m, b, lv, m2, b2, lv2, r, v, p),
         NEW w \in Int, PageIndexes(w)[1] # REC, Pt(m2, r, w) # NoFrame, lv[Pt(m2, r, w)] = 4
  PROVE  Pt(m, r, w) # NoFrame
<1>0. PICK i1, i2, i3 : i1 = PageIndexes(w)[1] /\ i2 = PageIndexes(w)[2] /\ i3 = PageIndexes(w)[3]
  OBVIOUS
<1>1. i1 \in Index /\ i1 # REC /\ i2 \in Index /\ i3 \in Index
  BY <1>0, IndexesTyped
<1>2. PICK x1, x2, x3 : x1 = Entry(m2, r, i1) /\ x2 = Entry(m2, x1, i2) /\ x3 = Entry(m2, x2, i3)
  OBVIOUS
<1>3. /\ lv2 \in Levels /\ Tree(m2, b2, lv2) /\ lv2[r] = 1 /\ Keeps(m, lv, m2)
      /\ \A f \in Frame, i \in Index : Leads(m2, lv2, f, i) => Leads(m, lv, f, i) \/ lv[Entry(m2, f, i)] = 0
  BY DEF MapDone
<1>4. x3 = Pt(m2, r, w)
  BY <1>0, <1>2 DEF Pt
<1>5. /\ x1 \in Frame /\ Leads(m2, lv2, r, i1)
      /\ x2 \in Frame /\ Leads(m2, lv2, x1, i2)
      /\ x3 \in Frame /\ Leads(m2, lv2, x2, i3)
  <2>1. /\ x1 # NoFrame => x1 \in Frame /\ lv2[x1] = 2 /\ Leads(m2, lv2, r, i1)
        /\ x2 # NoFrame => x1 # NoFrame /\ x2 \in Frame /\ lv2[x2] = 3 /\ Leads(m2, lv2, x1, i2)
        /\ x3 # NoFrame => x2 # NoFrame /\ x3 \in Frame /\ lv2[x3] = 4 /\ Leads(m2, lv2, x2, i3)
    BY <1>1, <1>2, <1>3, WayDown
  <2>2. QED
    BY <2>1, <1>4
<1>6. Leads(m, lv, x2, i3) /\ Entry(m, x2, i3) = x3
  <2>1. lv[x3] # 0
    BY <1>4
  <2>2. Leads(m, lv, x2, i3)
    BY <2>1, <1>1, <1>2, <1>3, <1>5
  <2>3. QED
    BY <2>2, <1>1, <1>2, <1>3, <1>5 DEF Keeps
<1>7. Leads(m, lv, x1, i2) /\ Entry(m, x1, i2) = x2
  <2>1. lv[x2] # 0
    BY <1>6 DEF Leads
  <2>2. Leads(m, lv, x1, i2)
    BY <2>1, <1>1, <1>2, <1>3, <1>5
  <2>3. QED
    BY <2>2, <1>1, <1>2, <1>3, <1>5 DEF Keeps
<1>8. Leads(m, lv, r, i1) /\ Entry(m, r, i1) = x1
  <2>1. lv[x1] # 0
    BY <1>7 DEF Leads
  <2>2. Leads(m, lv, r, i1)
    BY <2>1, <1>1, <1>2, <1>3, <1>5
  <2>3. QED
    BY <2>2, <1>1, <1>2, <1>3, <1>5 DEF Keeps
<1>9. Pt(m, r, w) = x3
  BY <1>0, <1>6, <1>7, <1>8 DEF Pt
<1>10. QED
  BY <1>4, <1>9

\* map_page makes a page table for its page only, and the first free frame is one of the
\* tables it makes.
LEMMA PtMade ==
  ASSUME NEW lv \in Levels, NEW m, NEW b, Tree(m, b, lv), NEW r \in Frame, lv[r] = 1, NEW v \in MappedPages,
         NEW m2, NEW b2, NEW lv2, NEW p, MapDone(m, b, lv, m2, b2, lv2, r, v, p)
  PROVE  /\ \A w \in MappedPages : Pt(m2, r, w) # NoFrame => Pt(m, r, w) # NoFrame \/ OnePt(v, w)
         /\ \/ allocate_page(b) \in Frame /\ b2[allocate_page(b)] # 0
            \/ \A w \in MappedPages : Pt(m2, r, w) # NoFrame => Pt(m, r, w) # NoFrame
<1>1. /\ lv2 \in Levels /\ Tree(m2, b2, lv2) /\ lv2[r] = 1
      /\ \A f \in Frame : lv2[f] = 4 => lv[f] = 4 \/ f = Pt(m2, r, v)
      /\ Took(b, lv, b2, lv2)
  BY DEF MapDone
<1>2. \A w \in MappedPages : w \in Int /\ PageIndexes(w)[1] # REC
  BY MappedFacts
<1>3. ASSUME NEW w \in MappedPages, Pt(m2, r, w) # NoFrame
      PROVE  /\ Pt(m2, r, w) \in Frame /\ lv2[Pt(m2, r, w)] = 4
             /\ lv[Pt(m2, r, w)] = 4 => Pt(m, r, w) # NoFrame
  <2>1. Pt(m2, r, w) \in Frame /\ lv2[Pt(m2, r, w)] = 4
    BY <1>1, <1>2, <1>3, PtIs
  <2>2. lv[Pt(m2, r, w)] = 4 => Pt(m, r, w) # NoFrame
    BY <1>2, <1>3, PtOld
  <2>3. QED
    BY <2>1, <2>2
<1>4. ASSUME NEW w \in MappedPages, Pt(m2, r, w) # NoFrame
      PROVE  Pt(m, r, w) # NoFrame \/ OnePt(v, w)
  <2>1. CASE Pt(m2, r, w) = Pt(m2, r, v)
    <3>1. /\ PageIndexes(v)[1] = PageIndexes(w)[1] /\ PageIndexes(v)[2] = PageIndexes(w)[2]
          /\ PageIndexes(v)[3] = PageIndexes(w)[3]
      BY <1>1, <1>2, <1>4, <2>1, SamePt
    <3>2. QED
      BY <3>1 DEF OnePt
  <2>2. CASE Pt(m2, r, w) # Pt(m2, r, v)
    BY <2>2, <1>1, <1>3, <1>4
  <2>3. QED
    BY <2>1, <2>2
<1>5. CASE b2 = b /\ lv2 = lv
  BY <1>3, <1>4, <1>5
<1>6. CASE allocate_page(b) \in Frame /\ b2[allocate_page(b)] # 0
  BY <1>4, <1>6
<1>7. QED
  BY <1>1, <1>5, <1>6 DEF Took

\* unmap_page leaves what other pages stand for alone, below every PML4.
LEMMA OthersUnmapped ==
  ASSUME NEW lv \in Levels, NEW m, NEW b, Tree(m, b, lv), NEW r \in Frame, lv[r] = 1, NEW v \in MappedPages,
         NEW m2, UnmapDone(m, b, lv, m2, r, v)
  PROVE  Others(m, lv, m2, r, v)
<1> SUFFICES ASSUME NEW q \in Frame, NEW w \in MappedPages, lv[q] = 1, ~ (q = r /\ w = v), Walk(m, q, w) # NoFrame
             PROVE  Walk(m2, q, w) = Walk(m, q, w)
  BY DEF Others
<1>1. /\ Keeps(m, lv, m2)
      /\ \A f \in Frame, i \in Index :
           ~ (f = Pt(m, r, v) /\ i = PageIndexes(v)[4]) => Entry(m2, f, i) = Entry(m, f, i)
  BY DEF UnmapDone
<1>2. /\ v \in Nat /\ PageIndexes(v)[1] # REC /\ v < Radix * Radix * Radix * Radix
      /\ w \in Nat /\ PageIndexes(w)[1] # REC /\ w < Radix * Radix * Radix * Radix
  BY MappedFacts
<1>3. Pt(m, q, w) # NoFrame
  BY WalkPt
<1>4. Pt(m, q, w) \in Frame
  BY <1>2, <1>3, PtIs
<1>5. Pt(m2, q, w) = Pt(m, q, w)
  BY <1>1, <1>2, <1>3, PtKept
<1>6. PageIndexes(w)[4] \in Index
  BY <1>2, IndexesTyped
<1>7. ~ (Pt(m, q, w) = Pt(m, r, v) /\ PageIndexes(w)[4] = PageIndexes(v)[4])
  <2> SUFFICES ASSUME Pt(m, q, w) = Pt(m, r, v), PageIndexes(w)[4] = PageIndexes(v)[4] PROVE FALSE
    OBVIOUS
  <2>2. /\ q = r /\ PageIndexes(w)[1] = PageIndexes(v)[1] /\ PageIndexes(w)[2] = PageIndexes(v)[2]
        /\ PageIndexes(w)[3] = PageIndexes(v)[3]
    BY <1>2, <1>3, SamePt
  <2>3. w = v
    BY <2>2, <1>2, SamePage
  <2>4. QED
    BY <2>2, <2>3
<1>8. Entry(m2, Pt(m, q, w), PageIndexes(w)[4]) = Entry(m, Pt(m, q, w), PageIndexes(w)[4])
  BY <1>1, <1>4, <1>6, <1>7
<1>9. QED
  BY <1>5, <1>8, WalkIs

\* map_page and the mark of map_memory_range.
MapMarked(m, b, lv, s, b2, r, v, p, set) ==
  /\ s.ok = TRUE
  /\ \E lv2 : MapOk(m, b, lv, s.mem, b2, lv2, r, v, p)
  /\ EnoughAfter(m, b, s.mem, b2, r, v)
  /\ set /\ v \in Frame => b2[v] # 0

\* map_page with the mark of map_memory_range_with_flags.
LEMMA MapAndMark ==
  ASSUME NEW lv \in Levels, NEW m, NEW b \in Marking, Tree(m, b, lv), NEW r \in Frame, lv[r] = 1,
         NEW v \in MappedPages, NEW p \in Frame, NEW pid \in 1 .. MAX_NUM_OF_PROCESS - 1,
         NEW pages, Mappable(pages), v \in pages,
         NEW R \in SUBSET Frame, NEW c \in Nat, Enough(m, b, r, R, pages, c), Safe(b, R),
         NEW s \in map_page(m, b, r, v, p, pid), NEW set \in BOOLEAN,
         NEW b2, b2 = IF set THEN [s.bitmap EXCEPT ![v] = pid] ELSE s.bitmap
  PROVE  MapMarked(m, b, lv, s, b2, r, v, p, set)
<1>0. v \in Int
  BY MappedFacts
<1>1. /\ s.ok = TRUE
      /\ \E lv2 : MapDone(m, b, lv, s.mem, s.bitmap, lv2, r, v, p)
      /\ EnoughStill(m, b, s.mem, s.bitmap, r, v)
  BY <1>0, MapPageIs
<1>2. PICK lv2 : MapDone(m, b, lv, s.mem, s.bitmap, lv2, r, v, p)
  BY <1>1
<1>3. /\ Others(m, lv, s.mem, r, v)
      /\ \A w \in MappedPages : Pt(s.mem, r, w) # NoFrame => Pt(m, r, w) # NoFrame \/ OnePt(v, w)
      /\ \/ allocate_page(b) \in Frame /\ s.bitmap[allocate_page(b)] # 0
         \/ \A w \in MappedPages : Pt(s.mem, r, w) # NoFrame => Pt(m, r, w) # NoFrame
  BY <1>2, OthersMapped, PtMade
<1>4. PICK m2, c2 : m2 = s.mem /\ c2 = s.bitmap
  OBVIOUS
<1>5. c2 \in Marking /\ b2 = IF set THEN [c2 EXCEPT ![v] = pid] ELSE c2
  BY <1>2, <1>4 DEF MapDone
<1>6. /\ b2 \in Marking /\ (set /\ v \in Frame => b2[v] # 0)
      /\ \A f \in Frame : b2[f] = 0 => c2[f] = 0
      /\ \A f \in Frame : c2[f] = 0 => b2[f] = 0 \/ f = v
  <2>1. CASE ~ set
    BY <2>1, <1>5
  <2>2. CASE set
    <3>1. b2 = [c2 EXCEPT ![v] = pid]
      BY <2>2, <1>5
    <3>2. /\ b2 \in Marking /\ DOMAIN c2 = Frame
          /\ \A f \in Frame : b2[f] = IF f = v THEN pid ELSE c2[f]
      <4>1. PICK B : B = 0 .. MAX_NUM_OF_PROCESS - 1
        OBVIOUS
      <4>2. pid \in B
        BY <4>1, ProcessAssumption
      <4>3. c2 \in [Frame -> B]
        BY <4>1, <1>5 DEF Marking
      <4>4. b2 \in [Frame -> B] /\ DOMAIN c2 = Frame /\ \A f \in Frame : b2[f] = IF f = v THEN pid ELSE c2[f]
        BY <4>2, <4>3, <3>1
      <4>5. QED
        BY <4>1, <4>4 DEF Marking
    <3>3. QED
      BY <3>2
  <2>3. QED
    BY <2>1, <2>2
<1>7. Tree(m2, b2, lv2)
  <2>1. Tree(m2, c2, lv2)
    BY <1>2, <1>4 DEF MapDone
  <2>2. QED
    BY <2>1, <1>6 DEF Tree
<1>8. MapOk(m, b, lv, m2, b2, lv2, r, v, p)
  <2>1. /\ lv2 \in Levels
        /\ \A f \in Frame : lv[f] > 0 => lv2[f] = lv[f]
        /\ \A f \in Frame : lv2[f] = 1 => lv[f] = 1
        /\ \A f \in Frame : b[f] # 0 => c2[f] = b[f] /\ (lv[f] = 0 => lv2[f] = 0)
        /\ Keeps(m, lv, m2)
        /\ \A f \in Frame : lv[f] = 1 => Entry(m2, f, REC) = Entry(m, f, REC)
        /\ \A f \in Frame, i \in Index : lv[f] = 0 /\ b[f] # 0 => Entry(m2, f, i) = Entry(m, f, i)
        /\ Walk(m2, r, v) = p
    BY <1>2, <1>4 DEF MapDone
  <2>2. \A f \in Frame : b[f] # 0 => b2[f] # 0
    BY <2>1, <1>6
  <2>3. /\ \A w \in MappedPages : Pt(m2, r, w) # NoFrame => Pt(m, r, w) # NoFrame \/ OnePt(v, w)
        /\ \/ allocate_page(b) \in Frame /\ b2[allocate_page(b)] # 0
           \/ \A w \in MappedPages : Pt(m2, r, w) # NoFrame => Pt(m, r, w) # NoFrame
    BY <1>3, <1>4, <1>6
  <2>4. QED
    BY <2>1, <2>2, <2>3, <1>3, <1>4, <1>6, <1>7 DEF MapOk
<1>9. EnoughAfter(m, b, m2, b2, r, v)
  <2> SUFFICES ASSUME NEW Q \in SUBSET Frame, NEW d \in Int, NEW W,
                      Mappable(W), v \in W, v \notin Q \/ b[v] # 0, Enough(m, b, r, Q, W, d)
               PROVE  Enough(m2, b2, r, Q, W, d)
    BY DEF EnoughAfter
  <2>1. Enough(m2, c2, r, Q, W, d)
    BY <1>1, <1>4 DEF EnoughStill
  <2>2. v \in Q => c2[v] # 0
    BY <1>2, <1>4 DEF MapDone
  <2>3. Free(b2, Q) = Free(c2, Q)
    BY <2>2, <1>6 DEF Free
  <2>4. QED
    BY <2>1, <2>3 DEF Enough
<1>10. QED
  BY <1>1, <1>4, <1>6, <1>8, <1>9 DEF MapMarked

\* Fewer tables are missing, below any PML4, when those there are stay.
LEMMA EnoughKeeps ==
  ASSUME NEW lv \in Levels, NEW m, NEW b, Tree(m, b, lv), NEW r \in Frame, lv[r] = 1,
         NEW m2, Keeps(m, lv, m2)
  PROVE  /\ Cardinality(Missing(m2, r, MappedPages)) <= Cardinality(Missing(m, r, MappedPages))
         /\ Cardinality(Missing(m, r, MappedPages)) \in Nat /\ Cardinality(Missing(m2, r, MappedPages)) \in Nat
<1>1. Mappable(MappedPages)
  BY MappedFacts
<1>2. Missing(m2, r, MappedPages) \subseteq Missing(m, r, MappedPages)
  BY <1>1, MissingShrinks
<1>3. IsFiniteSet(TablesFor(MappedPages))
  BY <1>1, TablesForFinite DEF Mappable
<1>4. Missing(m, r, MappedPages) \subseteq TablesFor(MappedPages)
  BY DEF Missing
<1>5. IsFiniteSet(Missing(m, r, MappedPages)) /\ IsFiniteSet(Missing(m2, r, MappedPages))
  <2>1. IsFiniteSet(Missing(m, r, MappedPages))
    BY <1>3, <1>4, FS_Subset
  <2>2. QED
    BY <2>1, <1>2, FS_Subset
<1>6. QED
  BY <1>2, <1>5, FS_Subset, FS_CardinalityType

\* No more tables are missing than there are.
LEMMA MissingAtMost ==
  ASSUME NEW m, NEW r
  PROVE  /\ Cardinality(Missing(m, r, MappedPages)) \in Nat /\ AllTables \in Nat
         /\ Cardinality(Missing(m, r, MappedPages)) <= AllTables
<1>1. IsFiniteSet(TablesFor(MappedPages))
  BY MappedFacts, TablesForFinite DEF Mappable
<1>2. Missing(m, r, MappedPages) \subseteq TablesFor(MappedPages)
  BY DEF Missing
<1>3. IsFiniteSet(Missing(m, r, MappedPages))
  BY <1>1, <1>2, FS_Subset
<1>4. QED
  BY <1>1, <1>2, <1>3, FS_Subset, FS_CardinalityType DEF AllTables

\* Free frames can be counted.
LEMMA FreeCounted ==
  ASSUME NEW b, NEW R \in SUBSET Frame
  PROVE  IsFiniteSet(Free(b, R)) /\ Cardinality(Free(b, R)) \in Nat
<1>1. Free(b, R) \in SUBSET Frame
  BY DEF Free
<1>2. QED
  BY <1>1, FrameFinite, FS_CardinalityType

\* The recursive entry of a PML4, or any entry of a frame that is no table.
RecOk(m, b, lv, m2, a, i, to) ==
  /\ Tree(m2, b, lv) /\ Keeps(m, lv, m2) /\ Entry(m2, a, i) = to
  /\ \A g, j : ~ (g = a /\ j = i) => Entry(m2, g, j) = Entry(m, g, j)
  /\ \A q \in Frame, w \in MappedPages : lv[q] = 1 /\ Walk(m, q, w) # NoFrame => Walk(m2, q, w) = Walk(m, q, w)

\* Setting a recursive entry keeps the tree: that entry is not part of it.
LEMMA RecSet ==
  ASSUME NEW lv \in Levels, NEW m, NEW b, Tree(m, b, lv), NEW a \in Frame, NEW to \in Frame,
         lv[a] = 1 \/ (lv[a] = 0 /\ a \notin Untouched)
  PROVE  RecOk(m, b, lv, SetEntry(m, a, REC, to), a, REC, to)
<1> DEFINE m2 == SetEntry(m, a, REC, to)
<1>0. a \in DOMAIN m /\ REC \in Index /\ m \in [DOMAIN m -> Tables]
  BY Constants DEF Tree
<1>1. /\ DOMAIN m2 = DOMAIN m /\ m2 \in [DOMAIN m -> Tables] /\ Entry(m2, a, REC) = to
      /\ \A g, j : ~ (g = a /\ j = REC) => Entry(m2, g, j) = Entry(m, g, j)
  BY <1>0, SetEntryIs
<1> HIDE DEF m2
<1>2. Tree(m2, b, lv) /\ Keeps(m, lv, m2)
  BY <1>0, <1>1, EntryChanged
<1>3. ASSUME NEW q \in Frame, NEW w \in MappedPages, lv[q] = 1, Walk(m, q, w) # NoFrame
      PROVE  Walk(m2, q, w) = Walk(m, q, w)
  <2>1. w \in Nat /\ PageIndexes(w)[1] # REC
    BY MappedFacts
  <2>2. Pt(m, q, w) # NoFrame
    BY <1>3, WalkPt
  <2>3. Pt(m, q, w) \in Frame /\ lv[Pt(m, q, w)] = 4
    BY <1>3, <2>1, <2>2, PtIs
  <2>4. Pt(m2, q, w) = Pt(m, q, w)
    BY <1>2, <1>3, <2>1, <2>2, PtKept
  <2>5. Entry(m2, Pt(m, q, w), PageIndexes(w)[4]) = Entry(m, Pt(m, q, w), PageIndexes(w)[4])
    BY <1>1, <2>3
  <2>6. QED
    BY <2>4, <2>5, WalkIs
<1>4. RecOk(m, b, lv, m2, a, REC, to)
  BY <1>1, <1>2, <1>3 DEF RecOk
<1>5. QED
  BY <1>4 DEF m2

------------------------------------------------------------------------------
\* Sequences of instructions.

IsSeq(s) == \E T : s \in Seq(T)

\* Single instructions are sequences.
LEMMA OneIsSeq == \A x : IsSeq(<<x>>) /\ IsSeq(<<>>)
<1> TAKE x
<1>1. <<x>> \in Seq({x}) /\ <<>> \in Seq({x})
  OBVIOUS
<1>2. QED
  BY <1>1 DEF IsSeq

\* Two sequences make a sequence.
LEMMA ConcatIsSeq ==
  ASSUME NEW a, NEW b, IsSeq(a), IsSeq(b)
  PROVE  /\ IsSeq(a \o b)
         /\ \E T : a \in Seq(T) /\ b \in Seq(T)
<1>1. PICK S, T : a \in Seq(S) /\ b \in Seq(T)
  BY DEF IsSeq
<1>2. a \in Seq(S \cup T) /\ b \in Seq(S \cup T)
  <2>1. S \subseteq S \cup T /\ T \subseteq S \cup T
    OBVIOUS
  <2>2. QED
    BY <1>1, <2>1, SeqMonotonic
<1>3. a \o b \in Seq(S \cup T)
  BY <1>2, ConcatProperties
<1>4. QED
  BY <1>2, <1>3 DEF IsSeq

\* Concatenation is associative.
LEMMA Assoc ==
  ASSUME NEW a, NEW b, NEW c, IsSeq(a), IsSeq(b), IsSeq(c)
  PROVE  (a \o b) \o c = a \o (b \o c)
<1>1. PICK S : a \in Seq(S) /\ b \in Seq(S)
  BY ConcatIsSeq
<1>2. PICK T : c \in Seq(T)
  BY DEF IsSeq
<1>3. S \subseteq S \cup T /\ T \subseteq S \cup T
  OBVIOUS
<1>4. a \in Seq(S \cup T) /\ b \in Seq(S \cup T) /\ c \in Seq(S \cup T)
  BY <1>1, <1>2, <1>3, SeqMonotonic
<1>5. QED
  BY <1>4, ConcatAssociative

\* One instruction before others, and a block of instructions before others.
LEMMA FirstOf ==
  ASSUME NEW x, NEW r, IsSeq(r)
  PROVE  /\ <<x>> \o r # <<>> /\ Head(<<x>> \o r) = x /\ Tail(<<x>> \o r) = r
         /\ <<>> \o r = r
<1>1. PICK T : <<x>> \in Seq(T) /\ r \in Seq(T)
  BY OneIsSeq, ConcatIsSeq
<1>2. <<x>> \o r \in Seq(T) /\ Len(<<x>> \o r) = 1 + Len(r)
      /\ \A i \in 1 .. 1 + Len(r) : (<<x>> \o r)[i] = IF i <= 1 THEN x ELSE r[i - 1]
  BY <1>1, ConcatProperties
<1>3. PICK z : z = <<x>> \o r
  OBVIOUS
<1>4. z \in Seq(T) /\ Len(z) = 1 + Len(r) /\ Len(r) \in Nat /\ z[1] = x /\ \A i \in 1 .. Len(r) : z[i + 1] = r[i]
  BY <1>1, <1>2, <1>3
<1>5. z # <<>> /\ Head(z) = x
  BY <1>4
<1>6. Tail(z) \in Seq(T) /\ Len(Tail(z)) = Len(r) /\ \A i \in 1 .. Len(r) : Tail(z)[i] = r[i]
  BY <1>4, <1>5, HeadTailProperties
<1>7. Tail(z) = r
  BY <1>1, <1>6, SeqEqual
<1>8. QED
  BY <1>1, <1>3, <1>5, <1>7, ConcatEmptySeq

\* A step in a block: the first instruction is of the block, and the rest of it remains.
LEMMA BlockStep ==
  ASSUME NEW S, NEW s \in Seq(S), s # <<>>, NEW r, IsSeq(r)
  PROVE  /\ s \o r # <<>> /\ Head(s \o r) = Head(s) /\ Head(s) \in S
         /\ Tail(s \o r) = Tail(s) \o r /\ Tail(s) \in Seq(S)
         /\ \A k \in DOMAIN s : s[k] = Head(s) \/ \E j \in DOMAIN Tail(s) : Tail(s)[j] = s[k]
<1>1. s = <<Head(s)>> \o Tail(s) /\ Head(s) \in S /\ Tail(s) \in Seq(S)
  <2>1. Head(s) \in S /\ Tail(s) \in Seq(S) /\ Len(Tail(s)) = Len(s) - 1 /\ Len(s) \in Nat \ {0}
        /\ \A i \in 1 .. Len(Tail(s)) : Tail(s)[i] = s[i + 1]
    BY HeadTailProperties, EmptySeq
  <2>2. PICK h, t : h = Head(s) /\ t = Tail(s)
    OBVIOUS
  <2>3. <<h>> \in Seq(S) /\ h = s[1]
    BY <2>1, <2>2
  <2>4. <<h>> \o t \in Seq(S) /\ Len(<<h>> \o t) = 1 + Len(t)
        /\ \A i \in 1 .. 1 + Len(t) : (<<h>> \o t)[i] = IF i <= 1 THEN h ELSE t[i - 1]
    BY <2>1, <2>2, <2>3, ConcatProperties
  <2>5. \A i \in 1 .. Len(s) : (<<h>> \o t)[i] = s[i]
    BY <2>1, <2>2, <2>3, <2>4
  <2>6. <<h>> \o t = s
    BY <2>1, <2>2, <2>4, <2>5, SeqEqual
  <2>7. QED
    BY <2>1, <2>2, <2>6
<1>2. PICK h, t : h = Head(s) /\ t = Tail(s)
  OBVIOUS
<1>3. IsSeq(t) /\ IsSeq(<<h>>)
  BY <1>1, <1>2, OneIsSeq DEF IsSeq
<1>4. s \o r = <<h>> \o (t \o r) /\ IsSeq(t \o r)
  BY <1>1, <1>2, <1>3, Assoc, ConcatIsSeq
<1>5. s \o r # <<>> /\ Head(s \o r) = h /\ Tail(s \o r) = t \o r
  BY <1>4, FirstOf
<1>6. \A k \in DOMAIN s : s[k] = Head(s) \/ \E j \in DOMAIN Tail(s) : Tail(s)[j] = s[k]
  <2> SUFFICES ASSUME NEW k \in DOMAIN s, k # 1 PROVE \E j \in DOMAIN Tail(s) : Tail(s)[j] = s[k]
    OBVIOUS
  <2>1. k \in 2 .. Len(s) /\ Len(s) \in Nat
    OBVIOUS
  <2>2. Len(Tail(s)) = Len(s) - 1 /\ Tail(s) \in Seq(S) /\ \A i \in 1 .. Len(Tail(s)) : Tail(s)[i] = s[i + 1]
    BY HeadTailProperties
  <2>3. k - 1 \in DOMAIN Tail(s) /\ Tail(s)[k - 1] = s[k]
    BY <2>1, <2>2
  <2>4. QED
    BY <2>3
<1>7. QED
  BY <1>1, <1>2, <1>5, <1>6

\* What has to be mapped is, or is still to be.
LEMMA MappedNext ==
  ASSUME NEW S, NEW s \in Seq(S), s # <<>>, NEW v, Mapped(s, v)
  PROVE  (Head(s).op = "map" /\ Head(s).v = v) \/ Mapped(Tail(s), v)
<1>1. PICK k \in DOMAIN s : s[k].op = "map" /\ s[k].v = v
  BY DEF Mapped
<1>2. s[k] = Head(s) \/ \E j \in DOMAIN Tail(s) : Tail(s)[j] = s[k]
  BY BlockStep, OneIsSeq
<1>3. QED
  BY <1>1, <1>2 DEF Mapped

\* What is mapped in a part is mapped in the whole.
LEMMA MappedConcat ==
  ASSUME NEW a, NEW b, IsSeq(a), IsSeq(b), NEW v
  PROVE  (Mapped(a, v) \/ Mapped(b, v)) => Mapped(a \o b, v)
<1>1. PICK T : a \in Seq(T) /\ b \in Seq(T)
  BY ConcatIsSeq
<1>2. /\ Len(a \o b) = Len(a) + Len(b) /\ Len(a) \in Nat /\ Len(b) \in Nat
      /\ DOMAIN a = 1 .. Len(a) /\ DOMAIN b = 1 .. Len(b) /\ DOMAIN (a \o b) = 1 .. Len(a) + Len(b)
      /\ \A i \in 1 .. Len(a) + Len(b) : (a \o b)[i] = IF i <= Len(a) THEN a[i] ELSE b[i - Len(a)]
  BY <1>1, ConcatProperties, LenProperties
<1>3. PICK z : z = a \o b
  OBVIOUS
<1>4. ASSUME Mapped(a, v) PROVE Mapped(z, v)
  <2>1. PICK k \in DOMAIN a : a[k].op = "map" /\ a[k].v = v
    BY <1>4 DEF Mapped
  <2>2. k \in DOMAIN z /\ z[k] = a[k]
    BY <1>2, <1>3
  <2>3. QED
    BY <2>1, <2>2 DEF Mapped
<1>5. ASSUME Mapped(b, v) PROVE Mapped(z, v)
  <2>1. PICK k \in DOMAIN b : b[k].op = "map" /\ b[k].v = v
    BY <1>5 DEF Mapped
  <2>2. k + Len(a) \in DOMAIN z /\ z[k + Len(a)] = b[k]
    BY <1>2, <1>3
  <2>3. QED
    BY <2>1, <2>2 DEF Mapped
<1>6. QED
  BY <1>3, <1>4, <1>5

------------------------------------------------------------------------------
\* The ranges of map_memory_range and unmap_memory_range: every page of them, once.

\* Numbering the elements of a finite set of numbers by how many are smaller.
LEMMA Ranks ==
  ASSUME NEW V \in SUBSET Int, IsFiniteSet(V), NEW rank, rank = [v \in V |-> Cardinality({w \in V : w < v})]
  PROVE  /\ Cardinality(V) \in Nat
         /\ \A v \in V : rank[v] + 1 \in 1 .. Cardinality(V)
         /\ \A v, w \in V : rank[v] = rank[w] => v = w
         /\ \A k \in 1 .. Cardinality(V) : \E v \in V : rank[v] = k - 1
<1>0. Cardinality(V) \in Nat
  BY FS_CardinalityType
<1> DEFINE Below(v) == {w \in V : w < v}
<1>1. ASSUME NEW v \in V
      PROVE  /\ IsFiniteSet(Below(v)) /\ Cardinality(Below(v)) \in Nat
             /\ Cardinality(Below(v)) < Cardinality(V) /\ rank[v] = Cardinality(Below(v))
  <2>1. PICK B : B = Below(v)
    OBVIOUS
  <2>2. B \in SUBSET V /\ v \notin B
    BY <2>1
  <2>3. IsFiniteSet(B) /\ Cardinality(B) <= Cardinality(V) /\ (Cardinality(V) = Cardinality(B) => V = B)
    BY <2>2, FS_Subset
  <2>4. Cardinality(B) \in Nat
    BY <2>3, FS_CardinalityType
  <2>5. rank[v] = Cardinality(B)
    BY <2>1
  <2>6. QED
    BY <2>1, <2>2, <2>3, <2>4, <2>5, <1>0
<1>2. ASSUME NEW v \in V, NEW w \in V, v < w PROVE rank[v] < rank[w]
  <2>1. PICK A, B : A = Below(v) /\ B = Below(w)
    OBVIOUS
  <2>2. A \in SUBSET B /\ v \in B /\ v \notin A
    <3>1. \A x \in V : x < v => x < w
      BY <1>2
    <3>2. A = {x \in V : x < v} /\ B = {x \in V : x < w}
      BY <2>1
    <3>3. v \in B /\ v \notin A
      BY <3>2, <1>2
    <3>4. QED
      BY <3>1, <3>2, <3>3
  <2>3. IsFiniteSet(B)
    BY <1>1, <2>1
  <2>4. Cardinality(A) <= Cardinality(B) /\ Cardinality(A) # Cardinality(B)
    BY <2>2, <2>3, FS_Subset
  <2>5. Cardinality(A) \in Nat /\ Cardinality(B) \in Nat /\ rank[v] = Cardinality(A) /\ rank[w] = Cardinality(B)
    BY <1>1, <2>1
  <2>6. QED
    BY <2>4, <2>5
<1>3. \A v \in V : rank[v] \in 0 .. Cardinality(V) - 1
  BY <1>0, <1>1
<1>4. \A v, w \in V : rank[v] = rank[w] => v = w
  <2> SUFFICES ASSUME NEW v \in V, NEW w \in V, rank[v] = rank[w], v # w PROVE FALSE
    OBVIOUS
  <2>1. v < w \/ w < v
    OBVIOUS
  <2>2. rank[v] \in Int /\ rank[w] \in Int
    BY <1>3
  <2>3. QED
    BY <2>1, <2>2, <1>2
<1>5. PICK T : T = 0 .. Cardinality(V) - 1
  OBVIOUS
<1>6. rank \in Injection(V, T)
  BY <1>3, <1>4, <1>5 DEF Injection, IsInjective
<1>7. IsFiniteSet(T) /\ Cardinality(T) = Cardinality(V)
  <2>1. 0 \in Int /\ Cardinality(V) - 1 \in Int
    BY <1>0
  <2>2. IsFiniteSet(T) /\ Cardinality(T) = IF 0 > Cardinality(V) - 1 THEN 0 ELSE Cardinality(V) - 1 - 0 + 1
    BY <2>1, <1>5, FS_Interval
  <2>3. QED
    BY <2>2, <1>0
<1>8. rank \in Surjection(V, T)
  BY <1>6, <1>7, FS_Injection
<1>9. ASSUME NEW k \in 1 .. Cardinality(V) PROVE \E v \in V : rank[v] = k - 1
  <2>1. k - 1 \in T
    BY <1>0, <1>5
  <2>2. QED
    BY <2>1, <1>8 DEF Surjection
<1>10. \A v \in V : rank[v] + 1 \in 1 .. Cardinality(V)
  BY <1>0, <1>3
<1>11. QED
  BY <1>0, <1>4, <1>9, <1>10

Lists(M, by, V, offset) ==
  /\ DOMAIN M = 1 .. Cardinality(V) /\ Cardinality(V) \in Nat
  /\ \A k \in 1 .. Cardinality(V) : M[k] \in Maps(by, V, offset, TRUE)
  /\ \A v \in V : \E k \in 1 .. Cardinality(V) :
       M[k] = [op |-> "map", pcb |-> by, v |-> v, p |-> v + offset, set |-> TRUE]

\* MapRange lists every page once.
LEMMA RangeOf ==
  ASSUME NEW V \in SUBSET Int, IsFiniteSet(V), NEW by, NEW offset
  PROVE  Lists(MapRange(by, V, offset), by, V, offset)
<1>1. PICK rank : rank = [v \in V |-> Cardinality({w \in V : w < v})]
  OBVIOUS
<1>2. /\ Cardinality(V) \in Nat
      /\ \A v \in V : rank[v] + 1 \in 1 .. Cardinality(V)
      /\ \A v, w \in V : rank[v] = rank[w] => v = w
      /\ \A k \in 1 .. Cardinality(V) : \E v \in V : rank[v] = k - 1
  BY <1>1, Ranks, SMTT(30)
<1>3. \A v \in V : rank[v] = Cardinality({w \in V : w < v})
  BY <1>1
<1> DEFINE Nth(k) == CHOOSE v \in V : Cardinality({w \in V : w < v}) = k - 1
           M == MapRange(by, V, offset)
<1>4. ASSUME NEW k \in 1 .. Cardinality(V) PROVE Nth(k) \in V /\ rank[Nth(k)] = k - 1
  <2>1. \E v \in V : Cardinality({w \in V : w < v}) = k - 1
    BY <1>2, <1>3
  <2>2. Nth(k) \in V /\ Cardinality({w \in V : w < Nth(k)}) = k - 1
    BY <2>1
  <2>3. QED
    BY <2>2, <1>3
<1>5. M = [k \in 1 .. Cardinality(V) |-> [op |-> "map", pcb |-> by, v |-> Nth(k), p |-> Nth(k) + offset, set |-> TRUE]]
  BY DEF MapRange
<1>6. \A k \in 1 .. Cardinality(V) :
         M[k] = [op |-> "map", pcb |-> by, v |-> Nth(k), p |-> Nth(k) + offset, set |-> TRUE]
  BY <1>5
<1>7. DOMAIN M = 1 .. Cardinality(V)
  BY <1>5
<1> HIDE DEF Nth, M
<1>8. ASSUME NEW v \in V
      PROVE  \E k \in 1 .. Cardinality(V) : M[k] = [op |-> "map", pcb |-> by, v |-> v, p |-> v + offset, set |-> TRUE]
  <2>1. PICK k \in 1 .. Cardinality(V) : k = rank[v] + 1
    BY <1>2
  <2>2. rank[v] \in Int
    <3>1. PICK B : B = {w \in V : w < v}
      OBVIOUS
    <3>2. IsFiniteSet(B)
      BY <3>1, FS_Subset
    <3>3. QED
      BY <3>1, <3>2, <1>3, FS_CardinalityType
  <2>3. rank[Nth(k)] = rank[v] /\ Nth(k) \in V
    BY <1>4, <2>1, <2>2
  <2>4. Nth(k) = v
    BY <1>2, <2>3
  <2>5. QED
    BY <1>6, <2>4
<1>9. \A k \in 1 .. Cardinality(V) : M[k] \in Maps(by, V, offset, TRUE)
  BY <1>4, <1>6 DEF Maps
<1>10. Lists(M, by, V, offset)
  BY <1>2, <1>7, <1>8, <1>9 DEF Lists
<1>11. QED
  BY <1>10 DEF M

\* MapRange is a sequence of map instructions that has one for every page.
LEMMA MapRangeIs ==
  ASSUME NEW V \in SUBSET Int, IsFiniteSet(V), NEW by, NEW offset
  PROVE  /\ MapRange(by, V, offset) \in Seq(Maps(by, V, offset, TRUE))
         /\ \A v \in V : Mapped(MapRange(by, V, offset), v)
<1>1. PICK M : M = MapRange(by, V, offset)
  OBVIOUS
<1>2. Lists(M, by, V, offset)
  BY <1>1, RangeOf
<1>3. M = [k \in 1 .. Cardinality(V) |-> M[k]]
  BY <1>1 DEF MapRange
<1>4. PICK S : S = Maps(by, V, offset, TRUE)
  OBVIOUS
<1>5. M \in Seq(S)
  <2>1. M \in [1 .. Cardinality(V) -> S] /\ Cardinality(V) \in Nat
    BY <1>2, <1>3, <1>4 DEF Lists
  <2>2. QED
    BY <2>1, SeqDef
<1>6. ASSUME NEW v \in V PROVE Mapped(M, v)
  <2>1. PICK k \in 1 .. Cardinality(V) : M[k] = [op |-> "map", pcb |-> by, v |-> v, p |-> v + offset, set |-> TRUE]
    BY <1>2 DEF Lists
  <2>2. k \in DOMAIN M /\ M[k].op = "map" /\ M[k].v = v
    BY <2>1, <1>2 DEF Lists
  <2>3. QED
    BY <2>2 DEF Mapped
<1>7. QED
  BY <1>1, <1>4, <1>5, <1>6

\* UnmapRange is a sequence of unmap instructions that has one for every page.
LEMMA UnmapRangeIs ==
  ASSUME NEW V \in SUBSET Int, IsFiniteSet(V)
  PROVE  /\ UnmapRange(V) \in Seq(Unmaps(V))
         /\ \A v \in V : \E k \in DOMAIN UnmapRange(V) : UnmapRange(V)[k].v = v
<1>1. PICK M, U : M = MapRange(NULL, V, 0) /\ U = UnmapRange(V)
  OBVIOUS
<1>2. Lists(M, NULL, V, 0)
  BY <1>1, RangeOf
<1>3. U = [k \in 1 .. Cardinality(V) |-> [op |-> "unmap", v |-> M[k].v]]
  BY <1>1 DEF UnmapRange
<1>4. \A k \in 1 .. Cardinality(V) : M[k].v \in V
  BY <1>2 DEF Lists, Maps
<1>5. \A k \in 1 .. Cardinality(V) : U[k] \in Unmaps(V)
  BY <1>3, <1>4 DEF Unmaps
<1>6. PICK S : S = Unmaps(V)
  OBVIOUS
<1>7. U \in Seq(S)
  <2>1. U \in [1 .. Cardinality(V) -> S] /\ Cardinality(V) \in Nat
    BY <1>2, <1>3, <1>5, <1>6 DEF Lists
  <2>2. QED
    BY <2>1, SeqDef
<1>8. ASSUME NEW v \in V PROVE \E k \in DOMAIN U : U[k].v = v
  <2>1. PICK k \in 1 .. Cardinality(V) : M[k] = [op |-> "map", pcb |-> NULL, v |-> v, p |-> v + 0, set |-> TRUE]
    BY <1>2 DEF Lists
  <2>2. M[k].v = v
    BY <2>1
  <2>3. k \in DOMAIN U /\ U[k].v = v
    BY <1>3, <2>2
  <2>4. QED
    BY <2>3
<1>9. QED
  BY <1>1, <1>6, <1>7, <1>8

\* An instruction whose mark is taken away.
LEMMA UnsetOne ==
  ASSUME NEW b, NEW v, NEW p, NEW t, NEW x
  PROVE  [[op |-> "map", pcb |-> b, v |-> v, p |-> p, set |-> t] EXCEPT !.set = x]
         = [op |-> "map", pcb |-> b, v |-> v, p |-> p, set |-> x]
OBVIOUS

\* Unset keeps the pages of a range.
LEMMA UnsetIs ==
  ASSUME NEW V \in SUBSET Int, IsFiniteSet(V), NEW by, NEW offset
  PROVE  /\ Unset(MapRange(by, V, offset)) \in Seq(Maps(by, V, offset, FALSE))
         /\ \A v \in V : Mapped(Unset(MapRange(by, V, offset)), v)
<1>1. PICK M, U : M = MapRange(by, V, offset) /\ U = Unset(MapRange(by, V, offset))
  OBVIOUS
<1>2. Lists(M, by, V, offset)
  BY <1>1, RangeOf
<1>3. U = [k \in 1 .. Cardinality(V) |-> [M[k] EXCEPT !.set = FALSE]]
  BY <1>1, <1>2 DEF Unset, Lists
<1>4. \A k \in 1 .. Cardinality(V) : U[k] = [M[k] EXCEPT !.set = FALSE]
  BY <1>3
<1>5. ASSUME NEW k \in 1 .. Cardinality(V), NEW v,
             M[k] = [op |-> "map", pcb |-> by, v |-> v, p |-> v + offset, set |-> TRUE]
      PROVE  U[k] = [op |-> "map", pcb |-> by, v |-> v, p |-> v + offset, set |-> FALSE]
  <2>1. U[k] = [[op |-> "map", pcb |-> by, v |-> v, p |-> v + offset, set |-> TRUE] EXCEPT !.set = FALSE]
    BY <1>4, <1>5, Zenon
  <2>2. QED
    BY <2>1, UnsetOne, Zenon
<1>6. \A k \in 1 .. Cardinality(V) : U[k] \in Maps(by, V, offset, FALSE)
  <2> TAKE k \in 1 .. Cardinality(V)
  <2>1. PICK v \in V : M[k] = [op |-> "map", pcb |-> by, v |-> v, p |-> v + offset, set |-> TRUE]
    BY <1>2, Zenon DEF Lists, Maps
  <2>2. U[k] = [op |-> "map", pcb |-> by, v |-> v, p |-> v + offset, set |-> FALSE]
    BY <2>1, <1>5, Zenon
  <2>3. QED
    BY <2>2, Zenon DEF Maps
<1>7. PICK S : S = Maps(by, V, offset, FALSE)
  OBVIOUS
<1>8. U \in Seq(S)
  <2>1. \A k \in 1 .. Cardinality(V) : U[k] \in S
    BY <1>6, <1>7
  <2>2. DOMAIN U = 1 .. Cardinality(V) /\ U = [k \in 1 .. Cardinality(V) |-> U[k]] /\ Cardinality(V) \in Nat
    BY <1>2, <1>3 DEF Lists
  <2>3. U \in [1 .. Cardinality(V) -> S]
    BY <2>1, <2>2
  <2>4. QED
    BY <2>2, <2>3, SeqDef
<1>9. ASSUME NEW v \in V PROVE Mapped(U, v)
  <2>1. PICK k \in 1 .. Cardinality(V) : M[k] = [op |-> "map", pcb |-> by, v |-> v, p |-> v + offset, set |-> TRUE]
    BY <1>2 DEF Lists
  <2>2. U[k] = [op |-> "map", pcb |-> by, v |-> v, p |-> v + offset, set |-> FALSE]
    BY <1>5, <2>1, Zenon
  <2>3. k \in DOMAIN U /\ U[k].op = "map" /\ U[k].v = v
    BY <1>3, <2>2
  <2>4. QED
    BY <2>3 DEF Mapped
<1>10. QED
  BY <1>1, <1>7, <1>8, <1>9

------------------------------------------------------------------------------
\* Steps of the program: which action an instruction is, and interrupts.

Quiet == UNCHANGED <<mem, bitmap, cr3, todo, mode, table, regs, at>>

\* The kernel's step is the action of the instruction it is at.
LEMMA Dispatch ==
  ASSUME Kernel
  PROVE  /\ mode = "kernel" /\ todo # <<>>
         /\ Head(todo).op = "cli" => Cli
         /\ Head(todo).op = "sti" => Sti
         /\ Head(todo).op = "ready" => Ready
         /\ Head(todo).op = "pic" => pic_init
         /\ Head(todo).op = "mark" => MarkFrames
         /\ Head(todo).op = "clear" => Memset
         /\ Head(todo).op = "rec" => SetRecursiveEntry
         /\ Head(todo).op = "cr3" => set_pml4_address
         /\ Head(todo).op = "map" => MapPage
         /\ Head(todo).op = "unmap" => UnmapPage
         /\ Head(todo).op = "alloc_proc" => alloc_proc
         /\ Head(todo).op = "list" => append_node
         /\ Head(todo).op = "exec" => exec
         /\ Head(todo).op = "first" => ExecFirst
         /\ Head(todo).op = "current" => SetCurrent
         /\ Head(todo).op = "copy_regs" => CopyRegs
         /\ Head(todo).op = "jump_usermode" => jump_usermode
         /\ Head(todo).op = "wait_ticks" => WaitTicks
         /\ Head(todo).op = "wait_key" => wait_key
         /\ Head(todo).op = "sysret" => sysret
         /\ Head(todo).op = "exit" => exit
         /\ Head(todo).op = "run_proc" => RunProc
<1> USE DEF At
<1>1. Cli => At("cli")
  BY DEF Cli, Go
<1>2. Sti => At("sti")
  BY DEF Sti, Go
<1>3. Ready => At("ready")
  BY DEF Ready, Go
<1>4. pic_init => At("pic")
  BY DEF pic_init, Go
<1>5. MarkFrames => At("mark")
  BY DEF MarkFrames, Go
<1>6. SetRecursiveEntry => At("rec")
  BY DEF SetRecursiveEntry, Go
<1>7. set_pml4_address => At("cr3")
  BY DEF set_pml4_address, Go
<1>8. MapPage => At("map")
  BY DEF MapPage, Go
<1>9. UnmapPage => At("unmap")
  BY DEF UnmapPage, Go
<1>10. alloc_proc => At("alloc_proc")
  BY DEF alloc_proc
<1>11. append_node => At("list")
  BY DEF append_node, Go
<1>12. exec => At("exec")
  BY DEF exec
<1>13. ExecFirst => At("first")
  BY DEF ExecFirst, Go
<1>14. SetCurrent => At("current")
  BY DEF SetCurrent, Go
<1>15. CopyRegs => At("copy_regs")
  BY DEF CopyRegs
<1>16. jump_usermode => At("jump_usermode")
  BY DEF jump_usermode
<1>17. WaitTicks => At("wait_ticks")
  BY DEF WaitTicks, Go
<1>18. wait_key => At("wait_key")
  BY DEF wait_key, Go
<1>19. sysret => At("sysret")
  BY DEF sysret
<1>20. exit => At("exit")
  BY DEF exit
<1>21. RunProc => At("run_proc")
  BY DEF RunProc
<1>22. Memset => At("clear")
  BY DEF Memset, Go
<1>23. QED
  BY <1>1, <1>2, <1>3, <1>4, <1>5, <1>6, <1>7, <1>8, <1>9, <1>10, <1>11, <1>12, <1>13, <1>14,
     <1>15, <1>16, <1>17, <1>18, <1>19, <1>20, <1>21, <1>22 DEF Kernel

\* What the points say depends on the tables and the PCBs only in these ways.
LEMMA SameRoots == ASSUME pcbs' = pcbs PROVE \A lv : Roots(lv)' <=> Roots(lv)
BY DEF Roots

\* The tree is that of memory, marks and PCBs.
LEMMA SameBuilt == ASSUME UNCHANGED <<mem, bitmap, pcbs>> PROVE Built' <=> Built
<1>1. ASSUME Built PROVE Built'
  <2>1. PICK lv \in Levels : Tree(mem, bitmap, lv) /\ Roots(lv)
    BY <1>1 DEF Built
  <2>2. Tree(mem', bitmap', lv) /\ Roots(lv)'
    BY <2>1, SameRoots
  <2>3. QED
    BY <2>2 DEF Built
<1>2. ASSUME Built' PROVE Built
  <2>1. PICK lv \in Levels : Tree(mem', bitmap', lv) /\ Roots(lv)'
    BY <1>2 DEF Built
  <2>2. Tree(mem, bitmap, lv) /\ Roots(lv)
    BY <2>1, SameRoots
  <2>3. QED
    BY <2>2 DEF Built
<1>3. QED
  BY <1>1, <1>2

\* The PCBs are as they were when the process table is.
LEMMA SameListed == ASSUME UNCHANGED table PROVE Listed' <=> Listed
BY DEF Listed, table

\* Interrupts that only count, and steps that change nothing.
LEMMA Counting ==
  ASSUME Typed, UNCHANGED vars \/ KeyboardIRQ \/ TickOnly
  PROVE  Quiet /\ Typed'
<1>1. CASE UNCHANGED vars
  <2>1. Quiet /\ UNCHANGED <<table, IF_, interrupts_ready, pic, key, skipped, since, due>>
    BY <1>1 DEF vars, Quiet, paging, intr, table, clock
  <2>2. Running'
    BY <2>1 DEF Quiet, Typed, Running
  <2>3. QED
    BY <2>1, <2>2, SameListed DEF Quiet, Typed
<1>2. CASE KeyboardIRQ
  <2>1. Quiet /\ UNCHANGED <<table, IF_, interrupts_ready, pic, skipped, since, due>> /\ key' = TRUE
    BY <1>2 DEF KeyboardIRQ, Quiet, paging, intr
  <2>2. Running'
    BY <2>1 DEF Quiet, Typed, Running
  <2>3. QED
    BY <2>1, <2>2, SameListed DEF Quiet, Typed
<1>3. CASE TickOnly
  <2>1. Quiet /\ UNCHANGED <<table, IF_, interrupts_ready, pic, skipped, key>> /\ pit_handler
    BY <1>3 DEF TickOnly, Quiet, paging, intr
  <2>2. Running'
    BY <2>1, ProcessAssumption DEF Quiet, Typed, Running, pit_handler
  <2>3. QED
    BY <2>1, <2>2, SameListed DEF Quiet, Typed
<1>4. QED
  BY <1>1, <1>2, <1>3

\* The kernel is interrupted, or goes on.
LEMMA Interrupted ==
  ASSUME Typed, mode = "kernel", [Next]_vars
  PROVE  Kernel \/ (Quiet /\ Typed')
<1>1. ~ User /\ ~ TickSwitch
  BY DEF User, UserStep, Exception, syscall_handler, TickSwitch
<1>2. QED
  BY <1>1, Counting DEF Next, Tick

------------------------------------------------------------------------------
\* Effects of the instructions.

Moves == todo' = Tail(todo) /\ mode' = mode /\ UNCHANGED <<table, regs, at>>

\* Instructions that only turn interrupts on and off or wait.
LEMMA PlainStep ==
  ASSUME Typed, Kernel, Head(todo).op \in {"cli", "sti", "ready", "pic", "wait_ticks", "wait_key"}
  PROVE  Typed' /\ Moves /\ UNCHANGED <<mem, bitmap, cr3>>
<1>1. Cli \/ Sti \/ Ready \/ pic_init \/ WaitTicks \/ wait_key
  BY Dispatch
<1>2. Moves /\ UNCHANGED <<mem, bitmap, cr3, since, skipped, due>>
  BY <1>1 DEF Cli, Sti, Ready, pic_init, WaitTicks, wait_key, Go, Moves, paging, clock
<1>3. Running
  BY DEF Typed
<1>4. {IF_', interrupts_ready', pic', key'} \subseteq BOOLEAN
  <2>1. IF_ \in BOOLEAN /\ interrupts_ready \in BOOLEAN /\ pic \in BOOLEAN /\ key \in BOOLEAN
    BY <1>3 DEF Running
  <2>2. CASE Cli
    BY <2>1, <2>2 DEF Cli, clock
  <2>3. CASE Sti
    BY <2>1, <2>3 DEF Sti, clock
  <2>4. CASE Ready
    BY <2>1, <2>4 DEF Ready, clock
  <2>5. CASE pic_init
    BY <2>1, <2>5 DEF pic_init, clock
  <2>6. CASE WaitTicks
    BY <2>1, <2>6 DEF WaitTicks, clock, intr
  <2>7. CASE wait_key
    BY <2>1, <2>7 DEF wait_key, intr
  <2>8. QED
    BY <1>1, <2>2, <2>3, <2>4, <2>5, <2>6, <2>7
<1>5. Running'
  BY <1>2, <1>3, <1>4 DEF Running, Moves
<1>6. QED
  BY <1>2, <1>5, SameListed DEF Typed, Moves

\* Marking frames.
LEMMA MarkStep ==
  ASSUME Typed, Kernel, Head(todo).op = "mark", NEW F, NEW pid \in 0 .. MAX_NUM_OF_PROCESS - 1,
         Head(todo).frames = F, Head(todo).pid = pid
  PROVE  /\ Typed' /\ Moves /\ UNCHANGED <<mem, cr3>>
         /\ \A f \in Frame : bitmap'[f] = IF f \in F THEN pid ELSE bitmap[f]
<1>1. MarkFrames
  BY Dispatch
<1>2. /\ Moves /\ UNCHANGED <<mem, cr3, since, skipped, due, key, IF_, interrupts_ready, pic>>
      /\ bitmap' = [f \in Frame |-> IF f \in F THEN pid ELSE bitmap[f]]
  BY <1>1 DEF MarkFrames, Go, Moves, clock, intr, this
<1>3. bitmap' \in Marking
  <2>1. PICK B : B = 0 .. MAX_NUM_OF_PROCESS - 1
    OBVIOUS
  <2>2. bitmap \in [Frame -> B] /\ pid \in B
    BY <2>1 DEF Typed, Marking
  <2>3. bitmap' \in [Frame -> B]
    BY <1>2, <2>2
  <2>4. QED
    BY <2>1, <2>3 DEF Marking
<1>4. Running'
  BY <1>2 DEF Typed, Running, Moves
<1>5. QED
  BY <1>2, <1>3, <1>4, SameListed DEF Typed, Moves

\* Loading cr3.
LEMMA Cr3Step ==
  ASSUME Typed, Kernel, Head(todo).op = "cr3"
  PROVE  Typed' /\ Moves /\ UNCHANGED <<mem, bitmap>> /\ cr3' = Head(todo).to
<1>1. set_pml4_address
  BY Dispatch
<1>2. /\ Moves /\ UNCHANGED <<mem, bitmap, since, skipped, due, key, IF_, interrupts_ready, pic>>
      /\ cr3' = Head(todo).to
  BY <1>1 DEF set_pml4_address, Go, Moves, clock, intr, this
<1>3. Running'
  BY <1>2 DEF Typed, Running, Moves
<1>4. QED
  BY <1>2, <1>3, SameListed DEF Typed, Moves

\* Clearing a frame.
LEMMA ClearStep ==
  ASSUME Typed, Kernel, Head(todo).op = "clear"
  PROVE  Typed' /\ Moves /\ UNCHANGED <<bitmap, cr3>> /\ mem' = ClearTable(mem, Head(todo).frame)
<1>1. Memset
  BY Dispatch
<1>2. /\ Moves /\ UNCHANGED <<bitmap, cr3, since, skipped, due, key, IF_, interrupts_ready, pic>>
      /\ mem' = ClearTable(mem, Head(todo).frame)
  BY <1>1 DEF Memset, Go, Moves, clock, intr, this
<1>3. Running'
  BY <1>2 DEF Typed, Running, Moves
<1>4. QED
  BY <1>2, <1>3, SameListed DEF Typed, Moves

\* Setting a recursive entry.
LEMMA RecStep ==
  ASSUME Typed, Kernel, Head(todo).op = "rec"
  PROVE  Typed' /\ Moves /\ UNCHANGED <<bitmap, cr3>> /\ mem' = SetEntry(mem, Head(todo).pml4, REC, Head(todo).to)
<1>1. SetRecursiveEntry
  BY Dispatch
<1>2. /\ Moves /\ UNCHANGED <<bitmap, cr3, since, skipped, due, key, IF_, interrupts_ready, pic>>
      /\ mem' = SetEntry(mem, Head(todo).pml4, REC, Head(todo).to)
  BY <1>1 DEF SetRecursiveEntry, Go, Moves, clock, intr, this
<1>3. Running'
  BY <1>2 DEF Typed, Running, Moves
<1>4. QED
  BY <1>2, <1>3, SameListed DEF Typed, Moves

\* unmap_page as an instruction.
LEMMA UnmapStep ==
  ASSUME Typed, Kernel, Head(todo).op = "unmap"
  PROVE  /\ Typed' /\ Moves /\ UNCHANGED <<bitmap, cr3>>
         /\ mem' = IF Walk(mem, Root, Head(todo).v) # NoFrame THEN unmap_page(mem, Root, Head(todo).v) ELSE mem
<1>1. UnmapPage
  BY Dispatch
<1>2. /\ Moves /\ UNCHANGED <<bitmap, cr3, since, skipped, due, key, pic>>
      /\ mem' = IF Walk(mem, Root, Head(todo).v) # NoFrame THEN unmap_page(mem, Root, Head(todo).v) ELSE mem
      /\ interrupts_ready' = (Walk(mem, Root, Head(todo).v) # NoFrame)
      /\ IF_' = (Walk(mem, Root, Head(todo).v) # NoFrame)
  BY <1>1 DEF UnmapPage, Go, Moves, clock, this
<1>3. interrupts_ready' \in BOOLEAN /\ IF_' \in BOOLEAN
  BY <1>2
<1>4. Running'
  BY <1>2, <1>3 DEF Typed, Running, Moves
<1>5. QED
  BY <1>2, <1>4, SameListed DEF Typed, Moves

\* PCBs have their type and their pids are their numbers.
LEMMA Pcbs ==
  ASSUME Listed
  PROVE  \A id \in 1 .. Len(pcbs) :
           pcbs[id] \in PCBs /\ pcbs[id].pml4 \in Frame /\ pcbs[id].pid = id
<1> TAKE id \in 1 .. Len(pcbs)
<1>1. pcbs \in Seq(PCBs)
  BY DEF Listed
<1>2. pcbs[id] \in PCBs
  BY <1>1, ElementOfSeq
<1>3. pcbs[id].pml4 \in Frame
  BY <1>2 DEF PCBs
<1>4. pcbs[id].pid = id
  BY DEF Listed, KERNEL_PID
<1>5. QED
  BY <1>2, <1>3, <1>4

\* The PML4s are still the tables of level 1 when no level of a table changes.
LEMMA RootsKept ==
  ASSUME Listed, UNCHANGED table, NEW lv \in Levels, Roots(lv), NEW lv2 \in Levels,
         \A f \in Frame : lv[f] > 0 => lv2[f] = lv[f],
         \A f \in Frame : lv2[f] = 1 => lv[f] = 1
  PROVE  Roots(lv2)'
<1>1. \A id \in 1 .. Len(pcbs) : pcbs[id].pml4 \in Frame
  BY Pcbs
<1>2. \A id \in 1 .. Len(pcbs) : lv2[pcbs[id].pml4] = 1
  BY <1>1 DEF Roots
<1>3. QED
  BY <1>2 DEF Roots, table

\* map_page as an instruction, under a PML4 and with enough free frames in R.
LEMMA MapStep ==
  ASSUME Typed, Kernel, Head(todo).op = "map",
         NEW lv \in Levels, Tree(mem, bitmap, lv), Roots(lv), NEW r \in Frame, r = Root, lv[r] = 1,
         NEW by \in 1 .. Len(pcbs), Head(todo).pcb = by, NEW v \in MappedPages, Head(todo).v = v,
         NEW p \in Frame, Head(todo).p = p, NEW set \in BOOLEAN, Head(todo).set = set,
         NEW pages, Mappable(pages), v \in pages,
         NEW R \in SUBSET Frame, NEW c \in Nat, Enough(mem, bitmap, r, R, pages, c), Safe(bitmap, R)
  PROVE  /\ \E lv2 : MapOk(mem, bitmap, lv, mem', bitmap', lv2, r, v, p) /\ Roots(lv2)'
         /\ EnoughAfter(mem, bitmap, mem', bitmap', r, v)
         /\ set /\ v \in Frame => bitmap'[v] # 0
         /\ Typed' /\ Moves /\ cr3' = cr3
<1>1. MapPage
  BY Dispatch
<1>2. PICK pid : pid = pcbs[by].pid
  OBVIOUS
<1>3. pid \in 1 .. MAX_NUM_OF_PROCESS - 1
  <2>1. pid = by /\ by \in 1 .. 3
    BY <1>2 DEF Typed, Listed, KERNEL_PID
  <2>2. QED
    BY <2>1, LayoutAssumption, ProcessAssumption
<1>4. PICK s \in map_page(mem, bitmap, r, v, p, pid) :
        /\ mem' = s.mem
        /\ bitmap' = IF set THEN [s.bitmap EXCEPT ![v] = pid] ELSE s.bitmap
        /\ interrupts_ready' = s.ok /\ IF_' = s.ok
  BY <1>1, <1>2 DEF MapPage, this
<1>5. Moves /\ UNCHANGED <<cr3, since, skipped, due, key, pic>>
  BY <1>1 DEF MapPage, Go, Moves, clock
<1>6. bitmap \in Marking
  BY DEF Typed
<1>7a. MapMarked(mem, bitmap, lv, s, bitmap', r, v, p, set)
  BY <1>3, <1>4, <1>6, MapAndMark
<1>7. /\ s.ok = TRUE
      /\ \E lv2 : MapOk(mem, bitmap, lv, s.mem, bitmap', lv2, r, v, p)
      /\ EnoughAfter(mem, bitmap, s.mem, bitmap', r, v)
      /\ set /\ v \in Frame => bitmap'[v] # 0
  BY <1>7a DEF MapMarked
<1>8. PICK lv2 : MapOk(mem, bitmap, lv, mem', bitmap', lv2, r, v, p)
  BY <1>4, <1>7
<1>9. Roots(lv2)'
  <2>1. /\ lv2 \in Levels /\ \A f \in Frame : lv[f] > 0 => lv2[f] = lv[f]
        /\ \A f \in Frame : lv2[f] = 1 => lv[f] = 1
    BY <1>8 DEF MapOk
  <2>2. QED
    BY <2>1, <1>5, RootsKept DEF Typed, Moves
<1>10. bitmap' \in Marking
  BY <1>8 DEF MapOk
<1>11. interrupts_ready' = TRUE /\ IF_' = TRUE
  BY <1>4, <1>7
<1>12. Running'
  BY <1>5, <1>11 DEF Typed, Running, Moves
<1>13. Typed'
  BY <1>5, <1>10, <1>12, SameListed DEF Typed, Moves
<1>14. EnoughAfter(mem, bitmap, mem', bitmap', r, v)
  BY <1>4, <1>7
<1>15. QED
  BY <1>5, <1>7, <1>8, <1>9, <1>13, <1>14

------------------------------------------------------------------------------
\* The same for the tables of all PML4s.

\* The PML4s keep what they map but page v of id, and need no more tables than before.
Kept(id, v) ==
  /\ \A j \in 1 .. Len(pcbs), w \in MappedPages :
       ~ (j = id /\ w = v) /\ Walk(mem, pcbs[j].pml4, w) # NoFrame
       => Walk(mem', pcbs[j].pml4, w) = Walk(mem, pcbs[j].pml4, w)
  /\ \A j \in 1 .. Len(pcbs) :
       Cardinality(Missing(mem', pcbs[j].pml4, MappedPages)) <= Cardinality(Missing(mem, pcbs[j].pml4, MappedPages))

MapEffect(id, v, p, c) ==
  /\ Built' /\ Owned' /\ Enough(mem', bitmap', pcbs[id].pml4, Reserve, MappedPages, c)
  /\ \A j \in 1 .. Len(pcbs) : Entry(mem', pcbs[j].pml4, REC) = Entry(mem, pcbs[j].pml4, REC)
  /\ Kept(id, v) /\ Walk(mem', pcbs[id].pml4, v) = p /\ Pt(mem', pcbs[id].pml4, v) # NoFrame
  /\ Taken => Taken'
  /\ \/ allocate_page(bitmap) \in Frame /\ bitmap'[allocate_page(bitmap)] # 0
     \/ \A w \in MappedPages : Pt(mem', pcbs[id].pml4, w) # NoFrame => Pt(mem, pcbs[id].pml4, w) # NoFrame
  /\ Typed' /\ Moves /\ cr3' = cr3

\* Once kernel and PML4 are marked, allocate_page takes usable frames, as long as one in
\* Reserve is free.
LEMMA SafeReserve == ASSUME Owned PROVE Safe(bitmap, Reserve)
<1> SUFFICES ASSUME NEW f \in Frame, bitmap[f] = 0, NEW g \in Reserve, f <= g PROVE f \in Usable
  BY DEF Safe
<1>1. f \notin KernelPages \cup PML4Pages
  <2>1. KernelPages \subseteq FirstPages \ {PML4_BOOT, BootMark}
    BY FirstPagesAre, ProcessAssumption, LayoutAssumption
  <2>2. QED
    BY <2>1 DEF Owned
<1>2. g \in Frame /\ g < PROC_ALLOC_START /\ \A h \in HeapPages \cup HardwarePages : g < h
  BY DEF Reserve
<1>3. f \in Nat /\ g \in Nat /\ PROC_ALLOC_START \in Nat
  BY <1>2, Constants, LayoutAssumption
<1>4. HeapPages \cup HardwarePages \subseteq Nat
  BY Constants, ProcessAssumption
<1>5. QED
  BY <1>1, <1>2, <1>3, <1>4 DEF Usable

\* map_page as an instruction, with the frames of Reserve.
LEMMA MapReserve ==
  ASSUME Typed, Kernel, Built, Owned, Head(todo).op = "map",
         NEW id \in 1 .. Len(pcbs), Root = pcbs[id].pml4,
         NEW by \in 1 .. Len(pcbs), Head(todo).pcb = by, NEW v \in MappedPages, Head(todo).v = v,
         v \notin Reserve \/ bitmap[v] # 0,
         NEW p \in Frame, Head(todo).p = p, NEW set \in BOOLEAN, Head(todo).set = set,
         NEW c \in Nat, Enough(mem, bitmap, pcbs[id].pml4, Reserve, MappedPages, c)
  PROVE  MapEffect(id, v, p, c)
<1>1. PICK lv \in Levels : Tree(mem, bitmap, lv) /\ Roots(lv)
  BY DEF Built
<1>2. PICK r \in Frame : r = pcbs[id].pml4
  BY Pcbs DEF Typed
<1>3. lv[r] = 1
  BY <1>1, <1>2 DEF Roots
<1>4. Mappable(MappedPages) /\ Reserve \in SUBSET Frame
  BY MappedFacts
<1>5. Safe(bitmap, Reserve)
  BY SafeReserve
<1>6. /\ \E lv2 : MapOk(mem, bitmap, lv, mem', bitmap', lv2, r, v, p) /\ Roots(lv2)'
      /\ EnoughAfter(mem, bitmap, mem', bitmap', r, v)
      /\ Typed' /\ Moves /\ cr3' = cr3
  BY <1>1, <1>2, <1>3, <1>4, <1>5, MapStep
<1>7. PICK lv2 : MapOk(mem, bitmap, lv, mem', bitmap', lv2, r, v, p) /\ Roots(lv2)'
  BY <1>6
<1>8. Built'
  BY <1>7 DEF Built, MapOk
<1>9. Owned'
  <2>1. \A f \in Frame : bitmap[f] # 0 => bitmap'[f] # 0
    BY <1>7 DEF MapOk
  <2>2. FirstPages \cup PML4Pages \subseteq Frame
    BY ProcessAssumption, FirstPagesAre
  <2>3. QED
    BY <2>1, <2>2 DEF Owned
<1>10. Enough(mem', bitmap', r, Reserve, MappedPages, c)
  BY <1>2, <1>4, <1>6 DEF EnoughAfter
<1>11. \A j \in 1 .. Len(pcbs) : pcbs[j].pml4 \in Frame /\ lv[pcbs[j].pml4] = 1
  BY <1>1, Pcbs DEF Typed, Roots
<1>12. \A j \in 1 .. Len(pcbs) : Entry(mem', pcbs[j].pml4, REC) = Entry(mem, pcbs[j].pml4, REC)
  BY <1>7, <1>11 DEF MapOk
<1>13. \A j \in 1 .. Len(pcbs) : pcbs[j].pml4 = r => j = id
  BY <1>1, <1>2 DEF Roots
<1>14. Kept(id, v)
  <2>1. Keeps(mem, lv, mem') /\ Others(mem, lv, mem', r, v)
    BY <1>7 DEF MapOk
  <2>2. \A j \in 1 .. Len(pcbs), w \in MappedPages :
          ~ (j = id /\ w = v) /\ Walk(mem, pcbs[j].pml4, w) # NoFrame
          => Walk(mem', pcbs[j].pml4, w) = Walk(mem, pcbs[j].pml4, w)
    BY <2>1, <1>11, <1>13 DEF Others
  <2>3. \A j \in 1 .. Len(pcbs) :
          Cardinality(Missing(mem', pcbs[j].pml4, MappedPages)) <= Cardinality(Missing(mem, pcbs[j].pml4, MappedPages))
    BY <2>1, <1>1, <1>11, EnoughKeeps
  <2>4. QED
    BY <2>2, <2>3 DEF Kept
<1>15. Walk(mem', r, v) = p
  BY <1>7 DEF MapOk
<1>16. Pt(mem', r, v) # NoFrame
  <2>1. Tree(mem', bitmap', lv2) /\ lv2 \in Levels
    BY <1>7 DEF MapOk
  <2>2. QED
    BY <2>1, <1>15, WalkPt, Constants
<1>17. Taken => Taken'
  BY <1>7, Constants DEF MapOk, Taken
<1>18. \/ allocate_page(bitmap) \in Frame /\ bitmap'[allocate_page(bitmap)] # 0
       \/ \A w \in MappedPages : Pt(mem', r, w) # NoFrame => Pt(mem, r, w) # NoFrame
  BY <1>7 DEF MapOk
<1>19. QED
  BY <1>2, <1>6, <1>8, <1>9, <1>10, <1>12, <1>14, <1>15, <1>16, <1>17, <1>18 DEF MapEffect

UnmapEffect(id, v) ==
  /\ Built' /\ \A j \in 1 .. Len(pcbs) : Entry(mem', pcbs[j].pml4, REC) = Entry(mem, pcbs[j].pml4, REC)
  /\ Kept(id, v) /\ Walk(mem', pcbs[id].pml4, v) = NoFrame
  /\ \A j \in 1 .. Len(pcbs), w \in MappedPages :
       Walk(mem, pcbs[j].pml4, w) = NoFrame => Walk(mem', pcbs[j].pml4, w) = NoFrame
  /\ Typed' /\ Moves /\ UNCHANGED <<bitmap, cr3>>

\* unmap_page as an instruction keeps the tree and what other pages stand for.
LEMMA UnmapBuilt ==
  ASSUME Typed, Kernel, Built, Head(todo).op = "unmap",
         NEW id \in 1 .. Len(pcbs), Root = pcbs[id].pml4, NEW v \in MappedPages, Head(todo).v = v
  PROVE  UnmapEffect(id, v)
<1>1. PICK lv \in Levels : Tree(mem, bitmap, lv) /\ Roots(lv)
  BY DEF Built
<1>2. PICK r \in Frame : r = pcbs[id].pml4
  BY Pcbs DEF Typed
<1>3. \A j \in 1 .. Len(pcbs) : pcbs[j].pml4 \in Frame /\ lv[pcbs[j].pml4] = 1 /\ (pcbs[j].pml4 = r => j = id)
  BY <1>1, <1>2, Pcbs DEF Typed, Roots
<1>4. \A w \in MappedPages : w \in Int /\ PageIndexes(w)[1] # REC
  BY MappedFacts
<1>5. /\ Typed' /\ Moves /\ UNCHANGED <<bitmap, cr3>>
      /\ mem' = IF Walk(mem, r, v) # NoFrame THEN unmap_page(mem, r, v) ELSE mem
  BY <1>2, UnmapStep
<1>6. lv[r] = 1 /\ v \in Int /\ PageIndexes(v)[1] # REC
  BY <1>2, <1>3, <1>4
<1>7. UnmapDone(mem, bitmap, lv, mem', r, v)
  BY <1>1, <1>5, <1>6, UnmapPageIs
<1>8. Tree(mem', bitmap', lv) /\ Keeps(mem, lv, mem')
  BY <1>5, <1>7 DEF UnmapDone
<1>9. Built'
  <2>1. Roots(lv)'
    BY <1>1, <1>5, SameRoots DEF Moves, table
  <2>2. QED
    BY <1>8, <2>1 DEF Built
<1>10. Others(mem, lv, mem', r, v)
  BY <1>1, <1>6, <1>7, OthersUnmapped
<1>11. Kept(id, v)
  <2>1. \A j \in 1 .. Len(pcbs), w \in MappedPages :
          ~ (j = id /\ w = v) /\ Walk(mem, pcbs[j].pml4, w) # NoFrame
          => Walk(mem', pcbs[j].pml4, w) = Walk(mem, pcbs[j].pml4, w)
    BY <1>3, <1>10 DEF Others
  <2>2. \A j \in 1 .. Len(pcbs) :
          Cardinality(Missing(mem', pcbs[j].pml4, MappedPages)) <= Cardinality(Missing(mem, pcbs[j].pml4, MappedPages))
    BY <1>1, <1>3, <1>8, EnoughKeeps
  <2>3. QED
    BY <2>1, <2>2 DEF Kept
<1>12. ASSUME NEW j \in 1 .. Len(pcbs), NEW w \in MappedPages, Walk(mem, pcbs[j].pml4, w) = NoFrame
       PROVE  Walk(mem', pcbs[j].pml4, w) = NoFrame
  BY <1>1, <1>3, <1>4, <1>7, <1>12, UnmapOnly
<1>13. Walk(mem', r, v) = NoFrame /\ \A f \in Frame, i \in Index : lv[f] # 4 => Entry(mem', f, i) = Entry(mem, f, i)
  BY <1>7 DEF UnmapDone
<1>14. \A j \in 1 .. Len(pcbs) : Entry(mem', pcbs[j].pml4, REC) = Entry(mem, pcbs[j].pml4, REC)
  BY <1>3, <1>13, Constants, SMTT(30)
<1>15. QED
  BY <1>2, <1>5, <1>9, <1>11, <1>12, <1>13, <1>14 DEF UnmapEffect

RecEffect(id, to) ==
  /\ Built' /\ Entry(mem', pcbs[id].pml4, REC) = to
  /\ \A j \in 1 .. Len(pcbs) : j # id => Entry(mem', pcbs[j].pml4, REC) = Entry(mem, pcbs[j].pml4, REC)
  /\ \A v : Kept(id, v)
  /\ \A j \in 1 .. Len(pcbs), w \in MappedPages :
       Walk(mem, pcbs[j].pml4, w) # NoFrame => Walk(mem', pcbs[j].pml4, w) = Walk(mem, pcbs[j].pml4, w)
  /\ Typed' /\ Moves /\ UNCHANGED <<bitmap, cr3>>

\* Setting the recursive entry of a process keeps the tree and what all pages stand for.
LEMMA RecBuilt ==
  ASSUME Typed, Kernel, Built, Head(todo).op = "rec",
         NEW id \in 1 .. Len(pcbs), Head(todo).pml4 = pcbs[id].pml4, NEW to \in Frame, Head(todo).to = to
  PROVE  RecEffect(id, to)
<1>1. PICK lv \in Levels : Tree(mem, bitmap, lv) /\ Roots(lv)
  BY DEF Built
<1>2. PICK r \in Frame : r = pcbs[id].pml4
  BY Pcbs DEF Typed
<1>3. \A j \in 1 .. Len(pcbs) : pcbs[j].pml4 \in Frame /\ lv[pcbs[j].pml4] = 1 /\ (pcbs[j].pml4 = r => j = id)
  BY <1>1, <1>2, Pcbs DEF Typed, Roots
<1>4. Typed' /\ Moves /\ UNCHANGED <<bitmap, cr3>> /\ mem' = SetEntry(mem, r, REC, to)
  BY <1>2, RecStep
<1>5. lv[r] = 1 /\ r \in DOMAIN mem
  BY <1>1, <1>2, <1>3 DEF Tree
<1>6. RecOk(mem, bitmap, lv, mem', r, REC, to)
  BY <1>1, <1>4, <1>5, RecSet
<1>7. /\ Tree(mem', bitmap', lv) /\ Keeps(mem, lv, mem') /\ Entry(mem', r, REC) = to
      /\ \A g, j : ~ (g = r /\ j = REC) => Entry(mem', g, j) = Entry(mem, g, j)
      /\ \A q \in Frame, w \in MappedPages : lv[q] = 1 /\ Walk(mem, q, w) # NoFrame => Walk(mem', q, w) = Walk(mem, q, w)
  BY <1>4, <1>6 DEF RecOk
<1>8. Built'
  <2>1. Roots(lv)'
    BY <1>1, <1>4, SameRoots DEF Moves, table
  <2>2. QED
    BY <1>7, <2>1 DEF Built
<1>9. \A j \in 1 .. Len(pcbs), w \in MappedPages :
        Walk(mem, pcbs[j].pml4, w) # NoFrame => Walk(mem', pcbs[j].pml4, w) = Walk(mem, pcbs[j].pml4, w)
  BY <1>3, <1>7
<1>10. \A j \in 1 .. Len(pcbs) :
         Cardinality(Missing(mem', pcbs[j].pml4, MappedPages)) <= Cardinality(Missing(mem, pcbs[j].pml4, MappedPages))
  BY <1>1, <1>3, <1>7, EnoughKeeps
<1>11. \A v : Kept(id, v)
  BY <1>9, <1>10 DEF Kept
<1>12. \A j \in 1 .. Len(pcbs) : j # id => Entry(mem', pcbs[j].pml4, REC) = Entry(mem, pcbs[j].pml4, REC)
  BY <1>3, <1>7
<1>13. QED
  BY <1>2, <1>4, <1>7, <1>8, <1>9, <1>11, <1>12 DEF RecEffect

\* With no more tables missing and the same frames free there is enough as before.
LEMMA EnoughKept1 ==
  ASSUME NEW id \in 1 .. Len(pcbs), NEW k, NEW v, Kept(k, v), bitmap' = bitmap, NEW c \in Int,
         Enough(mem, bitmap, pcbs[id].pml4, Reserve, MappedPages, c)
  PROVE  Enough(mem', bitmap', pcbs[id].pml4, Reserve, MappedPages, c)
<1>1. PICK f, a, b : /\ f = Cardinality(Free(bitmap, Reserve))
                     /\ a = Cardinality(Missing(mem, pcbs[id].pml4, MappedPages))
                     /\ b = Cardinality(Missing(mem', pcbs[id].pml4, MappedPages))
  OBVIOUS
<1>2. f \in Nat /\ a \in Nat /\ b \in Nat
  BY <1>1, MissingAtMost, FreeCounted, MappedFacts
<1>3. f >= a + c /\ b <= a
  BY <1>1 DEF Enough, Kept
<1>4. f >= b + c
  BY <1>2, <1>3
<1>5. QED
  BY <1>1, <1>4 DEF Enough

------------------------------------------------------------------------------
\* The texts of the programs.

Joined(p, a, q) == IsSeq(q) /\ \A y : IsSeq(y) => q \o y = p \o (a \o y) /\ IsSeq(a \o y)

\* Joining a sequence to the left of others.
LEMMA Shift ==
  ASSUME NEW p, NEW a, NEW q, q = p \o a, IsSeq(p), IsSeq(a)
  PROVE  Joined(p, a, q)
<1>1. IsSeq(q)
  BY ConcatIsSeq
<1>2. ASSUME NEW y, IsSeq(y) PROVE q \o y = p \o (a \o y) /\ IsSeq(a \o y)
  BY <1>2, Assoc, ConcatIsSeq
<1>3. QED
  BY <1>1, <1>2 DEF Joined

\* Up to fourteen parts, put together from the left, are the first of them and then the rest.
Parts(a1, a2, a3, a4, a5, a6, a7, a8, a9, a10, a11, a12, a13, a14) ==
  /\ IsSeq(a1) /\ IsSeq(a2) /\ IsSeq(a3) /\ IsSeq(a4) /\ IsSeq(a5) /\ IsSeq(a6) /\ IsSeq(a7)
  /\ IsSeq(a8) /\ IsSeq(a9) /\ IsSeq(a10) /\ IsSeq(a11) /\ IsSeq(a12) /\ IsSeq(a13) /\ IsSeq(a14)

Flat(a1, a2, a3, a4, a5, a6, a7, a8, a9, a10, a11, a12, a13, a14) ==
  /\ IsSeq(a1 \o a2)
  /\ \A z : IsSeq(z) => (a1 \o a2) \o z = a1 \o (a2 \o z)
  /\ IsSeq((a1 \o a2) \o a3)
  /\ \A z : IsSeq(z) => ((a1 \o a2) \o a3) \o z = a1 \o (a2 \o (a3 \o z))
  /\ IsSeq(((a1 \o a2) \o a3) \o a4)
  /\ \A z : IsSeq(z) => (((a1 \o a2) \o a3) \o a4) \o z = a1 \o (a2 \o (a3 \o (a4 \o z)))
  /\ IsSeq((((a1 \o a2) \o a3) \o a4) \o a5)
  /\ \A z : IsSeq(z) => ((((a1 \o a2) \o a3) \o a4) \o a5) \o z = a1 \o (a2 \o (a3 \o (a4 \o (a5 \o z))))
  /\ IsSeq(((((a1 \o a2) \o a3) \o a4) \o a5) \o a6)
  /\ \A z : IsSeq(z) => (((((a1 \o a2) \o a3) \o a4) \o a5) \o a6) \o z = a1 \o (a2 \o (a3 \o (a4 \o (a5 \o (a6 \o z)))))
  /\ IsSeq(((((((a1 \o a2) \o a3) \o a4) \o a5) \o a6) \o a7) \o a8)
  /\ \A z : IsSeq(z) => (((((((a1 \o a2) \o a3) \o a4) \o a5) \o a6) \o a7) \o a8) \o z = a1 \o (a2 \o (a3 \o (a4 \o (a5 \o (a6 \o (a7 \o (a8 \o z)))))))
  /\ IsSeq((((((((((a1 \o a2) \o a3) \o a4) \o a5) \o a6) \o a7) \o a8) \o a9) \o a10) \o a11)
  /\ \A z : IsSeq(z) => ((((((((((a1 \o a2) \o a3) \o a4) \o a5) \o a6) \o a7) \o a8) \o a9) \o a10) \o a11) \o z = a1 \o (a2 \o (a3 \o (a4 \o (a5 \o (a6 \o (a7 \o (a8 \o (a9 \o (a10 \o (a11 \o z))))))))))
  /\ IsSeq(((((((((((((a1 \o a2) \o a3) \o a4) \o a5) \o a6) \o a7) \o a8) \o a9) \o a10) \o a11) \o a12) \o a13) \o a14)
  /\ \A z : IsSeq(z) => (((((((((((((a1 \o a2) \o a3) \o a4) \o a5) \o a6) \o a7) \o a8) \o a9) \o a10) \o a11) \o a12) \o a13) \o a14) \o z = a1 \o (a2 \o (a3 \o (a4 \o (a5 \o (a6 \o (a7 \o (a8 \o (a9 \o (a10 \o (a11 \o (a12 \o (a13 \o (a14 \o z)))))))))))))

\* kmain's parts, joined from the left, can be joined from the right.
LEMMA FlatLeft ==
  ASSUME NEW a1, NEW a2, NEW a3, NEW a4, NEW a5, NEW a6, NEW a7,
         NEW a8, NEW a9, NEW a10, NEW a11, NEW a12, NEW a13, NEW a14,
         Parts(a1, a2, a3, a4, a5, a6, a7, a8, a9, a10, a11, a12, a13, a14)
  PROVE  Flat(a1, a2, a3, a4, a5, a6, a7, a8, a9, a10, a11, a12, a13, a14)
<1>1. PICK p1 : p1 = a1
  OBVIOUS
<1>2. IsSeq(p1) /\ \A y : IsSeq(y) => p1 \o y = a1 \o y
  BY <1>1 DEF Parts
<1>3. PICK p2 : p2 = p1 \o a2
  OBVIOUS
<1>4. IsSeq(p2) /\ \A y : IsSeq(y) => p2 \o y = a1 \o (a2 \o y)
  <2>1. IsSeq(a2) /\ IsSeq(p1)
    BY <1>2 DEF Parts
  <2>2. Joined(p1, a2, p2)
    BY <1>3, <2>1, Shift
  <2>3. QED
    BY <1>2, <2>2, Zenon DEF Joined
<1>5. PICK p3 : p3 = p2 \o a3
  OBVIOUS
<1>6. IsSeq(p3) /\ \A y : IsSeq(y) => p3 \o y = a1 \o (a2 \o (a3 \o y))
  <2>1. IsSeq(a3) /\ IsSeq(p2)
    BY <1>4 DEF Parts
  <2>2. Joined(p2, a3, p3)
    BY <1>5, <2>1, Shift
  <2>3. QED
    BY <1>4, <2>2, Zenon DEF Joined
<1>7. PICK p4 : p4 = p3 \o a4
  OBVIOUS
<1>8. IsSeq(p4) /\ \A y : IsSeq(y) => p4 \o y = a1 \o (a2 \o (a3 \o (a4 \o y)))
  <2>1. IsSeq(a4) /\ IsSeq(p3)
    BY <1>6 DEF Parts
  <2>2. Joined(p3, a4, p4)
    BY <1>7, <2>1, Shift
  <2>3. QED
    BY <1>6, <2>2, Zenon DEF Joined
<1>9. PICK p5 : p5 = p4 \o a5
  OBVIOUS
<1>10. IsSeq(p5) /\ \A y : IsSeq(y) => p5 \o y = a1 \o (a2 \o (a3 \o (a4 \o (a5 \o y))))
  <2>1. IsSeq(a5) /\ IsSeq(p4)
    BY <1>8 DEF Parts
  <2>2. Joined(p4, a5, p5)
    BY <1>9, <2>1, Shift
  <2>3. QED
    BY <1>8, <2>2, Zenon DEF Joined
<1>11. PICK p6 : p6 = p5 \o a6
  OBVIOUS
<1>12. IsSeq(p6) /\ \A y : IsSeq(y) => p6 \o y = a1 \o (a2 \o (a3 \o (a4 \o (a5 \o (a6 \o y)))))
  <2>1. IsSeq(a6) /\ IsSeq(p5)
    BY <1>10 DEF Parts
  <2>2. Joined(p5, a6, p6)
    BY <1>11, <2>1, Shift
  <2>3. QED
    BY <1>10, <2>2, Zenon DEF Joined
<1>13. PICK p7 : p7 = p6 \o a7
  OBVIOUS
<1>14. IsSeq(p7) /\ \A y : IsSeq(y) => p7 \o y = a1 \o (a2 \o (a3 \o (a4 \o (a5 \o (a6 \o (a7 \o y))))))
  <2>1. IsSeq(a7) /\ IsSeq(p6)
    BY <1>12 DEF Parts
  <2>2. Joined(p6, a7, p7)
    BY <1>13, <2>1, Shift
  <2>3. QED
    BY <1>12, <2>2, Zenon DEF Joined
<1>15. PICK p8 : p8 = p7 \o a8
  OBVIOUS
<1>16. IsSeq(p8) /\ \A y : IsSeq(y) => p8 \o y = a1 \o (a2 \o (a3 \o (a4 \o (a5 \o (a6 \o (a7 \o (a8 \o y)))))))
  <2>1. IsSeq(a8) /\ IsSeq(p7)
    BY <1>14 DEF Parts
  <2>2. Joined(p7, a8, p8)
    BY <1>15, <2>1, Shift
  <2>3. QED
    BY <1>14, <2>2, Zenon DEF Joined
<1>17. PICK p9 : p9 = p8 \o a9
  OBVIOUS
<1>18. IsSeq(p9) /\ \A y : IsSeq(y) => p9 \o y = a1 \o (a2 \o (a3 \o (a4 \o (a5 \o (a6 \o (a7 \o (a8 \o (a9 \o y))))))))
  <2>1. IsSeq(a9) /\ IsSeq(p8)
    BY <1>16 DEF Parts
  <2>2. Joined(p8, a9, p9)
    BY <1>17, <2>1, Shift
  <2>3. QED
    BY <1>16, <2>2, Zenon DEF Joined
<1>19. PICK p10 : p10 = p9 \o a10
  OBVIOUS
<1>20. IsSeq(p10) /\ \A y : IsSeq(y) => p10 \o y = a1 \o (a2 \o (a3 \o (a4 \o (a5 \o (a6 \o (a7 \o (a8 \o (a9 \o (a10 \o y)))))))))
  <2>1. IsSeq(a10) /\ IsSeq(p9)
    BY <1>18 DEF Parts
  <2>2. Joined(p9, a10, p10)
    BY <1>19, <2>1, Shift
  <2>3. QED
    BY <1>18, <2>2, Zenon DEF Joined
<1>21. PICK p11 : p11 = p10 \o a11
  OBVIOUS
<1>22. IsSeq(p11) /\ \A y : IsSeq(y) => p11 \o y = a1 \o (a2 \o (a3 \o (a4 \o (a5 \o (a6 \o (a7 \o (a8 \o (a9 \o (a10 \o (a11 \o y))))))))))
  <2>1. IsSeq(a11) /\ IsSeq(p10)
    BY <1>20 DEF Parts
  <2>2. Joined(p10, a11, p11)
    BY <1>21, <2>1, Shift
  <2>3. QED
    BY <1>20, <2>2, Zenon DEF Joined
<1>23. PICK p12 : p12 = p11 \o a12
  OBVIOUS
<1>24. IsSeq(p12) /\ \A y : IsSeq(y) => p12 \o y = a1 \o (a2 \o (a3 \o (a4 \o (a5 \o (a6 \o (a7 \o (a8 \o (a9 \o (a10 \o (a11 \o (a12 \o y)))))))))))
  <2>1. IsSeq(a12) /\ IsSeq(p11)
    BY <1>22 DEF Parts
  <2>2. Joined(p11, a12, p12)
    BY <1>23, <2>1, Shift
  <2>3. QED
    BY <1>22, <2>2, Zenon DEF Joined
<1>25. PICK p13 : p13 = p12 \o a13
  OBVIOUS
<1>26. IsSeq(p13) /\ \A y : IsSeq(y) => p13 \o y = a1 \o (a2 \o (a3 \o (a4 \o (a5 \o (a6 \o (a7 \o (a8 \o (a9 \o (a10 \o (a11 \o (a12 \o (a13 \o y))))))))))))
  <2>1. IsSeq(a13) /\ IsSeq(p12)
    BY <1>24 DEF Parts
  <2>2. Joined(p12, a13, p13)
    BY <1>25, <2>1, Shift
  <2>3. QED
    BY <1>24, <2>2, Zenon DEF Joined
<1>27. PICK p14 : p14 = p13 \o a14
  OBVIOUS
<1>28. IsSeq(p14) /\ \A y : IsSeq(y) => p14 \o y = a1 \o (a2 \o (a3 \o (a4 \o (a5 \o (a6 \o (a7 \o (a8 \o (a9 \o (a10 \o (a11 \o (a12 \o (a13 \o (a14 \o y)))))))))))))
  <2>1. IsSeq(a14) /\ IsSeq(p13)
    BY <1>26 DEF Parts
  <2>2. Joined(p13, a14, p14)
    BY <1>27, <2>1, Shift
  <2>3. QED
    BY <1>26, <2>2, Zenon DEF Joined
<1>29. QED
  BY <1>1, <1>3, <1>5, <1>7, <1>9, <1>11, <1>13, <1>15, <1>17, <1>19, <1>21, <1>23, <1>25, <1>27, <1>4, <1>6, <1>8, <1>10, <1>12, <1>16, <1>22, <1>28, Zenon DEF Flat

\* Sets of pages that are mapped are finite sets of numbers.
LEMMA PagesCounted ==
  /\ \A V \in SUBSET MappedPages : V \in SUBSET Int /\ IsFiniteSet(V)
  /\ {LowPages, KernelPages, PML4Pages, BootPages, HeapPages, ProcHeapPages, HardwarePages, Window} \subseteq SUBSET MappedPages
<1>1. IsFiniteSet(MappedPages) /\ \A v \in MappedPages : v \in Int
  BY MappedFacts DEF Mappable
<1>2. \A V \in SUBSET MappedPages : V \in SUBSET Int /\ IsFiniteSet(V)
  BY <1>1, FS_Subset
<1>3. QED
  BY <1>2, MappedFacts DEF EarlyPages

\* The ranges that the kernel maps and unmaps.
LEMMA RangeIsSeq ==
  ASSUME NEW V \in SUBSET MappedPages, NEW by, NEW offset
  PROVE  /\ IsSeq(MapRange(by, V, offset)) /\ MapRange(by, V, offset) \in Seq(Maps(by, V, offset, TRUE))
         /\ \A v \in V : Mapped(MapRange(by, V, offset), v)
         /\ IsSeq(UnmapRange(V)) /\ UnmapRange(V) \in Seq(Unmaps(V))
         /\ IsSeq(Unset(MapRange(by, V, offset))) /\ Unset(MapRange(by, V, offset)) \in Seq(Maps(by, V, offset, FALSE))
         /\ \A v \in V : Mapped(Unset(MapRange(by, V, offset)), v)
<1>1. V \in SUBSET Int /\ IsFiniteSet(V)
  BY PagesCounted
<1>2. /\ MapRange(by, V, offset) \in Seq(Maps(by, V, offset, TRUE))
      /\ \A v \in V : Mapped(MapRange(by, V, offset), v)
  BY <1>1, MapRangeIs
<1>3. UnmapRange(V) \in Seq(Unmaps(V))
  BY <1>1, UnmapRangeIs
<1>4. /\ Unset(MapRange(by, V, offset)) \in Seq(Maps(by, V, offset, FALSE))
      /\ \A v \in V : Mapped(Unset(MapRange(by, V, offset)), v)
  BY <1>1, UnsetIs
<1>5. IsSeq(MapRange(by, V, offset)) /\ IsSeq(UnmapRange(V)) /\ IsSeq(Unset(MapRange(by, V, offset)))
  BY <1>2, <1>3, <1>4, Zenon DEF IsSeq
<1>6. QED
  BY <1>2, <1>3, <1>4, <1>5

\* The single instructions.
LEMMA SingleIsSeq ==
  /\ \A op : IsSeq(Do(op)) /\ \A id : IsSeq(DoFor(op, id))
  /\ \A F, pid : IsSeq(Mark(F, pid)) /\ IsSeq(SetRec(F, pid)) /\ IsSeq(SetCr3(F)) /\ IsSeq(Sysret(F)) /\ IsSeq(Clear(F))
BY OneIsSeq DEF Do, DoFor, Mark, Clear, SetRec, SetCr3, Sysret

\* kmain block by block.
LEMMA BootText ==
  /\ kmain = Code1 \o Rest1 /\ IsSeq(Rest1) /\ IsSeq(Rest1c) /\ IsSeq(Rest1a)
  /\ IsSeq(Rest2) /\ IsSeq(Rest2b) /\ IsSeq(Rest3)
<1>1. PICK cli, pi, sti, mark, mark1, mark0, cl, rec1, rec2, cr, ready, al, ex, L, K, P, H, B, W :
        /\ cli = Do("cli") /\ pi = Do("pic") /\ sti = Do("sti") /\ mark = Mark(FirstPages, 1)
        /\ mark1 = Mark({PML4_BOOT, BootMark}, 1) /\ mark0 = Mark({PML4_BOOT, BootMark}, 0)
        /\ cl = Clear(PML4_KERNEL) /\ rec1 = SetRec(PML4_BOOT, PML4_KERNEL) /\ rec2 = SetRec(PML4_KERNEL, PML4_KERNEL)
        /\ cr = SetCr3(PML4_KERNEL) /\ ready = Do("ready") /\ al = Do("alloc_proc") /\ ex = DoFor("exec", 2)
        /\ L = MapRange(kpcb, LowPages, 0) /\ K = MapRange(kpcb, KernelPages, 0) /\ P = MapRange(kpcb, PML4Pages, 0)
        /\ H = MapRange(kpcb, HeapPages, 0) /\ B = MapRange(kpcb, BootPages, BootOffset)
        /\ W = MapRange(kpcb, HardwarePages, 0)
  BY Zenon
<1>2. /\ IsSeq(cli) /\ IsSeq(pi) /\ IsSeq(sti) /\ IsSeq(mark) /\ IsSeq(mark1) /\ IsSeq(mark0) /\ IsSeq(cl) /\ IsSeq(rec1)
      /\ IsSeq(rec2) /\ IsSeq(cr) /\ IsSeq(ready) /\ IsSeq(al) /\ IsSeq(ex)
  BY <1>1, SingleIsSeq, Zenon
<1>3. IsSeq(L) /\ IsSeq(K) /\ IsSeq(P) /\ IsSeq(H) /\ IsSeq(B) /\ IsSeq(W)
  BY <1>1, PagesCounted, RangeIsSeq, Zenon
\* What is left at each of the points.
<1>4. PICK r3 : r3 = al \o ex /\ IsSeq(r3)
  BY <1>2, ConcatIsSeq
<1>5a. PICK h1 : h1 = W \o r3 /\ IsSeq(h1)
  BY <1>3, <1>4, ConcatIsSeq
<1>5b. PICK h2 : h2 = sti \o h1 /\ IsSeq(h2)
  BY <1>2, <1>5a, ConcatIsSeq
<1>5c. PICK h3 : h3 = ready \o h2 /\ IsSeq(h3)
  BY <1>2, <1>5b, ConcatIsSeq
<1>5d. PICK h4 : h4 = B \o h3 /\ IsSeq(h4)
  BY <1>3, <1>5c, ConcatIsSeq
<1>5e. PICK h5 : h5 = H \o h4 /\ IsSeq(h5)
  BY <1>3, <1>5d, ConcatIsSeq
<1>5f. PICK c1 : c1 = mark0 \o h5 /\ IsSeq(c1)
  BY <1>2, <1>5e, ConcatIsSeq
<1>5g. PICK c2 : c2 = cli \o c1 /\ IsSeq(c2)
  BY <1>2, <1>5f, ConcatIsSeq
<1>5h. PICK c3 : c3 = sti \o c2 /\ IsSeq(c3)
  BY <1>2, <1>5g, ConcatIsSeq
<1>5i. PICK c4 : c4 = cr \o c3 /\ IsSeq(c4)
  BY <1>2, <1>5h, ConcatIsSeq
<1>5j. PICK d1 : d1 = cli \o c4 /\ IsSeq(d1)
  BY <1>2, <1>5i, ConcatIsSeq
<1>5k. PICK d2 : d2 = P \o d1 /\ IsSeq(d2)
  BY <1>3, <1>5j, ConcatIsSeq
<1>5l. PICK d3 : d3 = K \o d2 /\ IsSeq(d3)
  BY <1>3, <1>5k, ConcatIsSeq
<1>5m. PICK d4 : d4 = L \o d3 /\ IsSeq(d4)
  BY <1>3, <1>5l, ConcatIsSeq
<1>5n. PICK d5 : d5 = mark \o d4 /\ IsSeq(d5)
  BY <1>2, <1>5m, ConcatIsSeq
<1>5o. PICK d6 : d6 = cli \o d5 /\ IsSeq(d6)
  BY <1>2, <1>5n, ConcatIsSeq
<1>5p. PICK r1a : r1a = rec2 \o d6 /\ IsSeq(r1a)
  BY <1>2, <1>5o, ConcatIsSeq
<1>5q. PICK r1c : r1c = rec1 \o r1a /\ IsSeq(r1c)
  BY <1>2, <1>5p, ConcatIsSeq
<1>5r. PICK r1 : r1 = cl \o r1c /\ IsSeq(r1)
  BY <1>2, <1>5q, ConcatIsSeq
\* The texts of the model.
<1>9. Rest3 = r3
  BY <1>1, <1>4 DEF Rest3
<1>10. Code3 \o r3 = h5
  <2>1. Parts(H, B, ready, sti, W, W, W, W, W, W, W, W, W, W)
    BY <1>2, <1>3 DEF Parts
  <2>f. Flat(H, B, ready, sti, W, W, W, W, W, W, W, W, W, W)
    BY <2>1, FlatLeft, Zenon
  <2>2. ((((H \o B) \o ready) \o sti) \o W) \o r3 = H \o (B \o (ready \o (sti \o (W \o r3))))
    BY <2>f, <1>4, Zenon DEF Flat
  <2>3. Code3 = (((H \o B) \o ready) \o sti) \o W
    BY <1>1, Zenon DEF Code3
  <2>4. QED
    BY <2>2, <2>3, <1>5a, <1>5b, <1>5c, <1>5d, <1>5e
<1>11. Rest2b = c1
  BY <1>1, <1>5f, <1>5g, <1>5h, <1>5i, <1>9, <1>10 DEF Rest2b
<1>12. Rest2 = c4
  <2>1. Code2b = sti \o cli
    BY <1>1 DEF Code2b
  <2>a. IsSeq(sti) /\ IsSeq(cli) /\ IsSeq(c1)
    BY <1>2, <1>5f
  <2>2. (sti \o cli) \o c1 = sti \o (cli \o c1)
    BY <2>a, Assoc, SMTT(30)
  <2>3. QED
    BY <2>1, <2>2, <1>1, <1>5f, <1>5g, <1>5h, <1>5i, <1>11 DEF Rest2
<1>13. Code2 \o c4 = d6
  <2>1. Parts(cli, mark, L, K, P, cli, cli, cli, cli, cli, cli, cli, cli, cli)
    BY <1>2, <1>3 DEF Parts
  <2>f. Flat(cli, mark, L, K, P, cli, cli, cli, cli, cli, cli, cli, cli, cli)
    BY <2>1, FlatLeft, Zenon
  <2>2. (((((cli \o mark) \o L) \o K) \o P) \o cli) \o c4 = cli \o (mark \o (L \o (K \o (P \o (cli \o c4)))))
    BY <2>f, <1>5f, <1>5g, <1>5h, <1>5i, Zenon DEF Flat
  <2>3. Code2 = ((((cli \o mark) \o L) \o K) \o P) \o cli
    BY <1>1, Zenon DEF Code2
  <2>4. QED
    BY <2>2, <2>3, <1>5j, <1>5k, <1>5l, <1>5m, <1>5n, <1>5o
<1>14. Rest1a = r1a /\ Rest1c = r1c /\ Rest1 = r1
  BY <1>1, <1>5p, <1>5q, <1>5r, <1>12, <1>13 DEF Rest1a, Rest1c, Rest1
<1>15. PICK e : e = cli \o (pi \o (sti \o (cli \o (mark \o (sti \o (cli \o (mark1 \o r1)))))))
  OBVIOUS
<1>16. Code1 \o r1 = e
  <2>1. Parts(cli, pi, sti, cli, mark, sti, cli, mark1, cli, cli, cli, cli, cli, cli)
    BY <1>2 DEF Parts
  <2>f. Flat(cli, pi, sti, cli, mark, sti, cli, mark1, cli, cli, cli, cli, cli, cli)
    BY <2>1, FlatLeft, Zenon
  <2>2. (((((((cli \o pi) \o sti) \o cli) \o mark) \o sti) \o cli) \o mark1) \o r1 = e
    BY <2>f, <1>5r, <1>15, Zenon DEF Flat
  <2>3. Code1 = ((((((cli \o pi) \o sti) \o cli) \o mark) \o sti) \o cli) \o mark1
    BY <1>1, Zenon DEF Code1
  <2>4. QED
    BY <2>2, <2>3
<1>17. PICK sw, ip, ik : sw = switch_context /\ ip = init_kernel_paging /\ ik = init_kernel_process
  BY SMTT(30)
<1>18. IsSeq(sw) /\ sw \o c2 = d6
  <2>1. Parts(cli, mark, L, K, P, cli, cr, sti, cli, cli, cli, cli, cli, cli)
    BY <1>2, <1>3 DEF Parts
  <2>f. Flat(cli, mark, L, K, P, cli, cr, sti, cli, cli, cli, cli, cli, cli)
    BY <2>1, FlatLeft, Zenon
  <2>2. (((((((cli \o mark) \o L) \o K) \o P) \o cli) \o cr) \o sti) \o c2 
        = cli \o (mark \o (L \o (K \o (P \o (cli \o (cr \o (sti \o c2)))))))
    BY <2>f, <1>5f, <1>5g, <1>5h, <1>5i, Zenon DEF Flat
  <2>3. sw = ((((((cli \o mark) \o L) \o K) \o P) \o cli) \o cr) \o sti
    BY <1>1, <1>17, Zenon DEF switch_context
  <2>4. IsSeq(((((((cli \o mark) \o L) \o K) \o P) \o cli) \o cr) \o sti)
    BY <2>f, Zenon DEF Flat
  <2>5. QED
    BY <2>2, <2>3, <2>4, <1>5f, <1>5g, <1>5h, <1>5i, <1>5j, <1>5k, <1>5l, <1>5m, <1>5n, <1>5o
<1>19. IsSeq(ip) /\ ip \o h5 = cli \o (mark \o (sti \o (cli \o (mark1 \o r1))))
  <2>1. Parts(cli, mark, sti, cli, mark1, cl, rec1, rec2, sw, cli, mark0, cli, cli, cli)
    BY <1>2, <1>18 DEF Parts
  <2>f. Flat(cli, mark, sti, cli, mark1, cl, rec1, rec2, sw, cli, mark0, cli, cli, cli)
    BY <2>1, FlatLeft, Zenon
  <2>2. ((((((((((cli \o mark) \o sti) \o cli) \o mark1) \o cl) \o rec1) \o rec2) \o sw) \o cli) \o mark0) \o h5
        = cli \o (mark \o (sti \o (cli \o (mark1 \o (cl \o (rec1 \o (rec2 \o (sw \o (cli \o (mark0 \o h5))))))))))
    BY <2>f, <1>5a, <1>5b, <1>5c, <1>5d, <1>5e, Zenon DEF Flat
  <2>3. ip = (((((((((cli \o mark) \o sti) \o cli) \o mark1) \o cl) \o rec1) \o rec2) \o sw) \o cli) \o mark0
    BY <1>1, <1>17, Zenon DEF init_kernel_paging
  <2>4. IsSeq((((((((((cli \o mark) \o sti) \o cli) \o mark1) \o cl) \o rec1) \o rec2) \o sw) \o cli) \o mark0)
    BY <2>f, Zenon DEF Flat
  <2>5. cli \o (mark0 \o h5) = c2 /\ cl \o (rec1 \o (rec2 \o d6)) = r1
    BY <1>5f, <1>5g, <1>5h, <1>5i, <1>5p, <1>5q, <1>5r
  <2>6. QED
    BY <2>2, <2>3, <2>4, <2>5, <1>18
<1>20. IsSeq(ik) /\ ik \o h3 = ip \o h5
  <2>1. ik = (ip \o H) \o B
    BY <1>1, <1>17, Zenon DEF init_kernel_process, BootOffset
  <2>2. Parts(ip, H, B, B, B, B, B, B, B, B, B, B, B, B)
    BY <1>3, <1>19 DEF Parts
  <2>f. Flat(ip, H, B, B, B, B, B, B, B, B, B, B, B, B)
    BY <2>2, FlatLeft, Zenon
  <2>3. ((ip \o H) \o B) \o h3 = ip \o (H \o (B \o h3)) /\ IsSeq((ip \o H) \o B)
    BY <2>f, <1>5a, <1>5b, <1>5c, <1>5d, <1>5e, Zenon DEF Flat
  <2>4. QED
    BY <2>1, <2>3, <1>5a, <1>5b, <1>5c, <1>5d, <1>5e
<1>21. kmain = e
  <2>1. Parts(cli, pi, sti, ik, ready, sti, W, al, cli, cli, cli, cli, cli, cli)
    BY <1>2, <1>3, <1>20 DEF Parts
  <2>f. Flat(cli, pi, sti, ik, ready, sti, W, al, cli, cli, cli, cli, cli, cli)
    BY <2>1, FlatLeft, Zenon
  <2>2. (((((((cli \o pi) \o sti) \o ik) \o ready) \o sti) \o W) \o al) \o ex
        = cli \o (pi \o (sti \o (ik \o (ready \o (sti \o (W \o (al \o ex)))))))
    BY <2>f, <1>2, Zenon DEF Flat
  <2>3. kmain = (((((((cli \o pi) \o sti) \o ik) \o ready) \o sti) \o W) \o al) \o ex
    BY <1>1, <1>17, Zenon DEF kmain
  <2>4. ready \o (sti \o (W \o (al \o ex))) = h3
    BY <1>4, <1>5a, <1>5b, <1>5c, <1>5d, <1>5e
  <2>5. QED
    BY <2>2, <2>3, <2>4, <1>15, <1>19, <1>20
<1>22. QED
  BY <1>4, <1>5f, <1>5g, <1>5h, <1>5i, <1>5p, <1>5q, <1>5r, <1>9, <1>11, <1>12, <1>14, <1>16, <1>21

\* The parts of alloc_proc and exec.
LEMMA PartsAreSeq ==
  ASSUME NEW id, NEW q \in MappedPages, NEW by, NEW offset
  PROVE  /\ IsSeq(MapRange(by, {q}, 0)) /\ IsSeq(MapWindow(by, offset))
         /\ IsSeq(MapRange(by, KernelPages, 0)) /\ IsSeq(MapRange(by, BootPages, BootOffset)) /\ IsSeq(MapRange(by, ProcHeapPages, 0))
         /\ IsSeq(UnmapRange(Window)) /\ IsSeq(Unset(MapWindow(by, offset)))
<1>1. {q} \in SUBSET MappedPages
  OBVIOUS
<1>2. IsSeq(MapRange(by, {q}, 0))
  BY <1>1, RangeIsSeq
<1>3. /\ Window \in SUBSET MappedPages /\ KernelPages \in SUBSET MappedPages
      /\ BootPages \in SUBSET MappedPages /\ ProcHeapPages \in SUBSET MappedPages
  BY PagesCounted
<1>4. IsSeq(MapWindow(by, offset)) /\ IsSeq(UnmapRange(Window)) /\ IsSeq(Unset(MapWindow(by, offset)))
  BY <1>3, RangeIsSeq DEF MapWindow
<1>5. IsSeq(MapRange(by, KernelPages, 0)) /\ IsSeq(MapRange(by, BootPages, BootOffset)) /\ IsSeq(MapRange(by, ProcHeapPages, 0))
  BY <1>3, RangeIsSeq
<1>6. QED
  BY <1>2, <1>4, <1>5

AllocIs(id, q, z) ==
  /\ AllocProcTables(id, q, Slot(id - 2)) \o Rest6b(id, z) = CodeOwn(id, q) \o Rest4(id, q, z)
  /\ IsSeq(Rest4(id, q, z)) /\ IsSeq(Rest4a(id, q, z)) /\ IsSeq(Code5(id, q)) /\ IsSeq(Code5(id, q) \o Rest5(id, z))
  /\ IsSeq(Rest5(id, z)) /\ IsSeq(UnmapRange(Window) \o Rest6(id, z))
  /\ IsSeq(Rest6(id, z)) /\ IsSeq((Do("ready") \o Do("sti")) \o Rest6b(id, z)) /\ IsSeq(Rest6b(id, z))

\* The instructions of alloc_proc, in blocks.
LEMMA AllocText ==
  ASSUME NEW id, NEW q \in MappedPages, NEW z, IsSeq(z)
  PROVE  AllocIs(id, q, z)
<1>1. PICK a1, a2, a3, a4, a5, a6, a7, a8, a9, a10, a11, a12, a13, a14, a15 :
        /\ a1 = MapRange(kpcb, {q}, 0) /\ a2 = MapWindow(kpcb, Slot(id - 2)) /\ a3 = SetRec(q, q) /\ a4 = SetRec(PML4_KERNEL, q)
        /\ a5 = MapRange(id, {q}, 0) /\ a6 = MapWindow(id, Slot(id - 2)) /\ a7 = MapRange(id, KernelPages, 0)
        /\ a8 = MapRange(id, BootPages, BootOffset) /\ a9 = MapRange(id, ProcHeapPages, 0)
        /\ a10 = SetRec(PML4_KERNEL, PML4_KERNEL) /\ a11 = UnmapRange(Window) /\ a12 = DoFor("list", id)
        /\ a13 = Do("ready") /\ a14 = Do("sti") /\ a15 = DoFor("exec", id)
  BY Zenon
<1>2. IsSeq(a3) /\ IsSeq(a4) /\ IsSeq(a10) /\ IsSeq(a12) /\ IsSeq(a13) /\ IsSeq(a14) /\ IsSeq(a15)
  BY <1>1, SingleIsSeq, Zenon
<1>3. IsSeq(a1) /\ IsSeq(a2) /\ IsSeq(a5) /\ IsSeq(a6) /\ IsSeq(a7) /\ IsSeq(a8) /\ IsSeq(a9) /\ IsSeq(a11)
  BY <1>1, PartsAreSeq, Zenon
<1>4. Parts(a1, a2, a3, a4, a5, a6, a7, a8, a9, a10, a11, a12, a13, a14)
  BY <1>2, <1>3 DEF Parts
<1>5. Flat(a1, a2, a3, a4, a5, a6, a7, a8, a9, a10, a11, a12, a13, a14)
  BY <1>4, FlatLeft, Zenon
<1>6. PICK y : y = a15 \o z /\ IsSeq(y)
  BY <1>2, ConcatIsSeq
<1>7. PICK y14 : y14 = a14 \o y /\ IsSeq(y14)
  BY <1>2, <1>6, ConcatIsSeq
<1>8. PICK y13 : y13 = a13 \o y14 /\ IsSeq(y13)
  BY <1>2, <1>7, ConcatIsSeq
<1>9. PICK y12 : y12 = a12 \o y13 /\ IsSeq(y12)
  BY <1>2, <1>8, ConcatIsSeq
<1>10. PICK y11 : y11 = a11 \o y12 /\ IsSeq(y11)
  BY <1>3, <1>9, ConcatIsSeq
<1>11. PICK y10 : y10 = a10 \o y11 /\ IsSeq(y10)
  BY <1>2, <1>10, ConcatIsSeq
<1>12. PICK c5 : c5 = (((a5 \o a6) \o a7) \o a8) \o a9
  OBVIOUS
<1>13. IsSeq(c5) /\ c5 \o y10 = a5 \o (a6 \o (a7 \o (a8 \o (a9 \o y10))))
  <2>1. Parts(a5, a6, a7, a8, a9, a9, a9, a9, a9, a9, a9, a9, a9, a9)
    BY <1>3 DEF Parts
  <2>2. Flat(a5, a6, a7, a8, a9, a9, a9, a9, a9, a9, a9, a9, a9, a9)
    BY <2>1, FlatLeft, Zenon
  <2>3. QED
    BY <2>2, <1>11, <1>12, Zenon DEF Flat
<1>14. PICK y5 : y5 = c5 \o y10 /\ IsSeq(y5)
  BY <1>11, <1>13, ConcatIsSeq
<1>15. PICK y4 : y4 = a4 \o y5 /\ IsSeq(y4)
  BY <1>2, <1>14, ConcatIsSeq
<1>16. PICK y3 : y3 = a3 \o y4 /\ IsSeq(y3)
  BY <1>2, <1>15, ConcatIsSeq
<1>17. (a13 \o a14) \o y = y13
  <2>1. IsSeq(a13) /\ IsSeq(a14) /\ IsSeq(y)
    BY <1>2, <1>6
  <2>2. (a13 \o a14) \o y = a13 \o (a14 \o y)
    BY <2>1, Assoc
  <2>3. QED
    BY <2>2, <1>7, <1>8
<1>18. Rest6b(id, z) = y /\ Rest6(id, z) = y12 /\ Rest5(id, z) = y10 /\ Code5(id, q) = c5
  BY <1>1, <1>6, <1>9, <1>10, <1>11, <1>12, <1>17, Zenon DEF Rest6b, Rest6, Rest5, Code5
<1>19. Rest4a(id, q, z) = y4 /\ Rest4(id, q, z) = y3
  BY <1>1, <1>14, <1>15, <1>16, <1>18, Zenon DEF Rest4a, Rest4
<1>20. CodeOwn(id, q) = a1 \o a2
  BY <1>1, Zenon DEF CodeOwn
<1>21. (a1 \o a2) \o y3 = a1 \o (a2 \o y3)
  BY <1>5, <1>16, Zenon DEF Flat
<1>22. AllocProcTables(id, q, Slot(id - 2))
       = ((((((((((((a1 \o a2) \o a3) \o a4) \o a5) \o a6) \o a7) \o a8) \o a9) \o a10) \o a11) \o a12) \o a13) \o a14
  BY <1>1, Zenon DEF AllocProcTables, BootOffset
<1>23. (((((((((((((a1 \o a2) \o a3) \o a4) \o a5) \o a6) \o a7) \o a8) \o a9) \o a10) \o a11) \o a12) \o a13) \o a14) \o y
       = a1 \o (a2 \o (a3 \o (a4 \o (a5 \o (a6 \o (a7 \o (a8 \o (a9 \o (a10 \o (a11 \o (a12 \o (a13 \o (a14 \o y)))))))))))))
  BY <1>5, <1>6, ZenonT(60) DEF Flat
<1>24. AllocProcTables(id, q, Slot(id - 2)) \o y = a1 \o (a2 \o y3)
  BY <1>22, <1>23, <1>7, <1>8, <1>9, <1>10, <1>11, <1>13, <1>14, <1>15, <1>16
<1>25. QED
  BY <1>1, <1>6, <1>8, <1>9, <1>10, <1>11, <1>13, <1>14, <1>15, <1>16, <1>17, <1>18, <1>19, <1>20, <1>21, <1>24
     DEF AllocIs

RunIs(q) ==
  /\ IsSeq(RunFirst(q)) /\ IsSeq(Code8) /\ IsSeq(Code8 \o Rest8(q)) /\ IsSeq(Rest8(q))
  /\ DoFor("current", 2) \o Unset(MapWindow(kpcb, Slot(0))) \o SetCr3(q) \o DoFor("jump_usermode", 2) = RunFirst(q)

\* run_proc block by block.
LEMMA RunText ==
  ASSUME NEW q
  PROVE  RunIs(q)
<1>1. PICK a1, a2, a3, a4 : /\ a1 = DoFor("current", 2) /\ a2 = Unset(MapWindow(kpcb, Slot(0)))
                            /\ a3 = SetCr3(q) /\ a4 = DoFor("jump_usermode", 2)
  BY Zenon
<1>2. IsSeq(a1) /\ IsSeq(a3) /\ IsSeq(a4)
  BY <1>1, SingleIsSeq, Zenon
<1>3. IsSeq(a2)
  BY <1>1, PagesCounted, RangeIsSeq DEF MapWindow
<1>4. Parts(a1, a2, a3, a4, a4, a4, a4, a4, a4, a4, a4, a4, a4, a4)
  BY <1>2, <1>3 DEF Parts
<1>5. Flat(a1, a2, a3, a4, a4, a4, a4, a4, a4, a4, a4, a4, a4, a4)
  BY <1>4, FlatLeft, Zenon
<1>6. PICK y3 : y3 = a3 \o a4 /\ IsSeq(y3)
  BY <1>2, ConcatIsSeq
<1>7. PICK y2 : y2 = a2 \o y3 /\ IsSeq(y2)
  BY <1>3, <1>6, ConcatIsSeq
<1>8. PICK y1 : y1 = a1 \o y2 /\ IsSeq(y1)
  BY <1>2, <1>7, ConcatIsSeq
<1>9. Rest8(q) = y3 /\ Code8 = a2 /\ RunFirst(q) = y1
  BY <1>1, <1>6, <1>7, <1>8, Zenon DEF Rest8, Code8, RunFirst
<1>10. ((a1 \o a2) \o a3) \o a4 = a1 \o (a2 \o (a3 \o a4))
  BY <1>2, <1>5, Zenon DEF Flat
<1>11. ((a1 \o a2) \o a3) \o a4 = y1
  BY <1>6, <1>7, <1>8, <1>10
<1>12. DoFor("current", 2) \o Unset(MapWindow(kpcb, Slot(0))) \o SetCr3(q) \o DoFor("jump_usermode", 2) = y1
  BY <1>1, <1>11, Zenon
<1>13. QED
  BY <1>3, <1>6, <1>7, <1>8, <1>9, <1>12 DEF RunIs

ExecIs(id, q, z) ==
  /\ IsSeq(Rest7(id, q, z)) /\ IsSeq(Rest7b(id, q, z)) /\ IsSeq(CodeOwn(id, q)) /\ IsSeq(z)
  /\ PmlOf(id) = q /\ pcbs[id].real_mem_addr = Slot(id - 2) /\ (current_pcb = NULL <=> id = 2)
     => ExecTail(id) \o z = CodeOwn(id, q) \o Rest7(id, q, z)

\* The instructions of exec, by the kernel and by a process.
LEMMA ExecText ==
  ASSUME NEW id \in {2, 3}, NEW q \in MappedPages, NEW z \in Tails(id)
  PROVE  ExecIs(id, q, z)
<1>1. PICK o1, o2, u, cp, cu, f, r :
        /\ o1 = MapRange(kpcb, {q}, 0) /\ o2 = MapWindow(kpcb, Slot(id - 2)) /\ u = UnmapRange(Window)
        /\ cp = DoFor("copy_regs", id) /\ cu = DoFor("current", id) /\ f = DoFor("first", 2) /\ r = RunFirst(q)
  BY Zenon
<1>2. IsSeq(cp) /\ IsSeq(cu) /\ IsSeq(f)
  BY <1>1, SingleIsSeq, Zenon
<1>3. IsSeq(o1) /\ IsSeq(o2) /\ IsSeq(u)
  BY <1>1, PartsAreSeq, Zenon
<1>4. IsSeq(r)
  BY <1>1, RunText DEF RunIs
<1>5. IsSeq(z)
  <2>1. CASE id = 2
    BY <2>1, OneIsSeq DEF Tails
  <2>2. CASE id = 3
    <3>1. PICK c : z = SetCr3(c) \o Sysret("exec")
      BY <2>2 DEF Tails
    <3>2. IsSeq(SetCr3(c)) /\ IsSeq(Sysret("exec"))
      BY SingleIsSeq, Zenon
    <3>3. QED
      BY <3>1, <3>2, ConcatIsSeq
  <2>3. QED
    BY <2>1, <2>2
<1>6. PICK own : own = o1 \o o2 /\ IsSeq(own)
  BY <1>3, ConcatIsSeq
<1>7. CodeOwn(id, q) = own
  BY <1>1, <1>6, Zenon DEF CodeOwn
<1>8. Parts(cp, cu, o1, o2, o2, o2, o2, o2, o2, o2, o2, o2, o2, o2) /\ Parts(o1, o2, u, u, u, u, u, u, u, u, u, u, u, u)
      /\ Parts(cu, own, u, u, u, u, u, u, u, u, u, u, u, u)
  BY <1>2, <1>3, <1>6 DEF Parts
<1>9. Flat(cp, cu, o1, o2, o2, o2, o2, o2, o2, o2, o2, o2, o2, o2)
  BY <1>8, FlatLeft, Zenon
<1>10. Flat(o1, o2, u, u, u, u, u, u, u, u, u, u, u, u)
  BY <1>8, FlatLeft, Zenon
<1>11. Flat(cu, own, u, u, u, u, u, u, u, u, u, u, u, u)
  BY <1>8, FlatLeft, Zenon
\* What comes after the window is unmapped again.
<1>12. PICK t : t = IF id = 2 THEN f \o r ELSE ((cp \o cu) \o o1) \o o2
  OBVIOUS
<1>13. IsSeq(t) /\ IsSeq(t \o z) /\ t \o z = Rest7b(id, q, z)
  <2>1. CASE id = 2
    <3>1. t = f \o r
      BY <2>1, <1>12
    <3>2. IsSeq(t)
      BY <3>1, <1>2, <1>4, ConcatIsSeq
    <3>3. z = <<>>
      BY <2>1 DEF Tails
    <3>4. t \o z = t
      BY <3>2, <3>3, ConcatEmptySeq DEF IsSeq
    <3>5. Rest7b(id, q, z) = t
      BY <1>1, <2>1, <3>1 DEF Rest7b
    <3>6. QED
      BY <3>2, <3>4, <3>5
  <2>2. CASE id = 3
    <3>1. t = ((cp \o cu) \o o1) \o o2
      BY <2>2, <1>12
    <3>2. IsSeq(t) /\ t \o z = cp \o (cu \o (o1 \o (o2 \o z)))
      BY <3>1, <1>5, <1>9, Zenon DEF Flat
    <3>3. IsSeq(t \o z)
      BY <3>2, <1>5, ConcatIsSeq
    <3>4. own \o z = o1 \o (o2 \o z)
      BY <1>5, <1>6, <1>10, Zenon DEF Flat
    <3>5. (cu \o own) \o z = cu \o (own \o z)
      BY <1>5, <1>11, Zenon DEF Flat
    <3>6. Rest7b(id, q, z) = cp \o ((cu \o own) \o z)
      BY <1>1, <1>7, <2>2 DEF Rest7b
    <3>7. QED
      BY <3>2, <3>3, <3>4, <3>5, <3>6
  <2>3. QED
    BY <2>1, <2>2
<1>14. PICK y : y = t \o z /\ IsSeq(y)
  BY <1>13
<1>15. PICK x : x = u \o y /\ IsSeq(x)
  BY <1>3, <1>14, ConcatIsSeq
<1>16. Rest7(id, q, z) = x
  BY <1>1, <1>13, <1>14, <1>15 DEF Rest7
<1>17. ((o1 \o o2) \o u) \o y = o1 \o (o2 \o (u \o y)) /\ own \o x = o1 \o (o2 \o x) /\ IsSeq((o1 \o o2) \o u)
  BY <1>6, <1>10, <1>14, <1>15, Zenon DEF Flat
<1>18. PICK l : l = (o1 \o o2) \o u
  OBVIOUS
<1>19. (l \o t) \o z = l \o (t \o z)
  <2>1. IsSeq(l) /\ IsSeq(t) /\ IsSeq(z)
    BY <1>5, <1>13, <1>17, <1>18
  <2>2. QED
    BY <2>1, Assoc
<1>20. (l \o t) \o z = own \o x
  BY <1>14, <1>15, <1>17, <1>18, <1>19
<1>21. ASSUME PmlOf(id) = q, pcbs[id].real_mem_addr = Slot(id - 2), current_pcb = NULL <=> id = 2
       PROVE  ExecTail(id) = l \o t
  <2>1. load_proc_mem(id) = l
    BY <1>1, <1>18, <1>21, Zenon DEF load_proc_mem, MapOwnPml4, PmlOf
  <2>2. CASE id = 2
    <3>1. run_proc(2) = r
      <4>1. run_proc(2) = DoFor("current", 2) \o Unset(MapWindow(kpcb, Slot(0))) \o SetCr3(q) \o DoFor("jump_usermode", 2)
        <5>1. pcbs[2].pml4 = q /\ pcbs[2].real_mem_addr = Slot(0)
          BY <1>21, <2>2 DEF PmlOf
        <5>2. QED
          BY <5>1, Zenon DEF run_proc
      <4>2. QED
        BY <4>1, <1>1, RunText DEF RunIs
    <3>2. ExecTail(id) = l \o (f \o r)
      BY <1>1, <1>21, <2>1, <2>2, <3>1 DEF ExecTail
    <3>3. QED
      BY <3>2, <2>2, <1>12
  <2>3. CASE id = 3
    <3>1. ExecTail(id) = l \o (((cp \o cu) \o o1) \o o2)
      BY <1>1, <1>21, <2>1, <2>3, SMTT(30) DEF ExecTail, MapOwnPml4, PmlOf
    <3>2. QED
      BY <3>1, <2>3, <1>12
  <2>4. QED
    BY <2>2, <2>3
<1>22. QED
  BY <1>5, <1>6, <1>7, <1>13, <1>14, <1>15, <1>16, <1>20, <1>21 DEF ExecIs

------------------------------------------------------------------------------
\* The instructions of the blocks.

\* Joining sequences of the same elements.
LEMMA JoinSeq ==
  ASSUME NEW B, NEW s \in Seq(B), NEW t \in Seq(B)
  PROVE  s \o t \in Seq(B)
BY ConcatProperties

\* A sequence of elements of A is one of elements of a larger set.
LEMMA InLarger ==
  ASSUME NEW A, NEW B, A \subseteq B, NEW s \in Seq(A)
  PROVE  s \in Seq(B)
BY SeqMonotonic

Has(s, x) == \E k \in DOMAIN s : s[k] = x

\* What is in a part is in the whole.
LEMMA HasConcat ==
  ASSUME NEW a, NEW b, IsSeq(a), IsSeq(b), NEW x, Has(a, x) \/ Has(b, x)
  PROVE  Has(a \o b, x)
<1>1. PICK T : a \in Seq(T) /\ b \in Seq(T)
  BY ConcatIsSeq
<1>2. /\ Len(a \o b) = Len(a) + Len(b) /\ Len(a) \in Nat /\ Len(b) \in Nat
      /\ DOMAIN a = 1 .. Len(a) /\ DOMAIN b = 1 .. Len(b) /\ DOMAIN (a \o b) = 1 .. Len(a) + Len(b)
      /\ \A i \in 1 .. Len(a) + Len(b) : (a \o b)[i] = IF i <= Len(a) THEN a[i] ELSE b[i - Len(a)]
  BY <1>1, ConcatProperties, LenProperties
<1>3. PICK z : z = a \o b
  OBVIOUS
<1>4. ASSUME Has(a, x) PROVE Has(z, x)
  <2>1. PICK k \in DOMAIN a : a[k] = x
    BY <1>4 DEF Has
  <2>2. k \in DOMAIN z /\ z[k] = a[k]
    BY <1>2, <1>3
  <2>3. QED
    BY <2>1, <2>2 DEF Has
<1>5. ASSUME Has(b, x) PROVE Has(z, x)
  <2>1. PICK k \in DOMAIN b : b[k] = x
    BY <1>5 DEF Has
  <2>2. k + Len(a) \in DOMAIN z /\ z[k + Len(a)] = b[k]
    BY <1>2, <1>3
  <2>3. QED
    BY <2>1, <2>2 DEF Has
<1>6. QED
  BY <1>3, <1>4, <1>5

\* The first block of kmain marks kernel and low memory.
LEMMA BootBlock1 ==
  /\ Code1 \in Seq(Block1)
  /\ \A f \in FirstPages : Low(Code1, f)
<1>1. PICK cli, pi, sti, mark, mark1, S, x :
        /\ cli = Do("cli") /\ pi = Do("pic") /\ sti = Do("sti") /\ mark = Mark(FirstPages, 1)
        /\ mark1 = Mark({PML4_BOOT, BootMark}, 1) /\ S = Block1
        /\ x = [op |-> "mark", frames |-> FirstPages, pid |-> 1]
  BY Zenon
<1>2. cli \in Seq(S) /\ pi \in Seq(S) /\ sti \in Seq(S)
  <2>1. [op |-> "cli"] \in S /\ [op |-> "pic"] \in S /\ [op |-> "sti"] \in S
    BY <1>1 DEF Block1, Ops
  <2>2. QED
    BY <2>1, <1>1 DEF Do
<1>3. mark \in Seq(S) /\ mark1 \in Seq(S) /\ mark = <<x>>
  <2>1. x \in S /\ [op |-> "mark", frames |-> {PML4_BOOT, BootMark}, pid |-> 1] \in S
    BY <1>1 DEF Block1, Marks
  <2>2. QED
    BY <2>1, <1>1 DEF Mark
<1>4. PICK p4 : p4 = ((cli \o pi) \o sti) \o cli /\ p4 \in Seq(S)
  BY <1>2, JoinSeq
<1>5. PICK p5 : p5 = p4 \o mark /\ p5 \in Seq(S)
  BY <1>3, <1>4, JoinSeq
<1>6. PICK p6 : p6 = p5 \o sti /\ p6 \in Seq(S)
  BY <1>2, <1>5, JoinSeq
<1>7. PICK p7 : p7 = p6 \o cli /\ p7 \in Seq(S)
  BY <1>2, <1>6, JoinSeq
<1>8. PICK p8 : p8 = p7 \o mark1 /\ p8 \in Seq(S)
  BY <1>3, <1>7, JoinSeq
<1>9. Code1 = p8
  BY <1>1, <1>4, <1>5, <1>6, <1>7, <1>8, Zenon DEF Code1
<1>10. Has(mark, x)
  BY <1>3 DEF Has
<1>11. IsSeq(mark) /\ IsSeq(p4) /\ IsSeq(p5) /\ IsSeq(p6) /\ IsSeq(p7) /\ IsSeq(sti) /\ IsSeq(cli) /\ IsSeq(mark1)
  BY <1>2, <1>3, <1>4, <1>5, <1>6, <1>7, Zenon DEF IsSeq
<1>12. Has(p5, x)
  BY <1>5, <1>10, <1>11, HasConcat
<1>13. Has(p6, x)
  BY <1>6, <1>11, <1>12, HasConcat
<1>14. Has(p7, x)
  BY <1>7, <1>11, <1>13, HasConcat
<1>15. Has(p8, x)
  BY <1>8, <1>11, <1>14, HasConcat
<1>16. PICK k \in DOMAIN p8 : p8[k] = x
  BY <1>15 DEF Has
<1>17. x.op = "mark" /\ x.frames = FirstPages
  BY <1>1
<1>18. QED
  BY <1>1, <1>8, <1>9, <1>16, <1>17 DEF Low

\* The block that builds the kernel's tables maps and marks the kernel's PML4.
LEMMA BootBlock2 ==
  /\ Code2 \in Seq(Block2)
  /\ \A f \in PML4Pages : Mapped(Code2, f)
<1>1. PICK cli, mark, L, K, P, S :
        /\ cli = Do("cli") /\ mark = Mark(FirstPages, 1) /\ S = Block2
        /\ L = MapRange(kpcb, LowPages, 0) /\ K = MapRange(kpcb, KernelPages, 0) /\ P = MapRange(kpcb, PML4Pages, 0)
  BY Zenon
<1>2. cli \in Seq(S) /\ mark \in Seq(S)
  <2>1. [op |-> "cli"] \in S /\ [op |-> "mark", frames |-> FirstPages, pid |-> 1] \in S
    BY <1>1 DEF Block2, Ops, Marks
  <2>2. QED
    BY <2>1, <1>1 DEF Do, Mark
<1>3. /\ LowPages \in SUBSET MappedPages /\ KernelPages \in SUBSET MappedPages /\ PML4Pages \in SUBSET MappedPages
  BY PagesCounted
<1>4. /\ L \in Seq(Maps(kpcb, LowPages, 0, TRUE)) /\ K \in Seq(Maps(kpcb, KernelPages, 0, TRUE))
      /\ P \in Seq(Maps(kpcb, PML4Pages, 0, TRUE)) /\ \A f \in PML4Pages : Mapped(P, f)
  BY <1>1, <1>3, RangeIsSeq, Zenon
<1>5. /\ Maps(kpcb, LowPages, 0, TRUE) \subseteq S /\ Maps(kpcb, KernelPages, 0, TRUE) \subseteq S
      /\ Maps(kpcb, PML4Pages, 0, TRUE) \subseteq S
  BY <1>1, Zenon DEF Block2, Maps, EarlyPages
<1>6. L \in Seq(S) /\ K \in Seq(S) /\ P \in Seq(S)
  BY <1>4, <1>5, InLarger
<1>7. PICK p4 : p4 = ((cli \o mark) \o L) \o K /\ p4 \in Seq(S)
  BY <1>2, <1>6, JoinSeq
<1>8. PICK p5 : p5 = p4 \o P /\ p5 \in Seq(S)
  BY <1>6, <1>7, JoinSeq
<1>9. PICK p6 : p6 = p5 \o cli /\ p6 \in Seq(S)
  BY <1>2, <1>8, JoinSeq
<1>10. Code2 = p6
  BY <1>1, <1>7, <1>8, <1>9, Zenon DEF Code2
<1>11. IsSeq(p4) /\ IsSeq(P) /\ IsSeq(p5) /\ IsSeq(cli)
  BY <1>2, <1>6, <1>7, <1>8, Zenon DEF IsSeq
<1>12. \A f \in PML4Pages : Mapped(p5, f)
  BY <1>4, <1>8, <1>11, MappedConcat
<1>13. \A f \in PML4Pages : Mapped(p6, f)
  BY <1>9, <1>11, <1>12, MappedConcat
<1>14. QED
  BY <1>1, <1>9, <1>10, <1>13

\* The blocks from cr3 to the first process.
LEMMA BootBlock3 ==
  /\ Code2b \in Seq(Ops({"sti", "cli"})) /\ Code3 \in Seq(Block3)
  /\ \A v \in HeapPages \cup HardwarePages : Mapped(Code3, v)
  /\ Do("ready") \o Do("sti") \in Seq(Ops({"ready", "sti"}))
<1>1. Code2b \in Seq(Ops({"sti", "cli"})) /\ Do("ready") \o Do("sti") \in Seq(Ops({"ready", "sti"}))
  <2>1. /\ Do("sti") \in Seq(Ops({"sti", "cli"})) /\ Do("cli") \in Seq(Ops({"sti", "cli"}))
        /\ Do("ready") \in Seq(Ops({"ready", "sti"})) /\ Do("sti") \in Seq(Ops({"ready", "sti"}))
    <3>1. /\ [op |-> "sti"] \in Ops({"sti", "cli"}) /\ [op |-> "cli"] \in Ops({"sti", "cli"})
          /\ [op |-> "ready"] \in Ops({"ready", "sti"}) /\ [op |-> "sti"] \in Ops({"ready", "sti"})
      BY DEF Ops
    <3>2. QED
      BY <3>1 DEF Do
  <2>2. QED
    BY <2>1, JoinSeq DEF Code2b
<1>2. PICK ready, sti, H, B, W, S :
        /\ ready = Do("ready") /\ sti = Do("sti") /\ S = Block3
        /\ H = MapRange(kpcb, HeapPages, 0) /\ B = MapRange(kpcb, BootPages, BootOffset)
        /\ W = MapRange(kpcb, HardwarePages, 0)
  BY Zenon
<1>3. ready \in Seq(S) /\ sti \in Seq(S)
  <2>1. [op |-> "ready"] \in S /\ [op |-> "sti"] \in S
    BY <1>2 DEF Block3, Ops
  <2>2. QED
    BY <2>1, <1>2 DEF Do
<1>4. /\ HeapPages \in SUBSET MappedPages /\ BootPages \in SUBSET MappedPages /\ HardwarePages \in SUBSET MappedPages
  BY PagesCounted
<1>5. /\ H \in Seq(Maps(kpcb, HeapPages, 0, TRUE)) /\ B \in Seq(Maps(kpcb, BootPages, BootOffset, TRUE))
      /\ W \in Seq(Maps(kpcb, HardwarePages, 0, TRUE))
      /\ (\A v \in HeapPages : Mapped(H, v)) /\ \A v \in HardwarePages : Mapped(W, v)
  BY <1>2, <1>4, RangeIsSeq, Zenon
<1>6. /\ Maps(kpcb, HeapPages, 0, TRUE) \subseteq S /\ Maps(kpcb, BootPages, BootOffset, TRUE) \subseteq S
      /\ Maps(kpcb, HardwarePages, 0, TRUE) \subseteq S
  BY <1>2, Zenon DEF Block3, Maps
<1>7. H \in Seq(S) /\ B \in Seq(S) /\ W \in Seq(S)
  BY <1>5, <1>6, InLarger
<1>8. (((H \o B) \o ready) \o sti) \o W \in Seq(S)
  BY <1>3, <1>7, JoinSeq
<1>9. Code3 = (((H \o B) \o ready) \o sti) \o W
  BY <1>2, Zenon DEF Code3
<1>10. PICK p2, p3, p4, p5 : p2 = H \o B /\ p3 = p2 \o ready /\ p4 = p3 \o sti /\ p5 = p4 \o W
  OBVIOUS
<1>11. p2 \in Seq(S) /\ p3 \in Seq(S) /\ p4 \in Seq(S)
  BY <1>3, <1>7, <1>10, JoinSeq
<1>12. IsSeq(H) /\ IsSeq(B) /\ IsSeq(ready) /\ IsSeq(sti) /\ IsSeq(W) /\ IsSeq(p2) /\ IsSeq(p3) /\ IsSeq(p4)
  BY <1>3, <1>7, <1>11, Zenon DEF IsSeq
<1>13. ASSUME NEW v \in HeapPages \cup HardwarePages PROVE Mapped(p5, v)
  <2>1. CASE Mapped(H, v)
    <3>1. Mapped(p2, v)
      BY <2>1, <1>10, <1>12, MappedConcat
    <3>2. Mapped(p3, v)
      BY <3>1, <1>10, <1>12, MappedConcat
    <3>3. Mapped(p4, v)
      BY <3>2, <1>10, <1>12, MappedConcat
    <3>4. QED
      BY <3>3, <1>10, <1>12, MappedConcat
  <2>2. CASE Mapped(W, v)
    BY <2>2, <1>10, <1>12, MappedConcat
  <2>3. QED
    BY <2>1, <2>2, <1>5
<1>14. QED
  BY <1>1, <1>2, <1>8, <1>9, <1>10, <1>13

\* The blocks of alloc_proc and run_proc map the whole window.
LEMMA ProcBlocks ==
  ASSUME NEW id, NEW q \in MappedPages
  PROVE  /\ Code5(id, q) \in Seq(Block5(id, q)) /\ \A v \in Window : Mapped(Code5(id, q), v)
         /\ CodeOwn(id, q) \in Seq(OwnMaps(id, q))
         /\ Code8 \in Seq(Block8) /\ \A v \in Window : Mapped(Code8, v)
<1>0. {q} \in SUBSET MappedPages
  OBVIOUS
<1>1. PICK o1, o2, a, b, c, d, e, S, T, off :
        /\ off = Slot(id - 2) - WindowStart
        /\ o1 = MapRange(kpcb, {q}, 0) /\ o2 = MapRange(kpcb, Window, off)
        /\ a = MapRange(id, {q}, 0) /\ b = MapRange(id, Window, off) /\ c = MapRange(id, KernelPages, 0)
        /\ d = MapRange(id, BootPages, BootOffset) /\ e = MapRange(id, ProcHeapPages, 0)
        /\ S = Block5(id, q) /\ T = OwnMaps(id, q)
  BY Zenon
<1>2. /\ Window \in SUBSET MappedPages /\ KernelPages \in SUBSET MappedPages
      /\ BootPages \in SUBSET MappedPages /\ ProcHeapPages \in SUBSET MappedPages
  BY PagesCounted
<1>3. /\ o1 \in Seq(Maps(kpcb, {q}, 0, TRUE)) /\ o2 \in Seq(Maps(kpcb, Window, off, TRUE))
      /\ a \in Seq(Maps(id, {q}, 0, TRUE)) /\ b \in Seq(Maps(id, Window, off, TRUE))
      /\ c \in Seq(Maps(id, KernelPages, 0, TRUE)) /\ d \in Seq(Maps(id, BootPages, BootOffset, TRUE))
      /\ e \in Seq(Maps(id, ProcHeapPages, 0, TRUE))
      /\ \A v \in Window : Mapped(b, v)
  BY <1>0, <1>1, <1>2, RangeIsSeq, Zenon
<1>4. /\ Maps(id, {q}, 0, TRUE) \subseteq S /\ Maps(id, Window, off, TRUE) \subseteq S
      /\ Maps(id, KernelPages, 0, TRUE) \subseteq S /\ Maps(id, BootPages, BootOffset, TRUE) \subseteq S
      /\ Maps(id, ProcHeapPages, 0, TRUE) \subseteq S
  BY <1>1, Zenon DEF Block5, Maps
<1>5. Maps(kpcb, {q}, 0, TRUE) \subseteq T /\ Maps(kpcb, Window, off, TRUE) \subseteq T
  BY <1>1, Zenon DEF OwnMaps
<1>6. o1 \in Seq(T) /\ o2 \in Seq(T)
  BY <1>3, <1>5, InLarger
<1>7. a \in Seq(S) /\ b \in Seq(S) /\ c \in Seq(S) /\ d \in Seq(S) /\ e \in Seq(S)
  BY <1>3, <1>4, InLarger
<1>8. CodeOwn(id, q) \in Seq(OwnMaps(id, q))
  <2>1. CodeOwn(id, q) = o1 \o o2
    BY <1>1, Zenon DEF CodeOwn, MapWindow
  <2>2. QED
    BY <2>1, <1>1, <1>6, JoinSeq
<1>9. PICK p2 : p2 = a \o b /\ p2 \in Seq(S)
  BY <1>7, JoinSeq
<1>10. PICK p3 : p3 = p2 \o c /\ p3 \in Seq(S)
  BY <1>7, <1>9, JoinSeq
<1>11. PICK p4 : p4 = p3 \o d /\ p4 \in Seq(S)
  BY <1>7, <1>10, JoinSeq
<1>12. PICK p5 : p5 = p4 \o e /\ p5 \in Seq(S)
  BY <1>7, <1>11, JoinSeq
<1>13. Code5(id, q) = p5
  BY <1>1, <1>9, <1>10, <1>11, <1>12, Zenon DEF Code5, MapWindow
<1>14. IsSeq(a) /\ IsSeq(b) /\ IsSeq(c) /\ IsSeq(d) /\ IsSeq(e) /\ IsSeq(p2) /\ IsSeq(p3) /\ IsSeq(p4)
  BY <1>7, <1>9, <1>10, <1>11, Zenon DEF IsSeq
<1>15. ASSUME NEW v \in Window PROVE Mapped(p5, v)
  <2>1. Mapped(b, v)
    BY <1>3
  <2>2. Mapped(p2, v)
    BY <2>1, <1>9, <1>14, MappedConcat
  <2>3. Mapped(p3, v)
    BY <2>2, <1>10, <1>14, MappedConcat
  <2>4. Mapped(p4, v)
    BY <2>3, <1>11, <1>14, MappedConcat
  <2>5. QED
    BY <2>4, <1>12, <1>14, MappedConcat
<1>16. Code8 \in Seq(Block8) /\ \A v \in Window : Mapped(Code8, v)
  BY <1>2, RangeIsSeq DEF Code8, Block8, MapWindow
<1>17. QED
  BY <1>1, <1>8, <1>12, <1>13, <1>15, <1>16

------------------------------------------------------------------------------
\* Interrupts that only count.

\* An interrupt that only counts leaves the kernel where it is.
LEMMA QuietWhere == ASSUME Quiet, Where PROVE Where'
<1> USE DEF Early, Low, Recursive, Owned, Taken, Fresh, PmlOf, table
<1>1. UNCHANGED <<mem, bitmap, cr3, todo, mode, pcbs, pcb_list, current_pcb, process_pid_bitmap, process_mem_bitmap, at>>
  BY DEF Quiet
<1>2. (Built' <=> Built) /\ \A lv : Roots(lv)' <=> Roots(lv)
  BY <1>1, SameBuilt, SameRoots
<1>3. \A root, id : Shows(root, id)' <=> Shows(root, id)
  BY <1>1 DEF Shows
<1>4. (First' <=> First) /\ (Ran' <=> Ran)
  BY <1>1, <1>2, <1>3 DEF First, Ran
<1>5. \A id : (Making(id)' <=> Making(id)) /\ (Made(id)' <=> Made(id))
  BY <1>1, <1>2, <1>3 DEF Making, Made
<1>6. Boot1 => Boot1'
  BY <1>1, <1>2 DEF Boot1
<1>7. Boot1a => Boot1a'
  BY <1>1, <1>2 DEF Boot1a
<1>8. Boot2 => Boot2'
  BY <1>1, <1>2 DEF Boot2
<1>9. Boot2b => Boot2b'
  BY <1>1, <1>2 DEF Boot2b
<1>10. Boot3 => Boot3'
  BY <1>1, <1>2 DEF Boot3
<1>11. ASSUME NEW id \in {2, 3}, Alloc4(id) PROVE Alloc4(id)'
  BY <1>1, <1>5, <1>11 DEF Alloc4
<1>12. ASSUME NEW id \in {2, 3}, Alloc4a(id) PROVE Alloc4a(id)'
  BY <1>1, <1>5, <1>12 DEF Alloc4a
<1>13. ASSUME NEW id \in {2, 3}, Alloc5(id) PROVE Alloc5(id)'
  BY <1>1, <1>5, <1>13 DEF Alloc5
<1>14. ASSUME NEW id \in {2, 3}, Alloc6(id) PROVE Alloc6(id)'
  BY <1>1, <1>5, <1>14 DEF Alloc6
<1>15. ASSUME NEW id \in {2, 3}, Alloc6b(id) PROVE Alloc6b(id)'
  BY <1>1, <1>5, <1>15 DEF Alloc6b
<1>16. ASSUME NEW id \in {2, 3}, Exec7(id) PROVE Exec7(id)'
  BY <1>1, <1>5, <1>16 DEF Exec7
<1>17. ASSUME NEW id \in {2, 3}, Exec7b(id) PROVE Exec7b(id)'
  BY <1>1, <1>5, <1>17 DEF Exec7b
<1>18. Run8a => Run8a'
  BY <1>1, <1>2, <1>4 DEF Run8a
<1>19. Run8 => Run8'
  BY <1>1, <1>2, <1>4 DEF Run8
<1>20. Run8b => Run8b'
  BY <1>1, <1>2, <1>4 DEF Run8b
<1>21. InUser => InUser'
  BY <1>1, <1>2, <1>4 DEF InUser
<1>22. InSwitch => InSwitch'
  BY <1>1, <1>2, <1>4 DEF InSwitch
<1>23. InCall => InCall'
  BY <1>1, <1>2, <1>4 DEF InCall
<1>24. InReturn => InReturn'
  BY <1>1, <1>2, <1>4 DEF InReturn
<1>25. InExec => InExec'
  BY <1>1, <1>2, <1>4 DEF InExec
<1>26. InExit => InExit'
  BY <1>1, <1>2, <1>4 DEF InExit
<1>27. Exiting => Exiting'
  BY <1>1, <1>2, <1>4 DEF Exiting
<1>28. Stopped => Stopped'
  BY <1>1, <1>2, <1>4 DEF Stopped
<1>29. Boot1c => Boot1c'
  BY <1>1, <1>2 DEF Boot1c
<1>30. QED
  BY <1>6, <1>7, <1>8, <1>9, <1>10, <1>11, <1>12, <1>13, <1>14, <1>15, <1>16, <1>17, <1>18, <1>19, <1>20, <1>21, <1>22, <1>23, <1>24, <1>25, <1>26, <1>27, <1>28, <1>29 DEF Where

------------------------------------------------------------------------------
\* The kernel goes on from each of its points: booting.

\* Before any table is made, the kernel's PML4 is the whole tree.
LEMMA FirstTree ==
  ASSUME Listed, Len(pcbs) = 1, NEW m, NEW b, DOMAIN m = Frame, m \in [DOMAIN m -> Tables],
         \A f \in Untouched, i \in Index : Entry(m, f, i) = NoFrame,
         \A i \in Index : i # REC => Entry(m, PML4_KERNEL, i) = NoFrame
  PROVE  \E lv \in Levels : Tree(m, b, lv) /\ Roots(lv) /\ lv[PML4_BOOT] = 0 /\ lv[BootMark] = 0
<1>1. PICK lv : lv = [f \in Frame |-> IF f = PML4_KERNEL THEN 1 ELSE 0]
  OBVIOUS
<1>2. PML4_KERNEL \in Frame /\ PML4_BOOT \in Frame /\ BootMark \in Frame /\ PML4_KERNEL # PML4_BOOT /\ BootMark # PML4_KERNEL
  BY Constants, FirstPagesAre
<1>3. /\ lv \in Levels /\ lv[PML4_KERNEL] = 1 /\ lv[PML4_BOOT] = 0 /\ lv[BootMark] = 0
      /\ \A f \in Frame : lv[f] > 0 => f = PML4_KERNEL
  BY <1>1, <1>2 DEF Levels
<1>4. \A f \in Frame, i \in Index : ~ Leads(m, lv, f, i)
  BY <1>3 DEF Leads
<1>5. Tree(m, b, lv)
  BY <1>2, <1>3, <1>4 DEF Tree
<1>6. Roots(lv)
  <2>1. pcbs[1].pml4 = PML4_KERNEL
    BY DEF Listed
  <2>2. \A id \in 1 .. Len(pcbs) : id = 1
    OBVIOUS
  <2>3. 1 \in 1 .. Len(pcbs)
    OBVIOUS
  <2>4. \A f \in Frame : lv[f] = 1 => f = PML4_KERNEL
    BY <1>3
  <2>5. QED
    BY <2>1, <2>2, <2>3, <2>4, <1>3 DEF Roots
<1>7. QED
  BY <1>3, <1>5, <1>6

\* No PML4 lies in memory that nobody has written.
LEMMA NoRootUntouched == PML4_BOOT \notin Untouched /\ PML4_KERNEL \notin Untouched
<1>1. PML4_BOOT \in FirstPages /\ BootMark \in FirstPages /\ PML4_KERNEL \notin FirstPages /\ PML4_KERNEL \in PML4Pages
  BY FirstPagesAre, ProcessAssumption
<1>2. PML4_BOOT # BootMark
  BY Constants, LayoutAssumption
<1>3. QED
  BY <1>1, <1>2 DEF Untouched

\* The tables when the kernel's PML4 is cleared.
LEMMA FirstTablesAre ==
  ASSUME ZeroedRAM
  PROVE  /\ DOMAIN FirstTables = Frame /\ FirstTables \in [Frame -> Tables]
         /\ \A i : Entry(FirstTables, PML4_KERNEL, i) = NoFrame
         /\ \A f \in Untouched, i \in Index : Entry(FirstTables, f, i) = NoFrame
<1>1. RAM = [f \in Frame |-> RAM[f]] /\ DOMAIN RAM = Frame /\ \A f \in Frame : RAM[f] \in Tables
  BY RamAssumption DEF Tables
<1>2. RAM \in [DOMAIN RAM -> Tables]
  BY <1>1
<1>3. /\ DOMAIN ClearTable(RAM, PML4_KERNEL) = Frame /\ ClearTable(RAM, PML4_KERNEL) \in [Frame -> Tables]
      /\ \A j : Entry(ClearTable(RAM, PML4_KERNEL), PML4_KERNEL, j) = NoFrame
      /\ \A g, j : g # PML4_KERNEL => Entry(ClearTable(RAM, PML4_KERNEL), g, j) = Entry(RAM, g, j)
  <2>1. PICK m, f : m = RAM /\ f = PML4_KERNEL
    OBVIOUS
  <2>2. DOMAIN m = Frame /\ m \in [DOMAIN m -> Tables] /\ f \in Frame
    BY <2>1, <1>1, <1>2, Constants
  <2>3. /\ DOMAIN ClearTable(m, f) = Frame /\ ClearTable(m, f) \in [Frame -> Tables]
        /\ \A j : Entry(ClearTable(m, f), f, j) = NoFrame
        /\ \A g, j : g # f => Entry(ClearTable(m, f), g, j) = Entry(m, g, j)
    BY <2>2, ClearTableIs
  <2>4. QED
    BY <2>1, <2>3
<1>4. ASSUME NEW f \in Untouched, NEW i \in Index PROVE Entry(RAM, f, i) = NoFrame
  <2>1. DOMAIN <<>> = {}
    OBVIOUS
  <2>2. RAM[f] = <<>>
    BY DEF ZeroedRAM
  <2>3. QED
    BY <2>1, <2>2 DEF Entry
<1>5. QED
  BY <1>3, <1>4, NoRootUntouched DEF FirstTables

\* They after the first recursive entry.
LEMMA SecondTablesAre ==
  ASSUME ZeroedRAM, NEW m, m = SetEntry(FirstTables, PML4_BOOT, REC, PML4_KERNEL)
  PROVE  /\ DOMAIN m = Frame /\ m \in [Frame -> Tables]
         /\ Entry(m, PML4_BOOT, REC) = PML4_KERNEL
         /\ \A i : Entry(m, PML4_KERNEL, i) = NoFrame
         /\ \A f \in Untouched, i \in Index : Entry(m, f, i) = NoFrame
<1>1. PICK t : t = FirstTables
  OBVIOUS
<1>2. /\ t \in [DOMAIN t -> Tables] /\ DOMAIN t = Frame /\ \A i : Entry(t, PML4_KERNEL, i) = NoFrame
      /\ \A f \in Untouched, i \in Index : Entry(t, f, i) = NoFrame
  BY <1>1, FirstTablesAre
<1>3. PML4_BOOT \in DOMAIN t /\ REC \in Index /\ PML4_KERNEL \in Frame /\ PML4_KERNEL # PML4_BOOT
  BY <1>2, Constants
<1>4. /\ DOMAIN m = DOMAIN t /\ m \in [DOMAIN t -> Tables] /\ Entry(m, PML4_BOOT, REC) = PML4_KERNEL
      /\ \A g, j : ~ (g = PML4_BOOT /\ j = REC) => Entry(m, g, j) = Entry(t, g, j)
  BY <1>1, <1>2, <1>3, SetEntryIs
<1>5. QED
  BY <1>2, <1>3, <1>4, NoRootUntouched

\* They after the second recursive entry.
LEMMA ThirdTablesAre ==
  ASSUME ZeroedRAM, NEW t, t = SetEntry(FirstTables, PML4_BOOT, REC, PML4_KERNEL),
         NEW m, m = SetEntry(t, PML4_KERNEL, REC, PML4_KERNEL)
  PROVE  /\ DOMAIN m = Frame /\ m \in [DOMAIN m -> Tables]
         /\ Entry(m, PML4_BOOT, REC) = PML4_KERNEL /\ Entry(m, PML4_KERNEL, REC) = PML4_KERNEL
         /\ \A i : i # REC => Entry(m, PML4_KERNEL, i) = NoFrame
         /\ \A f \in Untouched, i \in Index : Entry(m, f, i) = NoFrame
<1>1. /\ DOMAIN t = Frame /\ t \in [DOMAIN t -> Tables]
      /\ Entry(t, PML4_BOOT, REC) = PML4_KERNEL /\ \A i : Entry(t, PML4_KERNEL, i) = NoFrame
      /\ \A f \in Untouched, i \in Index : Entry(t, f, i) = NoFrame
  BY SecondTablesAre
<1>2. PML4_KERNEL \in DOMAIN t /\ REC \in Index /\ PML4_KERNEL \in Frame /\ PML4_KERNEL # PML4_BOOT
  BY <1>1, Constants
<1>3. /\ DOMAIN m = DOMAIN t /\ m \in [DOMAIN t -> Tables] /\ Entry(m, PML4_KERNEL, REC) = PML4_KERNEL
      /\ \A g, j : ~ (g = PML4_KERNEL /\ j = REC) => Entry(m, g, j) = Entry(t, g, j)
  BY <1>1, <1>2, SetEntryIs
<1>4. QED
  BY <1>1, <1>2, <1>3, NoRootUntouched

\* kmain until the kernel's PML4 is cleared.
LEMMA StepBoot1 == ASSUME Typed, Boot1, Kernel PROVE Inv'
<1>1. PICK s \in Seq(Block1) : todo = s \o Rest1 /\ \A f \in FirstPages : Low(s, f)
  BY DEF Boot1
<1>2. IsSeq(Rest1) /\ IsSeq(Rest1c)
  BY BootText
<1>3. FirstPages \subseteq Frame /\ {PML4_BOOT, BootMark} \subseteq FirstPages
  BY FirstPagesAre
<1>4. CASE s = <<>>
  <2>1. todo = Rest1
    BY <1>1, <1>2, <1>4, FirstOf
  <2>2. PICK x : x = [op |-> "clear", frame |-> PML4_KERNEL]
    OBVIOUS
  <2>3. todo = <<x>> \o Rest1c
    BY <2>1, <2>2 DEF Rest1, Clear
  <2>4. Head(todo) = x /\ Tail(todo) = Rest1c
    BY <2>3, <1>2, FirstOf
  <2>5. Typed' /\ Moves /\ UNCHANGED <<bitmap, cr3>> /\ mem' = ClearTable(mem, PML4_KERNEL)
    BY <2>2, <2>4, ClearStep
  <2>6. \A f \in FirstPages : bitmap[f] # 0
    BY <1>1, <1>4 DEF Low
  <2>7. Boot1c'
    BY <2>4, <2>5, <2>6, <1>3 DEF Boot1, Boot1c, FirstTables, Early, Moves, table
  <2>8. QED
    BY <2>5, <2>7 DEF Inv, Where
<1>5. CASE s # <<>>
  <2>1. /\ Head(todo) = Head(s) /\ Head(s) \in Block1 /\ Tail(todo) = Tail(s) \o Rest1 /\ Tail(s) \in Seq(Block1)
        /\ \A k \in DOMAIN s : s[k] = Head(s) \/ \E j \in DOMAIN Tail(s) : Tail(s)[j] = s[k]
    BY <1>1, <1>2, <1>5, BlockStep
  <2>2. PICK x, t : x = Head(s) /\ t = Tail(s)
    OBVIOUS
  <2>3. \A f \in FirstPages :
          \/ bitmap[f] # 0 \/ (x.op = "mark" /\ f \in x.frames)
          \/ \E j \in DOMAIN t : t[j].op = "mark" /\ f \in t[j].frames
    BY <1>1, <2>1, <2>2 DEF Low
  <2>4. ASSUME Typed', Moves, UNCHANGED <<mem, cr3>>,
               \A f \in Frame : bitmap'[f] # 0 => f \in FirstPages,
               \A f \in FirstPages : bitmap'[f] # 0 \/ \E j \in DOMAIN t : t[j].op = "mark" /\ f \in t[j].frames
        PROVE  Inv'
    <3>1. todo' = t \o Rest1 /\ t \in Seq(Block1)
      BY <2>1, <2>2, <2>4 DEF Moves
    <3>2. Boot1'
      BY <3>1, <2>4 DEF Boot1, Early, Moves, table, Low
    <3>3. QED
      BY <2>4, <3>2 DEF Inv, Where
  <2>5. CASE x \in Ops({"cli", "pic", "sti"})
    <3>1. x.op \in {"cli", "pic", "sti"}
      BY <2>5 DEF Ops
    <3>2. Typed' /\ Moves /\ UNCHANGED <<mem, bitmap, cr3>>
      BY <3>1, <2>1, <2>2, PlainStep
    <3>3. QED
      BY <3>1, <3>2, <2>3, <2>4 DEF Boot1
  <2>6. CASE x \in Marks(FirstPages, 1) \cup Marks({PML4_BOOT, BootMark}, 1)
    <3>1. PICK F : x.op = "mark" /\ x.frames = F /\ x.pid = 1 /\ F \subseteq FirstPages
      BY <2>6, <1>3 DEF Marks
    <3>2. 1 \in 0 .. MAX_NUM_OF_PROCESS - 1
      BY ProcessAssumption, LayoutAssumption
    <3>3. /\ Typed' /\ Moves /\ UNCHANGED <<mem, cr3>>
          /\ \A f \in Frame : bitmap'[f] = IF f \in F THEN 1 ELSE bitmap[f]
      BY <3>1, <3>2, <2>1, <2>2, MarkStep
    <3>4. \A f \in Frame : bitmap'[f] # 0 => f \in FirstPages
      BY <3>1, <3>3 DEF Boot1
    <3>5. \A f \in FirstPages : bitmap'[f] # 0 \/ \E j \in DOMAIN t : t[j].op = "mark" /\ f \in t[j].frames
      BY <3>1, <3>3, <2>3, <1>3
    <3>6. QED
      BY <3>3, <3>4, <3>5, <2>4
  <2>7. QED
    BY <2>1, <2>2, <2>5, <2>6 DEF Block1
<1>6. QED
  BY <1>4, <1>5

\* kmain between that and the first recursive entry.
LEMMA StepBoot1c == ASSUME Typed, Boot1c, Kernel PROVE Inv'
<1>1. IsSeq(Rest1a)
  BY BootText
<1>2. PICK x : x = [op |-> "rec", pml4 |-> PML4_BOOT, to |-> PML4_KERNEL]
  OBVIOUS
<1>3. todo = <<x>> \o Rest1a
  BY <1>2 DEF Boot1c, Rest1c, SetRec
<1>4. Head(todo) = x /\ Tail(todo) = Rest1a
  BY <1>1, <1>3, FirstOf
<1>5. Typed' /\ Moves /\ UNCHANGED <<bitmap, cr3>> /\ mem' = SetEntry(mem, PML4_BOOT, REC, PML4_KERNEL)
  BY <1>2, <1>4, RecStep
<1>6. Boot1a'
  BY <1>4, <1>5 DEF Boot1c, Boot1a, Early, Moves, table
<1>7. QED
  BY <1>5, <1>6 DEF Inv, Where

\* With only the first pages marked there is enough for everything.
LEMMA EnoughAtFirst ==
  ASSUME NEW m, NEW b, \A f \in Frame : b[f] # 0 <=> f \in FirstPages
  PROVE  /\ Enough(m, b, PML4_KERNEL, EarlyReserve, EarlyPages, 0)
         /\ Enough(m, b, PML4_KERNEL, Reserve, MappedPages, 2 * AllTables + 2)
<1>1. EarlyReserve \subseteq Reserve /\ Reserve \subseteq Frame /\ \A f \in Reserve : f \notin FirstPages
  BY DEF EarlyReserve, Reserve, MarkedPages
<1>2. Free(b, EarlyReserve) = EarlyReserve /\ Free(b, Reserve) = Reserve
  BY <1>1 DEF Free
<1>3. ASSUME NEW pages, Mappable(pages)
      PROVE  /\ Cardinality(Missing(m, PML4_KERNEL, pages)) \in Nat /\ Cardinality(TablesFor(pages)) \in Nat
             /\ Cardinality(Missing(m, PML4_KERNEL, pages)) <= Cardinality(TablesFor(pages))
  <2>1. IsFiniteSet(TablesFor(pages))
    BY <1>3, TablesForFinite DEF Mappable
  <2>2. Missing(m, PML4_KERNEL, pages) \subseteq TablesFor(pages)
    BY DEF Missing
  <2>3. IsFiniteSet(Missing(m, PML4_KERNEL, pages))
    BY <2>1, <2>2, FS_Subset
  <2>4. QED
    BY <2>1, <2>2, <2>3, FS_Subset, FS_CardinalityType
<1>4. PICK e, r, te, tm, xe, xm :
        /\ e = Cardinality(EarlyReserve) /\ r = Cardinality(Reserve)
        /\ te = Cardinality(TablesFor(EarlyPages)) /\ tm = Cardinality(TablesFor(MappedPages))
        /\ xe = Cardinality(Missing(m, PML4_KERNEL, EarlyPages)) /\ xm = Cardinality(Missing(m, PML4_KERNEL, MappedPages))
  OBVIOUS
<1>5. e \in Nat /\ r \in Nat
  <2>1. IsFiniteSet(EarlyReserve) /\ IsFiniteSet(Reserve)
    BY <1>1, FrameFinite
  <2>2. QED
    BY <2>1, <1>4, FS_CardinalityType
<1>6. te \in Nat /\ tm \in Nat /\ xe \in Nat /\ xm \in Nat /\ xe <= te /\ xm <= tm
  BY <1>3, <1>4, MappedFacts
<1>7. te <= e /\ 3 * tm + 2 <= r
  BY <1>4, LayoutAssumption
<1>8. e >= xe + 0 /\ r >= xm + (2 * tm + 2)
  BY <1>5, <1>6, <1>7
<1>9. QED
  BY <1>2, <1>4, <1>8 DEF Enough, AllTables

\* kmain between the recursive entries.
LEMMA StepBoot1a == ASSUME Typed, Boot1a, Kernel PROVE Inv'
<1>1. PICK r : r = Code2 \o Rest2
  OBVIOUS
<1>2. IsSeq(r)
  <2>1. Code2 \in Seq(Block2) /\ IsSeq(Rest2)
    BY BootBlock2, BootText
  <2>2. IsSeq(Code2)
    BY <2>1 DEF IsSeq
  <2>3. QED
    BY <1>1, <2>1, <2>2, ConcatIsSeq
<1>3. PICK x : x = [op |-> "rec", pml4 |-> PML4_KERNEL, to |-> PML4_KERNEL]
  OBVIOUS
<1>4. todo = <<x>> \o r
  BY <1>1, <1>3 DEF Boot1a, Rest1a, SetRec
<1>5. Head(todo) = x /\ Tail(todo) = r
  BY <1>2, <1>4, FirstOf
<1>6. Typed' /\ Moves /\ UNCHANGED <<bitmap, cr3>> /\ mem' = SetEntry(mem, PML4_KERNEL, REC, PML4_KERNEL)
  BY <1>3, <1>5, RecStep
<1>7. /\ DOMAIN mem' = Frame /\ mem' \in [DOMAIN mem' -> Tables]
      /\ Entry(mem', PML4_BOOT, REC) = PML4_KERNEL /\ Entry(mem', PML4_KERNEL, REC) = PML4_KERNEL
      /\ \A i : i # REC => Entry(mem', PML4_KERNEL, i) = NoFrame
      /\ \A f \in Untouched, i \in Index : Entry(mem', f, i) = NoFrame
  BY <1>6, ThirdTablesAre DEF Boot1a
<1>8. \A f \in Frame : bitmap'[f] # 0 <=> f \in FirstPages
  BY <1>6 DEF Boot1a
<1>9. FirstPages \subseteq Frame
  BY FirstPagesAre
<1>10. \E lv \in Levels : Tree(mem', bitmap', lv) /\ Roots(lv)' /\ lv[PML4_BOOT] = 0 /\ lv[BootMark] = 0
  <2>1. Listed /\ Len(pcbs) = 1
    BY DEF Typed, Boot1a, Early
  <2>2. PICK lv \in Levels : Tree(mem', bitmap', lv) /\ Roots(lv) /\ lv[PML4_BOOT] = 0 /\ lv[BootMark] = 0
    BY <2>1, <1>7, FirstTree
  <2>3. Roots(lv)'
    BY <2>2, <1>6, SameRoots DEF Moves, table
  <2>4. QED
    BY <2>2, <2>3
<1>11. /\ Enough(mem', bitmap', PML4_KERNEL, EarlyReserve, EarlyPages, 0)
       /\ Enough(mem', bitmap', PML4_KERNEL, Reserve, MappedPages, 2 * AllTables + 2)
  BY <1>8, EnoughAtFirst
<1>12. todo' = Code2 \o Rest2 /\ Code2 \in Seq(Block2) /\ \A f \in PML4Pages : Mapped(Code2, f)
  BY <1>1, <1>5, <1>6, BootBlock2 DEF Moves
<1>13. \A v \in LatePages : Pt(mem', PML4_KERNEL, v) = NoFrame
  <2>1. ASSUME NEW v \in LatePages PROVE Pt(mem', PML4_KERNEL, v) = NoFrame
    <3>1. PageIndexes(v)[1] # REC
      BY MappedFacts
    <3>2. Entry(mem', PML4_KERNEL, PageIndexes(v)[1]) = NoFrame
      BY <3>1, <1>7
    <3>3. \A i : Entry(mem', NoFrame, i) = NoFrame
      BY <1>7, Constants DEF Entry
    <3>4. QED
      BY <3>2, <3>3 DEF Pt
  <2>2. QED
    BY <2>1
<1>14. Boot2'
  BY <1>13, <1>6, <1>7, <1>8, <1>9, <1>10, <1>11, <1>12 DEF Boot1a, Boot2, Early, Moves, table
<1>15. QED
  BY <1>6, <1>14 DEF Inv, Where

\* Once low memory and kernel are marked, allocate_page takes usable frames, as long as one
\* in EarlyReserve is free.
LEMMA SafeEarly ==
  ASSUME \A f \in FirstPages : bitmap[f] # 0
  PROVE  Safe(bitmap, EarlyReserve)
<1> SUFFICES ASSUME NEW f \in Frame, bitmap[f] = 0, NEW g \in EarlyReserve, f <= g PROVE f \in Usable
  BY DEF Safe
<1>1. /\ g \in Frame /\ g < PML4_KERNEL /\ g < PROC_ALLOC_START /\ \A h \in HeapPages \cup HardwarePages : g < h
  BY DEF EarlyReserve, Reserve
<1>2. f \in Nat /\ g \in Nat /\ PROC_ALLOC_START \in Nat /\ PML4_KERNEL \in Nat
  BY <1>1, Constants, LayoutAssumption
<1>3. HeapPages \cup HardwarePages \subseteq Nat /\ PML4Pages \subseteq Nat
  BY Constants, ProcessAssumption
<1>4. f \notin KernelPages
  BY FirstPagesAre
<1>5. f \notin PML4Pages
  BY <1>1, <1>2, <1>3, LayoutAssumption
<1>6. f < PROC_ALLOC_START
  BY <1>1, <1>2
<1>7. \A h \in HeapPages \cup HardwarePages : f < h
  BY <1>1, <1>2, <1>3
<1>8. QED
  BY <1>4, <1>5, <1>6, <1>7 DEF Usable

\* Marks that make no marked table frame free change nothing for the tables.
LEMMA Remarked ==
  ASSUME NEW m, NEW b, NEW lv, Tree(m, b, lv), NEW b2, \A f \in Frame : lv[f] > 0 /\ b[f] # 0 => b2[f] # 0
  PROVE  Tree(m, b2, lv)
BY DEF Tree

\* Marks that free and take no frame leave enough.
LEMMA SameFree ==
  ASSUME NEW m, NEW b, NEW b2, NEW r, NEW R \in SUBSET Frame, NEW pages, NEW c, Enough(m, b, r, R, pages, c),
         \A f \in R : b2[f] = 0 <=> b[f] = 0
  PROVE  Enough(m, b2, r, R, pages, c)
<1>1. Free(b2, R) = Free(b, R)
  BY DEF Free
<1>2. QED
  BY <1>1 DEF Enough

\* The kernel's tables are built below PML4_KERNEL while cr3 is still the boot loader's.
LEMMA StepBoot2 == ASSUME Typed, Boot2, Kernel PROVE Inv'
<1>1. PICK s \in Seq(Block2) : todo = s \o Rest2 /\ \A f \in PML4Pages : bitmap[f] # 0 \/ Mapped(s, f)
  BY DEF Boot2
<1>2. IsSeq(Rest2) /\ IsSeq(Rest2b)
  BY BootText
<1>3. /\ LowPages \cup KernelPages \cup PML4Pages \subseteq Frame /\ {PML4_BOOT, BootMark} \subseteq FirstPages
      /\ PML4_KERNEL \in Frame /\ FirstPages \subseteq Frame /\ KernelPages \subseteq FirstPages
  BY ProcessAssumption, FirstPagesAre
<1>4. PICK lv \in Levels : Tree(mem, bitmap, lv) /\ Roots(lv) /\ lv[PML4_BOOT] = 0 /\ lv[BootMark] = 0
  BY DEF Boot2
<1>5. /\ mode = "kernel" /\ Early /\ cr3 = PML4_BOOT
      /\ Entry(mem, PML4_BOOT, REC) = PML4_KERNEL /\ Entry(mem, PML4_KERNEL, REC) = PML4_KERNEL
      /\ \A f \in FirstPages : bitmap[f] # 0
      /\ \A w \in LatePages : Pt(mem, PML4_KERNEL, w) = NoFrame
      /\ Enough(mem, bitmap, PML4_KERNEL, EarlyReserve, EarlyPages, 0)
      /\ Enough(mem, bitmap, PML4_KERNEL, Reserve, MappedPages, 2 * AllTables + 2)
  BY DEF Boot2, Early
<1>6. CASE s = <<>>
  <2>1. PICK r : r = Code2b \o Rest2b
    OBVIOUS
  <2>2. IsSeq(r)
    <3>1. IsSeq(Code2b)
      BY BootBlock3 DEF IsSeq
    <3>2. QED
      BY <3>1, <2>1, <1>2, ConcatIsSeq
  <2>3. todo = Rest2
    BY <1>1, <1>2, <1>6, FirstOf
  <2>4. PICK x : x = [op |-> "cr3", to |-> PML4_KERNEL]
    OBVIOUS
  <2>5. todo = <<x>> \o r
    BY <2>1, <2>3, <2>4 DEF Rest2, SetCr3
  <2>6. Head(todo) = x /\ Tail(todo) = r
    BY <2>2, <2>5, FirstOf
  <2>7. Typed' /\ Moves /\ UNCHANGED <<mem, bitmap>> /\ cr3' = PML4_KERNEL
    BY <2>4, <2>6, Cr3Step
  <2>8. \A f \in PML4Pages : bitmap[f] # 0
    BY <1>1, <1>6 DEF Mapped
  <2>9. Roots(lv)'
    BY <1>4, <2>7, SameRoots DEF Moves, table
  <2>10. todo' = Code2b \o Rest2b /\ Code2b \in Seq(Ops({"sti", "cli"}))
    BY <2>1, <2>6, <2>7, BootBlock3 DEF Moves
  <2>10a. \A f \in FirstPages \cup PML4Pages : bitmap[f] # 0
    BY <1>3, <1>5, <2>8
  <2>11. Boot2b'
    BY <1>4, <1>5, <2>7, <2>10a, <2>9, <2>10 DEF Boot2b, Early, Recursive, Owned, Moves, table
  <2>12. QED
    BY <2>7, <2>11 DEF Inv, Where
<1>7. CASE s # <<>>
  <2>1. /\ Head(todo) = Head(s) /\ Head(s) \in Block2 /\ Tail(todo) = Tail(s) \o Rest2 /\ Tail(s) \in Seq(Block2)
    BY <1>1, <1>2, <1>7, BlockStep
  <2>2. PICK x, t : x = Head(s) /\ t = Tail(s)
    OBVIOUS
  <2>3. \A f \in PML4Pages : bitmap[f] # 0 \/ (x.op = "map" /\ x.v = f) \/ Mapped(t, f)
    BY <1>1, <1>7, <2>2, MappedNext
  <2>4. ASSUME Typed', Moves, cr3' = cr3, \A f \in Frame : bitmap[f] # 0 => bitmap'[f] # 0,
               Entry(mem', PML4_BOOT, REC) = PML4_KERNEL, Entry(mem', PML4_KERNEL, REC) = PML4_KERNEL,
               \E lv2 \in Levels : Tree(mem', bitmap', lv2) /\ Roots(lv2)' /\ lv2[PML4_BOOT] = 0 /\ lv2[BootMark] = 0,
               \A w \in LatePages : Pt(mem', PML4_KERNEL, w) = NoFrame,
               Enough(mem', bitmap', PML4_KERNEL, EarlyReserve, EarlyPages, 0),
               Enough(mem', bitmap', PML4_KERNEL, Reserve, MappedPages, 2 * AllTables + 2),
               \A f \in PML4Pages : bitmap'[f] # 0 \/ Mapped(t, f)
        PROVE  Inv'
    <3>1. todo' = t \o Rest2 /\ t \in Seq(Block2)
      BY <2>1, <2>2, <2>4 DEF Moves
    <3>2. Early'
      BY <1>5, <2>4 DEF Early, Moves, table
    <3>3. \A f \in FirstPages : bitmap'[f] # 0
      BY <1>3, <1>5, <2>4
    <3>4. cr3' = PML4_BOOT
      BY <1>5, <2>4
    <3>5. Boot2'
      BY <3>1, <3>2, <3>3, <3>4, <2>4 DEF Boot2
    <3>6. QED
      BY <2>4, <3>5 DEF Inv, Where
  <2>5. CASE x \in Ops({"cli"})
    <3>1. x.op = "cli"
      BY <2>5 DEF Ops
    <3>2. Typed' /\ Moves /\ UNCHANGED <<mem, bitmap, cr3>>
      BY <3>1, <2>1, <2>2, PlainStep
    <3>3. Roots(lv)'
      BY <1>4, <3>2, SameRoots DEF Moves, table
    <3>4. \A f \in PML4Pages : bitmap[f] # 0 \/ Mapped(t, f)
      BY <3>1, <2>3
    <3>5. QED
      BY <1>4, <1>5, <3>2, <3>3, <3>4, <2>4
  <2>6. CASE x \in Marks(FirstPages, 1)
    <3>1. x.op = "mark" /\ x.frames = FirstPages /\ x.pid = 1
      BY <2>6 DEF Marks
    <3>2. 1 \in 0 .. MAX_NUM_OF_PROCESS - 1
      BY ProcessAssumption, LayoutAssumption
    <3>3. /\ Typed' /\ Moves /\ UNCHANGED <<mem, cr3>>
          /\ \A f \in Frame : bitmap'[f] = IF f \in FirstPages THEN 1 ELSE bitmap[f]
      BY <3>1, <3>2, <2>1, <2>2, MarkStep
    <3>4. \A f \in Frame : bitmap'[f] = 0 <=> bitmap[f] = 0
      BY <1>5, <3>3
    <3>5. Roots(lv)'
      BY <1>4, <3>3, SameRoots DEF Moves, table
    <3>6. Tree(mem', bitmap', lv)
      BY <1>4, <3>3, <3>4, Remarked
    <3>7. EarlyReserve \in SUBSET Frame /\ Reserve \in SUBSET Frame
      BY MappedFacts
    <3>8. /\ Enough(mem', bitmap', PML4_KERNEL, EarlyReserve, EarlyPages, 0)
          /\ Enough(mem', bitmap', PML4_KERNEL, Reserve, MappedPages, 2 * AllTables + 2)
      BY <1>5, <3>3, <3>4, <3>7, SameFree
    <3>9. \A f \in PML4Pages : bitmap'[f] # 0 \/ Mapped(t, f)
      BY <1>3, <3>1, <3>4, <2>3
    <3>10. QED
      BY <1>4, <1>5, <3>3, <3>4, <3>5, <3>6, <3>8, <3>9, <2>4
  <2>7. CASE x \in Maps(kpcb, EarlyPages, 0, TRUE)
    <3>1. PICK v \in EarlyPages : x.op = "map" /\ x.pcb = kpcb /\ x.v = v /\ x.p = v + 0 /\ x.set = TRUE
      BY <2>7 DEF Maps
    <3>2. v \in Frame /\ v \in MappedPages /\ v + 0 = v /\ EarlyPages \subseteq MappedPages /\ v \notin Reserve
      <4>1. v \in Frame /\ v \in MarkedPages
        BY <1>3 DEF EarlyPages, MarkedPages
      <4>2. v \in MappedPages /\ EarlyPages \subseteq MappedPages
        BY MappedFacts
      <4>3. v \in Nat
        BY <4>1, Constants
      <4>4. QED
        BY <4>1, <4>2, <4>3 DEF Reserve
    <3>3. Root = PML4_KERNEL /\ lv[PML4_KERNEL] = 1
      BY <1>4, <1>5 DEF Root, Tree
    <3>4. kpcb \in 1 .. Len(pcbs)
      BY DEF Typed, Listed, kpcb
    <3>5. Safe(bitmap, EarlyReserve)
      BY <1>5, SafeEarly
    <3>6. Mappable(EarlyPages) /\ Mappable(MappedPages) /\ EarlyReserve \in SUBSET Frame /\ Reserve \in SUBSET Frame
      BY MappedFacts
    <3>7. Head(todo).op = "map" /\ Head(todo).pcb = kpcb /\ Head(todo).v = v /\ Head(todo).p = v /\ Head(todo).set = TRUE
      BY <2>1, <2>2, <3>1, <3>2
    <3>8. /\ \E lv2 : MapOk(mem, bitmap, lv, mem', bitmap', lv2, PML4_KERNEL, v, v) /\ Roots(lv2)'
          /\ EnoughAfter(mem, bitmap, mem', bitmap', PML4_KERNEL, v)
          /\ TRUE /\ v \in Frame => bitmap'[v] # 0
          /\ Typed' /\ Moves /\ cr3' = cr3
      BY <1>3, <1>4, <1>5, <3>2, <3>3, <3>4, <3>5, <3>6, <3>7, MapStep, ZenonT(60)
    <3>9. PICK lv2 : MapOk(mem, bitmap, lv, mem', bitmap', lv2, PML4_KERNEL, v, v) /\ Roots(lv2)'
      BY <3>8
    <3>10. /\ lv2 \in Levels /\ Tree(mem', bitmap', lv2)
           /\ \A f \in Frame : bitmap[f] # 0 => bitmap'[f] # 0 /\ (lv[f] = 0 => lv2[f] = 0)
           /\ \A f \in Frame : lv[f] = 1 => Entry(mem', f, REC) = Entry(mem, f, REC)
           /\ \A f \in Frame, i \in Index : lv[f] = 0 /\ bitmap[f] # 0 => Entry(mem', f, i) = Entry(mem, f, i)
           /\ \A w \in MappedPages : Pt(mem', PML4_KERNEL, w) # NoFrame => Pt(mem, PML4_KERNEL, w) # NoFrame \/ OnePt(v, w)
      BY <3>9 DEF MapOk
    <3>10a. \A w \in LatePages : Pt(mem', PML4_KERNEL, w) = NoFrame
      <4>1. ASSUME NEW w \in LatePages PROVE ~ OnePt(v, w) /\ w \in MappedPages
        <5>1. PICK k \in 1 .. 3 : PageIndexes(w)[k] # PageIndexes(v)[k]
          BY <3>1 DEF LatePages
        <5>2. k = 1 \/ k = 2 \/ k = 3
          BY <5>1
        <5>3. QED
          BY <5>1, <5>2, MappedFacts DEF OnePt
      <4>2. QED
        BY <4>1, <1>5, <3>10
    <3>11. PML4_BOOT \in Frame /\ BootMark \in Frame /\ bitmap[PML4_BOOT] # 0 /\ bitmap[BootMark] # 0 /\ REC \in Index
      BY <1>3, <1>5, Constants
    <3>12. lv2[PML4_BOOT] = 0 /\ lv2[BootMark] = 0
      BY <1>4, <3>10, <3>11
    <3>13. Entry(mem', PML4_BOOT, REC) = PML4_KERNEL /\ Entry(mem', PML4_KERNEL, REC) = PML4_KERNEL
      BY <1>3, <1>4, <1>5, <3>3, <3>10, <3>11
    <3>14. AllTables \in Nat
      BY MissingAtMost
    <3>15. Enough(mem', bitmap', PML4_KERNEL, EarlyReserve, EarlyPages, 0)
      <4>1. v \notin EarlyReserve
        BY <3>2 DEF EarlyReserve
      <4>2. QED
        BY <4>1, <1>5, <3>6, <3>8 DEF EnoughAfter
    <3>16. Enough(mem', bitmap', PML4_KERNEL, Reserve, MappedPages, 2 * AllTables + 2)
      <4>1. 2 * AllTables + 2 \in Int
        BY <3>14
      <4>2. QED
        BY <4>1, <1>5, <3>2, <3>6, <3>8 DEF EnoughAfter
    <3>17. \A f \in PML4Pages : bitmap'[f] # 0 \/ Mapped(t, f)
      BY <1>3, <2>3, <3>1, <3>2, <3>8, <3>10
    <3>18. QED
      BY <3>8, <3>9, <3>10, <3>10a, <3>12, <3>13, <3>15, <3>16, <3>17, <2>4
  <2>8. QED
    BY <2>1, <2>2, <2>5, <2>6, <2>7 DEF Block2
<1>8. QED
  BY <1>6, <1>7

\* The frames of the boot loader's tables are given back.
LEMMA StepBoot2b == ASSUME Typed, Boot2b, Kernel PROVE Inv'
<1>1. PICK s \in Seq(Ops({"sti", "cli"})) : todo = s \o Rest2b
  BY DEF Boot2b
<1>2. IsSeq(Rest2b) /\ IsSeq(Rest3)
  BY BootText
<1>3. PICK lv \in Levels : Tree(mem, bitmap, lv) /\ Roots(lv) /\ lv[PML4_BOOT] = 0 /\ lv[BootMark] = 0
  BY DEF Boot2b
<1>4. CASE s = <<>>
  <2>1. PICK r : r = Code3 \o Rest3
    OBVIOUS
  <2>2. IsSeq(r)
    <3>1. IsSeq(Code3)
      BY BootBlock3 DEF IsSeq
    <3>2. QED
      BY <3>1, <2>1, <1>2, ConcatIsSeq
  <2>3. todo = Rest2b
    BY <1>1, <1>2, <1>4, FirstOf
  <2>4. PICK x : x = [op |-> "mark", frames |-> {PML4_BOOT, BootMark}, pid |-> 0]
    OBVIOUS
  <2>5. todo = <<x>> \o r
    BY <2>1, <2>3, <2>4 DEF Rest2b, Mark
  <2>6. Head(todo) = x /\ Tail(todo) = r
    BY <2>2, <2>5, FirstOf
  <2>7. 0 \in 0 .. MAX_NUM_OF_PROCESS - 1
    BY ProcessAssumption, LayoutAssumption
  <2>8. /\ Typed' /\ Moves /\ UNCHANGED <<mem, cr3>>
        /\ \A f \in Frame : bitmap'[f] = IF f \in {PML4_BOOT, BootMark} THEN 0 ELSE bitmap[f]
    BY <2>4, <2>6, <2>7, MarkStep
  <2>9. \A f \in Frame : lv[f] > 0 /\ bitmap[f] # 0 => bitmap'[f] # 0
    BY <1>3, <2>8
  <2>10. Tree(mem', bitmap', lv)
    BY <1>3, <2>8, <2>9, Remarked
  <2>11. Roots(lv)'
    BY <1>3, <2>8, SameRoots DEF Moves, table
  <2>12. Built'
    BY <2>10, <2>11 DEF Built
  <2>13. {PML4_BOOT, BootMark} \subseteq LowPages /\ KernelPages \cup PML4Pages \subseteq Frame
    BY ProcessAssumption
  <2>14. Owned'
    <3>1. \A f \in (FirstPages \ {PML4_BOOT, BootMark}) \cup PML4Pages : f \in Frame /\ f \notin {PML4_BOOT, BootMark}
      BY <2>13, FirstPagesAre
    <3>2. QED
      BY <3>1, <2>8 DEF Boot2b, Owned
  <2>15. Enough(mem', bitmap', PML4_KERNEL, Reserve, MappedPages, 2 * AllTables + 2)
    <3>1. \A f \in Reserve : f \in Frame /\ f \notin LowPages
      BY DEF Reserve, MarkedPages
    <3>2. \A f \in Reserve : bitmap'[f] = 0 <=> bitmap[f] = 0
      BY <3>1, <2>8, <2>13
    <3>3. QED
      BY <3>1, <3>2, <2>8, SameFree DEF Boot2b
  <2>16. todo' = Code3 \o Rest3 /\ Code3 \in Seq(Block3)
    BY <2>1, <2>6, <2>8, BootBlock3 DEF Moves
  <2>16a. Fresh(Code3)'
    <3>1. PICK v \in LatePages : Pt(mem, PML4_KERNEL, v) = NoFrame
      BY LayoutAssumption DEF Boot2b
    <3>2. Mapped(Code3, v)
      BY <3>1, BootBlock3 DEF LatePages
    <3>3. QED
      BY <3>1, <3>2, <2>8 DEF Fresh, Mapped
  <2>17. Boot3'
    BY <2>16a, <2>8, <2>12, <2>14, <2>15, <2>16 DEF Boot2b, Boot3, Early, Recursive, Moves, table
  <2>18. QED
    BY <2>8, <2>17 DEF Inv, Where
<1>5. CASE s # <<>>
  <2>1. /\ Head(todo) = Head(s) /\ Head(s) \in Ops({"sti", "cli"}) /\ Tail(todo) = Tail(s) \o Rest2b
        /\ Tail(s) \in Seq(Ops({"sti", "cli"}))
    BY <1>1, <1>2, <1>5, BlockStep
  <2>2. Head(todo).op \in {"sti", "cli"}
    BY <2>1 DEF Ops
  <2>3. Typed' /\ Moves /\ UNCHANGED <<mem, bitmap, cr3>>
    BY <2>2, PlainStep
  <2>4. Roots(lv)'
    BY <1>3, <2>3, SameRoots DEF Moves, table
  <2>5. todo' = Tail(s) \o Rest2b
    BY <2>1, <2>3 DEF Moves
  <2>6. Boot2b'
    BY <1>3, <2>1, <2>3, <2>4, <2>5 DEF Boot2b, Early, Recursive, Owned, Moves, table
  <2>7. QED
    BY <2>3, <2>6 DEF Inv, Where
<1>6. QED
  BY <1>4, <1>5

\* The frames that are mapped exist.
LEMMA BootFrames == \A v \in BootPages : v + BootOffset \in Frame
<1> SUFFICES ASSUME NEW v \in BootPages PROVE v + BootOffset \in Frame
  OBVIOUS
<1>1. BootPages \in SUBSET Nat /\ BootPages \subseteq Frame
  BY LayoutAssumption, Constants
<1>2. \E b \in BootPages : \A c \in BootPages : b <= c
  BY <1>1, LeastElement
<1>3. PICK a : a = CHOOSE b \in BootPages : \A c \in BootPages : b <= c
  OBVIOUS
<1>4. a \in BootPages /\ a <= v
  BY <1>2, <1>3
<1>5. BootOffset = - a
  BY <1>3 DEF BootOffset
<1>6. QED
  BY <1>1, <1>4, <1>5, Constants DEF Frame

\* Where the memory of the first two processes lies.
LEMMA SlotsAre == Slot(0) \in Nat /\ Slot(1) \in Nat /\ Slot(1) = Slot(0) + PROC_MEM_PAGES
                  /\ Slot(1) + PROC_MEM_PAGES <= NumPages /\ Slot(0) = PROC_ALLOC_START
BY ProcessAssumption, LayoutAssumption DEF Slot

\* The pages of the window stand for frames.
LEMMA WindowFrames ==
  ASSUME NEW id \in {2, 3}
  PROVE  /\ Slot(id - 2) \in Nat /\ WindowStart \in Nat
         /\ \A v \in Window : /\ v \in Nat /\ v + (Slot(id - 2) - WindowStart) \in Frame
                              /\ v + (Slot(id - 2) - WindowStart) = Slot(id - 2) + v - WindowStart
<1>1. PICK S : S = Slot(id - 2)
  OBVIOUS
<1>2. S \in Nat /\ S + PROC_MEM_PAGES <= NumPages
  <2>1. CASE id = 2
    <3>1. S = Slot(0) /\ PROC_MEM_PAGES \in Nat /\ NumPages \in Nat
      BY <2>1, <1>1, ProcessAssumption, Constants
    <3>2. QED
      BY <3>1, SlotsAre
  <2>2. CASE id = 3
    BY <2>2, <1>1, SlotsAre
  <2>3. QED
    BY <2>1, <2>2
<1>3. WindowStart \in Nat /\ PROC_MEM_PAGES \in Nat
  BY ProcessAssumption, LayoutAssumption
<1>4. \A v \in Window : /\ v \in Nat /\ v + (S - WindowStart) \in Frame /\ v + (S - WindowStart) = S + v - WindowStart
  BY <1>2, <1>3, Constants DEF Window, Frame
<1>5. QED
  BY <1>1, <1>2, <1>3, <1>4

\* allocate_pid and allocate_proc_mem find the next number.
LEMMA FirstFreeIs ==
  ASSUME NEW used, NEW from \in Nat, NEW k \in 0 .. MAX_NUM_OF_PROCESS - 1, k >= from, k % IntBits \notin used,
         \A n \in from .. k - 1 : n % IntBits \in used
  PROVE  FirstFree(used, from) = k
<1>1. PICK free : free = {n \in 0 .. MAX_NUM_OF_PROCESS - 1 : n >= from /\ n % IntBits \notin used}
  OBVIOUS
<1>2. k \in free /\ free # {} /\ \A n \in free : n \in Nat /\ n >= k
  BY <1>1, ProcessAssumption
<1>3. PICK x : x = CHOOSE n \in free : \A j \in free : n <= j
  OBVIOUS
<1>4. x \in free /\ \A j \in free : x <= j
  BY <1>2, <1>3
<1>5. x = k
  BY <1>2, <1>4
<1>6. FirstFree(used, from) = IF free = {} THEN -1 ELSE CHOOSE n \in free : \A j \in free : n <= j
  BY <1>1 DEF FirstFree
<1>7. QED
  BY <1>2, <1>3, <1>5, <1>6

\* The pids and slots that the first two processes get.
LEMMA NumbersOf ==
  ASSUME NEW id \in {2, 3}, NEW P, P = IF id = 2 THEN {} ELSE {2}, NEW M, M = IF id = 2 THEN {} ELSE {0}
  PROVE  /\ FirstFree(P, KERNEL_PID + 1) = id /\ FirstFree(M, 0) = id - 2
         /\ id % IntBits = id /\ (id - 2) % IntBits = id - 2
         /\ id \in 0 .. MAX_NUM_OF_PROCESS - 1
<1>1. IntBits \in Nat /\ IntBits > 3 /\ MAX_NUM_OF_PROCESS \in Nat /\ MAX_NUM_OF_PROCESS > 3
  BY ProcessAssumption, LayoutAssumption
<1>2. 0 % IntBits = 0 /\ 1 % IntBits = 1 /\ 2 % IntBits = 2 /\ 3 % IntBits = 3
  <2>1. ASSUME NEW x \in 0 .. 3 PROVE x % IntBits = x
    BY <1>1, <2>1, SMTT(30)
  <2>2. QED
    BY <2>1
<1>3. KERNEL_PID + 1 = 2
  BY DEF KERNEL_PID
<1>4. CASE id = 2
  <2>1. P = {} /\ M = {}
    BY <1>4
  <2>2. 2 \in Nat /\ 0 \in Nat /\ 2 \in 0 .. MAX_NUM_OF_PROCESS - 1 /\ 0 \in 0 .. MAX_NUM_OF_PROCESS - 1
    BY <1>1
  <2>3. FirstFree(P, 2) = 2
    <3>1. \A n \in 2 .. 2 - 1 : FALSE
      OBVIOUS
    <3>2. 2 >= 2 /\ 2 % IntBits \notin P /\ \A n \in 2 .. 2 - 1 : n % IntBits \in P
      BY <3>1, <2>1
    <3>3. QED
      BY <3>2, <2>2, FirstFreeIs
  <2>4. FirstFree(M, 0) = 0
    <3>1. \A n \in 0 .. 0 - 1 : FALSE
      OBVIOUS
    <3>2. 0 >= 0 /\ 0 % IntBits \notin M /\ \A n \in 0 .. 0 - 1 : n % IntBits \in M
      BY <3>1, <2>1
    <3>3. QED
      BY <3>2, <2>2, FirstFreeIs
  <2>5. QED
    BY <1>2, <1>3, <1>4, <2>2, <2>3, <2>4
<1>5. CASE id = 3
  <2>1. P = {2} /\ M = {0}
    BY <1>5
  <2>2. 2 \in Nat /\ 0 \in Nat /\ 3 \in 0 .. MAX_NUM_OF_PROCESS - 1 /\ 1 \in 0 .. MAX_NUM_OF_PROCESS - 1
    BY <1>1
  <2>3. FirstFree(P, 2) = 3
    <3>1. \A n \in 2 .. 3 - 1 : n % IntBits \in P
      BY <1>2, <2>1
    <3>2. 3 % IntBits \notin P /\ 3 >= 2
      BY <1>2, <2>1
    <3>3. QED
      BY <3>1, <3>2, <2>2, FirstFreeIs
  <2>4. FirstFree(M, 0) = 1
    <3>1. \A n \in 0 .. 1 - 1 : n % IntBits \in M
      BY <1>2, <2>1
    <3>2. 1 % IntBits \notin M /\ 1 >= 0
      BY <1>2, <2>1
    <3>3. QED
      BY <3>1, <3>2, <2>2, FirstFreeIs
  <2>5. QED
    BY <1>2, <1>3, <1>5, <2>2, <2>3, <2>4
<1>6. QED
  BY <1>4, <1>5

\* A new PML4, in a free frame.
NewRootOk(m, b, lv, m2, b2, lv2, new) ==
  /\ lv2 \in Levels /\ Tree(m2, b2, lv2) /\ Keeps(m, lv, m2) /\ b2 \in Marking
  /\ lv[new] = 0 /\ lv2[new] = 1 /\ \A f \in Frame : f # new => lv2[f] = lv[f] /\ b2[f] = b[f]
  /\ b2[new] # 0
  /\ \A g, j : g # new => Entry(m2, g, j) = Entry(m, g, j)

\* A new PML4, in a frame that nobody has written: it has no entries.
LEMMA NewRoot ==
  ASSUME NEW lv \in Levels, NEW m, NEW b \in Marking, Tree(m, b, lv),
         NEW pid \in 1 .. MAX_NUM_OF_PROCESS - 1, NEW new \in Usable, new \in Untouched, b[new] = 0,
         NEW m2, m2 = m, NEW b2, b2 = Marked(b, new, pid)
  PROVE  \E lv2 : NewRootOk(m, b, lv, m2, b2, lv2, new)
<1> USE Constants
<1>0. PICK lv2 : lv2 = [lv EXCEPT ![new] = 1]
  OBVIOUS
<1>1. new \in Frame /\ new # PML4_KERNEL /\ lv[new] = 0
  <2>1. new \in Frame /\ new # PML4_KERNEL
    BY DEF Usable
  <2>2. QED
    BY <2>1 DEF Tree, Levels
<1>2. lv2 \in Levels /\ lv2[new] = 1 /\ \A f \in Frame : f # new => lv2[f] = lv[f]
  BY <1>0, <1>1 DEF Levels
<1>3. b2 \in Marking /\ b2[new] = pid /\ \A f \in Frame : f # new => b2[f] = b[f]
  BY <1>1 DEF Marking, Marked
<1>4. DOMAIN m = Frame /\ m \in [DOMAIN m -> Tables]
  BY DEF Tree
<1>5. \A j \in Index : Entry(m2, new, j) = NoFrame
  BY <1>1 DEF Tree
<1>6. \A f \in Frame, j \in Index : Leads(m2, lv2, f, j) =>
        f # new /\ lv2[f] = lv[f] /\ Leads(m, lv, f, j) /\ Entry(m2, f, j) = Entry(m, f, j)
  BY <1>1, <1>2, <1>5 DEF Leads
<1>7. \A f \in Frame, j \in Index : Leads(m, lv, f, j) =>
        Entry(m, f, j) \in Frame /\ Entry(m, f, j) # new /\ lv[Entry(m, f, j)] = lv[f] + 1
  <2>1. \A f \in Frame, j \in Index : Leads(m, lv, f, j) => Entry(m, f, j) \in Frame
    BY <1>4, EntryTyped DEF Leads
  <2>2. \A f \in Frame, j \in Index : Leads(m, lv, f, j) => lv[Entry(m, f, j)] = lv[f] + 1 /\ lv[f] \in 1 .. 3
    BY DEF Tree, Leads
  <2>3. QED
    BY <2>1, <2>2, <1>1
<1>8. Tree(m2, b2, lv2)
  <2>1. lv2[PML4_KERNEL] = 1
    BY <1>1, <1>2 DEF Tree
  <2>2. \A f \in Frame : lv2[f] > 0 => f = PML4_KERNEL \/ (f \in Usable /\ b2[f] # 0)
    BY <1>1, <1>2, <1>3 DEF Tree
  <2>2a. \A f \in Untouched, i \in Index : lv2[f] = 0 => Entry(m2, f, i) = NoFrame
    <3>1. Untouched \subseteq Frame
      BY DEF Untouched
    <3>2. QED
      BY <3>1, <1>1, <1>2 DEF Tree
  <2>3. \A f \in Frame, j \in Index : Leads(m2, lv2, f, j) => lv2[Entry(m2, f, j)] = lv2[f] + 1
    BY <1>2, <1>6, <1>7
  <2>4. \A f, g \in Frame, j, k \in Index :
          Leads(m2, lv2, f, j) /\ Leads(m2, lv2, g, k) /\ Entry(m2, f, j) = Entry(m2, g, k) => f = g /\ j = k
    BY <1>6 DEF Tree
  <2>5. QED
    BY <2>1, <2>2, <2>2a, <2>3, <2>4, <1>4 DEF Tree
<1>9. Keeps(m, lv, m2)
  <2>1. \A f \in Frame, j \in Index : Leads(m, lv, f, j) => f # new
    BY <1>1 DEF Leads
  <2>2. QED
    BY <2>1 DEF Keeps
<1>10. NewRootOk(m, b, lv, m2, b2, lv2, new)
  BY <1>1, <1>2, <1>3, <1>5, <1>8, <1>9 DEF NewRootOk
<1>11. QED
  BY <1>10

------------------------------------------------------------------------------
\* The kernel goes on from each of its points: making a process.

\* The frame for a PML4 is taken from what is free.
LEMMA EnoughTaken ==
  ASSUME NEW lv \in Levels, NEW m, NEW b \in Marking, Tree(m, b, lv), NEW r \in Frame, lv[r] = 1,
         NEW m2, Keeps(m, lv, m2), NEW new \in Frame, NEW b2, \A f \in Frame : f # new => b2[f] = b[f],
         NEW c \in Nat, Enough(m, b, r, Reserve, MappedPages, c + 1)
  PROVE  Enough(m2, b2, r, Reserve, MappedPages, c)
<1>1. PICK F, G : F = Free(b, Reserve) /\ G = Free(b2, Reserve)
  OBVIOUS
<1>2. Reserve \in SUBSET Frame
  BY MappedFacts
<1>3. IsFiniteSet(F) /\ IsFiniteSet(G) /\ Cardinality(F) \in Nat /\ Cardinality(G) \in Nat
  BY <1>1, <1>2, FreeCounted
<1>4. F \ {new} \subseteq G
  BY <1>1, <1>2 DEF Free
<1>5. Cardinality(F \ {new}) <= Cardinality(G) /\ Cardinality(F \ {new}) \in Nat
  <2>1. IsFiniteSet(F \ {new})
    BY <1>3, FS_Subset
  <2>2. QED
    BY <2>1, <1>3, <1>4, FS_Subset, FS_CardinalityType
<1>6. Cardinality(F \ {new}) >= Cardinality(F) - 1
  <2>1. CASE new \in F
    <3>1. Cardinality(F \ {new}) = Cardinality(F) - 1
      BY <2>1, <1>3, FS_RemoveElement
    <3>2. QED
      BY <3>1, <1>3
  <2>2. CASE new \notin F
    <3>1. F \ {new} = F
      BY <2>2
    <3>2. QED
      BY <3>1, <1>3
  <2>3. QED
    BY <2>1, <2>2
<1>7. PICK x, y : x = Cardinality(Missing(m, r, MappedPages)) /\ y = Cardinality(Missing(m2, r, MappedPages))
  OBVIOUS
<1>8. x \in Nat /\ y \in Nat /\ y <= x
  BY <1>7, EnoughKeeps
<1>9. Cardinality(F) >= x + (c + 1)
  BY <1>1, <1>7 DEF Enough
<1>10. Cardinality(G) >= y + c
  BY <1>3, <1>5, <1>6, <1>8, <1>9
<1>11. QED
  BY <1>1, <1>7, <1>10 DEF Enough

\* What follows exec is a sequence.
LEMMA TailIsSeq ==
  ASSUME NEW id \in {2, 3}, NEW z \in Tails(id)
  PROVE  IsSeq(z)
<1>1. CASE id = 2
  BY <1>1, OneIsSeq DEF Tails
<1>2. CASE id = 3
  <2>1. PICK c \in Frame : z = SetCr3(c) \o Sysret("exec")
    BY <1>2 DEF Tails
  <2>2. QED
    BY <2>1, SingleIsSeq, ConcatIsSeq
<1>3. QED
  BY <1>1, <1>2

AllocPoint(id, z) ==
  /\ Len(pcbs) = id - 1 /\ Head(todo).op = "alloc_proc" /\ Tail(todo) = Rest6b(id, z)
  /\ process_pid_bitmap = (IF id = 2 THEN {} ELSE {2}) /\ process_mem_bitmap = (IF id = 2 THEN {} ELSE {0})
  /\ pcb_list = Older(id) /\ current_pcb = (IF id = 2 THEN NULL ELSE 2) /\ (id = 2 => at = 0)
  /\ Enough(mem, bitmap, PML4_KERNEL, Reserve, MappedPages, Later(id) + AllTables + 1)

\* While the boot loader's PML4 is free, it is what allocate_page finds.
LEMMA BootFrameFirst ==
  ASSUME Owned, ~ Taken
  PROVE  allocate_page(bitmap) = PML4_BOOT
<1>1. PICK a : a = allocate_page(bitmap)
  OBVIOUS
<1>2. PML4_BOOT \in Frame /\ PML4_BOOT \in LowPages /\ bitmap[PML4_BOOT] = 0
  BY Constants, ProcessAssumption DEF Taken
<1>3. a \in Frame /\ bitmap[a] = 0 /\ a <= PML4_BOOT
  BY <1>1, <1>2, AllocatePage
<1>4. a \in FirstPages
  BY <1>2, <1>3 DEF FirstPages
<1>5. a # BootMark
  BY <1>3, Constants, LayoutAssumption
<1>6. a = PML4_BOOT
  BY <1>3, <1>4, <1>5 DEF Owned
<1>7. QED
  BY <1>1, <1>6

\* After that, a usable frame it finds is one that nobody has written.
LEMMA TakenUntouched ==
  ASSUME Owned, Taken, NEW f \in Usable, bitmap[f] = 0
  PROVE  f \in Untouched
<1>1. f \notin (FirstPages \ {PML4_BOOT, BootMark}) \cup PML4Pages /\ f # PML4_BOOT
  BY DEF Owned, Taken
<1>2. QED
  BY <1>1 DEF Usable, Untouched

\* alloc_proc: the new process gets a pid, a slot and a PML4 of its own.
LEMMA StepAlloc ==
  ASSUME Typed, Kernel, Built, Owned, Taken, Recursive, NEW id \in {2, 3}, NEW z \in Tails(id), AllocPoint(id, z)
  PROVE  Inv'
<1>1. alloc_proc /\ mode = "kernel"
  BY Dispatch DEF AllocPoint
<1>2. /\ FirstFree(process_pid_bitmap, KERNEL_PID + 1) = id /\ FirstFree(process_mem_bitmap, 0) = id - 2
      /\ id % IntBits = id /\ (id - 2) % IntBits = id - 2 /\ id \in 0 .. MAX_NUM_OF_PROCESS - 1
  <2>1. PICK P, M : P = (IF id = 2 THEN {} ELSE {2}) /\ M = (IF id = 2 THEN {} ELSE {0})
    OBVIOUS
  <2>2. process_pid_bitmap = P /\ process_mem_bitmap = M
    BY <2>1 DEF AllocPoint
  <2>3. /\ FirstFree(P, KERNEL_PID + 1) = id /\ FirstFree(M, 0) = id - 2
        /\ id % IntBits = id /\ (id - 2) % IntBits = id - 2 /\ id \in 0 .. MAX_NUM_OF_PROCESS - 1
    BY <2>1, NumbersOf
  <2>4. QED
    BY <2>2, <2>3
<1>3. Len(pcbs) + 1 = id /\ id # -1 /\ id - 2 # -1 /\ Len(pcbs) \in Nat
  BY DEF AllocPoint
<1>4. PICK q, rec : /\ q = allocate_page(bitmap)
                    /\ rec = [pid |-> id, ppid |-> 0, state |-> "WAITING", pml4 |-> q,
                              real_mem_addr |-> Slot(id - 2), ctx |-> 0]
  OBVIOUS
<1>5. /\ pcbs' = Append(pcbs, rec)
      /\ process_pid_bitmap' = process_pid_bitmap \cup {id} /\ process_mem_bitmap' = process_mem_bitmap \cup {id - 2}
      /\ bitmap' = Marked(bitmap, q, id) /\ mem' = mem
      /\ todo' = AllocProcTables(id, q, Slot(id - 2)) \o Tail(todo)
  BY <1>1, <1>2, <1>3, <1>4 DEF alloc_proc
<1>6. /\ IF_' = FALSE /\ interrupts_ready' = FALSE
      /\ UNCHANGED <<mode, cr3, pic, pcb_list, current_pcb, since, skipped, due, key, regs, at>>
  BY <1>1 DEF alloc_proc, clock
<1>7. PICK lv \in Levels : Tree(mem, bitmap, lv) /\ Roots(lv)
  BY DEF Built
<1>8. AllTables \in Nat /\ Later(id) \in Nat /\ Later(id) + AllTables \in Nat
  BY MissingAtMost DEF Later
<1>9. bitmap \in Marking /\ PML4_KERNEL \in Frame /\ lv[PML4_KERNEL] = 1
  BY <1>7, Constants DEF Typed, Tree
<1>10. q \in Usable /\ bitmap[q] = 0
  <2>1. PICK g \in Reserve : bitmap[g] = 0
    <3>1. Reserve \in SUBSET Frame
      BY MappedFacts
    <3>2. Cardinality(Free(bitmap, Reserve)) >= Cardinality(Missing(mem, PML4_KERNEL, MappedPages)) + (Later(id) + AllTables + 1)
      BY DEF AllocPoint, Enough
    <3>3. Cardinality(Missing(mem, PML4_KERNEL, MappedPages)) \in Nat /\ Cardinality(Free(bitmap, Reserve)) \in Nat
      BY <3>1, MissingAtMost, FreeCounted
    <3>4. Cardinality(Free(bitmap, Reserve)) # 0
      BY <3>2, <3>3, <1>8
    <3>5. Free(bitmap, Reserve) # {}
      BY <3>4, FS_EmptySet
    <3>6. QED
      BY <3>5 DEF Free
  <2>2. g \in Frame
    BY MappedFacts
  <2>3. q \in Frame /\ bitmap[q] = 0 /\ q <= g
    BY <1>4, <2>1, <2>2, AllocatePage
  <2>4. Safe(bitmap, Reserve)
    BY SafeReserve
  <2>5. QED
    BY <2>1, <2>3, <2>4 DEF Safe
<1>11. q \in Frame /\ q \in MappedPages /\ id \in 1 .. MAX_NUM_OF_PROCESS - 1
  <2>1. q \in Frame
    BY <1>10 DEF Usable
  <2>2. q \in MappedPages
    BY <1>10, MappedFacts
  <2>3. QED
    BY <2>1, <2>2, <1>2, ProcessAssumption
<1>12. \E lv2 : NewRootOk(mem, bitmap, lv, mem', bitmap', lv2, q)
  <2>1. q \in Untouched
    BY <1>10, TakenUntouched
  <2>2. QED
    BY <2>1, <1>5, <1>7, <1>9, <1>10, <1>11, NewRoot
<1>13. PICK lv2 : NewRootOk(mem, bitmap, lv, mem', bitmap', lv2, q)
  BY <1>12
<1>14. /\ Len(pcbs') = id /\ pcbs'[id] = rec /\ \A j \in 1 .. id - 1 : pcbs'[j] = pcbs[j]
       /\ pcbs' \in Seq(PCBs)
  <2>1. pcbs \in Seq(PCBs)
    BY DEF Typed, Listed
  <2>2. rec \in PCBs
    <3>1. Slot(id - 2) \in Nat
      BY WindowFrames
    <3>2. 0 \in 0 .. Contexts - 1 /\ 0 \in 0 .. MAX_NUM_OF_PROCESS - 1
      BY ProcessAssumption, LayoutAssumption
    <3>3. QED
      BY <3>1, <3>2, <1>2, <1>4, <1>11 DEF PCBs
  <2>3. QED
    BY <2>1, <2>2, <1>3, <1>5
<1>15. Listed'
  <2>1. \A j \in 2 .. id : /\ pcbs'[j].pid = j /\ pcbs'[j].real_mem_addr = Slot(j - 2) /\ pcbs'[j].pml4 \in Usable
    <3>1. ASSUME NEW j \in 2 .. id, j # id
          PROVE  pcbs'[j].pid = j /\ pcbs'[j].real_mem_addr = Slot(j - 2) /\ pcbs'[j].pml4 \in Usable
      <4>1. j \in 2 .. Len(pcbs) /\ j \in 1 .. id - 1
        BY <3>1, <1>3
      <4>2. pcbs[j].pid = j /\ pcbs[j].real_mem_addr = Slot(j - 2) /\ pcbs[j].pml4 \in Usable
        BY <4>1 DEF Typed, Listed
      <4>3. QED
        BY <4>1, <4>2, <1>14
    <3>2. pcbs'[id].pid = id /\ pcbs'[id].real_mem_addr = Slot(id - 2) /\ pcbs'[id].pml4 \in Usable
      BY <1>4, <1>10, <1>14
    <3>3. QED
      BY <3>1, <3>2
  <2>2. pcbs'[1].pid = KERNEL_PID /\ pcbs'[1].pml4 = PML4_KERNEL
    BY <1>14, SMTT(30) DEF Typed, Listed
  <2>3. pcb_list \in Seq({2, 3}) /\ \A k \in DOMAIN pcb_list : pcb_list[k] <= id
    BY <1>3 DEF Typed, Listed
  <2>4. current_pcb \in 0 .. id
    BY <1>3 DEF Typed, Listed
  <2>5. QED
    BY <2>1, <2>2, <2>3, <2>4, <1>6, <1>14 DEF Listed
<1>16. Typed'
  <2>1. Running'
    BY <1>6 DEF Typed, Running
  <2>2. bitmap' \in Marking
    BY <1>13 DEF NewRootOk
  <2>3. QED
    BY <2>1, <2>2, <1>6, <1>15 DEF Typed
<1>17. Roots(lv2)'
  <2>1. /\ lv[q] = 0 /\ lv2[q] = 1 /\ \A f \in Frame : f # q => lv2[f] = lv[f]
    BY <1>13 DEF NewRootOk
  <2>2. \A j \in 1 .. id - 1 : pcbs[j].pml4 \in Frame /\ lv[pcbs[j].pml4] = 1 /\ pcbs[j].pml4 # q
    BY <2>1, <1>3, <1>7, Pcbs DEF Typed, Roots
  <2>3. \A j \in 1 .. id : pcbs'[j].pml4 = IF j = id THEN q ELSE pcbs[j].pml4
    BY <1>4, <1>14
  <2>4. \A j \in 1 .. id : lv2[pcbs'[j].pml4] = 1
    BY <2>1, <2>2, <2>3
  <2>5. ASSUME NEW f \in Frame, lv2[f] = 1 PROVE \E j \in 1 .. id : f = pcbs'[j].pml4
    <3>1. CASE f = q
      BY <3>1, <2>3
    <3>2. CASE f # q
      <4>1. lv[f] = 1
        BY <3>2, <2>1, <2>5
      <4>2. PICK j \in 1 .. id - 1 : f = pcbs[j].pml4
        BY <4>1, <1>3, <1>7 DEF Roots
      <4>3. QED
        BY <4>2, <2>3
    <3>3. QED
      BY <3>1, <3>2
  <2>6. \A j, k \in 1 .. id : pcbs'[j].pml4 = pcbs'[k].pml4 => j = k
    <3>1. \A j, k \in 1 .. id - 1 : pcbs[j].pml4 = pcbs[k].pml4 => j = k
      BY <1>3, <1>7 DEF Roots
    <3>2. QED
      BY <3>1, <2>2, <2>3
  <2>7. QED
    BY <2>4, <2>5, <2>6, <1>14 DEF Roots
<1>18. Built'
  BY <1>13, <1>17 DEF Built, NewRootOk
<1>19. Owned' /\ Taken'
  <2>1. \A f \in Frame : bitmap[f] # 0 => bitmap'[f] # 0
    BY <1>10, <1>13 DEF NewRootOk
  <2>2. FirstPages \cup PML4Pages \subseteq Frame /\ PML4_BOOT \in Frame
    BY ProcessAssumption, FirstPagesAre, Constants
  <2>3. QED
    BY <2>1, <2>2 DEF Owned, Taken
<1>20. Recursive'
  <2>1. q # PML4_KERNEL
    BY <1>10, Constants
  <2>2. Entry(mem', PML4_KERNEL, REC) = Entry(mem, PML4_KERNEL, REC)
    BY <2>1, <1>13 DEF NewRootOk
  <2>3. QED
    BY <2>2, <1>6 DEF Recursive
<1>21. Enough(mem', bitmap', PML4_KERNEL, Reserve, MappedPages, Later(id) + AllTables)
  <2>1. PICK c \in Nat : c = Later(id) + AllTables
    BY <1>8
  <2>2. Enough(mem, bitmap, PML4_KERNEL, Reserve, MappedPages, c + 1)
    BY <2>1 DEF AllocPoint
  <2>3. Keeps(mem, lv, mem') /\ \A f \in Frame : f # q => bitmap'[f] = bitmap[f]
    BY <1>13 DEF NewRootOk
  <2>4. Enough(mem', bitmap', PML4_KERNEL, Reserve, MappedPages, c)
    BY <2>2, <2>3, <1>7, <1>9, <1>11, EnoughTaken
  <2>5. QED
    BY <2>1, <2>4
<1>22. todo' = CodeOwn(id, q) \o Rest4(id, q, z) /\ CodeOwn(id, q) \in Seq(OwnMaps(id, q))
  <2>1. AllocIs(id, q, z)
    BY <1>11, TailIsSeq, AllocText
  <2>2. todo' = AllocProcTables(id, q, Slot(id - 2)) \o Rest6b(id, z)
    BY <1>5 DEF AllocPoint
  <2>3. QED
    BY <2>1, <2>2, <1>11, ProcBlocks DEF AllocIs
<1>23. PmlOf(id)' = q /\ pcbs'[id].ctx = 0
  BY <1>4, <1>14 DEF PmlOf
<1>24. Making(id)'
  <2>1. id = 2 => process_pid_bitmap' = {2} /\ process_mem_bitmap' = {0} /\ at' = 0 /\ pcbs'[2].ctx = 0
    <3> SUFFICES ASSUME id = 2
                 PROVE  process_pid_bitmap' = {2} /\ process_mem_bitmap' = {0} /\ at' = 0 /\ pcbs'[2].ctx = 0
      OBVIOUS
    <3>1. process_pid_bitmap' = {2}
      BY <1>5 DEF AllocPoint
    <3>2. process_mem_bitmap = {} /\ id - 2 = 0
      BY DEF AllocPoint
    <3>3. process_mem_bitmap' = {0}
      BY <3>2, <1>5
    <3>4. at' = 0
      BY <1>6 DEF AllocPoint
    <3>5. pcbs'[2].ctx = 0
      BY <1>23
    <3>6. QED
      BY <3>1, <3>3, <3>4, <3>5
  <2>2. cr3' = PML4_KERNEL
    BY <1>20 DEF Recursive
  <2>3. current_pcb' = (IF id = 2 THEN NULL ELSE 2)
    BY <1>6 DEF AllocPoint
  <2>4. QED
    BY <2>1, <2>2, <2>3, <1>1, <1>6, <1>14, <1>18, <1>19 DEF Making
<1>25. Alloc4(id)'
  <2>1. pcb_list' = Older(id)
    BY <1>6 DEF AllocPoint
  <2>2. \E s \in Seq(OwnMaps(id, PmlOf(id)')) : todo' = s \o Rest4(id, PmlOf(id)', z)
    BY <1>22, <1>23
  <2>3. QED
    BY <2>1, <2>2, <1>20, <1>21, <1>24 DEF Alloc4
<1>26. QED
  BY <1>16, <1>25 DEF Inv, Where

\* The kernel's PCB comes first, and the pages that are marked are not those of tables.
LEMMA KernelPcb ==
  ASSUME Listed
  PROVE  kpcb \in 1 .. Len(pcbs) /\ pcbs[kpcb].pml4 = PML4_KERNEL /\ kpcb = 1
BY DEF Listed, kpcb

\* The pages that are marked are not those of tables.
LEMMA NotReserve ==
  \A v \in LowPages \cup KernelPages \cup PML4Pages \cup BootPages \cup HeapPages \cup HardwarePages \cup Window :
    v \in MappedPages /\ v \notin Reserve
BY DEF MarkedPages, MappedPages, Reserve

\* A process has a PML4 of its own, in a frame that is marked.
LEMMA OwnPml4 ==
  ASSUME Typed, Built, NEW id \in {2, 3}, id <= Len(pcbs)
  PROVE  /\ id \in 1 .. Len(pcbs) /\ id # kpcb /\ PmlOf(id) \in Frame /\ PmlOf(id) \in MappedPages /\ bitmap[PmlOf(id)] # 0
         /\ PmlOf(id) \notin Window /\ PmlOf(id) # PML4_KERNEL /\ PmlOf(id) + 0 = PmlOf(id)
         /\ pcbs[id].real_mem_addr = Slot(id - 2)
<1>1. id \in 2 .. Len(pcbs) /\ id \in 1 .. Len(pcbs) /\ id # kpcb
  BY DEF Typed, Listed, kpcb
<1>2. PmlOf(id) \in Usable /\ pcbs[id].real_mem_addr = Slot(id - 2)
  BY <1>1 DEF Typed, Listed, PmlOf
<1>3. PmlOf(id) \in Frame /\ PmlOf(id) < PROC_ALLOC_START
  BY <1>2 DEF Usable
<1>4. PmlOf(id) \in MappedPages /\ PmlOf(id) \in Nat /\ PmlOf(id) # PML4_KERNEL
  BY <1>2, <1>3, MappedFacts, Constants
<1>5. PICK lv \in Levels : Tree(mem, bitmap, lv) /\ Roots(lv)
  BY DEF Built
<1>6. lv[PmlOf(id)] = 1
  BY <1>1, <1>5 DEF Roots, PmlOf
<1>7. bitmap[PmlOf(id)] # 0
  BY <1>3, <1>4, <1>5, <1>6 DEF Tree
<1>8. PmlOf(id) \notin Window
  BY <1>3, <1>4, LayoutAssumption, ProcessAssumption DEF Window
<1>9. QED
  BY <1>1, <1>2, <1>3, <1>4, <1>7, <1>8

MapsPage(x, by, v, offset, set) == x.op = "map" /\ x.pcb = by /\ x.v = v /\ x.p = v + offset /\ x.set = set

\* A map instruction of a block.
LEMMA MapsAre ==
  ASSUME NEW by, NEW V, NEW offset, NEW set, NEW x \in Maps(by, V, offset, set)
  PROVE  \E v \in V : MapsPage(x, by, v, offset, set)
BY DEF Maps, MapsPage

\* What these blocks map are pages that are mapped.
LEMMA Block3Pages ==
  ASSUME NEW s \in Seq(Block3), NEW k \in DOMAIN s, s[k].op = "map"
  PROVE  s[k].v \in MappedPages
<1>1. s[k] \in Block3
  OBVIOUS
<1>2. s[k] \notin Ops({"sti", "ready"})
  BY DEF Ops
<1>3. s[k].v \in HeapPages \cup HardwarePages \cup BootPages
  BY <1>1, <1>2 DEF Block3, Maps
<1>4. QED
  BY <1>3, MappedFacts

\* Heap, boot pages and drivers are mapped, and the first process is allocated.
LEMMA StepBoot3 == ASSUME Typed, Boot3, Kernel PROVE Inv'
<1>1. PICK s \in Seq(Block3) : todo = s \o Rest3 /\ Fresh(s)
  BY DEF Boot3
<1>2. IsSeq(Rest3)
  BY BootText
<1>3. /\ Early /\ Recursive /\ Built /\ Owned /\ Len(pcbs) = 1
      /\ Enough(mem, bitmap, PML4_KERNEL, Reserve, MappedPages, 2 * AllTables + 2)
  BY DEF Boot3, Early
<1>4. AllTables \in Nat
  BY MissingAtMost
<1>5. CASE s = <<>>
  <2>1. todo = Rest3
    BY <1>1, <1>2, <1>5, FirstOf
  <2>2. PICK x, r : x = [op |-> "alloc_proc"] /\ r = DoFor("exec", 2)
    OBVIOUS
  <2>3. todo = <<x>> \o r /\ IsSeq(r)
    BY <2>1, <2>2, SingleIsSeq DEF Rest3, Do
  <2>4. Head(todo).op = "alloc_proc" /\ Tail(todo) = r
    BY <2>2, <2>3, FirstOf
  <2>5. r = Rest6b(2, <<>>)
    BY <2>2 DEF Rest6b, DoFor
  <2>6. Enough(mem, bitmap, PML4_KERNEL, Reserve, MappedPages, Later(2) + AllTables + 1)
    <3>1. Later(2) + AllTables + 1 = 2 * AllTables + 2
      BY <1>4 DEF Later
    <3>2. QED
      BY <3>1, <1>3
  <2>7. AllocPoint(2, <<>>)
    BY <1>3, <2>4, <2>5, <2>6 DEF AllocPoint, Early, Older
  <2>8. <<>> \in Tails(2)
    BY DEF Tails
  <2>9. Taken
    BY <1>1, <1>5 DEF Fresh
  <2>10. QED
    BY <1>3, <2>7, <2>8, <2>9, StepAlloc
<1>6. CASE s # <<>>
  <2>1. /\ Head(todo) = Head(s) /\ Head(s) \in Block3 /\ Tail(todo) = Tail(s) \o Rest3 /\ Tail(s) \in Seq(Block3)
        /\ \A k \in DOMAIN s : s[k] = Head(s) \/ \E j \in DOMAIN Tail(s) : Tail(s)[j] = s[k]
    BY <1>1, <1>2, <1>6, BlockStep
  <2>2. PICK x, t : x = Head(s) /\ t = Tail(s)
    OBVIOUS
  <2>3. ASSUME Typed', Moves, cr3' = cr3, Built', Owned', Entry(mem', PML4_KERNEL, REC) = Entry(mem, PML4_KERNEL, REC),
               Enough(mem', bitmap', PML4_KERNEL, Reserve, MappedPages, 2 * AllTables + 2), Fresh(t)'
        PROVE  Inv'
    <3>1. todo' = t \o Rest3 /\ t \in Seq(Block3)
      BY <2>1, <2>2, <2>3 DEF Moves
    <3>2. Early' /\ Recursive'
      BY <1>3, <2>3 DEF Early, Recursive, Moves, table
    <3>3. Boot3'
      BY <3>1, <3>2, <2>3 DEF Boot3
    <3>4. QED
      BY <2>3, <3>3 DEF Inv, Where
  <2>4. CASE x \in Ops({"sti", "ready"})
    <3>1. Head(todo).op \in {"sti", "ready"}
      BY <2>1, <2>2, <2>4 DEF Ops
    <3>2. Typed' /\ Moves /\ UNCHANGED <<mem, bitmap, cr3>>
      BY <3>1, PlainStep
    <3>3. Built' /\ Owned'
      BY <1>3, <3>2, SameBuilt DEF Moves, table, Owned
    <3>4. Fresh(t)'
      BY <1>1, <2>1, <2>2, <3>1, <3>2 DEF Fresh, Taken
    <3>5. QED
      BY <1>3, <2>3, <3>2, <3>3, <3>4
  <2>5. ASSUME NEW v \in HeapPages \cup HardwarePages \cup BootPages, NEW p \in Frame,
               Head(todo).op = "map", Head(todo).pcb = kpcb, Head(todo).v = v, Head(todo).p = p, Head(todo).set = TRUE
        PROVE  Inv'
    <3>1. v \in MappedPages /\ v \notin Reserve
      BY NotReserve
    <3>2. kpcb \in 1 .. Len(pcbs) /\ pcbs[kpcb].pml4 = PML4_KERNEL
      BY KernelPcb DEF Typed
    <3>3. Root = pcbs[kpcb].pml4
      BY <1>3, <3>2 DEF Root, Recursive
    <3>4. 2 * AllTables + 2 \in Nat
      BY <1>4
    <3>5. MapEffect(kpcb, v, p, 2 * AllTables + 2)
      BY <1>3, <2>5, <3>1, <3>2, <3>3, <3>4, MapReserve
    <3>6. Fresh(t)'
      <4>1. CASE Taken
        BY <4>1, <3>5 DEF MapEffect, Fresh
      <4>2. CASE ~ Taken
        <5>1. PICK k \in DOMAIN s : s[k].op = "map" /\ Pt(mem, PML4_KERNEL, s[k].v) = NoFrame
          BY <1>1, <4>2 DEF Fresh
        <5>2. s[k].v \in MappedPages
          BY <1>1, <5>1, Block3Pages
        <5>3. allocate_page(bitmap) = PML4_BOOT
          BY <1>3, <4>2, BootFrameFirst
        <5>4. Taken' \/ (Pt(mem', PML4_KERNEL, s[k].v) = NoFrame /\ s[k].v # v)
          BY <3>2, <3>5, <5>1, <5>2, <5>3 DEF MapEffect, Taken
        <5>5. CASE Taken'
          BY <5>5 DEF Fresh
        <5>6. CASE Pt(mem', PML4_KERNEL, s[k].v) = NoFrame /\ s[k].v # v
          <6>1. s[k] # Head(s)
            BY <5>6, <2>1, <2>5
          <6>2. PICK j \in DOMAIN t : t[j] = s[k]
            BY <6>1, <2>1, <2>2
          <6>3. QED
            BY <6>2, <5>1, <5>6 DEF Fresh
        <5>7. QED
          BY <5>4, <5>5, <5>6
      <4>3. QED
        BY <4>1, <4>2
    <3>7. QED
      BY <3>2, <3>5, <3>6, <2>3 DEF MapEffect
  <2>6. CASE x \in Maps(kpcb, HeapPages \cup HardwarePages, 0, TRUE)
    <3>1. PICK v \in HeapPages \cup HardwarePages : x.op = "map" /\ x.pcb = kpcb /\ x.v = v /\ x.p = v + 0 /\ x.set = TRUE
      BY <2>6 DEF Maps
    <3>2. v \in Frame /\ v + 0 = v
      BY ProcessAssumption, Constants
    <3>3. QED
      BY <3>1, <3>2, <2>1, <2>2, <2>5
  <2>7. CASE x \in Maps(kpcb, BootPages, BootOffset, TRUE)
    <3>1. PICK v \in BootPages : x.op = "map" /\ x.pcb = kpcb /\ x.v = v /\ x.p = v + BootOffset /\ x.set = TRUE
      BY <2>7 DEF Maps
    <3>2. v + BootOffset \in Frame
      BY BootFrames
    <3>3. QED
      BY <3>1, <3>2, <2>1, <2>2, <2>5
  <2>8. QED
    BY <2>1, <2>2, <2>4, <2>6, <2>7 DEF Block3
<1>7. QED
  BY <1>5, <1>6

\* Making goes on while the PCBs and cr3 stay.
LEMMA MakingKept ==
  ASSUME NEW id \in {2, 3}, Making(id), Moves, Built', Owned', Taken', cr3' = cr3
  PROVE  Making(id)' /\ PmlOf(id)' = PmlOf(id)
BY DEF Making, Moves, table, PmlOf

\* The mapping of a process's own pages into the kernel's tables.
LEMMA OwnMapped ==
  ASSUME Typed, Kernel, NEW id \in {2, 3}, Making(id), Recursive,
         Head(todo) \in OwnMaps(id, PmlOf(id)), NEW c \in Nat,
         Enough(mem, bitmap, PML4_KERNEL, Reserve, MappedPages, c)
  PROVE  \E v, p : MapEffect(kpcb, v, p, c)
<1>1. Built /\ Owned /\ id <= Len(pcbs)
  BY DEF Making
<1>2. kpcb \in 1 .. Len(pcbs) /\ pcbs[kpcb].pml4 = PML4_KERNEL
  BY KernelPcb DEF Typed
<1>3. Root = pcbs[kpcb].pml4
  BY <1>2 DEF Root, Recursive
<1>4. ASSUME NEW v \in MappedPages, v \notin Reserve \/ bitmap[v] # 0, NEW p \in Frame,
             Head(todo).op = "map", Head(todo).pcb = kpcb, Head(todo).v = v, Head(todo).p = p, Head(todo).set = TRUE
      PROVE  MapEffect(kpcb, v, p, c)
  BY <1>1, <1>2, <1>3, <1>4, MapReserve
<1>5. CASE Head(todo) \in Maps(kpcb, {PmlOf(id)}, 0, TRUE)
  <2>1. PICK v \in {PmlOf(id)} : /\ Head(todo).op = "map" /\ Head(todo).pcb = kpcb /\ Head(todo).v = v
                                 /\ Head(todo).p = v + 0 /\ Head(todo).set = TRUE
    BY <1>5 DEF Maps
  <2>2. v \in MappedPages /\ bitmap[v] # 0 /\ v \in Frame /\ v + 0 = v
    BY <1>1, OwnPml4
  <2>3. QED
    BY <2>1, <2>2, <1>4
<1>6. CASE Head(todo) \in Maps(kpcb, Window, Slot(id - 2) - WindowStart, TRUE)
  <2>1. PICK v \in Window : /\ Head(todo).op = "map" /\ Head(todo).pcb = kpcb /\ Head(todo).v = v
                            /\ Head(todo).p = v + (Slot(id - 2) - WindowStart) /\ Head(todo).set = TRUE
    <3>1. PICK d : d = Slot(id - 2) - WindowStart
      OBVIOUS
    <3>2. Head(todo) \in Maps(kpcb, Window, d, TRUE)
      BY <3>1, <1>6
    <3>3. PICK v \in Window : MapsPage(Head(todo), kpcb, v, d, TRUE)
      BY <3>2, MapsAre
    <3>4. QED
      BY <3>1, <3>3, Zenon DEF MapsPage
  <2>2. v \in MappedPages /\ v \notin Reserve
    BY NotReserve
  <2>3. v + (Slot(id - 2) - WindowStart) \in Frame
    BY WindowFrames
  <2>4. QED
    BY <2>1, <2>2, <2>3, <1>4
<1>7. QED
  BY <1>5, <1>6 DEF OwnMaps

\* alloc_proc maps the PML4 and the memory of the process into the kernel's tables.
LEMMA StepAlloc4 == ASSUME Typed, NEW id \in {2, 3}, Alloc4(id), Kernel PROVE Inv'
<1>1. PICK q : q = PmlOf(id)
  OBVIOUS
<1>2. /\ Making(id) /\ pcb_list = Older(id) /\ Recursive /\ Built /\ Owned /\ id <= Len(pcbs)
      /\ Enough(mem, bitmap, PML4_KERNEL, Reserve, MappedPages, Later(id) + AllTables)
  BY DEF Alloc4, Making
<1>3. PICK z \in Tails(id) : \E s \in Seq(OwnMaps(id, q)) : todo = s \o Rest4(id, q, z)
  BY <1>1 DEF Alloc4
<1>4. PICK s \in Seq(OwnMaps(id, q)) : todo = s \o Rest4(id, q, z)
  BY <1>3
<1>5. q \in Frame /\ q \in MappedPages /\ id \in 1 .. Len(pcbs) /\ id # kpcb
  BY <1>1, <1>2, OwnPml4
<1>6. IsSeq(Rest4(id, q, z)) /\ IsSeq(Rest4a(id, q, z))
  BY <1>5, TailIsSeq, AllocText DEF AllocIs
<1>7. Later(id) + AllTables \in Nat
  BY MissingAtMost DEF Later
<1>8. kpcb \in 1 .. Len(pcbs) /\ pcbs[kpcb].pml4 = PML4_KERNEL
  BY KernelPcb DEF Typed
<1>9. CASE s = <<>>
  <2>1. PICK x, r : x = [op |-> "rec", pml4 |-> q, to |-> q] /\ r = Rest4a(id, q, z)
    OBVIOUS
  <2>2. todo = Rest4(id, q, z)
    BY <1>4, <1>6, <1>9, FirstOf
  <2>3. todo = <<x>> \o r
    BY <2>1, <2>2 DEF Rest4, SetRec
  <2>4. Head(todo) = x /\ Tail(todo) = r
    BY <1>6, <2>1, <2>3, FirstOf
  <2>5. Head(todo).op = "rec" /\ Head(todo).pml4 = pcbs[id].pml4 /\ Head(todo).to = q
    BY <1>1, <2>1, <2>4 DEF PmlOf
  <2>6. RecEffect(id, q)
    BY <1>2, <1>5, <2>5, RecBuilt
  <2>7. Typed' /\ Moves /\ Built' /\ bitmap' = bitmap /\ cr3' = cr3
    BY <2>6 DEF RecEffect
  <2>8. Owned' /\ Taken'
    BY <1>2, <2>7 DEF Owned, Taken, Making
  <2>9. Making(id)' /\ PmlOf(id)' = q
    BY <1>1, <1>2, <2>7, <2>8, MakingKept
  <2>10. Recursive'
    <3>1. Entry(mem', PML4_KERNEL, REC) = Entry(mem, PML4_KERNEL, REC)
      BY <1>5, <1>8, <2>6 DEF RecEffect
    <3>2. QED
      BY <3>1, <1>2, <2>7 DEF Recursive
  <2>11. Enough(mem', bitmap', PML4_KERNEL, Reserve, MappedPages, Later(id) + AllTables)
    <3>1. Kept(id, 0) /\ Later(id) + AllTables \in Int
      BY <1>7, <2>6 DEF RecEffect
    <3>2. QED
      BY <3>1, <1>2, <1>8, <2>7, EnoughKept1
  <2>12. todo' = Rest4a(id, PmlOf(id)', z) /\ pcb_list' = Older(id)
    BY <1>2, <2>1, <2>4, <2>7, <2>9 DEF Moves, table
  <2>13. Alloc4a(id)'
    BY <2>9, <2>10, <2>11, <2>12 DEF Alloc4a
  <2>14. QED
    BY <2>7, <2>13 DEF Inv, Where
<1>10. CASE s # <<>>
  <2>1. /\ Head(todo) = Head(s) /\ Head(s) \in OwnMaps(id, q) /\ Tail(todo) = Tail(s) \o Rest4(id, q, z)
        /\ Tail(s) \in Seq(OwnMaps(id, q))
    BY <1>4, <1>6, <1>10, BlockStep
  <2>2. PICK v, p : MapEffect(kpcb, v, p, Later(id) + AllTables)
    BY <1>1, <1>2, <1>7, <2>1, OwnMapped
  <2>3. /\ Typed' /\ Moves /\ Built' /\ Owned' /\ (Taken => Taken') /\ cr3' = cr3
        /\ Enough(mem', bitmap', PML4_KERNEL, Reserve, MappedPages, Later(id) + AllTables)
        /\ Entry(mem', PML4_KERNEL, REC) = Entry(mem, PML4_KERNEL, REC)
    BY <1>8, <2>2 DEF MapEffect
  <2>4. Making(id)' /\ PmlOf(id)' = q
    BY <1>1, <1>2, <2>3, MakingKept DEF Making
  <2>5. Recursive' /\ pcb_list' = Older(id)
    BY <1>2, <2>3 DEF Recursive, Moves, table
  <2>6. \E t \in Seq(OwnMaps(id, PmlOf(id)')) : todo' = t \o Rest4(id, PmlOf(id)', z)
    BY <2>1, <2>3, <2>4 DEF Moves
  <2>7. Alloc4(id)'
    BY <2>3, <2>4, <2>5, <2>6 DEF Alloc4
  <2>8. QED
    BY <2>3, <2>7 DEF Inv, Where
<1>11. QED
  BY <1>9, <1>10

\* alloc_proc leads the kernel's recursive entry to the process's PML4.
LEMMA StepAlloc4a == ASSUME Typed, NEW id \in {2, 3}, Alloc4a(id), Kernel PROVE Inv'
<1>1. PICK q : q = PmlOf(id)
  OBVIOUS
<1>2. /\ Making(id) /\ pcb_list = Older(id) /\ Recursive /\ Built /\ Owned /\ Taken /\ id <= Len(pcbs)
      /\ Enough(mem, bitmap, PML4_KERNEL, Reserve, MappedPages, Later(id) + AllTables)
  BY DEF Alloc4a, Making
<1>3. PICK z \in Tails(id) : todo = Rest4a(id, q, z)
  BY <1>1 DEF Alloc4a
<1>4. q \in Frame /\ q \in MappedPages /\ id \in 1 .. Len(pcbs) /\ id # kpcb
  BY <1>1, <1>2, OwnPml4
<1>5. kpcb \in 1 .. Len(pcbs) /\ pcbs[kpcb].pml4 = PML4_KERNEL
  BY KernelPcb DEF Typed
<1>6. PICK x, r : x = [op |-> "rec", pml4 |-> PML4_KERNEL, to |-> q] /\ r = Code5(id, q) \o Rest5(id, z)
  OBVIOUS
<1>7. IsSeq(r)
  BY <1>4, <1>6, TailIsSeq, AllocText DEF AllocIs
<1>8. todo = <<x>> \o r
  BY <1>3, <1>6 DEF Rest4a, SetRec
<1>9. Head(todo) = x /\ Tail(todo) = r
  BY <1>7, <1>8, FirstOf
<1>10. Head(todo).op = "rec" /\ Head(todo).pml4 = pcbs[kpcb].pml4 /\ Head(todo).to = q
  BY <1>5, <1>6, <1>9
<1>11. RecEffect(kpcb, q)
  BY <1>2, <1>4, <1>5, <1>10, RecBuilt
<1>12. /\ Typed' /\ Moves /\ Built' /\ bitmap' = bitmap /\ cr3' = cr3 /\ Kept(kpcb, 0)
       /\ Entry(mem', PML4_KERNEL, REC) = q
  BY <1>5, <1>11 DEF RecEffect
<1>13. Owned' /\ Taken'
  BY <1>2, <1>12 DEF Owned, Taken
<1>14. Making(id)' /\ PmlOf(id)' = q /\ pcb_list' = Older(id)
  <2>1. Making(id)' /\ PmlOf(id)' = q
    BY <1>1, <1>2, <1>12, <1>13, MakingKept
  <2>2. QED
    BY <2>1, <1>2, <1>12 DEF Moves, table
<1>15. Enough(mem', bitmap', q, Reserve, MappedPages, Cardinality(Missing(mem', PML4_KERNEL, MappedPages)) + Later(id))
  <2>1. PICK f, a, b, c, e :
          /\ f = Cardinality(Free(bitmap, Reserve)) /\ a = Cardinality(Missing(mem, PML4_KERNEL, MappedPages))
          /\ b = Cardinality(Missing(mem', PML4_KERNEL, MappedPages)) /\ c = Cardinality(Missing(mem', q, MappedPages))
          /\ e = Later(id)
    OBVIOUS
  <2>2. f \in Nat /\ a \in Nat /\ b \in Nat /\ c \in Nat /\ e \in Nat /\ AllTables \in Nat /\ c <= AllTables
    BY <2>1, MissingAtMost, FreeCounted, MappedFacts DEF Later
  <2>3. f >= a + (e + AllTables) /\ b <= a
    BY <1>2, <1>5, <1>12, <2>1 DEF Enough, Kept
  <2>4. f >= c + (b + e)
    BY <2>2, <2>3
  <2>5. QED
    BY <2>1, <2>4, <1>12 DEF Enough
<1>16. /\ todo' = Code5(id, q) \o Rest5(id, z) /\ Code5(id, q) \in Seq(Block5(id, q))
       /\ \A v \in Window : Mapped(Code5(id, q), v)
  BY <1>4, <1>6, <1>9, <1>12, ProcBlocks DEF Moves
<1>17. \E s \in Seq(Block5(id, q)) : /\ todo' = s \o Rest5(id, z)
         /\ \A v \in Window : Walk(mem', q, v) = Slot(id - 2) + v - WindowStart \/ Mapped(s, v)
  BY <1>16
<1>18. Alloc5(id)'
  BY <1>12, <1>14, <1>15, <1>17 DEF Alloc5
<1>19. QED
  BY <1>12, <1>18 DEF Inv, Where

\* A window that a PML4 shows is not disturbed by changes under other PML4s.
LEMMA ShowsKept ==
  ASSUME NEW id \in {2, 3}, NEW j \in 1 .. Len(pcbs), NEW k, k # j, NEW w, Kept(k, w), Shows(pcbs[j].pml4, id), Moves
  PROVE  Shows(pcbs[j].pml4, id)'
<1>1. SUFFICES ASSUME NEW v \in Window PROVE Walk(mem', pcbs'[j].pml4, v) = Slot(id - 2) + v - WindowStart
  BY DEF Shows
<1>2. PICK n : n = Slot(id - 2) + v - WindowStart
  OBVIOUS
<1>3. n \in Frame
  BY <1>2, WindowFrames
<1>4. Walk(mem, pcbs[j].pml4, v) = n
  BY <1>2 DEF Shows
<1>5. n # NoFrame
  BY <1>3, Constants
<1>6. v \in MappedPages
  BY NotReserve
<1>7. Walk(mem', pcbs[j].pml4, v) = n
  BY <1>4, <1>5, <1>6 DEF Kept
<1>8. QED
  BY <1>2, <1>7 DEF Moves, table

\* A page of the window stays what it is when it is mapped to the same frame, or another one is mapped.
LEMMA ShowsMore ==
  ASSUME NEW id \in {2, 3}, NEW j \in 1 .. Len(pcbs), NEW w, Kept(j, w), NEW v \in Window,
         Walk(mem, pcbs[j].pml4, v) = Slot(id - 2) + v - WindowStart,
         w = v => Walk(mem', pcbs[j].pml4, v) = Slot(id - 2) + v - WindowStart
  PROVE  Walk(mem', pcbs[j].pml4, v) = Slot(id - 2) + v - WindowStart
<1>1. PICK n : n = Slot(id - 2) + v - WindowStart
  OBVIOUS
<1>2. n \in Frame
  BY <1>1, WindowFrames
<1>3. n # NoFrame
  BY <1>2, Constants
<1>4. v \in MappedPages
  BY NotReserve
<1>5. CASE w = v
  BY <1>5
<1>6. CASE w # v
  BY <1>1, <1>3, <1>4, <1>6 DEF Kept
<1>7. QED
  BY <1>5, <1>6

\* alloc_proc builds the process's tables, and leads the recursive entry back.
LEMMA StepAlloc5 == ASSUME Typed, NEW id \in {2, 3}, Alloc5(id), Kernel PROVE Inv'
<1>1. PICK q : q = PmlOf(id)
  OBVIOUS
<1>2. PICK c : c = Cardinality(Missing(mem, PML4_KERNEL, MappedPages)) + Later(id)
  OBVIOUS
<1>3. /\ Making(id) /\ pcb_list = Older(id) /\ Built /\ Owned /\ Taken /\ id <= Len(pcbs) /\ cr3 = PML4_KERNEL
      /\ Entry(mem, PML4_KERNEL, REC) = q
      /\ Enough(mem, bitmap, q, Reserve, MappedPages, c)
  BY <1>1, <1>2 DEF Alloc5, Making
<1>4. PICK z \in Tails(id) : \E s \in Seq(Block5(id, q)) :
        /\ todo = s \o Rest5(id, z)
        /\ \A v \in Window : Walk(mem, q, v) = Slot(id - 2) + v - WindowStart \/ Mapped(s, v)
  BY <1>1 DEF Alloc5
<1>5. PICK s \in Seq(Block5(id, q)) :
        /\ todo = s \o Rest5(id, z)
        /\ \A v \in Window : Walk(mem, q, v) = Slot(id - 2) + v - WindowStart \/ Mapped(s, v)
  BY <1>4
<1>6. /\ q \in Frame /\ q \in MappedPages /\ id \in 1 .. Len(pcbs) /\ id # kpcb /\ bitmap[q] # 0
      /\ q \notin Window /\ q + 0 = q
  BY <1>1, <1>3, OwnPml4
<1>7. kpcb \in 1 .. Len(pcbs) /\ pcbs[kpcb].pml4 = PML4_KERNEL /\ pcbs[id].pml4 = q
  BY <1>1, KernelPcb DEF Typed, PmlOf
<1>8. IsSeq(Rest5(id, z)) /\ IsSeq(UnmapRange(Window) \o Rest6(id, z))
  BY <1>6, TailIsSeq, AllocText DEF AllocIs
<1>9. c \in Nat /\ Later(id) \in Nat
  BY <1>2, MissingAtMost DEF Later
<1>10. CASE s = <<>>
  <2>1. PICK x, r : x = [op |-> "rec", pml4 |-> PML4_KERNEL, to |-> PML4_KERNEL] /\ r = UnmapRange(Window) \o Rest6(id, z)
    OBVIOUS
  <2>2. todo = Rest5(id, z)
    BY <1>5, <1>8, <1>10, FirstOf
  <2>3. todo = <<x>> \o r
    BY <2>1, <2>2 DEF Rest5, SetRec
  <2>4. Head(todo) = x /\ Tail(todo) = r
    BY <1>8, <2>1, <2>3, FirstOf
  <2>5. Head(todo).op = "rec" /\ Head(todo).pml4 = pcbs[kpcb].pml4 /\ Head(todo).to = PML4_KERNEL /\ PML4_KERNEL \in Frame
    BY <1>7, <2>1, <2>4, Constants, SMTT(30)
  <2>6. RecEffect(kpcb, PML4_KERNEL)
    BY <1>3, <1>7, <2>5, RecBuilt
  <2>7. /\ Typed' /\ Moves /\ Built' /\ bitmap' = bitmap /\ cr3' = cr3 /\ Kept(kpcb, 0)
        /\ Entry(mem', PML4_KERNEL, REC) = PML4_KERNEL
    BY <1>7, <2>6 DEF RecEffect
  <2>8. Owned' /\ Taken' /\ Recursive'
    BY <1>3, <2>7 DEF Owned, Taken, Recursive
  <2>9. Making(id)' /\ PmlOf(id)' = q
    BY <1>1, <1>3, <2>7, <2>8, MakingKept
  <2>10. Shows(PmlOf(id), id)'
    <3>1. Shows(pcbs[id].pml4, id)
      BY <1>5, <1>7, <1>10 DEF Shows, Mapped
    <3>2. Shows(pcbs[id].pml4, id)'
      BY <3>1, <1>6, <2>7, ShowsKept
    <3>3. QED
      BY <3>2 DEF PmlOf
  <2>11. Enough(mem', bitmap', PML4_KERNEL, Reserve, MappedPages, Later(id))
    <3>1. PICK f, a, b, e, l :
            /\ f = Cardinality(Free(bitmap, Reserve)) /\ a = Cardinality(Missing(mem, PML4_KERNEL, MappedPages))
            /\ b = Cardinality(Missing(mem', PML4_KERNEL, MappedPages)) /\ e = Cardinality(Missing(mem, q, MappedPages))
            /\ l = Later(id)
      OBVIOUS
    <3>2. f \in Nat /\ a \in Nat /\ b \in Nat /\ e \in Nat /\ l \in Nat
      BY <3>1, <1>9, MissingAtMost, FreeCounted, MappedFacts
    <3>3. f >= e + (a + l) /\ b <= a
      BY <1>2, <1>3, <1>7, <2>7, <3>1 DEF Enough, Kept
    <3>4. f >= b + l
      BY <3>2, <3>3
    <3>5. QED
      BY <3>1, <3>4, <2>7 DEF Enough
  <2>12. Made(id)'
    BY <2>8, <2>9, <2>10, <2>11 DEF Made
  <2>13. UnmapRange(Window) \in Seq(Unmaps(Window))
    BY PagesCounted, RangeIsSeq
  <2>14. todo' = UnmapRange(Window) \o Rest6(id, z) /\ pcb_list' = Older(id)
    BY <1>3, <2>1, <2>4, <2>7 DEF Moves, table
  <2>15. Alloc6(id)'
    BY <2>12, <2>13, <2>14 DEF Alloc6
  <2>16. QED
    BY <2>7, <2>15 DEF Inv, Where
<1>11. CASE s # <<>>
  <2>1. /\ Head(todo) = Head(s) /\ Head(s) \in Block5(id, q) /\ Tail(todo) = Tail(s) \o Rest5(id, z)
        /\ Tail(s) \in Seq(Block5(id, q))
    BY <1>5, <1>8, <1>11, BlockStep
  <2>2. PICK x, t : x = Head(s) /\ t = Tail(s)
    OBVIOUS
  <2>3. \A v \in Window : Walk(mem, q, v) = Slot(id - 2) + v - WindowStart \/ (x.op = "map" /\ x.v = v) \/ Mapped(t, v)
    BY <1>5, <1>11, <2>2, MappedNext
  <2>4. ASSUME NEW w \in MappedPages, w \notin Reserve \/ bitmap[w] # 0, NEW p \in Frame, MapsPage(x, id, w, p - w, TRUE), x.p = p,
               w \in Window => p = Slot(id - 2) + w - WindowStart
        PROVE  Inv'
    <3>1. Head(todo).op = "map" /\ Head(todo).pcb = id /\ Head(todo).v = w /\ Head(todo).p = p /\ Head(todo).set = TRUE
      BY <2>1, <2>2, <2>4 DEF MapsPage
    <3>2. Root = pcbs[id].pml4
      BY <1>3, <1>7 DEF Root
    <3>3. MapEffect(id, w, p, c)
      BY <1>3, <1>6, <1>7, <1>9, <2>4, <3>1, <3>2, MapReserve
    <3>4. /\ Typed' /\ Moves /\ Built' /\ Owned' /\ (Taken => Taken') /\ cr3' = cr3 /\ Kept(id, w) /\ Walk(mem', q, w) = p
          /\ Entry(mem', PML4_KERNEL, REC) = q /\ Enough(mem', bitmap', q, Reserve, MappedPages, c)
      BY <1>3, <1>7, <3>3 DEF MapEffect
    <3>5. Making(id)' /\ PmlOf(id)' = q
      BY <1>1, <1>3, <3>4, MakingKept
    <3>6. Enough(mem', bitmap', q, Reserve, MappedPages, Cardinality(Missing(mem', PML4_KERNEL, MappedPages)) + Later(id))
      <4>1. PICK f, a, b, e, l :
              /\ f = Cardinality(Free(bitmap', Reserve)) /\ a = Cardinality(Missing(mem, PML4_KERNEL, MappedPages))
              /\ b = Cardinality(Missing(mem', PML4_KERNEL, MappedPages)) /\ e = Cardinality(Missing(mem', q, MappedPages))
              /\ l = Later(id)
        OBVIOUS
      <4>2. f \in Nat /\ a \in Nat /\ b \in Nat /\ e \in Nat /\ l \in Nat
        BY <4>1, <1>9, MissingAtMost, FreeCounted, MappedFacts
      <4>3. f >= e + (a + l) /\ b <= a
        BY <1>2, <1>7, <3>4, <4>1 DEF Enough, Kept
      <4>4. f >= e + (b + l)
        BY <4>2, <4>3
      <4>5. QED
        BY <4>1, <4>4 DEF Enough
    <3>7. \A v \in Window : Walk(mem', q, v) = Slot(id - 2) + v - WindowStart \/ Mapped(t, v)
      <4> TAKE v \in Window
      <4>1. w = v => Walk(mem', pcbs[id].pml4, v) = Slot(id - 2) + v - WindowStart
        BY <1>7, <2>4, <3>4
      <4>2. CASE Walk(mem, q, v) = Slot(id - 2) + v - WindowStart
        BY <4>1, <4>2, <1>6, <1>7, <3>4, ShowsMore
      <4>3. CASE x.op = "map" /\ x.v = v
        <5>1. w = v
          BY <4>3, <2>4 DEF MapsPage
        <5>2. QED
          BY <5>1, <4>1, <1>7
      <4>4. QED
        BY <4>2, <4>3, <2>3
    <3>8. todo' = t \o Rest5(id, z) /\ t \in Seq(Block5(id, q)) /\ pcb_list' = Older(id)
      BY <1>3, <2>1, <2>2, <3>4 DEF Moves, table
    <3>9. \E u \in Seq(Block5(id, q)) :
            /\ todo' = u \o Rest5(id, z)
            /\ \A v \in Window : Walk(mem', q, v) = Slot(id - 2) + v - WindowStart \/ Mapped(u, v)
      BY <3>7, <3>8
    <3>10. Alloc5(id)'
      BY <3>4, <3>5, <3>6, <3>8, <3>9 DEF Alloc5
    <3>11. QED
      BY <3>4, <3>10 DEF Inv, Where
  <2>5. CASE x \in Maps(id, {q}, 0, TRUE)
    <3>1. PICK v \in {q} : MapsPage(x, id, v, 0, TRUE)
      <4>1. PICK V : V = {q}
        OBVIOUS
      <4>2. x \in Maps(id, V, 0, TRUE)
        BY <4>1, <2>5
      <4>3. \E v \in V : MapsPage(x, id, v, 0, TRUE)
        BY <4>2, MapsAre
      <4>4. QED
        BY <4>1, <4>3
    <3>2. x.p = q /\ q - q = 0
      BY <3>1, <1>6, Constants DEF MapsPage
    <3>3. QED
      BY <3>1, <3>2, <1>6, <2>4
  <2>6. CASE x \in Maps(id, Window, Slot(id - 2) - WindowStart, TRUE)
    <3>1. PICK d : d = Slot(id - 2) - WindowStart
      OBVIOUS
    <3>2. x \in Maps(id, Window, d, TRUE)
      BY <3>1, <2>6
    <3>3. PICK v \in Window : MapsPage(x, id, v, d, TRUE)
      BY <3>2, MapsAre
    <3>4. v \in Nat /\ d \in Int /\ v + d \in Frame /\ v + d = Slot(id - 2) + v - WindowStart
      BY <3>1, WindowFrames, SMTT(30)
    <3>5. x.p = v + d /\ (v + d) - v = d
      BY <3>3, <3>4 DEF MapsPage
    <3>6. v \in MappedPages /\ v \notin Reserve
      BY NotReserve
    <3>7. PICK p \in Frame : p = v + d
      BY <3>4
    <3>8. MapsPage(x, id, v, p - v, TRUE) /\ x.p = p /\ p = Slot(id - 2) + v - WindowStart
      BY <3>3, <3>4, <3>5, <3>7
    <3>9. QED
      BY <3>6, <3>8, <2>4
  <2>7. CASE x \in Maps(id, KernelPages \cup ProcHeapPages, 0, TRUE)
    <3>1. PICK v \in KernelPages \cup ProcHeapPages : MapsPage(x, id, v, 0, TRUE)
      BY <2>7, MapsAre
    <3>2. v \in KernelPages \cup HeapPages /\ v \in Frame /\ v \in Nat /\ v \notin Window
      BY ProcessAssumption, LayoutAssumption, Constants
    <3>3. x.p = v /\ v - v = 0
      BY <3>1, <3>2 DEF MapsPage
    <3>4. v \in MappedPages /\ v \notin Reserve
      BY <3>2, NotReserve
    <3>5. QED
      BY <3>1, <3>2, <3>3, <3>4, <2>4
  <2>8. CASE x \in Maps(id, BootPages, BootOffset, TRUE)
    <3>1. PICK v \in BootPages : MapsPage(x, id, v, BootOffset, TRUE)
      BY <2>8, MapsAre
    <3>2. PICK p \in Frame : p = v + BootOffset
      BY BootFrames
    <3>3. v \in Nat /\ v \notin Window /\ BootOffset \in Int
      <4>1. v \in Frame
        BY LayoutAssumption
      <4>2. BootOffset \in Int
        <5>1. PICK a : a = CHOOSE b \in BootPages : \A e \in BootPages : b <= e
          OBVIOUS
        <5>2. \E b \in BootPages : \A e \in BootPages : b <= e
          <6>1. BootPages \in SUBSET Nat
            BY LayoutAssumption, Constants
          <6>2. QED
            BY <6>1, LeastElement
        <5>3. a \in BootPages
          BY <5>1, <5>2
        <5>4. a \in Int /\ BootOffset = - a
          BY <5>1, <5>3, LayoutAssumption, Constants DEF BootOffset
        <5>5. QED
          BY <5>4
      <4>3. QED
        BY <4>1, <4>2, LayoutAssumption, Constants
    <3>4. x.p = p /\ p - v = BootOffset
      BY <3>1, <3>2, <3>3 DEF MapsPage
    <3>5. v \in MappedPages /\ v \notin Reserve
      BY NotReserve
    <3>6. QED
      BY <3>1, <3>3, <3>4, <3>5, <2>4
  <2>9. QED
    BY <2>1, <2>2, <2>5, <2>6, <2>7, <2>8 DEF Block5
<1>12. QED
  BY <1>10, <1>11

\* Another context, state or parent in a PCB.
PcbChanged(id) ==
  /\ Len(pcbs') = Len(pcbs) /\ pcbs' \in Seq(PCBs)
  /\ \A j \in 1 .. Len(pcbs) : j # id => pcbs'[j] = pcbs[j]
  /\ pcbs'[id].pid = pcbs[id].pid /\ pcbs'[id].pml4 = pcbs[id].pml4 /\ pcbs'[id].real_mem_addr = pcbs[id].real_mem_addr

\* Changing a PCB but not its numbers, memory and PML4 keeps tables and windows.
LEMMA PcbSet ==
  ASSUME Listed, NEW id \in 1 .. Len(pcbs), PcbChanged(id), UNCHANGED <<mem, bitmap, pcb_list, current_pcb>>, Built
  PROVE  /\ Listed' /\ Built' /\ \A j \in 1 .. Len(pcbs) : pcbs'[j].pml4 = pcbs[j].pml4
         /\ \A j \in 1 .. Len(pcbs), k \in {2, 3} : Shows(pcbs[j].pml4, k) => Shows(pcbs[j].pml4, k)'
<1>1. /\ \A j \in 1 .. Len(pcbs) : pcbs'[j].pml4 = pcbs[j].pml4 /\ pcbs'[j].pid = pcbs[j].pid
                                   /\ pcbs'[j].real_mem_addr = pcbs[j].real_mem_addr
      /\ Len(pcbs') = Len(pcbs) /\ pcbs' \in Seq(PCBs)
  BY DEF PcbChanged
<1>2. Listed'
  <2>1. /\ Len(pcbs') \in 1 .. 3 /\ current_pcb' \in 0 .. Len(pcbs') /\ pcb_list' \in Seq({2, 3})
        /\ \A k \in DOMAIN pcb_list' : pcb_list'[k] <= Len(pcbs')
    BY <1>1 DEF Listed
  <2>2. pcbs'[1].pid = KERNEL_PID /\ pcbs'[1].pml4 = PML4_KERNEL
    BY <1>1 DEF Listed
  <2>3. \A j \in 2 .. Len(pcbs') : /\ pcbs'[j].pid = j /\ pcbs'[j].real_mem_addr = Slot(j - 2) /\ pcbs'[j].pml4 \in Usable
    <3> TAKE j \in 2 .. Len(pcbs')
    <3>1. j \in 1 .. Len(pcbs) /\ j \in 2 .. Len(pcbs)
      BY <1>1 DEF Listed
    <3>2. pcbs[j].pid = j /\ pcbs[j].real_mem_addr = Slot(j - 2) /\ pcbs[j].pml4 \in Usable
      BY <3>1 DEF Listed
    <3>3. QED
      BY <3>1, <3>2, <1>1
  <2>4. QED
    BY <2>1, <2>2, <2>3, <1>1 DEF Listed
<1>3. PICK lv \in Levels : Tree(mem, bitmap, lv) /\ Roots(lv)
  BY DEF Built
<1>4. Roots(lv)'
  BY <1>1, <1>3 DEF Roots
<1>5. Built'
  BY <1>3, <1>4 DEF Built
<1>6. QED
  BY <1>1, <1>2, <1>5 DEF Shows

\* The process that was made stays made while its window is kept.
LEMMA MadeKept ==
  ASSUME Typed, NEW id \in {2, 3}, Made(id), Moves, Built', Owned', Taken', cr3' = cr3, NEW w, Kept(kpcb, w),
         Entry(mem', PML4_KERNEL, REC) = Entry(mem, PML4_KERNEL, REC),
         Enough(mem', bitmap', PML4_KERNEL, Reserve, MappedPages, Later(id))
  PROVE  Made(id)' /\ PmlOf(id)' = PmlOf(id)
<1>1. Making(id) /\ Recursive /\ Shows(pcbs[id].pml4, id) /\ Built /\ id <= Len(pcbs)
  BY DEF Made, Making, PmlOf
<1>2. Making(id)' /\ PmlOf(id)' = PmlOf(id)
  BY <1>1, MakingKept
<1>3. id \in 1 .. Len(pcbs) /\ id # kpcb
  BY <1>1, OwnPml4
<1>4. Shows(pcbs[id].pml4, id)'
  BY <1>1, <1>3, ShowsKept
<1>5. Recursive'
  BY <1>1 DEF Recursive
<1>6. QED
  BY <1>2, <1>4, <1>5 DEF Made, PmlOf

\* An unmap instruction of a block.
LEMMA UnmapsAre ==
  ASSUME NEW V, NEW x \in Unmaps(V)
  PROVE  \E v \in V : x.op = "unmap" /\ x.v = v
BY DEF Unmaps

\* A page of the window leaves the kernel's tables.
LEMMA UnmapMade ==
  ASSUME Typed, Kernel, NEW id \in {2, 3}, Made(id), Head(todo) \in Unmaps(Window)
  PROVE  /\ Typed' /\ Moves /\ Made(id)' /\ PmlOf(id)' = PmlOf(id)
         /\ Walk(mem', PML4_KERNEL, Head(todo).v) = NoFrame
         /\ \A w \in Window : Walk(mem, PML4_KERNEL, w) = NoFrame => Walk(mem', PML4_KERNEL, w) = NoFrame
<1>1. PICK v \in Window : Head(todo).op = "unmap" /\ Head(todo).v = v
  BY UnmapsAre
<1>2. /\ Making(id) /\ Recursive /\ Built /\ Owned /\ Taken
      /\ Enough(mem, bitmap, PML4_KERNEL, Reserve, MappedPages, Later(id))
  BY DEF Made, Making
<1>3. kpcb \in 1 .. Len(pcbs) /\ pcbs[kpcb].pml4 = PML4_KERNEL
  BY KernelPcb DEF Typed
<1>4. Root = pcbs[kpcb].pml4
  BY <1>2, <1>3 DEF Root, Recursive
<1>5. \A w \in Window : w \in MappedPages
  BY NotReserve
<1>6. UnmapEffect(kpcb, v)
  BY <1>1, <1>2, <1>3, <1>4, <1>5, UnmapBuilt
<1>7. /\ Typed' /\ Moves /\ Built' /\ Kept(kpcb, v) /\ bitmap' = bitmap /\ cr3' = cr3
      /\ Entry(mem', PML4_KERNEL, REC) = Entry(mem, PML4_KERNEL, REC)
      /\ Walk(mem', PML4_KERNEL, v) = NoFrame
      /\ \A w \in Window : Walk(mem, PML4_KERNEL, w) = NoFrame => Walk(mem', PML4_KERNEL, w) = NoFrame
  BY <1>3, <1>5, <1>6 DEF UnmapEffect
<1>8. Owned' /\ Taken'
  BY <1>2, <1>7 DEF Owned, Taken
<1>9. Later(id) \in Int
  BY MissingAtMost DEF Later
<1>10. Enough(mem', bitmap', PML4_KERNEL, Reserve, MappedPages, Later(id))
  BY <1>2, <1>3, <1>7, <1>9, EnoughKept1
<1>11. Made(id)' /\ PmlOf(id)' = PmlOf(id)
  BY <1>7, <1>8, <1>10, MadeKept
<1>12. QED
  BY <1>1, <1>7, <1>11

\* append_node.
LEMMA ListStep ==
  ASSUME Typed, Kernel, NEW id \in {2, 3}, Made(id), pcb_list = Older(id), Head(todo).op = "list", Head(todo).id = id
  PROVE  /\ Typed' /\ Made(id)' /\ PmlOf(id)' = PmlOf(id) /\ pcb_list' = <<id>> \o Older(id) /\ todo' = Tail(todo)
<1>1. append_node
  BY Dispatch
<1>2. /\ pcb_list' = <<id>> \o Older(id) /\ todo' = Tail(todo)
      /\ UNCHANGED <<mem, bitmap, cr3, mode, pcbs, current_pcb, process_pid_bitmap, process_mem_bitmap, IF_, interrupts_ready, pic,
                     since, skipped, due, key, regs, at>>
  BY <1>1 DEF append_node, Go, this, paging, intr, clock
<1>3. Making(id) /\ Len(pcbs) = id
  BY DEF Made, Making
<1>4. pcb_list' \in Seq({2, 3}) /\ \A k \in DOMAIN pcb_list' : pcb_list'[k] <= id
  <2>1. CASE id = 2
    BY <1>2, <2>1 DEF Older
  <2>2. CASE id = 3
    <3>1. <<3>> \in Seq({2, 3}) /\ <<2>> \in Seq({2, 3}) /\ pcb_list' = <<3>> \o <<2>>
      BY <1>2, <2>2 DEF Older
    <3>2. pcb_list' \in Seq({2, 3})
      BY <3>1, ConcatProperties
    <3>3. \A k \in DOMAIN pcb_list' : pcb_list'[k] \in {2, 3}
      BY <3>2
    <3>4. QED
      BY <2>2, <3>2, <3>3
  <2>3. QED
    BY <2>1, <2>2
<1>5. Listed'
  BY <1>2, <1>3, <1>4 DEF Typed, Listed
<1>6. Typed'
  BY <1>2, <1>5 DEF Typed, Running
<1>7. Made(id)'
  <2>1. Built'
    BY <1>2, <1>3, SameBuilt DEF Making
  <2>2. Shows(PmlOf(id), id)'
    BY <1>2 DEF Made, Shows, PmlOf
  <2>3. QED
    BY <1>2, <2>1, <2>2 DEF Made, Making, Recursive, Owned, Taken
<1>8. QED
  BY <1>2, <1>6, <1>7 DEF PmlOf

\* alloc_proc unmaps the window from the kernel's tables and lists the PCB.
LEMMA StepAlloc6 == ASSUME Typed, NEW id \in {2, 3}, Alloc6(id), Kernel PROVE Inv'
<1>1. PICK z \in Tails(id) : \E s \in Seq(Unmaps(Window)) : todo = s \o Rest6(id, z)
  BY DEF Alloc6
<1>2. PICK s \in Seq(Unmaps(Window)) : todo = s \o Rest6(id, z)
  BY <1>1
<1>3. Made(id) /\ pcb_list = Older(id) /\ Built /\ id <= Len(pcbs)
  BY DEF Alloc6, Made, Making
<1>4. IsSeq(Rest6(id, z)) /\ IsSeq((Do("ready") \o Do("sti")) \o Rest6b(id, z))
  BY <1>3, OwnPml4, TailIsSeq, AllocText DEF AllocIs
<1>5. CASE s = <<>>
  <2>1. PICK x, r : x = [op |-> "list", id |-> id] /\ r = (Do("ready") \o Do("sti")) \o Rest6b(id, z)
    OBVIOUS
  <2>2. todo = Rest6(id, z)
    BY <1>2, <1>4, <1>5, FirstOf
  <2>3. todo = <<x>> \o r
    BY <2>1, <2>2 DEF Rest6, DoFor
  <2>4. Head(todo) = x /\ Tail(todo) = r
    BY <1>4, <2>1, <2>3, FirstOf, SMTT(30)
  <2>5. Head(todo).op = "list" /\ Head(todo).id = id
    BY <2>1, <2>4
  <2>6. /\ Typed' /\ Made(id)' /\ pcb_list' = <<id>> \o Older(id) /\ todo' = r
    BY <1>3, <2>4, <2>5, ListStep
  <2>7. Do("ready") \o Do("sti") \in Seq(Ops({"ready", "sti"}))
    BY BootBlock3
  <2>8. Alloc6b(id)'
    BY <2>1, <2>6, <2>7 DEF Alloc6b
  <2>9. QED
    BY <2>6, <2>8 DEF Inv, Where
<1>6. CASE s # <<>>
  <2>1. /\ Head(todo) \in Unmaps(Window) /\ Tail(todo) = Tail(s) \o Rest6(id, z) /\ Tail(s) \in Seq(Unmaps(Window))
    BY <1>2, <1>4, <1>6, BlockStep
  <2>2. Typed' /\ Moves /\ Made(id)'
    BY <1>3, <2>1, UnmapMade
  <2>3. todo' = Tail(s) \o Rest6(id, z) /\ pcb_list' = Older(id)
    BY <1>3, <2>1, <2>2 DEF Moves, table
  <2>4. Alloc6(id)'
    BY <2>1, <2>2, <2>3 DEF Alloc6
  <2>5. QED
    BY <2>2, <2>4 DEF Inv, Where
<1>7. QED
  BY <1>5, <1>6

\* alloc_proc turns interrupts on, and exec begins.
LEMMA StepAlloc6b == ASSUME Typed, NEW id \in {2, 3}, Alloc6b(id), Kernel PROVE Inv'
<1>1. PICK z \in Tails(id) : \E s \in Seq(Ops({"ready", "sti"})) : todo = s \o Rest6b(id, z)
  BY DEF Alloc6b
<1>2. PICK s \in Seq(Ops({"ready", "sti"})) : todo = s \o Rest6b(id, z)
  BY <1>1
<1>3. Made(id) /\ pcb_list = <<id>> \o Older(id) /\ Built /\ Owned /\ Taken /\ id <= Len(pcbs) /\ Making(id)
  BY DEF Alloc6b, Made, Making
<1>4. PICK q : q = PmlOf(id)
  OBVIOUS
<1>5. q \in MappedPages /\ pcbs[id].real_mem_addr = Slot(id - 2)
  BY <1>3, <1>4, OwnPml4
<1>6. IsSeq(Rest6b(id, z)) /\ IsSeq(z)
  BY <1>5, TailIsSeq, AllocText DEF AllocIs
<1>7. CASE s = <<>>
  <2>1. PICK x : x = [op |-> "exec", id |-> id]
    OBVIOUS
  <2>2. todo = Rest6b(id, z)
    BY <1>2, <1>6, <1>7, FirstOf
  <2>3. todo = <<x>> \o z
    BY <2>1, <2>2 DEF Rest6b, DoFor
  <2>4. Head(todo).op = "exec" /\ Head(todo).id = id /\ Tail(todo) = z
    BY <1>6, <2>1, <2>3, FirstOf
  <2>5. exec
    BY <2>4, Dispatch
  <2>6. /\ todo' = ExecTail(id) \o z
        /\ UNCHANGED <<mem, bitmap, cr3, mode, pcbs, pcb_list, current_pcb, process_pid_bitmap, process_mem_bitmap, IF_, interrupts_ready, pic,
                     since, skipped, due, key, regs, at>>
    BY <2>4, <2>5 DEF exec, this, paging, intr, table, clock
  <2>7. Typed'
    <3>1. Listed'
      BY <2>6, SameListed DEF Typed, table
    <3>2. QED
      BY <2>6, <3>1 DEF Typed, Running
  <2>8. Made(id)'
    <3>1. Built'
      BY <1>3, <2>6, SameBuilt
    <3>2. Shows(PmlOf(id), id)'
      BY <1>3, <2>6 DEF Made, Shows, PmlOf
    <3>3. QED
      BY <1>3, <2>6, <3>1, <3>2 DEF Made, Making, Recursive, Owned, Taken
  <2>9. ExecTail(id) \o z = CodeOwn(id, q) \o Rest7(id, q, z)
    <3>1. ExecIs(id, q, z)
      BY <1>5, ExecText
    <3>2. current_pcb = NULL <=> id = 2
      BY <1>3 DEF Making, NULL
    <3>3. QED
      BY <1>4, <1>5, <3>1, <3>2 DEF ExecIs
  <2>10. CodeOwn(id, q) \in Seq(OwnMaps(id, q)) /\ PmlOf(id)' = q /\ pcb_list' = <<id>> \o Older(id)
    BY <1>3, <1>4, <1>5, <2>6, ProcBlocks DEF PmlOf
  <2>11. \E t \in Seq(OwnMaps(id, PmlOf(id)')) : todo' = t \o Rest7(id, PmlOf(id)', z)
    BY <2>6, <2>9, <2>10
  <2>12. Exec7(id)'
    BY <2>8, <2>10, <2>11 DEF Exec7
  <2>13. QED
    BY <2>7, <2>12 DEF Inv, Where
<1>8. CASE s # <<>>
  <2>1. /\ Head(todo) \in Ops({"ready", "sti"}) /\ Tail(todo) = Tail(s) \o Rest6b(id, z) /\ Tail(s) \in Seq(Ops({"ready", "sti"}))
    BY <1>2, <1>6, <1>8, BlockStep
  <2>2. Head(todo).op \in {"ready", "sti"}
    BY <2>1 DEF Ops
  <2>3. Typed' /\ Moves /\ UNCHANGED <<mem, bitmap, cr3>>
    BY <2>2, PlainStep
  <2>4. Made(id)'
    <3>1. Built'
      BY <1>3, <2>3, SameBuilt DEF Moves, table
    <3>2. Shows(PmlOf(id), id)'
      BY <1>3, <2>3 DEF Made, Shows, PmlOf, Moves, table
    <3>3. QED
      BY <1>3, <2>3, <3>1, <3>2 DEF Made, Making, Recursive, Owned, Taken, Moves, table
  <2>5. todo' = Tail(s) \o Rest6b(id, z) /\ pcb_list' = <<id>> \o Older(id)
    BY <1>3, <2>1, <2>3 DEF Moves, table
  <2>6. Alloc6b(id)'
    BY <2>1, <2>4, <2>5 DEF Alloc6b
  <2>7. QED
    BY <2>3, <2>6 DEF Inv, Where
<1>9. QED
  BY <1>7, <1>8

Replaces(S, t, i, r, u) == u \in Seq(S) /\ Len(u) = Len(t) /\ u[i] = r /\ \A j \in 1 .. Len(t) : j # i => u[j] = t[j]

\* One element of a sequence replaced.
LEMMA Replaced ==
  ASSUME NEW S, NEW t \in Seq(S), NEW i \in 1 .. Len(t), NEW r \in S, NEW u, u = [t EXCEPT ![i] = r]
  PROVE  Replaces(S, t, i, r, u)
BY DEF Replaces

\* exec by the kernel makes the process READY; exec by a process sets its parent.
LEMMA FirstPcb ==
  ASSUME Listed, NEW id \in 1 .. Len(pcbs), NEW n \in 0 .. MAX_NUM_OF_PROCESS - 1,
         pcbs' = [pcbs EXCEPT ![id].ppid = n, ![id].state = "READY"]
  PROVE  /\ PcbChanged(id) /\ pcbs'[id].ppid = n /\ pcbs'[id].state = "READY" /\ pcbs'[id].ctx = pcbs[id].ctx
<1>1. pcbs \in Seq(PCBs) /\ pcbs[id] \in PCBs
  BY Pcbs DEF Listed
<1>2. PICK r : r = [[pcbs[id] EXCEPT !.ppid = n] EXCEPT !.state = "READY"]
  OBVIOUS
<1>3. /\ r \in PCBs /\ r.ppid = n /\ r.state = "READY" /\ r.ctx = pcbs[id].ctx
      /\ r.pid = pcbs[id].pid /\ r.pml4 = pcbs[id].pml4 /\ r.real_mem_addr = pcbs[id].real_mem_addr
  BY <1>1, <1>2 DEF PCBs
<1>4. pcbs'[id] = r /\ (\A j \in 1 .. Len(pcbs) : j # id => pcbs'[j] = pcbs[j]) /\ Len(pcbs') = Len(pcbs) /\ pcbs' \in Seq(PCBs)
  <2>1. PICK a, t : a = [pcbs[id] EXCEPT !.ppid = n] /\ t = [pcbs EXCEPT ![id] = a]
    OBVIOUS
  <2>2. a \in PCBs
    BY <1>1, <2>1 DEF PCBs
  <2>3. t[id] = a /\ (\A j \in 1 .. Len(pcbs) : j # id => t[j] = pcbs[j]) /\ Len(t) = Len(pcbs) /\ t \in Seq(PCBs)
    BY <1>1, <2>1, <2>2
  <2>4. pcbs' = [t EXCEPT ![id] = r]
    BY <1>2, <2>1, <2>3
  <2>5. id \in 1 .. Len(t) /\ r \in PCBs
    BY <1>3, <2>3
  <2>6. pcbs' \in Seq(PCBs) /\ Len(pcbs') = Len(t) /\ pcbs'[id] = r /\ \A j \in 1 .. Len(t) : j # id => pcbs'[j] = t[j]
    <3>1. t \in Seq(PCBs)
      BY <2>3
    <3>2. Replaces(PCBs, t, id, r, pcbs')
      BY <3>1, <2>4, <2>5, Replaced
    <3>3. QED
      BY <3>2 DEF Replaces
  <2>7. QED
    BY <2>3, <2>6
<1>5. QED
  BY <1>3, <1>4 DEF PcbChanged

\* A PCB gets a parent.
LEMMA ParentPcb ==
  ASSUME Listed, NEW id \in 1 .. Len(pcbs), NEW n \in 0 .. MAX_NUM_OF_PROCESS - 1, pcbs' = [pcbs EXCEPT ![id].ppid = n]
  PROVE  PcbChanged(id)
<1>1. pcbs \in Seq(PCBs) /\ pcbs[id] \in PCBs
  BY Pcbs DEF Listed
<1>2. PICK r : r = [pcbs[id] EXCEPT !.ppid = n]
  OBVIOUS
<1>3. /\ r \in PCBs
      /\ r.pid = pcbs[id].pid /\ r.pml4 = pcbs[id].pml4 /\ r.real_mem_addr = pcbs[id].real_mem_addr
  BY <1>1, <1>2 DEF PCBs
<1>4. pcbs'[id] = r /\ (\A j \in 1 .. Len(pcbs) : j # id => pcbs'[j] = pcbs[j]) /\ Len(pcbs') = Len(pcbs) /\ pcbs' \in Seq(PCBs)
  BY <1>1, <1>2, <1>3
<1>5. QED
  BY <1>3, <1>4 DEF PcbChanged

\* exec by the kernel: the process is READY and run_proc follows.
LEMMA ExecFirstStep ==
  ASSUME Typed, Kernel, Made(2), pcb_list = << 2 >> \o Older(2), Head(todo).op = "first", Head(todo).id = 2,
         Tail(todo) = RunFirst(PmlOf(2))
  PROVE  Inv'
<1>1. ExecFirst /\ mode = "kernel"
  BY Dispatch
<1>2. /\ Making(2) /\ Recursive /\ Built /\ Owned /\ Taken /\ Len(pcbs) = 2 /\ Shows(PmlOf(2), 2)
      /\ process_pid_bitmap = {2} /\ process_mem_bitmap = {0} /\ at = 0 /\ pcbs[2].ctx = 0
      /\ Enough(mem, bitmap, PML4_KERNEL, Reserve, MappedPages, AllTables + 1)
  BY DEF Made, Making, Later
<1>3. pcb_list = <<2>>
  BY DEF Older
<1>4. pcbs[kpcb].pid = KERNEL_PID /\ KERNEL_PID \in 0 .. MAX_NUM_OF_PROCESS - 1 /\ 2 \in 1 .. Len(pcbs) /\ kpcb = 1
  BY <1>2, LayoutAssumption, ProcessAssumption DEF Typed, Listed, kpcb, KERNEL_PID
<1>5. /\ pcbs' = [pcbs EXCEPT ![2].ppid = KERNEL_PID, ![2].state = "READY"] /\ IF_' = FALSE /\ todo' = Tail(todo)
      /\ UNCHANGED <<mode, mem, bitmap, cr3, interrupts_ready, pic, pcb_list, current_pcb, process_pid_bitmap,
                     process_mem_bitmap, since, skipped, due, key, regs, at>>
  BY <1>1, <1>4 DEF ExecFirst, Go, this, paging, clock
<1>6. /\ PcbChanged(2) /\ pcbs'[2].ppid = KERNEL_PID /\ pcbs'[2].state = "READY" /\ pcbs'[2].ctx = 0
  BY <1>2, <1>4, <1>5, FirstPcb DEF Typed
<1>7. Listed' /\ Built' /\ PmlOf(2)' = PmlOf(2) /\ Shows(PmlOf(2), 2)'
  <2>1. Listed
    BY DEF Typed
  <2>2. /\ Listed' /\ Built' /\ pcbs'[2].pml4 = pcbs[2].pml4
        /\ Shows(pcbs[2].pml4, 2) => Shows(pcbs[2].pml4, 2)'
    BY <2>1, <1>2, <1>4, <1>5, <1>6, PcbSet
  <2>3. QED
    BY <2>2, <1>2 DEF PmlOf
<1>8. Typed'
  BY <1>5, <1>7 DEF Typed, Running
<1>9. First'
  BY <1>2, <1>3, <1>5, <1>6, <1>7 DEF First, Owned, Taken, Recursive, PcbChanged
<1>10. Run8a'
  BY <1>1, <1>2, <1>5, <1>6, <1>7, <1>9 DEF Run8a, Recursive
<1>11. QED
  BY <1>8, <1>10 DEF Inv, Where

\* exec by a process cannot reach the registers of its caller.
LEMMA CopyRegsStep ==
  ASSUME Typed, Kernel, Made(3), Head(todo).op = "copy_regs", Head(todo).id = 3, Walk(mem, PML4_KERNEL, WindowStart) = NoFrame
  PROVE  Inv'
<1>1. CopyRegs
  BY Dispatch
<1>2. Making(3) /\ Recursive /\ Built /\ Len(pcbs) = 3 /\ current_pcb = 2
  BY DEF Made, Making
<1>3. pcbs[2].pid = 2 /\ 2 \in 0 .. MAX_NUM_OF_PROCESS - 1 /\ 3 \in 1 .. Len(pcbs)
  BY <1>2, LayoutAssumption, ProcessAssumption DEF Typed, Listed
<1>4. /\ pcbs' = [pcbs EXCEPT ![3].ppid = 2] /\ IF_' = FALSE /\ mode' = "fault"
      /\ UNCHANGED <<mem, bitmap, cr3, interrupts_ready, pic, pcb_list, current_pcb, process_pid_bitmap,
                     process_mem_bitmap, since, skipped, due, key, regs, at>>
  BY <1>1, <1>2, <1>3 DEF CopyRegs, this, paging, clock, Recursive
<1>5. PcbChanged(3)
  BY <1>3, <1>4, ParentPcb DEF Typed
<1>6. Listed' /\ Built'
  <2>1. Listed
    BY DEF Typed
  <2>2. QED
    BY <2>1, <1>2, <1>3, <1>4, <1>5, PcbSet
<1>7. Typed'
  BY <1>4, <1>6 DEF Typed, Running
<1>8. Stopped'
  BY <1>2, <1>4, <1>6 DEF Stopped, Recursive
<1>9. QED
  BY <1>7, <1>8 DEF Inv, Where

\* exec unmaps the window again; a process that called it faults when its registers are
\* copied.
LEMMA StepExec7b == ASSUME Typed, NEW id \in {2, 3}, Exec7b(id), Kernel PROVE Inv'
<1>1. PICK q : q = PmlOf(id)
  OBVIOUS
<1>2. PICK z \in Tails(id) : \E s \in Seq(Unmaps(Window)) :
        /\ todo = s \o Rest7b(id, q, z)
        /\ Walk(mem, PML4_KERNEL, WindowStart) = NoFrame \/ \E k \in DOMAIN s : s[k].v = WindowStart
  BY <1>1 DEF Exec7b
<1>3. PICK s \in Seq(Unmaps(Window)) :
        /\ todo = s \o Rest7b(id, q, z)
        /\ Walk(mem, PML4_KERNEL, WindowStart) = NoFrame \/ \E k \in DOMAIN s : s[k].v = WindowStart
  BY <1>2
<1>4. Made(id) /\ pcb_list = <<id>> \o Older(id) /\ Built /\ id <= Len(pcbs)
  BY DEF Exec7b, Made, Making
<1>5. q \in MappedPages
  BY <1>1, <1>4, OwnPml4
<1>6. IsSeq(Rest7b(id, q, z)) /\ IsSeq(CodeOwn(id, q)) /\ IsSeq(z)
  BY <1>5, ExecText DEF ExecIs
<1>7. CASE s = <<>>
  <2>1. todo = Rest7b(id, q, z)
    BY <1>3, <1>6, <1>7, FirstOf
  <2>2. Walk(mem, PML4_KERNEL, WindowStart) = NoFrame
    BY <1>3, <1>7
  <2>3. CASE id = 2
    <3>1. PICK x, r : x = [op |-> "first", id |-> 2] /\ r = RunFirst(q)
      OBVIOUS
    <3>2. todo = <<x>> \o r
      BY <2>1, <2>3, <3>1 DEF Rest7b, DoFor
    <3>3. IsSeq(r)
      BY <3>1, RunText DEF RunIs
    <3>4. Head(todo).op = "first" /\ Head(todo).id = 2 /\ Tail(todo) = RunFirst(PmlOf(2))
      BY <1>1, <2>3, <3>1, <3>2, <3>3, FirstOf
    <3>5. QED
      BY <1>4, <2>3, <3>4, ExecFirstStep
  <2>4. CASE id = 3
    <3>1. PICK x, r : x = [op |-> "copy_regs", id |-> 3] /\ r = (DoFor("current", id) \o CodeOwn(id, q)) \o z
      OBVIOUS
    <3>2. todo = <<x>> \o r
      BY <2>1, <2>4, <3>1 DEF Rest7b, DoFor
    <3>3. IsSeq(r)
      <4>1. PICK a, b : a = DoFor("current", id) /\ b = CodeOwn(id, q)
        OBVIOUS
      <4>2. IsSeq(a) /\ IsSeq(b)
        BY <4>1, <1>6, SingleIsSeq
      <4>3. IsSeq(a \o b)
        BY <4>2, ConcatIsSeq
      <4>4. IsSeq((a \o b) \o z)
        BY <4>3, <1>6, ConcatIsSeq
      <4>5. QED
        BY <4>1, <4>4, <3>1
    <3>4. Head(todo).op = "copy_regs" /\ Head(todo).id = 3
      BY <3>1, <3>2, <3>3, FirstOf
    <3>5. QED
      BY <1>4, <2>2, <2>4, <3>4, CopyRegsStep
  <2>5. QED
    BY <2>3, <2>4
<1>8. CASE s # <<>>
  <2>1. /\ Head(todo) = Head(s) /\ Head(todo) \in Unmaps(Window) /\ Tail(todo) = Tail(s) \o Rest7b(id, q, z)
        /\ Tail(s) \in Seq(Unmaps(Window))
        /\ \A k \in DOMAIN s : s[k] = Head(s) \/ \E j \in DOMAIN Tail(s) : Tail(s)[j] = s[k]
    BY <1>3, <1>6, <1>8, BlockStep
  <2>2. /\ Typed' /\ Moves /\ Made(id)' /\ PmlOf(id)' = q
        /\ Walk(mem', PML4_KERNEL, Head(todo).v) = NoFrame
        /\ \A w \in Window : Walk(mem, PML4_KERNEL, w) = NoFrame => Walk(mem', PML4_KERNEL, w) = NoFrame
    BY <1>1, <1>4, <2>1, UnmapMade
  <2>3. PICK t : t = Tail(s)
    OBVIOUS
  <2>4. WindowStart \in Window
    BY LayoutAssumption, ProcessAssumption, SMTT(30) DEF Window
  <2>5. Walk(mem', PML4_KERNEL, WindowStart) = NoFrame \/ \E k \in DOMAIN t : t[k].v = WindowStart
    <3>1. CASE Walk(mem, PML4_KERNEL, WindowStart) = NoFrame
      BY <2>2, <2>4, <3>1
    <3>2. CASE \E k \in DOMAIN s : s[k].v = WindowStart
      BY <2>1, <2>2, <2>3, <3>2
    <3>3. QED
      BY <1>3, <3>1, <3>2
  <2>6. todo' = t \o Rest7b(id, PmlOf(id)', z) /\ t \in Seq(Unmaps(Window)) /\ pcb_list' = <<id>> \o Older(id)
    BY <1>4, <2>1, <2>2, <2>3 DEF Moves, table
  <2>7. Exec7b(id)'
    BY <2>2, <2>5, <2>6 DEF Exec7b
  <2>8. QED
    BY <2>2, <2>7 DEF Inv, Where
<1>9. QED
  BY <1>7, <1>8

\* exec maps the process's PML4 and memory to load the program.
LEMMA StepExec7 == ASSUME Typed, NEW id \in {2, 3}, Exec7(id), Kernel PROVE Inv'
<1>1. PICK q : q = PmlOf(id)
  OBVIOUS
<1>2. PICK z \in Tails(id) : \E s \in Seq(OwnMaps(id, q)) : todo = s \o Rest7(id, q, z)
  BY <1>1 DEF Exec7
<1>3. PICK s \in Seq(OwnMaps(id, q)) : todo = s \o Rest7(id, q, z)
  BY <1>2
<1>4. /\ Made(id) /\ Making(id) /\ Recursive /\ pcb_list = <<id>> \o Older(id) /\ Built /\ id <= Len(pcbs)
      /\ Enough(mem, bitmap, PML4_KERNEL, Reserve, MappedPages, Later(id))
  BY DEF Exec7, Made, Making
<1>5. q \in MappedPages
  BY <1>1, <1>4, OwnPml4
<1>6. IsSeq(Rest7(id, q, z))
  BY <1>5, ExecText DEF ExecIs
<1>7. CASE s = <<>>
  <2>1. todo = UnmapRange(Window) \o Rest7b(id, q, z)
    BY <1>3, <1>6, <1>7, FirstOf DEF Rest7
  <2>2. PICK u : u = UnmapRange(Window)
    OBVIOUS
  <2>3. WindowStart \in Window
    BY LayoutAssumption, ProcessAssumption, SMTT(30) DEF Window
  <2>4. Window \in SUBSET Int /\ IsFiniteSet(Window)
    BY PagesCounted
  <2>5. u \in Seq(Unmaps(Window)) /\ \E k \in DOMAIN u : u[k].v = WindowStart
    BY <2>2, <2>3, <2>4, UnmapRangeIs
  <2>6. todo = u \o Rest7b(id, PmlOf(id), z)
    BY <1>1, <2>1, <2>2
  <2>7. Exec7b(id)
    BY <1>4, <2>5, <2>6 DEF Exec7b
  <2>8. QED
    BY <2>7, StepExec7b
<1>8. CASE s # <<>>
  <2>1. /\ Head(todo) \in OwnMaps(id, q) /\ Tail(todo) = Tail(s) \o Rest7(id, q, z) /\ Tail(s) \in Seq(OwnMaps(id, q))
    BY <1>3, <1>6, <1>8, BlockStep
  <2>2. Later(id) \in Nat
    BY MissingAtMost DEF Later
  <2>3. PICK v, p : MapEffect(kpcb, v, p, Later(id))
    BY <1>1, <1>4, <2>1, <2>2, OwnMapped
  <2>4. kpcb \in 1 .. Len(pcbs) /\ pcbs[kpcb].pml4 = PML4_KERNEL
    BY KernelPcb DEF Typed
  <2>5. /\ Typed' /\ Moves /\ Built' /\ Owned' /\ (Taken => Taken') /\ cr3' = cr3 /\ Kept(kpcb, v)
        /\ Enough(mem', bitmap', PML4_KERNEL, Reserve, MappedPages, Later(id))
        /\ Entry(mem', PML4_KERNEL, REC) = Entry(mem, PML4_KERNEL, REC)
    BY <2>3, <2>4 DEF MapEffect
  <2>6. Made(id)' /\ PmlOf(id)' = q
    BY <1>1, <1>4, <2>5, MadeKept DEF Making
  <2>7. pcb_list' = <<id>> \o Older(id) /\ \E t \in Seq(OwnMaps(id, PmlOf(id)')) : todo' = t \o Rest7(id, PmlOf(id)', z)
    BY <1>4, <2>1, <2>5, <2>6 DEF Moves, table
  <2>8. Exec7(id)'
    BY <2>6, <2>7 DEF Exec7
  <2>9. QED
    BY <2>5, <2>8 DEF Inv, Where
<1>9. QED
  BY <1>7, <1>8

------------------------------------------------------------------------------
\* The kernel goes on from each of its points: running the first process.

\* The first process stays as it is while its window is kept.
LEMMA FirstKept ==
  ASSUME Typed, First, Moves, Built', Owned', Taken', NEW w, Kept(kpcb, w),
         Entry(mem', PML4_KERNEL, REC) = Entry(mem, PML4_KERNEL, REC),
         Enough(mem', bitmap', PML4_KERNEL, Reserve, MappedPages, AllTables + 1)
  PROVE  First' /\ PmlOf(2)' = PmlOf(2)
<1>1. Shows(pcbs[2].pml4, 2) /\ Built /\ 2 <= Len(pcbs)
  BY DEF First, PmlOf
<1>2. 2 \in 1 .. Len(pcbs) /\ 2 # kpcb
  BY <1>1, OwnPml4
<1>3. Shows(pcbs[2].pml4, 2)'
  BY <1>1, <1>2, ShowsKept
<1>4. QED
  BY <1>3 DEF First, PmlOf, Moves, table

\* The first process stays as it is while memory and PCBs are.
LEMMA FirstSame ==
  ASSUME First, UNCHANGED <<mem, bitmap, pcbs, pcb_list, process_pid_bitmap, process_mem_bitmap>>
  PROVE  First' /\ PmlOf(2)' = PmlOf(2) /\ (Shows(PML4_KERNEL, 2) => Shows(PML4_KERNEL, 2)')
<1>1. Built'
  BY SameBuilt DEF First
<1>2. Shows(PmlOf(2), 2)'
  BY DEF First, Shows, PmlOf
<1>3. QED
  BY <1>1, <1>2 DEF First, PmlOf, Owned, Taken, Shows

\* run_proc makes the process the current one.
LEMMA StepRun8a == ASSUME Typed, Run8a, Kernel PROVE Inv'
<1>1. PICK q, x, r : q = PmlOf(2) /\ x = [op |-> "current", id |-> 2] /\ r = Code8 \o Rest8(q)
  OBVIOUS
<1>2. RunIs(q)
  BY RunText
<1>3. IsSeq(r)
  BY <1>1, <1>2 DEF RunIs
<1>4. todo = <<x>> \o r
  BY <1>1 DEF Run8a, RunFirst, DoFor
<1>5. Head(todo).op = "current" /\ Head(todo).id = 2 /\ Tail(todo) = r
  BY <1>1, <1>3, <1>4, FirstOf
<1>6. SetCurrent
  BY <1>5, Dispatch
<1>7. /\ current_pcb' = 2 /\ todo' = r
      /\ UNCHANGED <<mode, mem, bitmap, cr3, pcbs, pcb_list, process_pid_bitmap, process_mem_bitmap, IF_, interrupts_ready, pic,
                     since, skipped, due, key, regs, at>>
  BY <1>5, <1>6 DEF SetCurrent, Go, this, paging, intr, clock
<1>8. First /\ Built /\ Len(pcbs) = 2 /\ mode = "kernel" /\ cr3 = PML4_KERNEL /\ pcbs[2].ctx = at
  BY DEF Run8a, First
<1>9. First' /\ PmlOf(2)' = q
  BY <1>1, <1>7, <1>8, FirstSame
<1>10. Listed'
  BY <1>7, <1>8 DEF Typed, Listed
<1>11. Typed'
  BY <1>7, <1>10 DEF Typed, Running
<1>12. q \in MappedPages
  BY <1>1, <1>8, OwnPml4
<1>13. Code8 \in Seq(Block8) /\ \A v \in Window : Mapped(Code8, v)
  BY <1>12, ProcBlocks
<1>14. \E s \in Seq(Block8) :
       /\ todo' = s \o Rest8(PmlOf(2)')
       /\ \A v \in Window : Walk(mem', PML4_KERNEL, v) = Slot(0) + v - WindowStart \/ Mapped(s, v)
  BY <1>1, <1>7, <1>9, <1>13
<1>15. Run8'
  BY <1>7, <1>8, <1>9, <1>14 DEF Run8
<1>16. QED
  BY <1>11, <1>15 DEF Inv, Where

\* run_proc maps the window into the kernel's tables and loads the process's PML4.
LEMMA StepRun8 == ASSUME Typed, Run8, Kernel PROVE Inv'
<1>1. PICK q : q = PmlOf(2)
  OBVIOUS
<1>2. PICK s \in Seq(Block8) :
       /\ todo = s \o Rest8(q)
       /\ \A v \in Window : Walk(mem, PML4_KERNEL, v) = Slot(0) + v - WindowStart \/ Mapped(s, v)
  BY <1>1 DEF Run8
<1>3. /\ First /\ Built /\ Owned /\ Taken /\ Len(pcbs) = 2 /\ mode = "kernel" /\ cr3 = PML4_KERNEL /\ pcbs[2].ctx = at /\ current_pcb = 2
      /\ Entry(mem, PML4_KERNEL, REC) = PML4_KERNEL
      /\ Enough(mem, bitmap, PML4_KERNEL, Reserve, MappedPages, AllTables + 1)
  BY DEF Run8, First
<1>4. IsSeq(Rest8(q))
  BY RunText DEF RunIs
<1>5. kpcb \in 1 .. Len(pcbs) /\ pcbs[kpcb].pml4 = PML4_KERNEL
  BY KernelPcb DEF Typed
<1>6. Slot(2 - 2) = Slot(0) /\ AllTables + 1 \in Nat
  BY MissingAtMost
<1>7. CASE s = <<>>
  <2>1. PICK x, r : x = [op |-> "cr3", to |-> q] /\ r = DoFor("jump_usermode", 2)
    OBVIOUS
  <2>2. todo = Rest8(q)
    BY <1>2, <1>4, <1>7, FirstOf
  <2>3. todo = <<x>> \o r /\ IsSeq(r)
    BY <2>1, <2>2, SingleIsSeq DEF Rest8, SetCr3
  <2>4. Head(todo).op = "cr3" /\ Head(todo).to = q /\ Tail(todo) = r
    BY <2>1, <2>3, FirstOf
  <2>5. Typed' /\ Moves /\ UNCHANGED <<mem, bitmap>> /\ cr3' = q
    BY <2>4, Cr3Step
  <2>6. Shows(PML4_KERNEL, 2)
    BY <1>2, <1>6, <1>7 DEF Shows, Mapped
  <2>7. First' /\ PmlOf(2)' = q /\ Shows(PML4_KERNEL, 2)'
    BY <1>1, <1>3, <2>5, <2>6, FirstSame DEF Moves, table
  <2>8. Run8b'
    BY <1>3, <2>1, <2>4, <2>5, <2>7 DEF Run8b, Ran, Moves, table
  <2>9. QED
    BY <2>5, <2>8 DEF Inv, Where
<1>8. CASE s # <<>>
  <2>1. /\ Head(todo) = Head(s) /\ Head(s) \in Block8 /\ Tail(todo) = Tail(s) \o Rest8(q) /\ Tail(s) \in Seq(Block8)
    BY <1>2, <1>4, <1>8, BlockStep
  <2>2. PICK x, t, d : x = Head(s) /\ t = Tail(s) /\ d = Slot(0) - WindowStart
    OBVIOUS
  <2>3. \A v \in Window : Walk(mem, PML4_KERNEL, v) = Slot(0) + v - WindowStart \/ (x.op = "map" /\ x.v = v) \/ Mapped(t, v)
    BY <1>2, <1>8, <2>2, MappedNext
  <2>4. x \in Maps(kpcb, Window, d, FALSE)
    BY <2>1, <2>2 DEF Block8
  <2>5. PICK w \in Window : MapsPage(x, kpcb, w, d, FALSE)
    BY <2>4, MapsAre
  <2>6. /\ w \in Nat /\ w + d \in Frame /\ w + d = Slot(0) + w - WindowStart
    <3>1. /\ w \in Nat /\ w + (Slot(2 - 2) - WindowStart) \in Frame
          /\ w + (Slot(2 - 2) - WindowStart) = Slot(2 - 2) + w - WindowStart
      BY WindowFrames
    <3>2. QED
      BY <3>1, <1>6, <2>2
  <2>7. PICK p \in Frame : p = w + d
    BY <2>6
  <2>8. Head(todo).op = "map" /\ Head(todo).pcb = kpcb /\ Head(todo).v = w /\ Head(todo).p = p /\ Head(todo).set = FALSE
    BY <2>1, <2>2, <2>5, <2>7 DEF MapsPage
  <2>9. w \in MappedPages /\ w \notin Reserve
    BY NotReserve
  <2>10. Root = pcbs[kpcb].pml4
    BY <1>3, <1>5 DEF Root
  <2>11. MapEffect(kpcb, w, p, AllTables + 1)
    BY <1>3, <1>5, <1>6, <2>8, <2>9, <2>10, MapReserve
  <2>12. /\ Typed' /\ Moves /\ Built' /\ Owned' /\ (Taken => Taken') /\ cr3' = cr3 /\ Kept(kpcb, w) /\ Walk(mem', PML4_KERNEL, w) = p
         /\ Entry(mem', PML4_KERNEL, REC) = Entry(mem, PML4_KERNEL, REC)
         /\ Enough(mem', bitmap', PML4_KERNEL, Reserve, MappedPages, AllTables + 1)
    BY <1>5, <2>11 DEF MapEffect
  <2>13. First' /\ PmlOf(2)' = q
    BY <1>1, <1>3, <2>12, FirstKept
  <2>14. \A v \in Window : Walk(mem', PML4_KERNEL, v) = Slot(0) + v - WindowStart \/ Mapped(t, v)
    <3> TAKE v \in Window
    <3>1. w = v => Walk(mem', PML4_KERNEL, v) = Slot(0) + v - WindowStart
      BY <2>6, <2>7, <2>12
    <3>2. CASE Walk(mem, PML4_KERNEL, v) = Slot(0) + v - WindowStart
      <4>1. /\ Walk(mem, pcbs[kpcb].pml4, v) = Slot(2 - 2) + v - WindowStart
            /\ w = v => Walk(mem', pcbs[kpcb].pml4, v) = Slot(2 - 2) + v - WindowStart
        BY <3>1, <3>2, <1>5, <1>6
      <4>2. Walk(mem', pcbs[kpcb].pml4, v) = Slot(2 - 2) + v - WindowStart
        BY <4>1, <1>5, <2>12, ShowsMore
      <4>3. QED
        BY <4>2, <1>5, <1>6
    <3>3. CASE x.op = "map" /\ x.v = v
      <4>1. w = v
        BY <3>3, <2>5 DEF MapsPage
      <4>2. QED
        BY <4>1, <3>1
    <3>4. QED
      BY <2>3, <3>2, <3>3
  <2>15. todo' = t \o Rest8(PmlOf(2)') /\ t \in Seq(Block8)
    BY <2>1, <2>2, <2>12, <2>13 DEF Moves
  <2>16. Run8'
    BY <1>3, <2>12, <2>13, <2>14, <2>15 DEF Run8, Moves, table
  <2>17. QED
    BY <2>12, <2>16 DEF Inv, Where
<1>9. QED
  BY <1>7, <1>8

\* Head and tail of one instruction.
LEMMA SingleIs == \A x : <<x>> # <<>> /\ Head(<<x>>) = x /\ Tail(<<x>>) = <<>>
OBVIOUS

\* jump_usermode: the saved context is the one the program is in.
LEMMA StepRun8b == ASSUME Typed, Run8b, Kernel PROVE Inv'
<1>1. PICK x : x = [op |-> "jump_usermode", id |-> 2]
  OBVIOUS
<1>2. todo = <<x>>
  BY <1>1 DEF Run8b, DoFor
<1>3. Head(todo).op = "jump_usermode" /\ Head(todo).id = 2
  BY <1>1, <1>2, SingleIs
<1>4. jump_usermode
  BY <1>3, Dispatch
<1>5. /\ mode' = "user" /\ todo' = <<>> /\ regs' = pcbs[2].ctx /\ IF_' = TRUE
      /\ UNCHANGED <<mem, bitmap, cr3, pcbs, pcb_list, current_pcb, process_pid_bitmap, process_mem_bitmap, interrupts_ready, pic,
                     since, skipped, due, key, at>>
  BY <1>3, <1>4 DEF jump_usermode, this, paging, table, clock
<1>6. First /\ Shows(PML4_KERNEL, 2) /\ current_pcb = 2 /\ cr3 = PmlOf(2) /\ pcbs[2].ctx = at
  BY DEF Run8b, Ran
<1>7. First' /\ PmlOf(2)' = PmlOf(2) /\ Shows(PML4_KERNEL, 2)'
  BY <1>5, <1>6, FirstSame
<1>8. Listed'
  BY <1>5, SameListed DEF Typed, table
<1>9. Typed'
  BY <1>5, <1>6, <1>8 DEF Typed, Running
<1>10. InUser'
  BY <1>5, <1>6, <1>7 DEF InUser, Ran
<1>11. QED
  BY <1>9, <1>10 DEF Inv, Where

\* run_next_proc: the only process is run again.
LEMMA StepInSwitch == ASSUME Typed, InSwitch, Kernel PROVE Inv'
<1>1. PICK x : x = [op |-> "run_proc", id |-> 2]
  OBVIOUS
<1>2. todo = <<x>>
  BY <1>1 DEF InSwitch, DoFor
<1>3. Head(todo).op = "run_proc" /\ Head(todo).id = 2
  BY <1>1, <1>2, SingleIs
<1>4. RunProc
  BY <1>3, Dispatch
<1>5. /\ todo' = run_proc(2)
      /\ UNCHANGED <<mode, mem, bitmap, cr3, pcbs, pcb_list, current_pcb, process_pid_bitmap, process_mem_bitmap,
                     IF_, interrupts_ready, pic, since, skipped, due, key, regs, at>>
  BY <1>3, <1>4 DEF RunProc, this, paging, intr, table, clock, NULL
<1>6. First /\ Built /\ 2 <= Len(pcbs) /\ mode = "kernel" /\ cr3 = PML4_KERNEL /\ pcbs[2].ctx = at
  BY DEF InSwitch, Ran, First
<1>7. First' /\ PmlOf(2)' = PmlOf(2)
  BY <1>5, <1>6, FirstSame
<1>8. pcbs[2].real_mem_addr = Slot(0)
  <2>1. pcbs[2].real_mem_addr = Slot(2 - 2)
    BY <1>6, OwnPml4
  <2>2. QED
    BY <2>1
<1>9. run_proc(2) = RunFirst(PmlOf(2))
  <2>1. RunIs(PmlOf(2))
    BY RunText
  <2>2. QED
    BY <2>1, <1>8 DEF RunIs, run_proc, PmlOf
<1>10. Typed'
  <2>1. Listed'
    BY <1>5, SameListed DEF Typed, table
  <2>2. QED
    BY <2>1, <1>5 DEF Typed, Running
<1>11. Run8a'
  BY <1>5, <1>6, <1>7, <1>9 DEF Run8a
<1>12. QED
  BY <1>10, <1>11 DEF Inv, Where

\* The return from a system call.
LEMMA StepInReturn == ASSUME Typed, InReturn, Kernel PROVE Inv'
<1>1. PICK call \in Calls : todo = Sysret(call)
  BY DEF InReturn
<1>2. PICK x : x = [op |-> "sysret", call |-> call]
  OBVIOUS
<1>3. todo = <<x>>
  BY <1>1, <1>2 DEF Sysret
<1>4. Head(todo).op = "sysret"
  BY <1>2, <1>3, SingleIs
<1>5. sysret
  BY <1>4, Dispatch
<1>6. /\ mode' = "user" /\ todo' = <<>> /\ IF_' = FALSE
      /\ UNCHANGED <<mem, bitmap, cr3, pcbs, pcb_list, current_pcb, process_pid_bitmap, process_mem_bitmap, interrupts_ready, pic,
                     since, skipped, due, key, regs, at>>
  BY <1>5 DEF sysret, paging, table, clock
<1>7. First /\ Shows(PML4_KERNEL, 2) /\ current_pcb = 2 /\ cr3 \in {PmlOf(2), PML4_KERNEL}
  BY DEF InReturn, Ran
<1>8. First' /\ PmlOf(2)' = PmlOf(2) /\ Shows(PML4_KERNEL, 2)'
  BY <1>6, <1>7, FirstSame
<1>9. Typed'
  <2>1. Listed'
    BY <1>6, SameListed DEF Typed, table
  <2>2. QED
    BY <2>1, <1>6 DEF Typed, Running
<1>10. InUser'
  BY <1>6, <1>7, <1>8 DEF InUser, Ran
<1>11. QED
  BY <1>9, <1>10 DEF Inv, Where

\* A system call that returns.
LEMMA StepInCall == ASSUME Typed, InCall, Kernel PROVE Inv'
<1>1. PICK S : S = Seq(Ops({"sti", "cli", "wait_ticks", "wait_key"}))
  OBVIOUS
<1>2. PICK call \in Calls, c \in {PmlOf(2), PML4_KERNEL}, s \in S : todo = s \o (SetCr3(c) \o Sysret(call))
  BY <1>1 DEF InCall
<1>3. PICK r : r = SetCr3(c) \o Sysret(call)
  OBVIOUS
<1>4. IsSeq(SetCr3(c)) /\ IsSeq(Sysret(call))
  BY SingleIsSeq
<1>5. IsSeq(r) /\ todo = s \o r
  BY <1>2, <1>3, <1>4, ConcatIsSeq
<1>6. First /\ Shows(PML4_KERNEL, 2) /\ current_pcb = 2 /\ mode = "kernel" /\ cr3 = PML4_KERNEL
  BY DEF InCall, Ran
<1>7. CASE s = <<>>
  <2>1. PICK x, t : x = [op |-> "cr3", to |-> c] /\ t = Sysret(call)
    OBVIOUS
  <2>2. todo = r
    BY <1>5, <1>7, FirstOf
  <2>3. todo = <<x>> \o t /\ IsSeq(t)
    BY <1>3, <1>4, <2>1, <2>2 DEF SetCr3
  <2>4. Head(todo).op = "cr3" /\ Head(todo).to = c /\ Tail(todo) = t
    BY <2>1, <2>3, FirstOf
  <2>5. Typed' /\ Moves /\ UNCHANGED <<mem, bitmap>> /\ cr3' = c
    BY <2>4, Cr3Step
  <2>6. First' /\ PmlOf(2)' = PmlOf(2) /\ Shows(PML4_KERNEL, 2)'
    BY <1>6, <2>5, FirstSame DEF Moves, table
  <2>7. InReturn'
    BY <1>6, <2>1, <2>4, <2>5, <2>6 DEF InReturn, Ran, Moves, table
  <2>8. QED
    BY <2>5, <2>7 DEF Inv, Where
<1>8. CASE s # <<>>
  <2>1. /\ Head(todo) \in Ops({"sti", "cli", "wait_ticks", "wait_key"}) /\ Tail(todo) = Tail(s) \o r /\ Tail(s) \in S
    BY <1>1, <1>5, <1>8, BlockStep
  <2>2. Head(todo).op \in {"sti", "cli", "wait_ticks", "wait_key"}
    BY <2>1 DEF Ops
  <2>3. Typed' /\ Moves /\ UNCHANGED <<mem, bitmap, cr3>>
    BY <2>2, PlainStep
  <2>4. First' /\ PmlOf(2)' = PmlOf(2) /\ Shows(PML4_KERNEL, 2)'
    BY <1>6, <2>3, FirstSame DEF Moves, table
  <2>5. todo' = Tail(s) \o (SetCr3(c) \o Sysret(call))
    BY <1>3, <2>1, <2>3 DEF Moves
  <2>6. \E call2 \in Calls : \E c2 \in {PmlOf(2)', PML4_KERNEL} :
          \E t \in Seq(Ops({"sti", "cli", "wait_ticks", "wait_key"})) : todo' = t \o (SetCr3(c2) \o Sysret(call2))
    BY <1>1, <2>1, <2>4, <2>5
  <2>7. InCall'
    BY <1>6, <2>3, <2>4, <2>6 DEF InCall, Ran, Moves, table
  <2>8. QED
    BY <2>3, <2>7 DEF Inv, Where
<1>9. QED
  BY <1>7, <1>8

\* exec by a process: the second process is allocated.
LEMMA StepInExec == ASSUME Typed, InExec, Kernel PROVE Inv'
<1>1. PICK z \in Tails(3) : todo = Do("alloc_proc") \o (DoFor("exec", 3) \o z)
  BY DEF InExec
<1>2. PICK x, r : x = [op |-> "alloc_proc"] /\ r = Rest6b(3, z)
  OBVIOUS
<1>3. IsSeq(r)
  <2>1. IsSeq(DoFor("exec", 3)) /\ IsSeq(z)
    BY SingleIsSeq, TailIsSeq
  <2>2. QED
    BY <1>2, <2>1, ConcatIsSeq DEF Rest6b
<1>4. todo = <<x>> \o r
  BY <1>1, <1>2 DEF Do, Rest6b
<1>5. Head(todo).op = "alloc_proc" /\ Tail(todo) = r
  BY <1>2, <1>3, <1>4, FirstOf
<1>6. /\ First /\ Built /\ Owned /\ Taken /\ Len(pcbs) = 2 /\ current_pcb = 2 /\ cr3 = PML4_KERNEL /\ pcb_list = <<2>>
      /\ process_pid_bitmap = {2} /\ process_mem_bitmap = {0} /\ Entry(mem, PML4_KERNEL, REC) = PML4_KERNEL
      /\ Enough(mem, bitmap, PML4_KERNEL, Reserve, MappedPages, AllTables + 1)
  BY DEF InExec, Ran, First
<1>7. Later(3) + AllTables + 1 = AllTables + 1
  BY MissingAtMost DEF Later
<1>8. AllocPoint(3, z)
  BY <1>2, <1>5, <1>6, <1>7 DEF AllocPoint, Older
<1>9. Recursive
  BY <1>6 DEF Recursive
<1>10. QED
  BY <1>6, <1>8, <1>9, StepAlloc

\* exit: its parent is the kernel, whose PCB is not on pcb_list.
LEMMA StepInExit == ASSUME Typed, InExit, Kernel PROVE Inv'
<1>1. PICK c \in {PmlOf(2), PML4_KERNEL} : todo = Do("exit") \o (SetCr3(c) \o Sysret("exit"))
  BY DEF InExit
<1>2. PICK x, r : x = [op |-> "exit"] /\ r = SetCr3(c) \o Sysret("exit")
  OBVIOUS
<1>3. IsSeq(r)
  BY <1>2, SingleIsSeq, ConcatIsSeq
<1>4. todo = <<x>> \o r
  BY <1>1, <1>2 DEF Do
<1>5. Head(todo).op = "exit"
  BY <1>2, <1>3, <1>4, FirstOf
<1>6. exit
  BY <1>5, Dispatch
<1>7. /\ First /\ Built /\ Len(pcbs) = 2 /\ current_pcb = 2 /\ cr3 = PML4_KERNEL /\ mode = "kernel" /\ pcb_list = <<2>>
      /\ pcbs[2].ppid = KERNEL_PID /\ Entry(mem, PML4_KERNEL, REC) = PML4_KERNEL
  BY DEF InExit, Ran, First
<1>8. find_pcb_by_pid(pcbs[2].ppid) = NULL
  <2>1. pcbs[2].pid = 2
    BY <1>7 DEF Typed, Listed
  <2>2. \A k \in DOMAIN pcb_list : pcb_list[k] = 2
    BY <1>7
  <2>3. ~ \E k \in DOMAIN pcb_list : pcbs[pcb_list[k]].pid = pcbs[2].ppid
    BY <1>7, <2>1, <2>2 DEF KERNEL_PID
  <2>4. QED
    BY <2>3 DEF find_pcb_by_pid
<1>9. PICK q, u, y, v : q = PmlOf(2) /\ u = UnmapRange(Window) /\ y = [op |-> "unmap", v |-> q] /\ v = Window \cup {q}
  OBVIOUS
<1>10. /\ todo' = u \o <<y>> \o DoFor("run_proc", NULL)
       /\ UNCHANGED <<mode, mem, bitmap, cr3, pcbs, pcb_list, current_pcb, process_pid_bitmap,
                      IF_, interrupts_ready, pic, since, skipped, due, key, regs, at>>
  BY <1>6, <1>7, <1>8, <1>9 DEF exit, paging, intr, clock, PmlOf
<1>11. u \o <<y>> \in Seq(Unmaps(v))
  <2>1. u \in Seq(Unmaps(Window))
    BY <1>9, PagesCounted, RangeIsSeq
  <2>2. Unmaps(Window) \subseteq Unmaps(v)
    BY <1>9 DEF Unmaps
  <2>3. u \in Seq(Unmaps(v))
    BY <2>1, <2>2, InLarger
  <2>4. y \in Unmaps(v)
    BY <1>9 DEF Unmaps
  <2>5. <<y>> \in Seq(Unmaps(v))
    BY <2>4
  <2>6. QED
    BY <2>3, <2>5, JoinSeq
<1>12. Typed'
  <2>1. Listed'
    BY <1>10 DEF Typed, Listed
  <2>2. QED
    BY <1>10, <2>1 DEF Typed, Running
<1>13. Built' /\ PmlOf(2)' = q
  BY <1>7, <1>9, <1>10, SameBuilt DEF PmlOf
<1>14. Exiting'
  BY <1>7, <1>9, <1>10, <1>11, <1>13 DEF Exiting
<1>15. QED
  BY <1>12, <1>14 DEF Inv, Where

\* exit unmaps the process, and run_proc(NULL) follows.
LEMMA StepExiting == ASSUME Typed, Exiting, Kernel PROVE Inv'
<1>1. PICK q, V : q = PmlOf(2) /\ V = Window \cup {q}
  OBVIOUS
<1>2. PICK s \in Seq(Unmaps(V)) : todo = s \o DoFor("run_proc", NULL)
  BY <1>1 DEF Exiting
<1>3. IsSeq(DoFor("run_proc", NULL))
  BY SingleIsSeq
<1>4. /\ mode = "kernel" /\ cr3 = PML4_KERNEL /\ Built /\ Len(pcbs) = 2 /\ current_pcb = 2
      /\ Entry(mem, PML4_KERNEL, REC) = PML4_KERNEL
  BY DEF Exiting
<1>5. CASE s = <<>>
  <2>1. PICK x : x = [op |-> "run_proc", id |-> NULL]
    OBVIOUS
  <2>2. todo = <<x>>
    BY <1>2, <1>3, <1>5, <2>1, FirstOf DEF DoFor
  <2>3. Head(todo).op = "run_proc" /\ Head(todo).id = NULL
    BY <2>1, <2>2, SingleIs
  <2>4. RunProc
    BY <2>3, Dispatch
  <2>5. /\ mode' = "lost"
        /\ UNCHANGED <<mem, bitmap, cr3, pcbs, pcb_list, current_pcb, process_pid_bitmap, process_mem_bitmap,
                       IF_, interrupts_ready, pic, since, skipped, due, key, regs, at>>
    BY <2>3, <2>4 DEF RunProc, this, paging, intr, table, clock
  <2>6. Typed'
    <3>1. Listed'
      BY <2>5, SameListed DEF Typed, table
    <3>2. QED
      BY <3>1, <2>5 DEF Typed, Running
  <2>7. Stopped'
    BY <1>4, <2>5, SameBuilt DEF Stopped
  <2>8. QED
    BY <2>6, <2>7 DEF Inv, Where
<1>6. CASE s # <<>>
  <2>1. Head(todo) \in Unmaps(V) /\ Tail(todo) = Tail(s) \o DoFor("run_proc", NULL) /\ Tail(s) \in Seq(Unmaps(V))
    BY <1>2, <1>3, <1>6, BlockStep
  <2>2. PICK v \in V : Head(todo).op = "unmap" /\ Head(todo).v = v
    BY <2>1, UnmapsAre
  <2>3. v \in MappedPages
    <3>1. q \in MappedPages
      BY <1>1, <1>4, OwnPml4
    <3>2. QED
      BY <3>1, <1>1, NotReserve
  <2>4. kpcb \in 1 .. Len(pcbs) /\ pcbs[kpcb].pml4 = PML4_KERNEL
    BY KernelPcb DEF Typed
  <2>5. Root = pcbs[kpcb].pml4
    BY <1>4, <2>4 DEF Root
  <2>6. UnmapEffect(kpcb, v)
    BY <1>4, <2>2, <2>3, <2>4, <2>5, UnmapBuilt
  <2>7. Typed' /\ Moves /\ Built' /\ cr3' = cr3 /\ Entry(mem', PML4_KERNEL, REC) = Entry(mem, PML4_KERNEL, REC)
    BY <2>4, <2>6 DEF UnmapEffect
  <2>8. PmlOf(2)' = q /\ todo' = Tail(s) \o DoFor("run_proc", NULL)
    BY <1>1, <2>1, <2>7 DEF Moves, table, PmlOf
  <2>9. Exiting'
    BY <1>1, <1>4, <2>1, <2>7, <2>8 DEF Exiting, Moves, table
  <2>10. QED
    BY <2>7, <2>9 DEF Inv, Where
<1>7. QED
  BY <1>5, <1>6

------------------------------------------------------------------------------
\* User mode.

\* Saving a context changes nothing else of a PCB.
LEMMA SavedPcb ==
  ASSUME Listed, NEW id \in 1 .. Len(pcbs), NEW n \in 0 .. Contexts - 1, pcbs' = [pcbs EXCEPT ![id].ctx = n]
  PROVE  PcbChanged(id) /\ pcbs'[id].ctx = n /\ pcbs'[id].ppid = pcbs[id].ppid /\ pcbs'[id].state = pcbs[id].state
<1>1. pcbs \in Seq(PCBs) /\ pcbs[id] \in PCBs
  BY Pcbs DEF Listed
<1>2. PICK r : r = [pcbs[id] EXCEPT !.ctx = n]
  OBVIOUS
<1>3. /\ r \in PCBs /\ r.ctx = n /\ r.ppid = pcbs[id].ppid /\ r.state = pcbs[id].state
      /\ r.pid = pcbs[id].pid /\ r.pml4 = pcbs[id].pml4 /\ r.real_mem_addr = pcbs[id].real_mem_addr
  BY <1>1, <1>2 DEF PCBs
<1>4. pcbs'[id] = r /\ (\A j \in 1 .. Len(pcbs) : j # id => pcbs'[j] = pcbs[j]) /\ Len(pcbs') = Len(pcbs) /\ pcbs' \in Seq(PCBs)
  BY <1>1, <1>2, <1>3
<1>5. QED
  BY <1>3, <1>4 DEF PcbChanged

\* The interrupted program is saved in its PCB.
LEMMA RanSaved ==
  ASSUME Typed, Ran, pcbs' = SaveContext,
         UNCHANGED <<mem, bitmap, pcb_list, current_pcb, process_pid_bitmap, process_mem_bitmap>>
  PROVE  Ran' /\ Listed' /\ PmlOf(2)' = PmlOf(2) /\ pcbs'[2].ctx = at
<1>1. /\ First /\ Built /\ Owned /\ Taken /\ Len(pcbs) = 2 /\ current_pcb = 2 /\ Shows(PML4_KERNEL, 2) /\ Shows(pcbs[2].pml4, 2)
      /\ 2 \in 1 .. Len(pcbs) /\ Listed
  BY DEF Ran, First, PmlOf, Typed
<1>2. regs = at /\ at \in 0 .. Contexts - 1
  BY DEF Typed
<1>3. pcbs' = [pcbs EXCEPT ![2].ctx = at]
  BY <1>1, <1>2 DEF SaveContext
<1>4. PcbChanged(2) /\ pcbs'[2].ctx = at /\ pcbs'[2].ppid = pcbs[2].ppid /\ pcbs'[2].state = pcbs[2].state
  BY <1>1, <1>2, <1>3, SavedPcb
<1>5. Listed' /\ Built' /\ pcbs'[2].pml4 = pcbs[2].pml4 /\ Shows(pcbs[2].pml4, 2)'
  BY <1>1, <1>4, PcbSet
<1>6. Len(pcbs') = 2
  BY <1>1, <1>4 DEF PcbChanged
<1>7. Shows(PML4_KERNEL, 2)'
  BY <1>1 DEF Shows
<1>8. First'
  BY <1>1, <1>4, <1>5, <1>6 DEF First, Owned, Taken, PmlOf
<1>9. QED
  BY <1>1, <1>4, <1>5, <1>7, <1>8 DEF Ran, PmlOf

\* A step of the program.
LEMMA StepUser == ASSUME Typed, InUser, UserStep PROVE Inv'
<1>1. /\ regs' = (regs + 1) % Contexts /\ at' = (at + 1) % Contexts
      /\ UNCHANGED <<mem, bitmap, cr3, IF_, interrupts_ready, pic, todo, mode, pcbs, pcb_list, current_pcb, process_pid_bitmap,
                     process_mem_bitmap, since, skipped, due, key>>
  BY DEF UserStep, paging, intr, table, clock
<1>2. Contexts \in Nat /\ Contexts > 0 /\ at + 1 \in Int
  BY ProcessAssumption DEF Typed
<1>3. at' \in 0 .. Contexts - 1 /\ regs' = at'
  <2>1. (at + 1) % Contexts \in 0 .. Contexts - 1
    BY <1>2, Remainder
  <2>2. QED
    BY <2>1, <1>1 DEF Typed
<1>4. Typed'
  <2>1. Listed'
    BY <1>1, SameListed DEF Typed, table
  <2>2. QED
    BY <2>1, <1>1, <1>3 DEF Typed, Running
<1>5. First' /\ PmlOf(2)' = PmlOf(2) /\ Shows(PML4_KERNEL, 2)'
  BY <1>1, FirstSame DEF InUser, Ran
<1>6. InUser'
  BY <1>1, <1>5 DEF InUser, Ran
<1>7. QED
  BY <1>4, <1>6 DEF Inv, Where

\* An exception stops the machine.
LEMMA StepException == ASSUME Typed, InUser, Exception PROVE Inv'
<1>1. /\ mode' = "fault" /\ cr3' = PML4_KERNEL /\ IF_' = FALSE
      /\ UNCHANGED <<mem, bitmap, interrupts_ready, pic, todo, pcbs, pcb_list, current_pcb, process_pid_bitmap,
                     process_mem_bitmap, since, skipped, due, key, regs, at>>
  BY DEF Exception, table, clock
<1>2. Typed'
  <2>1. Listed'
    BY <1>1, SameListed DEF Typed, table
  <2>2. QED
    BY <2>1, <1>1 DEF Typed, Running
<1>3. Stopped'
  BY <1>1, SameBuilt DEF Stopped, InUser, Ran, First
<1>4. QED
  BY <1>2, <1>3 DEF Inv, Where

\* A tick that switches.
LEMMA StepSwitch == ASSUME Typed, InUser, TickSwitch PROVE Inv'
<1>1. /\ Ran /\ First /\ pcb_list = <<2>> /\ current_pcb = 2 /\ pcbs[2].state = "READY" /\ Len(pcbs) = 2
  BY DEF InUser, Ran, First
<1>2. NextProcess = 2
  <2>1. PICK k : k = CHOOSE j \in DOMAIN pcb_list : pcb_list[j] = current_pcb
    OBVIOUS
  <2>2. NextProcess = IF k < Len(pcb_list) THEN pcb_list[k + 1] ELSE pcb_list[1]
    BY <2>1 DEF NextProcess
  <2>3. \E n \in DOMAIN pcb_list : pcb_list[n] = current_pcb
    BY <1>1
  <2>4. k \in DOMAIN pcb_list
    BY <2>1, <2>3
  <2>5. k = 1 /\ Len(pcb_list) = 1 /\ pcb_list[1] = 2
    BY <2>4, <1>1
  <2>6. QED
    BY <2>2, <2>5
<1>3. pcbs[2].pid = 2
  BY <1>1 DEF Typed, Listed
<1>4. pcbs[NextProcess].pid \notin {0, KERNEL_PID} /\ pcbs[NextProcess].state = "READY"
  BY <1>1, <1>2, <1>3 DEF KERNEL_PID
<1>5. /\ since' = 0 /\ due' = (IF due > 0 THEN due - 1 ELSE 0) /\ pcbs' = SaveContext
      /\ mode' = "kernel" /\ todo' = DoFor("run_proc", 2) /\ cr3' = PML4_KERNEL /\ IF_' = FALSE /\ skipped' = FALSE
      /\ UNCHANGED <<mem, bitmap, interrupts_ready, pic, pcb_list, current_pcb, process_pid_bitmap, process_mem_bitmap, key, regs, at>>
  BY <1>2, <1>4 DEF TickSwitch
<1>6. Ran' /\ Listed' /\ PmlOf(2)' = PmlOf(2) /\ pcbs'[2].ctx = at
  BY <1>1, <1>5, RanSaved
<1>7. Running'
  <2>1. due' \in 0 .. SleepTicks /\ since' \in 0 .. PROCESS_RUN_TIME
    BY <1>5, ProcessAssumption DEF Typed, Running
  <2>2. IF_' \in BOOLEAN /\ skipped' \in BOOLEAN /\ interrupts_ready' \in BOOLEAN /\ pic' \in BOOLEAN /\ key' \in BOOLEAN
    BY <1>5 DEF Typed, Running
  <2>3. QED
    BY <2>1, <2>2, <1>5 DEF Running
<1>8. Typed'
  BY <1>5, <1>6, <1>7 DEF Typed
<1>9. InSwitch'
  BY <1>5, <1>6 DEF InSwitch
<1>10. QED
  BY <1>8, <1>9 DEF Inv, Where

\* A call is its body and then the way back.
LEMMA CallText ==
  ASSUME NEW c, NEW call
  PROVE  LET z == SetCr3(c) \o Sysret(call)
         IN  /\ <<>> \o SetCr3(c) \o Sysret(call) = <<>> \o z
             /\ getchar \o SetCr3(c) \o Sysret(call) = getchar \o z
             /\ pit_sleep \o SetCr3(c) \o Sysret(call) = pit_sleep \o z
             /\ \A n : Do("alloc_proc") \o DoFor("exec", n) \o SetCr3(c) \o Sysret(call)
                       = Do("alloc_proc") \o (DoFor("exec", n) \o z)
             /\ Do("exit") \o SetCr3(c) \o Sysret(call) = Do("exit") \o z
             /\ getchar \in Seq(Ops({"sti", "cli", "wait_ticks", "wait_key"}))
             /\ pit_sleep \in Seq(Ops({"sti", "cli", "wait_ticks", "wait_key"}))
<1>1. PICK a, b, z : a = SetCr3(c) /\ b = Sysret(call) /\ z = a \o b
  OBVIOUS
<1>2. IsSeq(a) /\ IsSeq(b) /\ IsSeq(z) /\ IsSeq(<<>>)
  <2>1. IsSeq(a) /\ IsSeq(b)
    BY <1>1, SingleIsSeq
  <2>2. QED
    BY <2>1, <1>1, ConcatIsSeq, OneIsSeq
<1>3. PICK B : B = Ops({"sti", "cli", "wait_ticks", "wait_key"})
  OBVIOUS
<1>4. \A op \in {"sti", "cli", "wait_ticks", "wait_key"} : Do(op) \in Seq(B)
  <2> TAKE op \in {"sti", "cli", "wait_ticks", "wait_key"}
  <2>1. PICK x : x = [op |-> op]
    OBVIOUS
  <2>2. x \in B
    BY <1>3, <2>1 DEF Ops
  <2>3. <<x>> \in Seq(B)
    BY <2>2
  <2>4. QED
    BY <2>1, <2>3 DEF Do
<1>5. pit_sleep \in Seq(B)
  BY <1>4, JoinSeq DEF pit_sleep
<1>6. getchar \in Seq(B)
  <2>1. PICK p, q, r : p = Do("sti") /\ q = Do("wait_key") /\ r = Do("cli")
    OBVIOUS
  <2>2. p \in Seq(B) /\ q \in Seq(B) /\ r \in Seq(B)
    BY <1>4, <2>1
  <2>3. p \o q \in Seq(B)
    BY <2>2, JoinSeq
  <2>4. (p \o q) \o r \in Seq(B)
    BY <2>2, <2>3, JoinSeq
  <2>5. QED
    BY <2>1, <2>4 DEF getchar
<1>7. \A s : IsSeq(s) => (s \o a) \o b = s \o z
  <2> TAKE s
  <2> HAVE IsSeq(s)
  <2>1. (s \o a) \o b = s \o (a \o b)
    <3>1. IsSeq(a) /\ IsSeq(b)
      BY <1>2
    <3>2. QED
      BY <3>1, Assoc
  <2>2. QED
    BY <2>1, <1>1
<1>8. IsSeq(pit_sleep) /\ IsSeq(getchar) /\ IsSeq(Do("exit")) /\ IsSeq(Do("alloc_proc"))
  BY <1>5, <1>6, SingleIsSeq DEF IsSeq
<1>9. \A n : ((Do("alloc_proc") \o DoFor("exec", n)) \o a) \o b = Do("alloc_proc") \o (DoFor("exec", n) \o z)
  <2> TAKE n
  <2>1. PICK p, q : p = Do("alloc_proc") /\ q = DoFor("exec", n)
    OBVIOUS
  <2>2. IsSeq(p) /\ IsSeq(q)
    BY <2>1, SingleIsSeq
  <2>3. IsSeq(p \o q)
    BY <2>2, ConcatIsSeq
  <2>4. ((p \o q) \o a) \o b = (p \o q) \o z
    BY <2>3, <1>7
  <2>5. (p \o q) \o z = p \o (q \o z)
    BY <2>2, <1>2, Assoc, SMTT(30)
  <2>6. QED
    BY <2>1, <2>4, <2>5
<1>10. (<<>> \o a) \o b = <<>> \o z
  BY <1>2, <1>7
<1>11. QED
  BY <1>1, <1>3, <1>5, <1>6, <1>7, <1>8, <1>9, <1>10

\* A system call begins.
LEMMA StepCall == ASSUME Typed, InUser, NEW call \in Calls, syscall_handler(call) PROVE Inv'
<1>1. /\ Ran /\ First /\ Built /\ Len(pcbs) = 2 /\ Shows(PML4_KERNEL, 2) /\ current_pcb = 2
      /\ cr3 \in {PmlOf(2), PML4_KERNEL}
  BY DEF InUser, Ran, First
<1>2. /\ mode' = "kernel" /\ cr3' = PML4_KERNEL /\ due' = SleepTicks
      /\ UNCHANGED <<mem, bitmap, IF_, interrupts_ready, pic, pcb_list, current_pcb, process_pid_bitmap, process_mem_bitmap,
                     since, skipped, key, regs, at>>
  BY DEF syscall_handler, intr
<1>3. Running'
  <2>1. due' \in 0 .. SleepTicks
    BY <1>2, ProcessAssumption
  <2>2. QED
    BY <2>1, <1>2 DEF Typed, Running
<1>4. CASE call = "bad"
  <2>1. todo' = Sysret(call) /\ pcbs' = pcbs
    BY <1>4 DEF syscall_handler
  <2>2. First' /\ PmlOf(2)' = PmlOf(2) /\ Shows(PML4_KERNEL, 2)'
    BY <1>1, <1>2, <2>1, FirstSame
  <2>3. Typed'
    <3>1. Listed'
      BY <1>2, <2>1, SameListed DEF Typed, table
    <3>2. QED
      BY <3>1, <1>2, <1>3 DEF Typed
  <2>4. InReturn'
    BY <1>1, <1>2, <2>1, <2>2 DEF InReturn, Ran
  <2>5. QED
    BY <2>3, <2>4 DEF Inv, Where
<1>5. CASE call # "bad"
  <2>1. todo' = CallBody(call) \o SetCr3(cr3) \o Sysret(call) /\ pcbs' = SaveContext
    BY <1>5 DEF syscall_handler
  <2>2. Ran' /\ Listed' /\ PmlOf(2)' = PmlOf(2)
    BY <1>1, <1>2, <2>1, RanSaved
  <2>3. Typed'
    BY <1>2, <1>3, <2>2 DEF Typed
  <2>4. PICK z, B : z = SetCr3(cr3) \o Sysret(call) /\ B = Ops({"sti", "cli", "wait_ticks", "wait_key"})
    OBVIOUS
  <2>5. cr3 \in Frame /\ cr3 \in {PmlOf(2)', PML4_KERNEL}
    <3>1. PmlOf(2) \in Frame
      BY <1>1, OwnPml4
    <3>2. QED
      BY <3>1, <1>1, <2>2, Constants
  <2>6. ASSUME NEW s \in Seq(B), todo' = s \o z
        PROVE  Inv'
    <3>1. todo' = s \o (SetCr3(cr3) \o Sysret(call)) /\ s \in Seq(Ops({"sti", "cli", "wait_ticks", "wait_key"}))
      BY <2>4, <2>6
    <3>2. \E c \in {PmlOf(2)', PML4_KERNEL} : \E t \in Seq(Ops({"sti", "cli", "wait_ticks", "wait_key"})) :
            todo' = t \o (SetCr3(c) \o Sysret(call))
      BY <3>1, <2>5
    <3>3. InCall'
      BY <1>2, <2>2, <3>2 DEF InCall
    <3>4. QED
      BY <2>3, <3>3 DEF Inv, Where
  <2>7. /\ <<>> \o SetCr3(cr3) \o Sysret(call) = <<>> \o z
        /\ getchar \o SetCr3(cr3) \o Sysret(call) = getchar \o z
        /\ pit_sleep \o SetCr3(cr3) \o Sysret(call) = pit_sleep \o z
        /\ Do("alloc_proc") \o DoFor("exec", 3) \o SetCr3(cr3) \o Sysret(call) = Do("alloc_proc") \o (DoFor("exec", 3) \o z)
        /\ Do("exit") \o SetCr3(cr3) \o Sysret(call) = Do("exit") \o z
        /\ getchar \in Seq(B) /\ pit_sleep \in Seq(B)
    BY <2>4, CallText
  <2>8. CASE call = "other"
    <3>1. CallBody(call) = <<>> /\ <<>> \in Seq(B)
      BY <2>8 DEF CallBody
    <3>2. QED
      BY <3>1, <2>1, <2>6, <2>7
  <2>9. CASE call = "getchar"
    <3>1. CallBody(call) = getchar
      BY <2>9 DEF CallBody
    <3>2. QED
      BY <3>1, <2>1, <2>6, <2>7
  <2>10. CASE call = "sleep"
    <3>1. CallBody(call) = pit_sleep
      BY <2>10 DEF CallBody
    <3>2. QED
      BY <3>1, <2>1, <2>6, <2>7
  <2>11. CASE call = "exec"
    <3>1. CallBody(call) = Do("alloc_proc") \o DoFor("exec", 3)
      BY <2>11, <1>1 DEF CallBody
    <3>2. todo' = Do("alloc_proc") \o (DoFor("exec", 3) \o z)
      BY <3>1, <2>1, <2>7
    <3>3. z \in Tails(3)
      BY <2>4, <2>5, <2>11 DEF Tails
    <3>4. InExec'
      BY <3>2, <3>3, <1>2, <2>2 DEF InExec
    <3>5. QED
      BY <2>3, <3>4 DEF Inv, Where
  <2>12. CASE call = "exit"
    <3>1. CallBody(call) = Do("exit")
      BY <2>12 DEF CallBody
    <3>2. todo' = Do("exit") \o (SetCr3(cr3) \o Sysret("exit"))
      BY <3>1, <2>1, <2>4, <2>7, <2>12
    <3>3. InExit'
      BY <3>2, <1>2, <2>2, <2>5 DEF InExit
    <3>4. QED
      BY <2>3, <3>3 DEF Inv, Where
  <2>13. QED
    BY <1>5, <2>8, <2>9, <2>10, <2>11, <2>12 DEF Calls
<1>6. QED
  BY <1>4, <1>5

\* Every step from user mode.
LEMMA StepInUser == ASSUME Typed, InUser, [Next]_vars PROVE Inv'
<1>1. mode = "user" /\ Where
  BY DEF InUser, Where
<1>2. ~ Kernel
  BY <1>1, Dispatch
<1>3. CASE UNCHANGED vars \/ KeyboardIRQ \/ TickOnly
  BY <1>1, <1>3, Counting, QuietWhere DEF Inv
<1>4. CASE \E call \in Calls : syscall_handler(call)
  BY <1>4, StepCall
<1>5. QED
  BY <1>2, <1>3, <1>4, StepUser, StepException, StepSwitch DEF Next, User, Tick

\* Every step after a stop.
LEMMA StepStopped == ASSUME Typed, Stopped, [Next]_vars PROVE Inv'
<1>1. mode # "kernel" /\ mode # "user" /\ Where
  BY DEF Stopped, Where
<1>2. ~ Kernel
  BY <1>1, Dispatch
<1>3. ~ User /\ ~ Tick /\ ~ KeyboardIRQ
  BY <1>1 DEF User, UserStep, Exception, syscall_handler, Tick, TickOnly, TickSwitch, KeyboardIRQ, Interruptible
<1>4. QED
  BY <1>1, <1>2, <1>3, Counting, QuietWhere DEF Next, Inv

------------------------------------------------------------------------------
\* The invariant.

\* The boot loader's state is the first point.
LEMMA InitInv == ZeroedRAM /\ Init => Inv
<1> SUFFICES ASSUME ZeroedRAM, Init PROVE Inv
  OBVIOUS
<1>1. Listed
  <2>1. PICK r : r = [pid |-> KERNEL_PID, ppid |-> KERNEL_PID, state |-> "READY", pml4 |-> PML4_KERNEL,
                      real_mem_addr |-> 0, ctx |-> 0]
    OBVIOUS
  <2>2. pcbs = <<r>> /\ pcb_list = <<>> /\ current_pcb = 0
    BY <2>1 DEF Init, NULL
  <2>3. 0 \in 0 .. Contexts - 1 /\ 1 \in 0 .. MAX_NUM_OF_PROCESS - 1 /\ PML4_KERNEL \in Frame
    BY ProcessAssumption, LayoutAssumption, Constants
  <2>4. r \in PCBs
    BY <2>1, <2>3 DEF PCBs, KERNEL_PID
  <2>5. pcbs \in Seq(PCBs) /\ Len(pcbs) = 1 /\ pcbs[1] = r
    BY <2>2, <2>4
  <2>6. pcb_list \in Seq({2, 3}) /\ \A k \in DOMAIN pcb_list : pcb_list[k] <= 1
    BY <2>2
  <2>7. QED
    BY <2>1, <2>2, <2>5, <2>6 DEF Listed
<1>2. bitmap \in Marking /\ \A f \in Frame : bitmap[f] = 0
  <2>1. 0 \in 0 .. MAX_NUM_OF_PROCESS - 1
    BY ProcessAssumption, LayoutAssumption
  <2>2. PICK B : B = 0 .. MAX_NUM_OF_PROCESS - 1
    OBVIOUS
  <2>3. bitmap \in [Frame -> B] /\ \A f \in Frame : bitmap[f] = 0
    BY <2>1, <2>2 DEF Init
  <2>4. QED
    BY <2>2, <2>3 DEF Marking
<1>3. Running
  <2>1. since \in 0 .. PROCESS_RUN_TIME /\ due \in 0 .. SleepTicks
    BY ProcessAssumption DEF Init
  <2>2. {IF_, interrupts_ready, pic, key, skipped} \subseteq BOOLEAN
    BY Zenon DEF Init
  <2>3. mode = "kernel"
    BY DEF Init
  <2>4. QED
    BY <2>1, <2>2, <2>3, Zenon DEF Running
<1>4. Typed
  BY <1>1, <1>2, <1>3, ProcessAssumption DEF Typed, Init
<1>5. Early
  BY DEF Early, Init
<1>6. todo = Code1 \o Rest1
  BY BootText DEF Init
<1>7. Boot1
  BY <1>2, <1>5, <1>6, BootBlock1 DEF Boot1, Init
<1>8. QED
  BY <1>4, <1>7 DEF Inv, Where

\* Every step leads from one of the points to one of the points.
LEMMA NextInv == Inv /\ [Next]_vars => Inv'
<1> SUFFICES ASSUME Inv, [Next]_vars PROVE Inv'
  OBVIOUS
<1>1. Typed /\ Where
  BY DEF Inv
<1>2. CASE InUser
  BY <1>1, <1>2, StepInUser
<1>3. CASE Stopped
  BY <1>1, <1>3, StepStopped
<1>4. CASE ~ InUser /\ ~ Stopped
  <2>1. mode = "kernel"
    <3>1. (Boot1 \/ Boot1c \/ Boot1a \/ Boot2 \/ Boot2b \/ Boot3) => mode = "kernel"
      BY DEF Boot1, Boot1c, Boot1a, Boot2, Boot2b, Boot3, Early
    <3>2. ASSUME NEW id \in {2, 3}, \/ Alloc4(id) \/ Alloc4a(id) \/ Alloc5(id) \/ Alloc6(id) \/ Alloc6b(id) \/ Exec7(id) \/ Exec7b(id)
          PROVE  mode = "kernel"
      BY <3>2 DEF Alloc4, Alloc4a, Alloc5, Alloc6, Alloc6b, Exec7, Exec7b, Made, Making
    <3>3. (Run8a \/ Run8 \/ Run8b \/ InSwitch \/ InCall \/ InReturn \/ InExec \/ InExit \/ Exiting) => mode = "kernel"
      BY DEF Run8a, Run8, Run8b, InSwitch, InCall, InReturn, InExec, InExit, Exiting
    <3>4. QED
      BY <1>1, <1>4, <3>1, <3>2, <3>3 DEF Where
  <2>2. CASE Quiet /\ Typed'
    BY <1>1, <2>2, QuietWhere DEF Inv
  <2>3. CASE Kernel
    <3>1. CASE Boot1 \/ Boot1c \/ Boot1a \/ Boot2 \/ Boot2b \/ Boot3
      BY <1>1, <2>3, <3>1, StepBoot1, StepBoot1c, StepBoot1a, StepBoot2, StepBoot2b, StepBoot3
    <3>2. ASSUME NEW id \in {2, 3}, \/ Alloc4(id) \/ Alloc4a(id) \/ Alloc5(id) \/ Alloc6(id) \/ Alloc6b(id) \/ Exec7(id) \/ Exec7b(id)
          PROVE  Inv'
      BY <1>1, <2>3, <3>2, StepAlloc4, StepAlloc4a, StepAlloc5, StepAlloc6, StepAlloc6b, StepExec7, StepExec7b
    <3>3. CASE Run8a \/ Run8 \/ Run8b \/ InSwitch \/ InCall \/ InReturn \/ InExec \/ InExit \/ Exiting
      BY <1>1, <2>3, <3>3, StepRun8a, StepRun8, StepRun8b, StepInSwitch, StepInCall, StepInReturn, StepInExec, StepInExit, StepExiting
    <3>4. QED
      BY <1>1, <1>4, <3>1, <3>2, <3>3 DEF Where
  <2>4. QED
    BY <1>1, <2>1, <2>2, <2>3, Interrupted
<1>5. QED
  BY <1>2, <1>3, <1>4

\* The kernel is always at one of the points, if memory that nobody has written is zero.
THEOREM ProcessInv == ZeroedRAM /\ Spec => []Inv
BY InitInv, NextInv, PTL DEF Spec

------------------------------------------------------------------------------
\* What holds at every point.

\* The tables form a tree once the kernel's PML4 is cleared.
LEMMA InvBuilt == ASSUME Inv, ~ Boot1 PROVE Built /\ cr3 \in Frame
<1>1. Listed /\ Typed /\ Where
  BY DEF Inv, Typed
<1>2. CASE Boot1c
  <2>1. ZeroedRAM /\ mem = FirstTables /\ Len(pcbs) = 1 /\ cr3 = PML4_BOOT
    BY <1>2 DEF Boot1c, Early
  <2>2. /\ DOMAIN mem = Frame /\ mem \in [DOMAIN mem -> Tables] /\ \A i : Entry(mem, PML4_KERNEL, i) = NoFrame
        /\ \A f \in Untouched, i \in Index : Entry(mem, f, i) = NoFrame
    BY <2>1, FirstTablesAre
  <2>3. \E lv \in Levels : Tree(mem, bitmap, lv) /\ Roots(lv)
    BY <1>1, <2>1, <2>2, FirstTree
  <2>4. QED
    BY <2>1, <2>3, Constants DEF Built
<1>3. CASE Boot1a
  <2>1. ZeroedRAM /\ mem = SetEntry(FirstTables, PML4_BOOT, REC, PML4_KERNEL) /\ Len(pcbs) = 1 /\ cr3 = PML4_BOOT
    BY <1>3 DEF Boot1a, Early
  <2>2. /\ DOMAIN mem = Frame /\ mem \in [DOMAIN mem -> Tables] /\ \A i : Entry(mem, PML4_KERNEL, i) = NoFrame
        /\ \A f \in Untouched, i \in Index : Entry(mem, f, i) = NoFrame
    BY <2>1, SecondTablesAre
  <2>3. \E lv \in Levels : Tree(mem, bitmap, lv) /\ Roots(lv)
    BY <1>1, <2>1, <2>2, FirstTree
  <2>4. QED
    BY <2>1, <2>3, Constants DEF Built
<1>4. CASE Boot2
  <2>1. Built /\ cr3 = PML4_BOOT
    BY <1>4, Zenon DEF Boot2, Built
  <2>2. QED
    BY <2>1, Constants
<1>5. CASE ~ Boot1c /\ ~ Boot1a /\ ~ Boot2
  <2>1. Built /\ (cr3 = PML4_KERNEL \/ (2 <= Len(pcbs) /\ cr3 = PmlOf(2)))
    <3>1. Boot2b => Built /\ cr3 = PML4_KERNEL
      BY Zenon DEF Boot2b, Built, Recursive
    <3>2. Boot3 => Built /\ cr3 = PML4_KERNEL
      BY Zenon DEF Boot3, Recursive
    <3>3. ASSUME NEW id \in {2, 3}, \/ Alloc4(id) \/ Alloc4a(id) \/ Alloc5(id) \/ Alloc6(id) \/ Alloc6b(id) \/ Exec7(id) \/ Exec7b(id)
          PROVE  Built /\ cr3 = PML4_KERNEL
      <4>1. Making(id)
        BY <3>3, Zenon DEF Alloc4, Alloc4a, Alloc5, Alloc6, Alloc6b, Exec7, Exec7b, Made
      <4>2. QED
        BY <4>1, Zenon DEF Making
    <3>4. First => Built /\ 2 <= Len(pcbs)
      BY DEF First
    <3>5. Run8a \/ Run8 \/ Run8b \/ InUser \/ InSwitch \/ InCall \/ InReturn \/ InExec \/ InExit => First /\ cr3 \in {PML4_KERNEL, PmlOf(2)}
      BY DEF Run8a, Run8, Run8b, InUser, InSwitch, InCall, InReturn, InExec, InExit, Ran
    <3>6. Exiting \/ Stopped => Built /\ cr3 = PML4_KERNEL
      BY DEF Exiting, Stopped
    <3>7. QED
      BY <1>1, <1>5, <3>1, <3>2, <3>3, <3>4, <3>5, <3>6 DEF Where
  <2>2. ASSUME 2 <= Len(pcbs) PROVE PmlOf(2) \in Frame
    <3>1. 2 \in 1 .. Len(pcbs)
      BY <1>1, <2>2 DEF Listed
    <3>2. QED
      BY <1>1, <3>1, Pcbs DEF PmlOf
  <2>3. QED
    BY <2>1, <2>2, Constants
<1>6. QED
  BY <1>2, <1>3, <1>4, <1>5

\* The type invariant holds at every point.
LEMMA InvTypeOK == ASSUME Inv PROVE TypeOK
<1>1. Typed
  BY DEF Inv
<1>2. DOMAIN mem = Frame /\ mem \in [Frame -> Tables] /\ cr3 \in Frame
  <2>1. CASE Boot1
    <3>1. mem = RAM /\ cr3 = PML4_BOOT
      BY <2>1 DEF Boot1
    <3>2. RAM = [f \in Frame |-> RAM[f]] /\ \A f \in Frame : RAM[f] \in Tables
      BY RamAssumption DEF Tables
    <3>3. QED
      BY <3>1, <3>2, Constants
  <2>2. CASE ~ Boot1
    BY <2>2, InvBuilt DEF Built, Tree
  <2>3. QED
    BY <2>1, <2>2
<1>3. \A f \in Frame : DOMAIN mem[f] \subseteq Index /\ \A i \in DOMAIN mem[f] : mem[f][i] \in Frame
  BY <1>2 DEF Tables
<1>4. current_pcb \in 0 .. Len(pcbs) /\ \A k \in DOMAIN pcb_list : pcb_list[k] \in DOMAIN pcbs
  <2>1. pcbs \in Seq(PCBs) /\ Len(pcbs) \in 1 .. 3 /\ current_pcb \in 0 .. Len(pcbs)
    BY <1>1 DEF Typed, Listed
  <2>2. pcb_list \in Seq({2, 3}) /\ \A k \in DOMAIN pcb_list : pcb_list[k] <= Len(pcbs)
    BY <1>1 DEF Typed, Listed
  <2>3. \A k \in DOMAIN pcb_list : pcb_list[k] \in {2, 3}
    BY <2>2
  <2>4. DOMAIN pcbs = 1 .. Len(pcbs)
    BY <2>1
  <2>5. QED
    BY <2>1, <2>2, <2>3, <2>4
<1>5. bitmap \in [Frame -> 0 .. MAX_NUM_OF_PROCESS - 1]
  BY <1>1 DEF Typed, Marking
<1>6. {regs, at} \subseteq 0 .. Contexts - 1
  BY <1>1 DEF Typed
<1>7. Running
  BY <1>1 DEF Typed
<1>8. QED
  BY <1>1, <1>2, <1>3, <1>4, <1>5, <1>6, <1>7, Zenon DEF TypeOK, Running

\* Only the first process is ever in user mode, and both PML4s that cr3 can hold show its memory.
LEMMA InvSees == ASSUME Inv PROVE UserSeesOwnMemory
<1> SUFFICES ASSUME mode = "user"
             PROVE  \A v \in Window : Walk(mem, cr3, v) = pcbs[current_pcb].real_mem_addr + v - WindowStart
  BY DEF UserSeesOwnMemory
<1>1. Typed /\ Where
  BY DEF Inv
<1>2. InUser
  <2>1. ~ (Boot1 \/ Boot1c \/ Boot1a \/ Boot2 \/ Boot2b \/ Boot3)
    BY DEF Boot1, Boot1c, Boot1a, Boot2, Boot2b, Boot3, Early
  <2>2. \A id \in {2, 3} : ~ (\/ Alloc4(id) \/ Alloc4a(id) \/ Alloc5(id) \/ Alloc6(id) \/ Alloc6b(id) \/ Exec7(id) \/ Exec7b(id))
    BY DEF Alloc4, Alloc4a, Alloc5, Alloc6, Alloc6b, Exec7, Exec7b, Made, Making
  <2>3. ~ (Run8a \/ Run8 \/ Run8b \/ InSwitch \/ InCall \/ InReturn \/ InExec \/ InExit \/ Exiting \/ Stopped)
    BY DEF Run8a, Run8, Run8b, InSwitch, InCall, InReturn, InExec, InExit, Exiting, Stopped
  <2>4. QED
    BY <1>1, <2>1, <2>2, <2>3 DEF Where
<1>3. Ran /\ cr3 \in {PmlOf(2), PML4_KERNEL}
  BY <1>2 DEF InUser
<1>4. First /\ Shows(PmlOf(2), 2) /\ Shows(PML4_KERNEL, 2) /\ current_pcb = 2
  BY <1>3, Zenon DEF Ran, First
<1>5. Shows(cr3, 2)
  BY <1>3, <1>4
<1>6. Slot(2 - 2) = Slot(0)
  OBVIOUS
<1>7. pcbs[2].real_mem_addr = Slot(0)
  <2>1. 2 <= Len(pcbs)
    BY <1>4 DEF First
  <2>2. QED
    BY <1>1, <1>4, <1>6, <2>1, OwnPml4 DEF First
<1>8. QED
  BY <1>4, <1>5, <1>6, <1>7 DEF Shows

\* The context is preserved at every point.
LEMMA InvContext == ASSUME Inv PROVE ContextPreserved
BY DEF Inv, Typed, ContextPreserved

\* One level down: as many tables as entries lead to them, and they are all of the next level.
AllOfLevel(S, lv, l) == \A f \in S : f \in Frame /\ lv[f] = l
OneEach(S, skip) == Cardinality(EntriesOf(mem, S, skip)) = Cardinality(TablesBelow(mem, S, skip))

\* As many tables as entries lead to them, and they are all of the next level.
LEMMA BelowIs ==
  ASSUME NEW lv \in Levels, Tree(mem, bitmap, lv), NEW l \in 1 .. 3, NEW S, AllOfLevel(S, lv, l),
         NEW skip, l = 1 => REC \in skip
  PROVE  OneEach(S, skip) /\ AllOfLevel(TablesBelow(mem, S, skip), lv, l + 1)
<1> DEFINE E == EntriesOf(mem, S, skip)
           T == TablesBelow(mem, S, skip)
<1>1. DOMAIN mem \subseteq Frame /\ mem \in [DOMAIN mem -> Tables]
  BY DEF Tree
<1>2. ASSUME NEW e \in E
      PROVE  /\ e = <<e[1], e[2]>> /\ e[1] \in Frame /\ e[2] \in Index /\ Leads(mem, lv, e[1], e[2])
             /\ mem[e[1]][e[2]] = Entry(mem, e[1], e[2])
             /\ mem[e[1]][e[2]] \in Frame /\ lv[mem[e[1]][e[2]]] = l + 1
  <2>1. e \in S \X (Index \ skip) /\ Entry(mem, e[1], e[2]) # NoFrame
    BY <1>2 DEF EntriesOf
  <2>2. e = <<e[1], e[2]>> /\ e[1] \in S /\ e[2] \in Index /\ e[2] \notin skip
    BY <2>1
  <2>3. lv[e[1]] = l /\ e[1] \in Frame
    BY <2>2 DEF AllOfLevel
  <2>4. ~ (lv[e[1]] = 1 /\ e[2] = REC)
    BY <2>2, <2>3
  <2>5. Leads(mem, lv, e[1], e[2])
    BY <2>1, <2>3, <2>4 DEF Leads
  <2>6. Entry(mem, e[1], e[2]) \in Frame
    BY <1>1, <2>1, EntryTyped
  <2>7. mem[e[1]][e[2]] = Entry(mem, e[1], e[2])
    BY <2>1 DEF Entry
  <2>8. lv[Entry(mem, e[1], e[2])] = l + 1
    BY <2>2, <2>3, <2>5 DEF Tree
  <2>9. QED
    BY <2>2, <2>3, <2>5, <2>6, <2>7, <2>8
<1>3. \A f \in T : f \in Frame /\ lv[f] = l + 1
  BY <1>2 DEF TablesBelow
<1>4. PICK g : g = [e \in E |-> mem[e[1]][e[2]]]
  OBVIOUS
<1>5. g \in [E -> T] /\ \A t \in T : \E e \in E : g[e] = t
  BY <1>4 DEF TablesBelow
<1>6. ASSUME NEW d \in E, NEW e \in E, g[d] = g[e] PROVE d = e
  <2>1. Entry(mem, d[1], d[2]) = Entry(mem, e[1], e[2])
    BY <1>2, <1>4, <1>6
  <2>2. d[1] = e[1] /\ d[2] = e[2]
    BY <1>2, <2>1 DEF Tree
  <2>3. QED
    BY <1>2, <2>2
<1>7. g \in Injection(E, T) /\ g \in Surjection(E, T)
  BY <1>5, <1>6 DEF Injection, IsInjective, Surjection
<1>8. IsFiniteSet(T)
  BY <1>3, FrameFinite
<1>9. Cardinality(E) = Cardinality(T)
  BY <1>7, <1>8, FS_Injection
<1>10. QED
  BY <1>3, <1>9 DEF OneEach, AllOfLevel

\* Tables of different levels are different, and no table lies in memory that is used otherwise.
LEMMA InvExclusive == ASSUME Inv, ~ Boot1 PROVE Exclusive
<1>1. Typed /\ Listed /\ Built
  BY InvBuilt DEF Inv, Typed
<1>2. PICK lv \in Levels : Tree(mem, bitmap, lv) /\ Roots(lv)
  BY <1>1 DEF Built
<1>3. pcbs \in Seq(PCBs) /\ Len(pcbs) \in 1 .. 3 /\ DOMAIN pcbs = 1 .. Len(pcbs)
  BY <1>1 DEF Listed
<1>4. AllOfLevel(PML4s, lv, 1)
  <2>1. \A id \in 1 .. Len(pcbs) : pcbs[id].pml4 \in Frame /\ lv[pcbs[id].pml4] = 1
    BY <1>1, <1>2, Pcbs DEF Roots
  <2>2. QED
    BY <1>3, <2>1 DEF PML4s, AllOfLevel
<1>5. OneEach(PML4s, {REC}) /\ AllOfLevel(Tables1, lv, 2)
  BY <1>2, <1>4, BelowIs DEF Tables1
<1>6. OneEach(Tables1, {}) /\ AllOfLevel(Tables2, lv, 3)
  BY <1>2, <1>5, BelowIs DEF Tables2
<1>7. OneEach(Tables2, {}) /\ AllOfLevel(Tables3, lv, 4)
  BY <1>2, <1>6, BelowIs DEF Tables3
<1>8. Cardinality(PML4s) = Len(pcbs)
  <2>1. PICK n : n = Len(pcbs)
    OBVIOUS
  <2>2. n \in Nat /\ Cardinality(1 .. n) = n
    <3>1. n \in Nat /\ 1 \in Int /\ n \in Int /\ n - 1 + 1 = n /\ ~ (1 > n)
      BY <1>3, <2>1
    <3>2. QED
      BY <3>1, FS_Interval
  <2>3. PICK g : g = [id \in 1 .. n |-> pcbs[id].pml4]
    OBVIOUS
  <2>4. PICK P : P = PML4s
    OBVIOUS
  <2>5. P = {pcbs[id].pml4 : id \in 1 .. n}
    BY <1>3, <2>1, <2>4 DEF PML4s
  <2>6. \A id, jd \in 1 .. n : pcbs[id].pml4 = pcbs[jd].pml4 => id = jd
    BY <1>2, <2>1 DEF Roots
  <2>7. g \in Injection(1 .. n, P) /\ g \in Surjection(1 .. n, P)
    BY <2>3, <2>5, <2>6 DEF Injection, IsInjective, Surjection
  <2>8. IsFiniteSet(P)
    BY <1>4, <2>4, FrameFinite DEF AllOfLevel
  <2>9. Cardinality(1 .. n) = Cardinality(P)
    BY <2>7, <2>8, FS_Injection
  <2>10. QED
    BY <2>1, <2>2, <2>4, <2>9
<1>9. \A f \in PML4s \cup Tables1 \cup Tables2 \cup Tables3 : f \in Frame /\ (f = PML4_KERNEL \/ f \in Usable)
  <2>1. \A f \in PML4s \cup Tables1 \cup Tables2 \cup Tables3 : f \in Frame /\ lv[f] > 0
    BY <1>4, <1>5, <1>6, <1>7 DEF AllOfLevel
  <2>2. QED
    BY <1>2, <2>1 DEF Tree
<1>10. ASSUME NEW f \in Frame, f = PML4_KERNEL \/ f \in Usable
       PROVE  f \notin KernelPages \cup HeapPages \cup HardwarePages \cup SlotPages
  <2>1. f \in Nat /\ f < PROC_ALLOC_START /\ f \notin KernelPages /\ \A g \in HeapPages \cup HardwarePages : f < g
    BY <1>10, Constants, FirstPagesAre, ProcessAssumption, LayoutAssumption DEF Usable
  <2>2. f \notin HeapPages \cup HardwarePages
    BY <2>1
  <2>3. f \notin SlotPages
    <3>1. SUFFICES ASSUME NEW k \in 0 .. Len(pcbs) - 2, f \in Slot(k) .. Slot(k) + PROC_MEM_PAGES - 1 PROVE FALSE
      BY DEF SlotPages
    <3>2. k \in {0, 1}
      BY <1>3, <3>1
    <3>3. Slot(k) \in Nat /\ Slot(k) >= PROC_ALLOC_START /\ PROC_ALLOC_START \in Nat /\ PROC_MEM_PAGES \in Nat
      BY <3>2, SlotsAre, ProcessAssumption, LayoutAssumption, SMTT(30)
    <3>4. QED
      BY <2>1, <3>1, <3>3
  <2>4. QED
    BY <2>1, <2>2, <2>3
<1>11. (PML4s \cup Tables1 \cup Tables2 \cup Tables3)
         \cap (KernelPages \cup HeapPages \cup HardwarePages \cup SlotPages) = {}
  BY <1>9, <1>10
<1>12. /\ PML4s \cap (Tables1 \cup Tables2 \cup Tables3) = {}
       /\ Tables1 \cap (Tables2 \cup Tables3) = {} /\ Tables2 \cap Tables3 = {}
  BY <1>4, <1>5, <1>6, <1>7 DEF AllOfLevel
<1>13. QED
  BY <1>5, <1>6, <1>7, <1>8, <1>11, <1>12 DEF Exclusive, OneEach, Tables1, Tables2, Tables3

\* The tables have a level above that of the PML4s, so they are not the kernel's PML4.
LEMMA InvAllocated == ASSUME Inv, ~ Boot1 PROVE TablesAllocated
<1>1. Typed /\ Listed /\ Built
  BY InvBuilt DEF Inv, Typed
<1>2. PICK lv \in Levels : Tree(mem, bitmap, lv) /\ Roots(lv)
  BY <1>1 DEF Built
<1>3. AllOfLevel(PML4s, lv, 1)
  <2>1. \A id \in 1 .. Len(pcbs) : pcbs[id].pml4 \in Frame /\ lv[pcbs[id].pml4] = 1
    BY <1>1, <1>2, Pcbs DEF Roots
  <2>2. DOMAIN pcbs = 1 .. Len(pcbs)
    BY <1>1 DEF Listed
  <2>3. QED
    BY <2>1, <2>2 DEF PML4s, AllOfLevel
<1>4. AllOfLevel(Tables1, lv, 2)
  BY <1>2, <1>3, BelowIs DEF Tables1
<1>5. AllOfLevel(Tables2, lv, 3)
  BY <1>2, <1>4, BelowIs DEF Tables2
<1>6. AllOfLevel(Tables3, lv, 4)
  BY <1>2, <1>5, BelowIs DEF Tables3
<1>7. \A f \in Tables1 \cup Tables2 \cup Tables3 : f \in Frame /\ lv[f] > 1
  BY <1>4, <1>5, <1>6 DEF AllOfLevel
<1>8. ASSUME NEW f \in Frame, lv[f] > 1 PROVE bitmap[f] # 0
  <2>1. lv[PML4_KERNEL] = 1 /\ (lv[f] > 0 => f = PML4_KERNEL \/ bitmap[f] # 0)
    BY <1>2, <1>8 DEF Tree
  <2>2. lv[f] \in Nat
    BY <1>2, <1>8 DEF Levels
  <2>3. QED
    BY <1>8, <2>1, <2>2
<1>9. QED
  BY <1>7, <1>8 DEF TablesAllocated

\* Before the kernel's PML4 is cleared, that is still to be done.
LEMMA StillToClear == ASSUME Boot1 PROVE ~ Cleared
<1>1. PICK s \in Seq(Block1) : todo = s \o Rest1
  BY DEF Boot1
<1>2. PICK x, r, k : x = [op |-> "clear", frame |-> PML4_KERNEL] /\ r = Rest1 /\ k = Len(s) + 1
  OBVIOUS
<1>3. r = <<x>> \o Rest1c /\ IsSeq(Rest1c) /\ IsSeq(r)
  BY <1>2, BootText DEF Rest1, Clear
<1>4. r # <<>> /\ Head(r) = x
  BY <1>3, FirstOf
<1>5. IsSeq(s)
  BY DEF IsSeq
<1>6. PICK T : s \in Seq(T) /\ r \in Seq(T)
  BY <1>3, <1>5, ConcatIsSeq
<1>7. Len(r) > 0 /\ r[1] = x
  BY <1>4, <1>6
<1>8. k \in DOMAIN todo /\ todo[k] = r[1]
  BY <1>1, <1>2, <1>6, <1>7, ConcatProperties
<1>9. QED
  BY <1>2, <1>7, <1>8 DEF Cleared

LEMMA InvFrames == ASSUME Inv PROVE FramesExclusive
BY StillToClear, InvExclusive, InvAllocated DEF FramesExclusive

\* If memory that nobody has written is zero, then at every moment the tables hold entries of
\* their type, cr3 is a frame, and the PCBs, lists and counters of kernel.c, process.c and
\* sched.c are within their bounds.
THEOREM ProcessTypeOK == ZeroedRAM /\ Spec => []TypeOK
BY ProcessInv, InvTypeOK, PTL

\* If memory that nobody has written is zero, then no frame is ever used twice: every PML4, PDPT,
\* PD and page table that map_page and alloc_proc make has a frame of its own, apart from kernel,
\* heap, drivers and process memory, and everything map_page follows as a table was given out by
\* allocate_page. alloc_proc does not clear the frame it takes for a PML4 (process.c:107): it is
\* one that nobody has written.
THEOREM ProcessFramesExclusive == ZeroedRAM /\ Spec => []FramesExclusive
BY ProcessInv, InvFrames, PTL

\* If memory that nobody has written is zero, then whenever a program runs, the window shows it
\* the memory of its own process, with either of the PML4s that system calls and interrupts
\* leave in cr3.
THEOREM ProcessUserSeesOwnMemory == ZeroedRAM /\ Spec => []UserSeesOwnMemory
BY ProcessInv, InvSees, PTL

\* Under the same condition, ticks, switches and system calls never lose or repeat a step of
\* the program.
THEOREM ProcessContextPreserved == ZeroedRAM /\ Spec => []ContextPreserved
BY ProcessInv, InvContext, PTL
==============================================================================
