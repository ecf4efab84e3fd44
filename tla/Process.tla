------------------------------- MODULE Process --------------------------------
(***************************************************************************)
(* The kernel from kmain to user mode and back: kernel/kernel.c,           *)
(* process/process.c and sched.c, libc/proc/proc_op.c, sys/syscall.c and   *)
(* syscall_s.s, gdt/user.s, the interrupt path of isr.c and isr_entry.s,   *)
(* and the interrupt flag that all of them turn on and off.                *)
(*                                                                         *)
(* The kernel is one thread.  What it still has to do is todo, a sequence  *)
(* of instructions; a C function is the sequence of the instructions in    *)
(* its body, and a call whose body depends on the state is replaced by the *)
(* body when it is reached.  Interrupts come between two instructions      *)
(* whenever IF is on; a handler runs with IF off, so it is one step.       *)
(* map_page and unmap_page keep interrupts off while they work and turn    *)
(* them on at the end, whatever they were: they are one instruction each.  *)
(*                                                                         *)
(* The running program is its context: a step counter that registers hold  *)
(* in user mode.  ELF loading, drivers and the heap have modules of their  *)
(* own; here they change nothing but the frames the drivers map.           *)
(***************************************************************************)
EXTENDS Paging

CONSTANTS
  LowPages,      \* 0 to 3 MB, mapped to itself
  KernelPages,   \* KERNEL_VBASE - KERNEL_LOAD_ADDR to PAGE_FRAME_ALLOCATOR_END
  BootPages,     \* the pages after PAGE_FRAME_ALLOCATOR_END that stand for 0 on (GDT and TSS)
  HeapPages,     \* KERNEL_HEAP_START and the pages of the heap
  ProcHeapPages, \* the part of them that a process maps: 512 bytes for each page of the heap
  HardwarePages, \* what the drivers take with hardware_allocate_mem
  PML4_BOOT, PML4_KERNEL,
  RAM,           \* what each frame holds, read as a table, when kmain starts
  BootMark,      \* the frame page.c takes for the boot PDPT: 4096 entries after PML4_BOOT
  PML4Pages,     \* the pages the kernel maps for its PML4: 4096 entries, 8 pages in the code
  PROC_ALLOC_START, PROC_MEM_PAGES,   \* where process memory starts, and one slot's pages
  WindowStart,   \* the page of PROC_BIN_ADDR - PROC_STACK_SIZE: stack first, then binary
  IntBits,       \* width of the int that BITMASK shifts
  MAX_NUM_OF_PROCESS,
  PROCESS_RUN_TIME, SleepTicks,       \* in timer ticks
  Contexts       \* contexts a program goes through before it is where it was

ASSUME ProcessAssumption ==
  /\ LowPages \cup KernelPages \cup HeapPages \cup HardwarePages \cup PML4Pages \subseteq Frame
  /\ PML4_BOOT \in LowPages /\ BootMark \in LowPages /\ PML4_KERNEL \in PML4Pages
  /\ ProcHeapPages \subseteq HeapPages
  /\ PROC_ALLOC_START + 2 * PROC_MEM_PAGES <= NumPages
  /\ {IntBits, PROC_MEM_PAGES, PROCESS_RUN_TIME, SleepTicks, Contexts} \subseteq Nat \ {0}
  /\ MAX_NUM_OF_PROCESS \in Nat

ASSUME RamAssumption ==
  /\ RAM = [f \in Frame |-> RAM[f]]
  /\ \A f \in Frame : \E S \in SUBSET Index : RAM[f] \in [S -> Frame]

Window == WindowStart .. WindowStart + PROC_MEM_PAGES - 1

\* init_page_frame_allocator and switch_context mark all frames up to PAGE_FRAME_ALLOCATOR_END,
\* those between low memory and kernel too, which nobody uses.
FirstPages == {f \in Frame : \E g \in LowPages \cup KernelPages : f <= g}

\* Every page that is marked, but the PML4s of processes; the frames that are never marked
\* below heap, drivers and processes, from which tables are made, and those of them below
\* the kernel's PML4, which is marked late; and all the pages that are ever mapped.
MarkedPages ==
  FirstPages \cup LowPages \cup KernelPages \cup PML4Pages \cup BootPages \cup HeapPages \cup HardwarePages \cup Window
Reserve ==
  {f \in Frame \ MarkedPages : f < PROC_ALLOC_START /\ \A g \in HeapPages \cup HardwarePages : f < g}
EarlyReserve == {f \in Reserve : f < PML4_KERNEL}
EarlyPages == LowPages \cup KernelPages \cup PML4Pages

\* Pages of heap and drivers that share no page table with the pages mapped before them.
LatePages == {v \in HeapPages \cup HardwarePages : \A w \in EarlyPages : \E k \in 1 .. 3 : PageIndexes(v)[k] # PageIndexes(w)[k]}

\* The frames that neither the boot loader nor the kernel writes before they are tables: all
\* behind the kernel and below heap, drivers and processes but the kernel's PML4, and BootMark.
Untouched ==
  {f \in Frame \ (FirstPages \cup PML4Pages) :
     f < PROC_ALLOC_START /\ \A g \in HeapPages \cup HardwarePages : f < g} \cup {BootMark}

\* Memory that nobody has written is zero, as QEMU starts a machine (Makefile:286) and as a
\* warm start of real hardware does not.
ZeroedRAM == \A f \in Untouched : RAM[f] = <<>>
MappedPages == MarkedPages \cup {f \in Frame : f < PROC_ALLOC_START}

\* The layout of mlayout.h, as far as it matters: the kernel's PML4 lies behind the kernel and
\* before heap, drivers and processes, no page is mapped through the recursive entry, heap
\* or drivers need a page table of their own, and the frames in between are enough for the
\* tables of the kernel and of two processes.
ASSUME LayoutAssumption ==
  /\ PROC_ALLOC_START \in Nat /\ WindowStart \in Nat /\ BootPages \subseteq Frame
  /\ \A f \in PML4Pages : f >= PML4_KERNEL
  /\ \A f \in HeapPages \cup HardwarePages : f > PML4_KERNEL
  /\ PML4_KERNEL < PROC_ALLOC_START /\ PROC_ALLOC_START <= WindowStart
  /\ PML4_BOOT < BootMark /\ LatePages # {}
  /\ PML4Pages \cap FirstPages = {} /\ LowPages \cap KernelPages = {}
  /\ Window \cap (KernelPages \cup BootPages \cup HeapPages) = {}
  /\ \A v \in MappedPages : PageIndexes(v)[1] # REC /\ v < Radix * Radix * Radix * Radix
  /\ Cardinality(TablesFor(EarlyPages)) <= Cardinality(EarlyReserve)
  /\ 3 * Cardinality(TablesFor(MappedPages)) + 2 <= Cardinality(Reserve)
  /\ IntBits > 3 /\ MAX_NUM_OF_PROCESS > 3

NULL == 0
KERNEL_PID == 1
kpcb == 1                   \* PCBs are known by the order they are made in
Calls == {"bad", "other", "getchar", "sleep", "exec", "exit"}

VARIABLES
  mem, bitmap, cr3,
  IF_, interrupts_ready, pic,   \* the interrupt flag, sti's condition, the PIC is started
  todo, mode,                   \* "kernel", "user", "fault" (isr_handler's endless loop), "lost"
  pcbs, pcb_list, current_pcb,  \* pcb_list is newest first, as append_node leaves it
  process_pid_bitmap, process_mem_bitmap,
  since, skipped,               \* ticks since the last switch, up to PROCESS_RUN_TIME
  due, key,                     \* ticks pit_sleep still waits for; wait_key has a key
  regs,                         \* the context in the registers, or on the stack of a call
  at                            \* ghost: the context the program is really in

paging == <<mem, bitmap, cr3>>
intr == <<IF_, interrupts_ready, pic>>
table == <<pcbs, pcb_list, current_pcb, process_pid_bitmap, process_mem_bitmap>>
clock == <<since, skipped, due, key>>
vars == <<paging, intr, todo, mode, table, clock, regs, at>>

Root == Entry(mem, cr3, REC)   \* the PML4 that map_page and unmap_page edit
Slot(i) == PROC_ALLOC_START + i * PROC_MEM_PAGES

------------------------------------------------------------------------------
\* Bodies of functions.

\* map_memory_range: page by page, marked in the allocator under the virtual page.
MapRange(pcb, pages, offset) ==
  [k \in 1 .. Cardinality(pages) |->
     LET v == CHOOSE v \in pages : Cardinality({w \in pages : w < v}) = k - 1
     IN  [op |-> "map", pcb |-> pcb, v |-> v, p |-> v + offset, set |-> TRUE]]
Unset(range) == [k \in DOMAIN range |-> [range[k] EXCEPT !.set = FALSE]]
UnmapRange(pages) ==
  [k \in 1 .. Cardinality(pages) |-> [op |-> "unmap", v |-> MapRange(NULL, pages, 0)[k].v]]
MapOwnPml4(by, id) == MapRange(by, {pcbs[id].pml4}, 0)
MapWindow(by, mem_addr) == MapRange(by, Window, mem_addr - WindowStart)

Do(op) == <<[op |-> op]>>
DoFor(op, id) == <<[op |-> op, id |-> id]>>
Mark(frames, pid) == <<[op |-> "mark", frames |-> frames, pid |-> pid]>>
Clear(frame) == <<[op |-> "clear", frame |-> frame]>>
SetRec(pml4, to) == <<[op |-> "rec", pml4 |-> pml4, to |-> to]>>
SetCr3(pml4) == <<[op |-> "cr3", to |-> pml4]>>

switch_context ==
  Do("cli") \o Mark(FirstPages, 1)
  \o MapRange(kpcb, LowPages, 0) \o MapRange(kpcb, KernelPages, 0) \o MapRange(kpcb, PML4Pages, 0)
  \o Do("cli") \o SetCr3(PML4_KERNEL) \o Do("sti")

init_kernel_paging ==
  Do("cli") \o Mark(FirstPages, 1) \o Do("sti")
  \o Do("cli") \o Mark({PML4_BOOT, BootMark}, 1) \o Clear(PML4_KERNEL)
  \o SetRec(PML4_BOOT, PML4_KERNEL) \o SetRec(PML4_KERNEL, PML4_KERNEL)
  \o switch_context
  \o Do("cli") \o Mark({PML4_BOOT, BootMark}, 0)

init_kernel_process ==
  init_kernel_paging \o MapRange(kpcb, HeapPages, 0)
  \o MapRange(kpcb, BootPages, - (CHOOSE b \in BootPages : \A c \in BootPages : b <= c))

kmain ==
  Do("cli") \o Do("pic") \o Do("sti") \o init_kernel_process
  \o Do("ready") \o Do("sti") \o MapRange(kpcb, HardwarePages, 0)
  \o Do("alloc_proc") \o DoFor("exec", 2)

\* alloc_proc after the PCB is filled in.  The process's tables are reached by making the
\* kernel's recursive entry lead to them for a while.
AllocProcTables(id, pml4, mem_addr) ==
  MapRange(kpcb, {pml4}, 0) \o MapWindow(kpcb, mem_addr)
  \o SetRec(pml4, pml4) \o SetRec(PML4_KERNEL, pml4)
  \o MapRange(id, {pml4}, 0) \o MapWindow(id, mem_addr)
  \o MapRange(id, KernelPages, 0)
  \o MapRange(id, BootPages, - (CHOOSE b \in BootPages : \A c \in BootPages : b <= c))
  \o MapRange(id, ProcHeapPages, 0)
  \o SetRec(PML4_KERNEL, PML4_KERNEL) \o UnmapRange(Window)
  \o DoFor("list", id) \o Do("ready") \o Do("sti")

load_proc_mem(id) ==
  MapOwnPml4(kpcb, id) \o MapWindow(kpcb, pcbs[id].real_mem_addr) \o UnmapRange(Window)

\* run_proc that leaves the window of the kernel's tables as it is.
run_procNoWindow(id) == DoFor("current", id) \o SetCr3(pcbs[id].pml4) \o DoFor("jump_usermode", id)

run_proc(id) ==
  DoFor("current", id) \o Unset(MapWindow(kpcb, pcbs[id].real_mem_addr))
  \o SetCr3(pcbs[id].pml4) \o DoFor("jump_usermode", id)

\* exec after alloc_proc: the kernel runs the program, a process hands it its registers.
ExecTail(id) ==
  load_proc_mem(id)
  \o IF current_pcb = NULL THEN DoFor("first", id) \o run_proc(id)
     ELSE DoFor("copy_regs", id) \o DoFor("current", id)
          \o MapOwnPml4(kpcb, id) \o MapWindow(kpcb, pcbs[id].real_mem_addr)

Sysret(call) == <<[op |-> "sysret", call |-> call]>>
pit_sleepNoSti == Do("wait_ticks")

pit_sleep == Do("sti") \o Do("wait_ticks")
getchar == Do("sti") \o Do("wait_key") \o Do("cli")

\* The entries of SYSCALL_TABLE; "other" stands for those that do not touch this state.
CallBody(call) ==
  CASE call = "other"   -> <<>>
    [] call = "getchar" -> getchar
    [] call = "sleep"   -> pit_sleep
    [] call = "exec"    -> Do("alloc_proc") \o DoFor("exec", Len(pcbs) + 1)
    [] call = "exit"    -> Do("exit")

------------------------------------------------------------------------------
\* The boot loader enters kmain with its own tables and interrupts off.
Init ==
  /\ mem = RAM
  /\ bitmap = [f \in Frame |-> 0] /\ cr3 = PML4_BOOT
  /\ IF_ = FALSE /\ interrupts_ready = FALSE /\ pic = FALSE
  /\ todo = kmain /\ mode = "kernel"
  /\ pcbs = <<[pid |-> KERNEL_PID, ppid |-> KERNEL_PID, state |-> "READY", pml4 |-> PML4_KERNEL,
               real_mem_addr |-> 0, ctx |-> 0]>>
  /\ pcb_list = <<>> /\ current_pcb = NULL
  /\ process_pid_bitmap = {} /\ process_mem_bitmap = {}
  /\ since = 0 /\ skipped = FALSE /\ due = 0 /\ key = FALSE
  /\ regs = 0 /\ at = 0

\* The kernel is at an instruction op and goes on to the next.
At(op) == mode = "kernel" /\ todo # <<>> /\ Head(todo).op = op
Go(op) == At(op) /\ todo' = Tail(todo) /\ UNCHANGED mode
this == Head(todo)

Cli == Go("cli") /\ IF_' = FALSE /\ UNCHANGED <<paging, interrupts_ready, pic, table, clock, regs, at>>

Sti ==
  /\ Go("sti")
  /\ IF_' = (IF_ \/ interrupts_ready)
  /\ UNCHANGED <<paging, interrupts_ready, pic, table, clock, regs, at>>

Ready ==
  /\ Go("ready")
  /\ interrupts_ready' = TRUE
  /\ UNCHANGED <<paging, IF_, pic, table, clock, regs, at>>

pic_init == Go("pic") /\ pic' = TRUE /\ UNCHANGED <<paging, IF_, interrupts_ready, table, clock, regs, at>>

MarkFrames ==
  /\ Go("mark")
  /\ bitmap' = [f \in Frame |-> IF f \in this.frames THEN this.pid ELSE bitmap[f]]
  /\ UNCHANGED <<mem, cr3, intr, table, clock, regs, at>>

\* memset of a whole frame.
MemsetPointer ==            \* the size of the pointer for that of the table: its first entry
  /\ Go("clear")
  /\ mem' = [mem EXCEPT ![this.frame] = [i \in DOMAIN @ \ {0} |-> @[i]]]
  /\ UNCHANGED <<bitmap, cr3, intr, table, clock, regs, at>>
Memset ==
  /\ Go("clear")
  /\ mem' = ClearTable(mem, this.frame)
  /\ UNCHANGED <<bitmap, cr3, intr, table, clock, regs, at>>

\* init_recursive_paging, and alloc_proc's detour of the kernel's recursive entry.
SetRecursiveEntry ==
  /\ Go("rec")
  /\ mem' = SetEntry(mem, this.pml4, REC, this.to)
  /\ UNCHANGED <<bitmap, cr3, intr, table, clock, regs, at>>

set_pml4_address == Go("cr3") /\ cr3' = this.to /\ UNCHANGED <<mem, bitmap, intr, table, clock, regs, at>>

\* map_page, with the mark of map_memory_range_with_flags.  Without a frame for a table it
\* returns with interrupts off and interrupts_ready FALSE.
MapPage ==
  /\ Go("map")
  /\ LET pid == pcbs[this.pcb].pid
     IN  \E s \in map_page(mem, bitmap, Root, this.v, this.p, pid) :
         /\ mem' = s.mem
         /\ bitmap' = IF this.set THEN [s.bitmap EXCEPT ![this.v] = pid] ELSE s.bitmap
         /\ interrupts_ready' = s.ok
         /\ IF_' = s.ok
  /\ UNCHANGED <<cr3, pic, table, clock, regs, at>>

\* unmap_page; a page that is not mapped is an early return with interrupts left off.
UnmapPage ==
  /\ Go("unmap")
  /\ LET mapped == Walk(mem, Root, this.v) # NoFrame
     IN  /\ mem' = IF mapped THEN unmap_page(mem, Root, this.v) ELSE mem
         /\ interrupts_ready' = mapped
         /\ IF_' = mapped
  /\ UNCHANGED <<bitmap, cr3, pic, table, clock, regs, at>>

\* The first n not in used, as allocate_pid and allocate_proc_mem search.  BITMASK(n)
\* shifts an int: numbers IntBits apart share a bit.
FirstFree(used, from) ==
  LET free == {n \in 0 .. MAX_NUM_OF_PROCESS - 1 : n >= from /\ n % IntBits \notin used}
  IN  IF free = {} THEN -1 ELSE CHOOSE n \in free : \A k \in free : n <= k

\* alloc_proc up to the PML4, with interrupts off: PCB, pid, memory and PML4, a frame that
\* keeps what it holds: map_page will follow any entry that is present in it.
alloc_proc ==
  /\ At("alloc_proc") /\ UNCHANGED mode
  /\ LET id   == Len(pcbs) + 1
         i    == FirstFree(process_pid_bitmap, KERNEL_PID + 1)
         pid  == IF i = -1 THEN 0 ELSE i
         slot == FirstFree(process_mem_bitmap, 0)
         addr == IF slot = -1 THEN 0 ELSE Slot(slot)
         pml4 == allocate_page(bitmap)
     IN  /\ pcbs' = Append(pcbs, [pid |-> pid, ppid |-> 0, state |-> "WAITING", pml4 |-> pml4,
                                  real_mem_addr |-> addr, ctx |-> 0])
         /\ process_pid_bitmap' = process_pid_bitmap \cup (IF i = -1 THEN {} ELSE {i % IntBits})
         /\ process_mem_bitmap' = process_mem_bitmap \cup (IF slot = -1 THEN {} ELSE {slot % IntBits})
         /\ bitmap' = Marked(bitmap, pml4, pid)
         /\ todo' = AllocProcTables(id, pml4, addr) \o Tail(todo)
  /\ IF_' = FALSE /\ interrupts_ready' = FALSE
  /\ UNCHANGED <<mem, cr3, pic, pcb_list, current_pcb, clock, regs, at>>

append_node ==
  /\ Go("list")
  /\ pcb_list' = <<this.id>> \o pcb_list
  /\ UNCHANGED <<paging, intr, pcbs, current_pcb, process_pid_bitmap, process_mem_bitmap, clock, regs, at>>

\* exec from where alloc_proc has returned.
exec ==
  /\ At("exec") /\ UNCHANGED mode
  /\ todo' = ExecTail(this.id) \o Tail(todo)
  /\ UNCHANGED <<paging, intr, table, clock, regs, at>>

\* exec by the kernel: the kernel is the parent, and the process is READY.
ExecFirst ==
  /\ Go("first")
  /\ pcbs' = [pcbs EXCEPT ![this.id].ppid = pcbs[kpcb].pid, ![this.id].state = "READY"]
  /\ IF_' = FALSE
  /\ UNCHANGED <<paging, interrupts_ready, pic, pcb_list, current_pcb, process_pid_bitmap,
                 process_mem_bitmap, clock, regs, at>>

SetCurrent ==
  /\ Go("current")
  /\ current_pcb' = this.id
  /\ UNCHANGED <<paging, intr, pcbs, pcb_list, process_pid_bitmap, process_mem_bitmap, clock, regs, at>>

\* exec by a process: the caller is the parent, and the new context is copied into its
\* registers, which are on its stack: through the kernel's tables, with a page fault where
\* these do not map it.
CopyRegs ==
  /\ At("copy_regs")
  /\ pcbs' = [pcbs EXCEPT ![this.id].ppid = pcbs[current_pcb].pid]
  /\ IF Walk(mem, cr3, WindowStart) = NoFrame
     THEN mode' = "fault" /\ IF_' = FALSE /\ UNCHANGED <<todo, regs>>
     ELSE regs' = pcbs[this.id].ctx /\ todo' = Tail(todo) /\ UNCHANGED <<mode, IF_>>
  /\ UNCHANGED <<paging, interrupts_ready, pic, pcb_list, current_pcb, process_pid_bitmap,
                 process_mem_bitmap, clock, at>>

\* jump_usermode: the context of the PCB, with interrupts on.
jump_usermode ==
  /\ At("jump_usermode")
  /\ mode' = "user" /\ todo' = <<>>
  /\ regs' = pcbs[this.id].ctx
  /\ IF_' = TRUE
  /\ UNCHANGED <<paging, interrupts_ready, pic, table, clock, at>>

\* pit_sleep's and wait_key's loops end.
WaitTicks == Go("wait_ticks") /\ due = 0 /\ UNCHANGED <<paging, intr, table, clock, regs, at>>
wait_key == Go("wait_key") /\ key /\ key' = FALSE /\ UNCHANGED <<paging, intr, table, since, skipped, due, regs, at>>

\* The end of syscall_entry: sysret puts 0x002 into the flags, so interrupts are off.
sysret ==
  /\ At("sysret")
  /\ mode' = "user" /\ todo' = <<>>
  /\ IF_' = FALSE
  /\ UNCHANGED <<paging, interrupts_ready, pic, table, clock, regs, at>>

find_pcb_by_pid(pid) ==
  IF \E k \in DOMAIN pcb_list : pcbs[pcb_list[k]].pid = pid
  THEN LET k == CHOOSE k \in DOMAIN pcb_list :
                  /\ pcbs[pcb_list[k]].pid = pid
                  /\ \A j \in 1 .. k - 1 : pcbs[pcb_list[j]].pid # pid
       IN  pcb_list[k]
  ELSE NULL

\* deallocate_proc_mem: PROC_ALLOC_START and PROC_MEM_SIZE are sums and products without
\* parentheses, so the division is by PAGE_SIZE alone and its result, a multiple of 0x1000
\* again, is a multiple of IntBits: always bit 0.
deallocate_proc_mem(used) == used \ {0}

\* exit: unmap the process, free the PCB, which stays on pcb_list, and run the parent.
exit ==
  /\ At("exit") /\ UNCHANGED mode
  /\ process_mem_bitmap' = deallocate_proc_mem(process_mem_bitmap)
  /\ todo' = UnmapRange(Window) \o <<[op |-> "unmap", v |-> pcbs[current_pcb].pml4]>>
             \o DoFor("run_proc", find_pcb_by_pid(pcbs[current_pcb].ppid))
  /\ UNCHANGED <<paging, intr, pcbs, pcb_list, current_pcb, process_pid_bitmap, clock, regs, at>>

\* run_proc, for exit and for run_next_proc.  run_proc(NULL) takes PML4 and memory from page 0: the machine is lost.
RunProc ==
  /\ At("run_proc")
  /\ IF this.id = NULL THEN mode' = "lost" /\ UNCHANGED todo
     ELSE todo' = run_proc(this.id) /\ UNCHANGED mode
  /\ UNCHANGED <<paging, intr, table, clock, regs, at>>

------------------------------------------------------------------------------
\* The program in user mode.
UserStep ==
  /\ mode = "user"
  /\ regs' = (regs + 1) % Contexts
  /\ at' = (at + 1) % Contexts
  /\ UNCHANGED <<paging, intr, todo, mode, table, clock>>

SaveContextLost == pcbs

\* to_cpu_state_from_syscall: the interrupted registers go into the PCB.
SaveContext == [pcbs EXCEPT ![current_pcb].ctx = regs]

\* syscall_entry and syscall_handler.  A number that is not in the table returns at once, on
\* the kernel's tables.  exit does not come back.
syscall_handler(call) ==
  /\ mode = "user"
  /\ mode' = "kernel"
  /\ cr3' = PML4_KERNEL
  /\ due' = SleepTicks
  /\ IF call = "bad"
     THEN todo' = Sysret(call) /\ UNCHANGED pcbs
     ELSE /\ pcbs' = SaveContext
          /\ todo' = CallBody(call) \o SetCr3(cr3) \o Sysret(call)
  /\ UNCHANGED <<mem, bitmap, intr, pcb_list, current_pcb, process_pid_bitmap, process_mem_bitmap,
                 since, skipped, key, regs, at>>

\* isr_handler for exceptions 0 to 31: an endless loop with interrupts off.
Exception ==
  /\ mode = "user"
  /\ mode' = "fault" /\ cr3' = PML4_KERNEL /\ IF_' = FALSE
  /\ UNCHANGED <<mem, bitmap, interrupts_ready, pic, todo, table, clock, regs, at>>

------------------------------------------------------------------------------
\* Interrupts.  isr_handler works on the kernel's tables and puts cr3 and, by iretq, IF back.
Interruptible == IF_ /\ pic /\ mode \in {"kernel", "user"}

KeyboardIRQ == Interruptible /\ key' = TRUE /\ UNCHANGED <<paging, intr, todo, mode, table, since, skipped, due, regs, at>>

pit_handler ==
  /\ since' = (IF since < PROCESS_RUN_TIME THEN since + 1 ELSE since)
  /\ due' = (IF due > 0 THEN due - 1 ELSE 0)

\* The process after the current one on pcb_list, the first again after the last.
NextProcess ==
  LET k == CHOOSE k \in DOMAIN pcb_list : pcb_list[k] = current_pcb
  IN  IF k < Len(pcb_list) THEN pcb_list[k + 1] ELSE pcb_list[1]

\* handle_sched_on_pit_tick leaves it alone: the kernel was interrupted, or it is not time.
TickOnly ==
  /\ Interruptible
  /\ mode = "user" => since + 1 < PROCESS_RUN_TIME /\ ~ skipped
  /\ pit_handler
  /\ UNCHANGED <<paging, intr, todo, mode, table, skipped, key, regs, at>>

\* It is time: the context is saved and the interrupt returns to run_next_proc, if the next
\* process can run.
TickSwitch ==
  /\ Interruptible
  /\ mode = "user" /\ (since + 1 >= PROCESS_RUN_TIME \/ skipped)
  /\ since' = 0 /\ due' = (IF due > 0 THEN due - 1 ELSE 0)
  /\ pcbs' = SaveContext
  /\ IF pcbs[NextProcess].pid \notin {0, KERNEL_PID} /\ pcbs[NextProcess].state = "READY"
     THEN /\ mode' = "kernel" /\ todo' = DoFor("run_proc", NextProcess)
          /\ cr3' = PML4_KERNEL /\ IF_' = FALSE /\ skipped' = FALSE
     ELSE skipped' = TRUE /\ UNCHANGED <<mode, todo, cr3, IF_>>
  /\ UNCHANGED <<mem, bitmap, interrupts_ready, pic, pcb_list, current_pcb, process_pid_bitmap,
                 process_mem_bitmap, key, regs, at>>

Kernel ==
  \/ Cli \/ Sti \/ Ready \/ pic_init \/ MarkFrames \/ Memset \/ SetRecursiveEntry \/ set_pml4_address
  \/ MapPage \/ UnmapPage \/ alloc_proc \/ append_node \/ exec \/ ExecFirst \/ SetCurrent
  \/ CopyRegs \/ jump_usermode \/ WaitTicks \/ wait_key \/ sysret \/ exit \/ RunProc
User == UserStep \/ Exception \/ \E call \in Calls : syscall_handler(call)
Tick == TickOnly \/ TickSwitch
Next == Kernel \/ User \/ Tick \/ KeyboardIRQ

Spec == Init /\ [][Next]_vars

\* The kernel runs when it can and the timer ticks when it is listened to.  Nobody has to
\* press a key.
FairSpec == Spec /\ WF_vars(Kernel) /\ WF_vars(Tick)

------------------------------------------------------------------------------
TypeOK ==
  /\ DOMAIN mem = Frame /\ cr3 \in Frame
  /\ \A f \in Frame : DOMAIN mem[f] \subseteq Index /\ \A i \in DOMAIN mem[f] : mem[f][i] \in Frame
  /\ bitmap \in [Frame -> 0 .. MAX_NUM_OF_PROCESS - 1]
  /\ mode \in {"kernel", "user", "fault", "lost"} /\ {IF_, interrupts_ready, pic, key, skipped} \subseteq BOOLEAN
  /\ current_pcb \in 0 .. Len(pcbs) /\ \A k \in DOMAIN pcb_list : pcb_list[k] \in DOMAIN pcbs
  /\ since \in 0 .. PROCESS_RUN_TIME /\ due \in 0 .. SleepTicks /\ {regs, at} \subseteq 0 .. Contexts - 1

PML4s == {pcbs[id].pml4 : id \in DOMAIN pcbs}
Tables1 == TablesBelow(mem, PML4s, {REC})
Tables2 == TablesBelow(mem, Tables1, {})
Tables3 == TablesBelow(mem, Tables2, {})
SlotPages == UNION {Slot(k) .. Slot(k) + PROC_MEM_PAGES - 1 : k \in 0 .. Len(pcbs) - 2}

\* From the moment the kernel's PML4 is cleared (page.c:33):
\* below the PML4s of the kernel and the processes every table has a frame of its own, no
\* frame is a table twice, and none is memory of the kernel image, the heap, the drivers or
\* a process.  allocate_page goes by the marks, and map_memory_range marks the virtual
\* page instead of the frame (pframe.c:35): the memory of a process is not marked at all.
\* The PML4 of a process is not cleared (process.c:107): it is taken from untouched frames,
\* because the first tables of heap and drivers use up the boot loader's PML4.  And map_page makes
\* sure that PDPT, PD and PT exist, "allocate and zero if necessary" (page.c:163), but takes any
\* entry that is present for one it has made: still every table is a frame that allocate_page
\* has given out and nobody has given back.
Cleared == \A k \in DOMAIN todo : todo[k].op # "clear"
Exclusive ==
  /\ Cardinality(PML4s) = Len(pcbs)
  /\ Cardinality(EntriesOf(mem, PML4s, {REC})) = Cardinality(Tables1)
  /\ Cardinality(EntriesOf(mem, Tables1, {})) = Cardinality(Tables2)
  /\ Cardinality(EntriesOf(mem, Tables2, {})) = Cardinality(Tables3)
  /\ PML4s \cap (Tables1 \cup Tables2 \cup Tables3) = {}
  /\ Tables1 \cap (Tables2 \cup Tables3) = {} /\ Tables2 \cap Tables3 = {}
  /\ (PML4s \cup Tables1 \cup Tables2 \cup Tables3)
       \cap (KernelPages \cup HeapPages \cup HardwarePages \cup SlotPages) = {}
TablesAllocated == \A f \in Tables1 \cup Tables2 \cup Tables3 : bitmap[f] # 0
FramesExclusive == Cleared => Exclusive /\ TablesAllocated

\* In user mode the window shows the process its own memory, whatever tables cr3 is left
\* with: its own after run_proc, an interrupt and most calls, but the kernel's after a call
\* with a bad number (syscall.c:75), where it still works because run_proc and exec leave
\* the window mapped in the kernel's tables too.
UserSeesOwnMemory ==
  mode = "user" =>
    \A v \in Window : Walk(mem, cr3, v) = pcbs[current_pcb].real_mem_addr + v - WindowStart

\* A program is in the context it left: ticks, switches by way of run_next_proc (sched.c:47)
\* and calls lose no step of it and repeat none.
ContextPreserved == mode = "user" => regs = at

\* The kernel comes back to user mode from boot, from every tick that switches and from
\* every call but exec and exit, or waits for a key that it would hear.  sleep and getchar wait for interrupts although sysret has
\* turned them off in user mode (syscall_s.s:40): sti has to find interrupts_ready on, as the
\* last map_page or unmap_page has left it (page.c:208, page.c:226).
Endless ==
  LET last == todo[Len(todo)]
  IN  \/ last.op = "sysret" /\ last.call \in {"exec", "exit"}
      \/ last.op = "run_proc" /\ last.id = NULL
AwaitsKey == At("wait_key") /\ Interruptible
KernelReturns == (mode = "kernel" /\ todo # <<>> /\ ~ Endless) ~> (mode = "user" \/ AwaitsKey)

\* kernel.c:52: the PIC should be initialized last, "to avoid race conditions": no
\* interrupt is taken before the kernel process has its tables and its heap.
Booting == todo # <<>> /\ todo[Len(todo)].op = "exec" /\ \E k \in DOMAIN todo : todo[k].op = "ready"
BootUninterrupted == Booting => ~ Interruptible
==============================================================================
