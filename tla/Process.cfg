CONSTANTS
  NumPages = 42
  Radix = 8
  LowPages <- Low
  KernelPages <- Image
  BootPages <- Boot
  HeapPages <- Heap
  ProcHeapPages <- ProcHeap
  HardwarePages <- Hardware
  PML4_BOOT = 1
  RAM <- Memory
  PML4_KERNEL = 12
  BootMark = 2
  PML4Pages <- Pml4
  PROC_ALLOC_START = 34
  PROC_MEM_PAGES = 2
  WindowStart = 37
  IntBits = 32
  MAX_NUM_OF_PROCESS = 256
  PROCESS_RUN_TIME = 3
  SleepTicks = 2
  Contexts = 3
SPECIFICATION FairSpec
INVARIANTS TypeOK FramesExclusive UserSeesOwnMemory ContextPreserved
PROPERTIES KernelReturns
CHECK_DEADLOCK FALSE
