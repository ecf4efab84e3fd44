CONSTANTS
  Config <- Machine
  LastSlot = 2
  Ports <- AllPorts
  ProbeOrder <- Probed
  Kind <- Drives
  SECTOR_SIZE = 2
  PRDT_SECTORS = 2
  cmdslots = 2
  DiskSectors = 4
  Base = 2
  MemSize = 14
  Requests <- Asked
  MaxCalls = 2
  MaxTimeouts = 2
  MaxErrors = 2
SPECIFICATION Spec
INVARIANTS DisksFound ReadExact WriteExact Recoverable
PROPERTIES SlotNotReused CallReturns
