CONSTANTS
  Requests = {32, 33}
  HeapBase = 64
  HeapSize = 4096
  MaxEnd = 512
SPECIFICATION FairSpec
INVARIANTS TypeOK ChunksDisjoint LiveBlocksFit LinksConsistent ListsComplete
PROPERTIES NoDoubleAllocation UnknownFreeIgnored GrowsOnlyWhenNothingFits ImplementsAllocator CallsReturn
