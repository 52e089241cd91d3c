SPECIFICATION MemorySpec
CONSTANTS
  HeapSize = 160
  Word = 65536
  UserSizes = {1, 12, 300}
  KernelSizes = {40}
  MAX_ORDER = 7
INVARIANTS MemoryTypeOK Tiles ChunksHaveBlocks FreeBlocksMerged FreeListsExact StatusAddsUp
PROPERTIES ImplementsHeap CallReturns
