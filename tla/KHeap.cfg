\* Two cache sizes, blocks of one and two pages, three free pages.
SPECIFICATION HeapSpec
CONSTANTS
  PageSize = 8
  WordBytes = 1
  MaxMemoryRegions = 5
  MaxCount = 2
  MaxAddress = 64
  MemoryMaps <- MCMemoryMaps
  SlabSizes <- MCSlabSizes
  SlabHeader = 2
  Sizes = {0, 1, 3, 5, 7, 9}
INVARIANTS
  BlocksDisjoint
  ObjectsAccountedFor
PROPERTIES
  KMallocFailsOnlyWhenFull
