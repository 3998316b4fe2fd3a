\* Small memories: at most 17 two-byte pages, requests of up to 3 pages.
SPECIFICATION Spec
CONSTANTS
  PageSize = 2
  WordBytes = 1
  MaxMemoryRegions = 5
  MaxCount = 3
  MaxAddress = 64
  MemoryMaps <- MCMemoryMaps
INVARIANTS
  StatsMatchBitmap
  EveryUsedPageAccountedFor
PROPERTIES
  FailsOnlyWhenNoRun
\* A boot that finds no room for the bitmap stops.
CHECK_DEADLOCK FALSE
