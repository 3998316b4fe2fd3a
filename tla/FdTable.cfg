\* A table of three descriptors, two File structures, one pipe of two bytes.
SPECIFICATION FdSpec
CONSTANTS
  Archive <- MCArchive
  Paths <- MCPaths
  Dests <- MCDests
  Chunks <- MCChunks
  MaxChildren = 3
  MaxNodes = 2
  Cpus = {c0, c1}
  FsNames = {"ramfs"}
  PseudoSbs = {}
  RamSbs = {"ram1"}
  FileIds = {"f1", "f2"}
  MaxFsTypes = 1
  MaxMounts = 2
  Mixes = {{}}
  MaxPaths = {4}
  MaxHeld = 1
  MaxOffset = 4
  NoVnode = NoVnode
  NoFile = NoFile
  FdCap = 3
  PipeIds = {"p1"}
  PipeCap = 2
  ReadLens = {1}
  MaxRefs = 2
  MaxOpens = 3
  NoEntry = NoEntry
  NoPipe = NoPipe
CHECK_DEADLOCK FALSE
SYMMETRY Symmetry
INVARIANTS
  CountIsOpen
  OwnObjectUnlessShared
PROPERTIES
  ImplementsPipe
