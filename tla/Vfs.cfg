\* Two CPUs, a second RAM file system to mount, one pseudo file system, room
\* for two nodes beyond the archive's.
SPECIFICATION VfsSpec
CONSTANTS
  Archive <- MCArchive
  Paths <- MCPaths
  Dests <- MCDests
  MaxChildren = 3
  MaxNodes = 6
  Cpus = {c0, c1}
  FsNames = {"ramfs"}
  PseudoSbs = {"dev"}
  RamSbs = {"ram1", "ram2"}
  FileIds = {"f1"}
  MaxFsTypes = 1
  MaxMounts = 2
  Mixes = {{"mount", "read"}, {"name", "file"}}
  MaxPaths = {4}
  MaxHeld = 2
  MaxOffset = 4
  NoVnode = NoVnode
  NoFile = NoFile
CHECK_DEADLOCK FALSE
SYMMETRY Symmetry
INVARIANTS
  MountedIsLive
  OffsetDrift
PROPERTIES
  NamesStayBound
