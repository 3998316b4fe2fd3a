\* Three module files, a disk of two blocks of two bytes, one file object.
SPECIFICATION Spec
CONSTANTS
  Blk = 2
  TotalBlocks = 2
  Byte = {0, 1}
  Lens = {1, 2}
  Offsets <- MCOffsets
  MaxPos = 5
  MaxDevices = 5
  Names = {"null", "zero", "sda", "sda1", "tty0", "tty1"}
  Removable = {"sda1"}
  Files = {f1}
  NoFile = NoFile
  NoCall = NoCall
  Mods <- MCMods
  Seq0 <- MCSeq0
  Sections <- MCSections
  Registers <- MCRegisters
  HasInit = {"blk", "tty"}
  ArenaPages = 4
  NumFrames = 5
  MaxInstalls = 4
  NoFrame = NoFrame
  NoJob = NoJob
CHECK_DEADLOCK FALSE
INVARIANTS
  SectionsAreMapped
  RemovedCodeStaysUnmapped
  DevicesHaveDrivers
  NumberedFirst
PROPERTIES
  ImplementsStream
