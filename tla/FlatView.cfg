SPECIFICATION DisciplinedSpec
CONSTANTS
  Bytes = {0, 1, 2}
  SpaceSize = 96
  WindowSize = 8
  RegionSize = 16
  InternalBase = 32
  BootBase = 48
  SRAMBase = 64
  PeripheralBase = 80
  ConfigBase = 92
  PageSize = 2
  SRAMBytes = 4
  Skew = 2
  BootImage <- MCBootImage
  FreshMemory <- MCFreshMemory
  FreshEEPROM <- MCFreshEEPROM
  Accesses <- MemoryAccesses
INVARIANTS
  TypeOK
PROPERTIES
  ImplementsFlatMemory
  AccessesComplete
CHECK_DEADLOCK FALSE
