SPECIFICATION DeviceSpec
CONSTANTS
  Bytes = {0, 1, 8, 9, 10, 11, 255}
  Incoming = {0, 8, 255}
  SpaceSize = 240
  WindowSize = 8
  RegionSize = 64
  InternalBase = 32
  BootBase = 48
  SRAMBase = 112
  PeripheralBase = 176
  ConfigBase = 236
  PageSize = 12
  SRAMBytes = 4
  Skew = 2
  BootImage <- MCBootImage
  FreshMemory <- MCFreshMemory
  FreshEEPROM <- MCFreshEEPROM
  Accesses <- MCAccesses
  CPUFrequency <- MCFrequency
  FirstRate <- MCFirstRate
  Buffer = 1
INVARIANTS
  PinsSelectBank
  ControlsHold
PROPERTIES
  RateTakenAtBegin
CHECK_DEADLOCK FALSE
