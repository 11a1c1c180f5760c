SPECIFICATION TracingSpec
CONSTANTS
  NumRegisterFrames = 2
  InterruptStack = 64
  SupervisorStack = 513
  Procedures = {0}
  BootIPs = {0}
  Values = {0}
  FrameSizes = {}
  ReturnTypes = {}
  Links = {}
  SRAMPacks = {}
  CodeLimit = 8
  FrameAddresses = {128, 192, 513, 576, 640}
  SavedControls <- MCSavedControls
  Junk <- MCJunk
PROPERTIES
  FramePointerBitsIgnored
CHECK_DEADLOCK FALSE
