SPECIFICATION DisciplinedSpec
CONSTANTS
  NumRegisterFrames = 2
  InterruptStack = 64
  SupervisorStack = 512
  Procedures = {0}
  BootIPs = {0}
  Values = {0}
  FrameSizes = {}
  ReturnTypes = {}
  Links = {}
  SRAMPacks = {}
  CodeLimit = 8
  FrameAddresses = {128, 192, 512}
  SavedControls <- MCSavedControls
  Junk <- MCJunk
PROPERTIES
  CallPopulatesReturnType
CHECK_DEADLOCK FALSE
