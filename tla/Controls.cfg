SPECIFICATION TidySpec
CONSTANTS
  NumRegisterFrames = 2
  InterruptStack = 64
  SupervisorStack = 512
  Procedures = {0}
  BootIPs = {0}
  Values = {0}
  FrameSizes = {132}
  ReturnTypes = {0, 1}
  Links = {}
  SRAMPacks = {}
  CodeLimit = 8
  FrameAddresses = {128, 256, 512, 576}
  SavedControls <- MCSavedControls
  Junk <- MCJunk
INVARIANTS
  ReturnTypesFollowModes
  StacksInOrder
PROPERTIES
  TidyIsDisciplined
  ReturnRestoresCaller
  ReturnRestoresControls
CHECK_DEADLOCK FALSE
