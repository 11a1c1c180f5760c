SPECIFICATION DisciplinedSpec
CONSTANTS
  NumRegisterFrames = 4
  InterruptStack = 64
  SupervisorStack = 512
  Procedures = {0}
  BootIPs = {0}
  Values = {0}
  FrameSizes = {}
  ReturnTypes = {5}
  Links = {}
  SRAMPacks <- MCStrayBytes
  CodeLimit = 8
  FrameAddresses = {128, 192, 256, 320, 384}
  SavedControls <- MCSavedControls
  Junk <- MCJunk
INVARIANTS
  CurrentPackIsCurrent
  PacksHoldLatestCallers
  EveryCallerIsHeld
  LinksFollowChain
PROPERTIES
  FlushSavesCallers
  ImplementsProcedureStack
CHECK_DEADLOCK FALSE
