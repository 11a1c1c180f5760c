CONSTANTS
  Width = 5
  MessageType <- MCTypes
  InterruptControl = 21
  IACAddress = 24
  BuiltinRecord = 28
  BootRecord = 0
  Instructions <- MCInstructions
  FreshMemory <- MCFreshMemory
  Steps = 3
SPECIFICATION Spec
PROPERTIES
  AtomicAtAddress
CHECK_DEADLOCK FALSE
