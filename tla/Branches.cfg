CONSTANTS
  Space = 16
  Registers = {"g0", "g14"}
  LinkRegister = "g14"
  Instructions <- MCInstructions
  Loaded = {0, 12}
  WordBits = 4
  TraceEnable = TRUE
  BreakpointTraceMode = FALSE
SPECIFICATION Spec
INVARIANTS
  CodeKeepsRelation
PROPERTIES
  LinkIsNextInstruction
  RelativeToLink
  DecisionsFollowRelation
CHECK_DEADLOCK FALSE
