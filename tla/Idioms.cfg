CONSTANTS
  Width = 4
  Programs <- IdiomPrograms
SPECIFICATION Spec
INVARIANTS
  ComplementaryOperations
  BitsAgree
  FieldsMove
  ShiftsDivide
  LongDivision
  ModuloFollowsDivisor
  ComparesCombine
  CarryIsOverflow
  ControlsRestored
  OtherControlsStay
  BlocksMoveWhole
CHECK_DEADLOCK FALSE
