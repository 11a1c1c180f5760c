SPECIFICATION Spec
INVARIANTS
  TablesFollowTheList
  OperandsExist
  OnlyRegisterSourcesFault
CHECK_DEADLOCK FALSE
