SPECIFICATION Spec
CONSTANTS
  Capacity = 2
  SendRoom = 3
  MaxBytes = 5
  MaxRead = 2
  MaxFails = 1
INVARIANTS
  TypeOK
  StreamKept
  ReadsKept
CHECK_DEADLOCK FALSE
