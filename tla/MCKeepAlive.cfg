SPECIFICATION Spec
CONSTANTS
  KeepAlivePolls = 8
  AckTimeout = 10
  Buffer = 6
  MaxDelay = 15
INVARIANTS
  TypeOK
  
  NeverGivesUpOnLiving
  HalfOpenClosedGivenRoom
CHECK_DEADLOCK FALSE
