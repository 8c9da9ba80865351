SPECIFICATION FairSpec
CONSTANTS
  p1 = p1
  p2 = p2
  p3 = p3
  p4 = p4
  Pcbs <- MCPcbs
  MaxLosses = 1
  MaxFails = 2
INVARIANTS
  TypeOK
  ConnectedAlone
  NoLostReconnect
PROPERTY ConnectedInTheEnd
CHECK_DEADLOCK FALSE
