SPECIFICATION FairSpec
CONSTANTS
  c1 = c1
  c2 = c2
  Clients <- MCClients
  Outgoing <- MCOutgoing
  QueueSize = 4
  MaxData = 2
  MaxPolls = 1
INVARIANTS
  TypeOK
  DataInOrder
  NoStrays
  WindowAccounted
  OneStaleCall
  ReadyAgain
PROPERTIES
  ToldInTheEnd
CHECK_DEADLOCK FALSE
