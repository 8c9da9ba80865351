SPECIFICATION Spec
CONSTANTS
  c1 = c1
  c2 = c2
  Clients <- MCClients
  Outgoing <- MCOutgoing
  QueueSize = 4
  MaxData = 2
  MaxPolls = 1
INVARIANTS
  OrderKept
CHECK_DEADLOCK FALSE
