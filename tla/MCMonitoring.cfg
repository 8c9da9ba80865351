SPECIFICATION MonFairSpec
CONSTANTS
  c1 = c1
  i1 = i1
  i2 = i2
  Conns <- MCOneConn
  Ips <- MCIps
  IpOf <- MCOneIpOf
  Names = {n1}
  MsgIds = {1}
  MaxPublishes = 3
  MaxAttempts = 2
  MaxPolls = 2
  MaxResets = 1
  Limit = 2
INVARIANTS
  MonTypeOK
  CountersSinceReset
  TotalsCoverTimes
PROPERTIES
  FlushedUnlessDead
  HandlerReturns
CHECK_DEADLOCK FALSE
