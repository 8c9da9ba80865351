SPECIFICATION Spec
CONSTANTS
  c1 = c1
  c2 = c2
  c3 = c3
  i1 = i1
  i2 = i2
  Conns <- MCConns
  Ips <- MCIps
  IpOf <- MCIpOf
  Names = {n1, n2}
  MsgIds = {1}
  MaxPublishes = 4
  MaxAttempts = 2
INVARIANT MinimumExists
CHECK_DEADLOCK FALSE
