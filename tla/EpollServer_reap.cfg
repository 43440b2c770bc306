\* Clients that hang up, queries in pieces, and fewer descriptors than connections.
CONSTANTS
  c1 = c1  c2 = c2  w1 = w1  w2 = w2
  NoConn = NoConn  Idle = Idle
  Conns <- MCConns  Workers <- MCWorkers
  Fds = {1}
  QueriesPerConn = 1  MaxOutstanding = 1
  QueryUnits = 2  HeaderUnits = 1  BodyUnits = 2  SendCap = 2
  MaxEvents = 1
  MayHangUp = TRUE
SPECIFICATION FairSpec
PROPERTIES
  ReapsDeadConnections
CHECK_DEADLOCK FALSE
