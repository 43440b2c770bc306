\* One descriptor for two clients that may hang up.
CONSTANTS
  c1 = c1  c2 = c2  w1 = w1  w2 = w2
  NoConn = NoConn  Idle = Idle
  Conns <- MCConns  Workers <- MCWorkers
  Fds = {1}
  QueriesPerConn = 1  MaxOutstanding = 1
  QueryUnits = 1  HeaderUnits = 1  BodyUnits = 3  SendCap = 2
  MaxEvents = 3
  MayHangUp = TRUE
SPECIFICATION Spec
INVARIANTS
  NoMisdelivery
SYMMETRY Symmetry
CHECK_DEADLOCK FALSE
