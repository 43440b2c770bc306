\* Any client: pipelining and hang-ups, over a buffer that fills up.
CONSTANTS
  c1 = c1  c2 = c2  w1 = w1  w2 = w2
  NoConn = NoConn  Idle = Idle
  Conns <- MCConns  Workers <- MCWorkers
  Fds = {1, 2}
  QueriesPerConn = 2  MaxOutstanding = 2
  QueryUnits = 1  HeaderUnits = 1  BodyUnits = 2  SendCap = 2
  MaxEvents = 2
  MayHangUp = TRUE
SPECIFICATION Spec
INVARIANTS
  TypeOK NoStaleEvents WriteBufferFound RemainderIsOwn NoLostReadEdge AtMostOnce
SYMMETRY Symmetry
CHECK_DEADLOCK FALSE
