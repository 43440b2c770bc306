\* Clients like client_main.cc: one query at a time, no hang-up; with the
\* fairness of the threads and the network.
CONSTANTS
  c1 = c1  c2 = c2  w1 = w1  w2 = w2
  NoConn = NoConn  Idle = Idle
  Conns <- MCConns  Workers <- MCWorkers
  Fds = {1, 2}
  QueriesPerConn = 2  MaxOutstanding = 1
  QueryUnits = 1  HeaderUnits = 1  BodyUnits = 3  SendCap = 2
  MaxEvents = 3
  MayHangUp = FALSE
SPECIFICATION FairSpec
INVARIANTS
  NoLostWriteEdge NoMisdelivery FramesIntact
PROPERTIES
  KeepsHealthyConnections ImplementsService
