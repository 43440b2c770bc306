\* Two pushers, two workers in pop() and a poller in try_pop().
CONSTANTS
  p1 = p1  p2 = p2  w1 = w1  w2 = w2  loop = loop  NoThread = NoThread
  Pushers <- TwoPushers  Poppers <- TwoWorkers  Pollers <- OneLoop
  PushesPerThread = 2
SPECIFICATION FairSpec
INVARIANTS
  TypeOK NoLostWakeup
PROPERTIES
  ImplementsFifo
