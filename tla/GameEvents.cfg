CONSTANTS
  Wirings <- BothWirings
  Threads = {1, 2}
  Main = 2
  KindOf <- TwoThreads
  Clients = {1, 2}
  MaxTogether = 2
  MaxQueue = 2
  Jobs = {1, 2}
  MaxConnects = 2
  MaxFailures = 1
SPECIFICATION MCSpec
INVARIANT TypeOK
INVARIANT EachEventOnce
INVARIANT SameOrder
PROPERTY InOrderWithoutGaps
PROPERTY TcpArrives
PROPERTY RestArrives
CHECK_DEADLOCK FALSE
