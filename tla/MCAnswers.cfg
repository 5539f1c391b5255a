SPECIFICATION FairSpec
CONSTANTS
  c1 = c1
  c2 = c2
  w1 = w1
  w2 = w2
  nobody = nobody
  Nobody = nobody
  Connections <- TwoConnections
  Workers <- TwoWorkers
  MaxConnections = 2
  MaxQueue = 1
  MaxRequests = 1
PROPERTY EveryItemAnswered
CHECK_DEADLOCK FALSE
