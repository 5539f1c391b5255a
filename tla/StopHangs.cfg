SPECIFICATION FairSpec
CONSTANTS
  c1 = c1
  c2 = c2
  w1 = w1
  w2 = w2
  nobody = nobody
  Nobody = nobody
  Connections <- OneConnection
  Workers <- OneWorker
  MaxConnections = 1
  MaxQueue = 1
  MaxRequests = 1
PROPERTY StopCompletes
CHECK_DEADLOCK FALSE
