SPECIFICATION RouteLiveSpec
CONSTANTS
  Backends <- BackendIds
  Sessions = {s1, s2}
  Databases = {d1}
  DefaultDb = d1
  Protocol <- Mysql
  Spent <- NoneSpent
  PoolSize = 1
  MaxConnections = 1
  WaitQueueSize <- Queues
  MaxIdle = 1
  UsizeMax = 5
  MaxCheckouts = 4
  MaxClock = 0
  NoConn = NoConn
  N = 2
  Weight <- W21
  Backup = {}
  FailoverTo = {0, 1}
  HaSwitches = TRUE
  GrAnswers = {1, 3}
INVARIANT TotalAccounted
PROPERTY RouteReturns
