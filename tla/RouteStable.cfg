SPECIFICATION RouteSpec
CONSTANTS
  Backends <- BackendIds
  Sessions = {s1, s2}
  Databases = {d1}
  DefaultDb = d1
  Protocol <- Pgsql
  Spent <- NoneSpent
  PoolSize = 1
  MaxConnections = 1
  WaitQueueSize <- NoQueues
  MaxIdle = 1
  UsizeMax = 7
  MaxCheckouts = 5
  MaxClock = 0
  NoConn = NoConn
  N = 2
  Weight <- W21
  Backup = {2}
  FailoverTo = {0, 1}
  HaSwitches = FALSE
  GrAnswers = {}
INVARIANT LastResort
INVARIANT WeightedShare
SYMMETRY SessionSymmetry
