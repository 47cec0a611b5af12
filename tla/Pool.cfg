SPECIFICATION MCSpec
CONSTANTS
  b1 = b1
  b2 = b2
  Backends = {b1, b2}
  Sessions = {s1, s2, s3}
  Databases = {d1, d2}
  DefaultDb = d1
  Protocol <- MCProtocol
  Spent <- MCSpent
  PoolSize = 2
  MaxConnections = 2
  WaitQueueSize <- MCQueues
  MaxIdle = 1
  UsizeMax = 7
  MaxCheckouts = 4
  MaxClock = 2
  NoConn = NoConn
INVARIANT TypeOK
INVARIANT BorrowedAccounted
INVARIANT IdleIsClean
INVARIANT IdleMatchesBucket
PROPERTY GetReturns
