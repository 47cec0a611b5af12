SPECIFICATION Spec
CONSTANTS
  Clients = {c1, c2, c3, p1}
  PgClients = {p1}
  Users = {u1}
  UserLimit = 1
  MaxConns = 2
  AuthTtl = 1
  DrainTime = 1
  Browsers = {b1, b2}
  Tokens = {t1, t2}
  MaxAttempts = 2
  TokenTtl = 2
  Cap = 1
  HourLen = 2
  DayLen = 4
  Retention = 4
  LastMinute = 7
  MaxLate = 1
  Budgets <- MCBudgets
INVARIANTS LimitsHold AttemptsBounded CountedOnce RollupExact
PROPERTY TermStops
CHECK_DEADLOCK FALSE
