SPECIFICATION LiveSpec
CONSTANTS
  Requests = {r1, r2}
  Tables = {1, 2}
  Queries <- Mixed
  Tids = {x, y}
  MaxEntries = 1
  Ttl = 1
  MaxQueryTime = 1
INVARIANT TypeOK
INVARIANT AnswersAreTrue
INVARIANT PrimaryReadsAreFresh
INVARIANT NoEntryOutlivesWrite
PROPERTY KillsStayOnTarget
PROPERTY RequestsEnd
