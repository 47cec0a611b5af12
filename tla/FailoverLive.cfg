SPECIFICATION LiveSpec
CONSTANTS
  N = 1
  Protocol = "pgsql"
  Threshold = 2
  MinRecovery = 2
  Cooldown = 1
  MaxLag = 1
  Stopped = 3
  Conditions <- UpDown
  GaleraCheck = FALSE
  Operator = TRUE
  PoolErrors = TRUE
  FlapMod = 2
PROPERTY FailsOver
PROPERTY FailsBack
