SPECIFICATION Spec
CONSTANTS
  N = 2
  Protocol = "mysql"
  Threshold = 2
  MinRecovery = 2
  Cooldown = 1
  MaxLag = 1
  Stopped = 3
  Conditions <- Galera
  GaleraCheck = TRUE
  Operator = FALSE
  PoolErrors = TRUE
  FlapMod = 2
INVARIANT TypeOK
INVARIANT UnfitExcluded
PROPERTY NoEarlyFailover
PROPERTY CooldownHeld
