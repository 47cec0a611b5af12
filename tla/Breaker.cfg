SPECIFICATION BreakerLiveSpec
CONSTANTS
  Clients = {c1, c2}
  Checkers = {h}
  ErrorThreshold = 2
  Recovery = 2
INVARIANTS
  ErrorsCovered
  OpeningIsStamped
PROPERTY NotStuckOpen
