SPECIFICATION Spec
CONSTANTS
  s1 = s1
  s2 = s2
  Sessions = {s1, s2}
  Conns = {p1, p2, p3}
  NoConn = NoConn
  Commands <- MCCommands
INVARIANTS TxIsolated OwnStatements
SYMMETRY Symm
CHECK_DEADLOCK FALSE
