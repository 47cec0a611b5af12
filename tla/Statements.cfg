SPECIFICATION ShadowSpec
CONSTANTS
  c1 = c1
  c2 = c2
  t1 = t1
  t2 = t2
  NoConn = NoConn
  Conns <- MCConns
  Texts <- MCTexts
  MaxId = 2
  MaxBid = 3
SYMMETRY Symm
VIEW WithoutOutcome
PROPERTY ImplementsContract
