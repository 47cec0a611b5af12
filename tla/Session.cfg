SPECIFICATION Spec
CONSTANTS
  s1 = s1
  s2 = s2
  Sessions <- Clients
  Commands <- Repertoire
  Primary = {p1, p2}
  Replica = {r1}
  NoConn = NoConn
SYMMETRY PrimarySymmetry
INVARIANT TypeOK
INVARIANT TxAtomic
INVARIANT OpenTxIsHeld
INVARIANT PutHome
