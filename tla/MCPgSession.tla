---------------------------- MODULE MCPgSession ----------------------------
(* One client uses everything, the other simple transactions and prepared statements;
   three backend connections. *)
EXTENDS PgSession, TLC

CONSTANTS s1, s2

MCCommands == [s \in Sessions |->
  IF s = s1 THEN Simple \cup Pipelines \cup {"meta", "blocked", "copy", "data", "sync", "flush"}
  ELSE {"begin", "parse", "bind"}]
Symm == Permutations(Conns)
=============================================================================
