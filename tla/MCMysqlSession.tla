--------------------------- MODULE MCMysqlSession ---------------------------
(* Small instances of MysqlSession for TLC. *)
EXTENDS MysqlSession, TLC

CONSTANTS s1, s2

(* One client with transactions, savepoints, prepared statements and raw commands that may
   exceed the timeouts, one with transactions the loop does not recognise, hints, pinning
   and resets.  Together they send every command. *)
Repertoire == s1 :> {"begin", "commit", "hbegin", "hcommit", "savepoint", "read", "prepare",
                     "execute", "close", "raw", "slow"}
           @@ s2 :> {"hbegin", "hcommit", "write", "hint1", "hint0", "setvar", "reset"}
Clients == {s1, s2}

PrimarySymmetry == Permutations(Primary)
=============================================================================
