-------------------------- MODULE MCConnectionPool --------------------------
(* Small instances of ConnectionPool for TLC. *)
EXTENDS ConnectionPool, TLC

CONSTANTS b1, b2

(* A PostgreSQL pool with a wait queue for one, and a MySQL pool without. *)
MCProtocol == b1 :> "pgsql" @@ b2 :> "mysql"
MCQueues == b1 :> 1 @@ b2 :> 0

(* A behaviour uses the one pool or the other: they share nothing. *)
MCSpent == {b1 :> 0 @@ b2 :> MaxCheckouts, b1 :> MaxCheckouts @@ b2 :> 0}

(* Where a slot is before its first get means nothing: one value is enough. *)
MCInit == Init /\ at = [s \in Sessions |-> b1]
MCSpec == MCInit /\ [][Next]_vars /\ Fairness
=============================================================================
