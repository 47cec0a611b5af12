----------------------------- MODULE MCFailover -----------------------------
(* Small instances of Failover for TLC. *)
EXTENDS Failover

(* A replica in sync, one lagging too much, one that is gone. *)
UpLagDown == {[up |-> TRUE, synced |-> TRUE, lag |-> 0],
              [up |-> TRUE, synced |-> TRUE, lag |-> 2],
              [up |-> FALSE, synced |-> TRUE, lag |-> 0]}

UpLag == {[up |-> TRUE, synced |-> TRUE, lag |-> 0],
          [up |-> TRUE, synced |-> TRUE, lag |-> 2]}

UpDown == {[up |-> TRUE, synced |-> TRUE, lag |-> 0],
           [up |-> FALSE, synced |-> TRUE, lag |-> 0]}

(* ... with a lag that is accepted, and with replication stopped. *)
StoppedToo == {[up |-> TRUE, synced |-> TRUE, lag |-> 1],
               [up |-> TRUE, synced |-> TRUE, lag |-> 3]}

(* A Galera node that is not SYNCED. *)
Galera == UpLagDown \cup {[up |-> TRUE, synced |-> FALSE, lag |-> 0]}
=============================================================================
