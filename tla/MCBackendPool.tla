---------------------------- MODULE MCBackendPool ----------------------------
(* Small instances of BackendPool for TLC. *)
EXTENDS BackendPool

BackendIds == 0..N

(* Two replicas of weights 2 and 1. *)
W21 == <<2, 1>>

Mysql == [b \in Backends |-> "mysql"]
Pgsql == [b \in Backends |-> "pgsql"]
NoneSpent == {[b \in Backends |-> 0]}

(* Pools with a wait queue for one, and pools without. *)
Queues == [b \in Backends |-> 1]
NoQueues == [b \in Backends |-> 0]

SessionSymmetry == Permutations(Sessions)
=============================================================================
