----------------------------- MODULE BackendPool -----------------------------
(***************************************************************************)
(* BackendPool of src/proxy/pool.rs: one ConnectionPool for the primary and *)
(* one per replica, and the routing of a request to one of them: by weighted *)
(* round-robin over the replicas (get_replica_for_database), to a hostgroup, *)
(* or to whoever is the primary now (get_primary_for_database).              *)
(*                                                                         *)
(* The pools are those of ConnectionPool, step by step.  The health flags    *)
(* and failover_idx are written by the health checker and the dashboard      *)
(* (module Failover), the breakers' answers by module CircuitBreaker: here   *)
(* they change at any time.  Backend 0 is the configured primary, and 0 in    *)
(* failover_idx and gr_primary_idx stands for the code's -1.                 *)
(***************************************************************************)
EXTENDS ConnectionPool, Sums

CONSTANTS
  N,            \* number of replicas
  Weight,       \* weight of each replica
  Backup,       \* replicas with backup = true
  FailoverTo,   \* values failover_idx can have
  HaSwitches,   \* TRUE: the health checker or the operator changes it
  GrAnswers     \* what a Group Replication poll can find (see GrPoll)

Primary == 0
Replicas == 1..N

ASSUME BackendPoolAssumption ==
  /\ N \in Nat
  /\ Backends = 0..N
  /\ Weight \in [Replicas -> Nat]
  /\ Backup \subseteq Replicas
  /\ FailoverTo \subseteq 0..N
  /\ HaSwitches \in BOOLEAN
  /\ GrAnswers \subseteq 0..N + 1

VARIABLES
  replica_index,   \* AtomicUsize: the round-robin counter
  healthy,         \* replica_health[i].healthy
  failover_idx,    \* the promoted replica, 0 for none
  gr_primary_idx,  \* the Group Replication primary, 0 for the configured one
  route,           \* where each session is in a get_* of BackendPool
  reading,         \* history: the request came through get_replica_for_database
  refused          \* history: replicas it found unusable so far

routing == <<replica_index, healthy, failover_idx, gr_primary_idx>>
history == <<reading, refused>>
rvars == <<vars, routing, route, history>>

(* stage: the call under way; target: the replica asked; left: the candidates *)
(* not asked yet; next: what follows when they all fail.  While a connection   *)
(* is held, stage and target say how it was got (the index the code returns). *)
Stages == {"none", "pass1", "pass2", "replica", "primary"}
Route == [stage : Stages, target : 0..N, left : SUBSET Replicas, next : Stages]

NoRoute == [stage |-> "none", target |-> 0, left |-> {}, next |-> "none"]

At(s, stage) == route[s].stage = stage
GoTo(s, stage) == route' = [route EXCEPT ![s] = [NoRoute EXCEPT !.stage = stage]]
Ask(s, r, others, after) ==
  route' = [route EXCEPT ![s] = [stage |-> "replica", target |-> r,
                                 left |-> others, next |-> after]]

Refuse(s, R) ==
  /\ refused' = [refused EXCEPT ![s] = @ \cup R]
  /\ UNCHANGED reading

-----------------------------------------------------------------------------
(* Who is the primary? *)

(* get_primary_for_database: Group Replication, then failover, then the        *)
(* configured one.                                                           *)
GetsFrom == IF gr_primary_idx # 0 THEN gr_primary_idx
            ELSE IF failover_idx # 0 THEN failover_idx ELSE Primary

(* put_primary_for_database: failover, then the configured one. *)
PutsTo == IF failover_idx # 0 THEN failover_idx ELSE Primary

-----------------------------------------------------------------------------
(* Weighted round-robin. *)

(* r.weight.max(1) *)
SlotWeight(r) == IF Weight[r] = 0 THEN 1 ELSE Weight[r]

TotalWeight(R) == Total([r \in R |-> SlotWeight(r)], R)

(* The candidates have the slots 0 .. total_weight - 1 in order of index, each  *)
(* as many as its weight; the first with slot < acc is chosen.                *)
Chosen_Inclusive(C, n) ==
  LET slot == n % TotalWeight(C)
      acc(r) == TotalWeight({q \in C : q <= r})
  IN CHOOSE r \in C : slot <= acc(r) /\ \A q \in C : q < r => slot > acc(q)
Chosen(C, n) ==
  LET slot == n % TotalWeight(C)
      acc(r) == TotalWeight({q \in C : q <= r})
  IN CHOOSE r \in C : slot < acc(r) /\ \A q \in C : q < r => slot >= acc(q)

(* The replicas one pass of try_weighted_replica looks at. *)
PassSet(backup_pass) == IF backup_pass THEN Backup ELSE Replicas \ Backup

(* Waits for a candidate instead of going on to the next pass. *)
TryWeightedReplica_Waits(s, backup_pass, after) ==
  /\ pc[s] = "ready"
  /\ \E allowed \in SUBSET PassSet(backup_pass) :
       LET candidates == {r \in allowed : healthy[r]} IN
       /\ Refuse(s, PassSet(backup_pass) \ candidates)
       /\ \/ /\ candidates = {}
             /\ GoTo(s, IF backup_pass THEN "pass2" ELSE "pass1")
             /\ UNCHANGED replica_index
          \/ /\ candidates # {}
             /\ LET c == Chosen(candidates, replica_index)
                IN Ask(s, c, candidates \ {c}, after)
             /\ replica_index' = FetchAdd(replica_index)
  /\ UNCHANGED <<vars, healthy, failover_idx, gr_primary_idx>>

(* try_weighted_replica: collect the healthy candidates whose breaker lets the  *)
(* request through, and choose one.                                           *)
TryWeightedReplica(s, backup_pass, after) ==
  /\ pc[s] = "ready"
  /\ \E allowed \in SUBSET PassSet(backup_pass) :
       LET candidates == {r \in allowed : healthy[r]} IN
       /\ Refuse(s, PassSet(backup_pass) \ candidates)
       /\ \/ /\ candidates = {}
             /\ GoTo(s, after)
             /\ UNCHANGED replica_index
          \/ /\ candidates # {}
             /\ LET c == Chosen(candidates, replica_index)
                IN Ask(s, c, candidates \ {c}, after)
             /\ replica_index' = FetchAdd(replica_index)
  /\ UNCHANGED <<vars, healthy, failover_idx, gr_primary_idx>>

(* The chosen replica's pool is asked for a connection ... *)
AskReplica(s) ==
  /\ At(s, "replica")
  /\ Pop(s, route[s].target, key[s])
  /\ UNCHANGED <<routing, route, history>>

(* ... and gives none, whatever the reason: mark it unhealthy and go on with     *)
(* the other candidates in order.                                             *)
ReplicaFailed(s) ==
  LET r == route[s] IN
  /\ At(s, "replica")
  /\ GiveUp(s)
  /\ healthy' = [healthy EXCEPT ![r.target] = FALSE]
  /\ Refuse(s, {r.target})
  /\ IF r.left = {}
       THEN GoTo(s, r.next)
       ELSE Ask(s, Min(r.left), r.left \ {Min(r.left)}, r.next)
  /\ UNCHANGED <<replica_index, failover_idx, gr_primary_idx>>

-----------------------------------------------------------------------------
(* The entry points. *)

(* Bound: a request is started while every pool can still serve what it and     *)
(* the requests under way may ask of it (a pool is asked at most twice).        *)
HasBudget ==
  \A b \in Backends : checkouts[b] + 2 * Cardinality(Sessions) <= MaxCheckouts

Start(s, d, read) ==
  /\ pc[s] = "ready"
  /\ At(s, "none")
  /\ HasBudget
  /\ key' = [key EXCEPT ![s] = d]
  /\ reading' = [reading EXCEPT ![s] = read]
  /\ refused' = [refused EXCEPT ![s] = {}]
  /\ UNCHANGED <<poolVars, pc, at, conn, now, histVars, routing>>

(* get_replica_for_database: the other replicas, the backups, the primary. *)
StartRead_BackupsToo(s, d) ==
  /\ Start(s, d, TRUE)
  /\ GoTo(s, IF N = 0 THEN "primary" ELSE "pass2")
StartRead(s, d) ==
  /\ Start(s, d, TRUE)
  /\ GoTo(s, IF N = 0 THEN "primary" ELSE "pass1")

(* get_hostgroup_for_database: replica h while it is healthy, else the primary. *)
StartHostgroup(s, d, h) ==
  /\ Start(s, d, FALSE)
  /\ IF h \in Replicas /\ healthy[h]
       THEN Ask(s, h, {}, "primary")
       ELSE GoTo(s, "primary")

(* get_primary_for_database for a write or a transaction. *)
StartWrite(s, d) ==
  /\ Start(s, d, FALSE)
  /\ GoTo(s, "primary")

(* The body of get_primary_for_database. *)
AskPrimary(s) ==
  /\ At(s, "primary")
  /\ Pop(s, GetsFrom, key[s])
  /\ UNCHANGED <<routing, route, history>>

(* Only the configured primary is behind primary_breaker. *)
PrimaryRefused(s) ==
  /\ At(s, "primary")
  /\ pc[s] = "ready"
  /\ GetsFrom = Primary
  /\ GoTo(s, "none")
  /\ UNCHANGED <<vars, routing, history>>

(* The error goes back to the client. *)
PrimaryFailed(s) ==
  /\ At(s, "primary")
  /\ GiveUp(s)
  /\ GoTo(s, "none")
  /\ UNCHANGED <<routing, history>>

-----------------------------------------------------------------------------
(* The way back. *)

(* put_primary_for_database *)
PutPrimary(s) ==
  /\ At(s, "primary")
  /\ PutRelease(s, PutsTo)
  /\ GoTo(s, "none")
  /\ UNCHANGED <<routing, history>>

(* put_replica_for_database *)
PutReplica_AsPrimary(s) ==
  /\ At(s, "replica")
  /\ PutRelease(s, PutsTo)
  /\ GoTo(s, "none")
  /\ UNCHANGED <<routing, history>>
PutReplica(s) ==
  /\ At(s, "replica")
  /\ PutRelease(s, route[s].target)
  /\ GoTo(s, "none")
  /\ UNCHANGED <<routing, history>>

(* The connection is dropped without a put. *)
Drop(s) ==
  /\ Abandon(s)
  /\ GoTo(s, "none")
  /\ UNCHANGED <<routing, history>>

-----------------------------------------------------------------------------
(* Those who write the routing state. *)

(* A check or a recheck of the dashboard finds the replica well, or not. *)
HealthChange(r) ==
  /\ healthy' = [healthy EXCEPT ![r] = ~@]
  /\ UNCHANGED <<vars, replica_index, failover_idx, gr_primary_idx, route, history>>

FailoverChange ==
  /\ HaSwitches
  /\ failover_idx' \in FailoverTo \ {failover_idx}
  /\ UNCHANGED <<vars, replica_index, healthy, gr_primary_idx, route, history>>

(* GrChecker::poll_once and apply_members with find_backend_index.  The poll finds   *)
(* that the ONLINE PRIMARY is replica a; that it is the configured primary, or there  *)
(* is no group (0); or that it is no configured backend (N + 1).  A poll that finds   *)
(* no ONLINE PRIMARY or gets no answer changes nothing.                              *)
GrPoll_PastEnd(a) ==
  /\ gr_primary_idx' = a
  /\ UNCHANGED <<vars, replica_index, healthy, failover_idx, route, history>>
GrPoll(a) ==
  /\ gr_primary_idx' = IF a \in Replicas THEN a ELSE 0
  /\ UNCHANGED <<vars, replica_index, healthy, failover_idx, route, history>>

-----------------------------------------------------------------------------
RouteInit ==
  /\ Init
  /\ at = [s \in Sessions |-> Primary]
  /\ replica_index = 0
  /\ healthy = [r \in Replicas |-> TRUE]
  /\ failover_idx \in FailoverTo
  /\ gr_primary_idx = 0
  /\ route = [s \in Sessions |-> NoRoute]
  /\ reading = [s \in Sessions |-> FALSE]
  /\ refused = [s \in Sessions |-> {}]

(* What a request under way does by itself. *)
RouteStep(s) ==
  \/ At(s, "pass1") /\ TryWeightedReplica(s, FALSE, "pass2")
  \/ At(s, "pass2") /\ TryWeightedReplica(s, TRUE, "primary")
  \/ AskReplica(s)
  \/ ReplicaFailed(s)
  \/ AskPrimary(s)
  \/ PrimaryRefused(s)
  \/ PrimaryFailed(s)

(* What its pool does by itself, and what a backend may never do (see           *)
(* ConnectStep).                                                              *)
PoolRuns(s) ==
  /\ \/ BelowLimit(s) \/ RejectFast(s) \/ Enqueue(s) \/ AcquirePermit(s)
     \/ WaitTimeout(s) \/ PutStore(s)
  /\ UNCHANGED <<routing, route, history>>

PoolConnects(s) == ConnectStep(s) /\ UNCHANGED <<routing, route, history>>

PoolStep(s) == PoolRuns(s) \/ PoolConnects(s)

ClientStep(s) ==
  \/ \E d \in Keys(Primary) : \/ StartRead(s, d)
                              \/ StartWrite(s, d)
                              \/ \E h \in 0..N + 1 : StartHostgroup(s, d, h)
  \/ PutPrimary(s)
  \/ PutReplica(s)
  \/ Drop(s)
  \/ ReadFails(s) /\ UNCHANGED <<routing, route, history>>  \* so that put drops it

RouteNext ==
  \/ \E s \in Sessions : RouteStep(s) \/ PoolStep(s) \/ ClientStep(s)
  \/ \E r \in Replicas : HealthChange(r)
  \/ FailoverChange
  \/ \E a \in GrAnswers : GrPoll(a)

(* As for the pools: tasks inside a call run on; clients and backends need do    *)
(* nothing.                                                                   *)
RouteFairness == \A s \in Sessions : WF_rvars(RouteStep(s) \/ PoolRuns(s))

RouteSpec == RouteInit /\ [][RouteNext]_rvars
RouteLiveSpec == RouteSpec /\ RouteFairness

-----------------------------------------------------------------------------
(* Types of the routing state; the pools keep theirs whatever put_primary does. *)
RouteTypeOK ==
  /\ TypeOK
  /\ replica_index \in 0..UsizeMax
  /\ healthy \in [Replicas -> BOOLEAN]
  /\ failover_idx \in 0..N
  /\ gr_primary_idx \in 0..N
  /\ route \in [Sessions -> Route]
  /\ \A s \in Sessions : At(s, "replica") => route[s].target \in Replicas
  /\ reading \in [Sessions -> BOOLEAN]
  /\ refused \in [Sessions -> SUBSET Replicas]

(* A backup serves a read only after every other replica, and the primary only      *)
(* after every replica, was found unhealthy, behind an open breaker or without a    *)
(* connection to give during this very request - also when replicas go and come      *)
(* back while it looks (get_replica_for_database, try_weighted_replica).            *)
LastResort ==
  \A s \in Sessions : reading[s] =>
     /\ At(s, "replica") /\ route[s].target \in Backup => Replicas \ Backup \subseteq refused[s]
     /\ At(s, "primary") => refused[s] = Replicas

(* Wherever put_primary_for_database takes a connection while failovers and Group    *)
(* Replication elections come and go, the `borrowed` counters of all the pools        *)
(* together, as usize arithmetic has them, count the connections that are out or     *)
(* were dropped without a put: no increment is undone twice or never.               *)
TotalAccounted ==
  LET out == [b \in Backends |-> Cardinality(Holders(b)) + lost[b]]
  IN (Total(borrowed, Backends) - Total(out, Backends)) % (UsizeMax + 1) = 0

(* A request whose own connects end gets a connection or an error: it walks        *)
(* through the candidates of both passes and the primary once, whatever the         *)
(* health flags, the failover and the other requests do meanwhile, and also when    *)
(* those others hang in their connects for ever.                                   *)
RouteReturns ==
  \A s \in Sessions :
     []<>(pc[s] # "connect") =>
        (~At(s, "none") ~> (pc[s] \in {"held", "storing"} \/ At(s, "none")))

(* The slots of one turn of the counter are shared out as the weights say,           *)
(* whichever replicas are candidates.                                              *)
WeightedShare ==
  \A C \in SUBSET Replicas \ {{}} : \A r \in C :
     Cardinality({n \in 0..TotalWeight(C) - 1 : Chosen(C, replica_index + n) = r})
        = SlotWeight(r)

-----------------------------------------------------------------------------
(* What the documentation says and the code does not do. *)

(* failure-modes.md: writes during a failover are "Routed to the promoted replica", *)
(* and the proxy "does not split writes across backends".  A connection that was    *)
(* got before the failover and put back after it lands in the promoted replica's    *)
(* pool, and the next write takes it.                                              *)
WritesReachPrimary ==
  [][\A s \in Sessions :
       At(s, "primary") /\ pc[s] = "ready" /\ pc'[s] = "held" => conn'[s].home = GetsFrom]_rvars

(* read-write-splitting.md: weight = 0 is "Disabled (temporarily taken offline)".    *)
(* weight.max(1) makes it the smallest weight.                                      *)
WeightZeroIsOffline ==
  \A s \in Sessions : reading[s] /\ At(s, "replica") => Weight[route[s].target] # 0
=============================================================================
