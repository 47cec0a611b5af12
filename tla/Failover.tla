------------------------------ MODULE Failover ------------------------------
(***************************************************************************)
(* Health checking and automatic failover of one BackendPool:               *)
(* HealthChecker of src/proxy/health.rs (PgHealthChecker of pg_health.rs    *)
(* takes the same decisions; its primary check also asks for writability),  *)
(* the operator's cluster actions of dashboard/routes.rs, and the router,   *)
(* which marks a replica unhealthy when it gets no connection to it.        *)
(*                                                                         *)
(* The checker is one task: it pings the primary, acts on the answer, then  *)
(* visits the replicas in order.  A step ends where the task awaits, and    *)
(* between trigger_failover's choice of a replica and its store of          *)
(* failover_idx.  The answer of a replica and what is written because of it *)
(* are one step: nothing else enters into what is written, so an answer     *)
(* that is stale when it is written is one after which the replica changed. *)
(* The checker's connects, pings and queries have no timeout: in "idle" and  *)
(* in "replicas" it waits for an answer that need not come.                 *)
(*                                                                         *)
(* Ages stand for instants.  An age saturates at 2 * Cooldown, where both   *)
(* comparisons with failover_triggered_at have the outcome they have for    *)
(* failover_triggered_at = 0; so "never" is that age too.                  *)
(***************************************************************************)
EXTENDS Integers

CONSTANTS
  N,            \* number of replicas
  Protocol,     \* "mysql" or "pgsql"
  Threshold,    \* primary_failover_threshold
  MinRecovery,  \* failover_min_recovery_checks
  Cooldown,     \* failover_cooldown_secs, in clock ticks
  MaxLag,       \* max_replica_lag_ms
  Stopped,      \* the lag of a replica whose replication does not run
  Conditions,   \* the conditions a replica can be in
  GaleraCheck,  \* galera_check
  Operator,     \* TRUE: somebody uses the dashboard's cluster actions
  PoolErrors,   \* TRUE: a get can fail on a replica that is up (pool limit)
  FlapMod       \* failover_flap_total wraps here

Replicas == 1..N

Condition == [up : BOOLEAN, synced : BOOLEAN, lag : 0..Stopped]

ASSUME FailoverAssumption ==
  /\ N \in Nat
  /\ Protocol \in {"mysql", "pgsql"}
  /\ Threshold \in Nat /\ MinRecovery \in Nat /\ Cooldown \in Nat /\ MaxLag \in Nat
  /\ Stopped \in Nat /\ Stopped > MaxLag
  /\ Conditions \subseteq Condition
  /\ {GaleraCheck, Operator, PoolErrors} \subseteq BOOLEAN
  /\ FlapMod \in Nat \ {0, 1}

VARIABLES
  primary,          \* condition of the primary: "writable", "readonly", "down"
  replica,          \* condition of each replica
  failures,         \* primary_health.consecutive_failures, capped
  primaryHealthy,   \* primary_health.healthy
  healthy,          \* replica_health[i].healthy
  lag,              \* replica_health[i].lag_ms
  failover_idx,     \* 0 for -1, otherwise the promoted replica
  recovery_checks,  \* capped at MinRecovery
  triggered,        \* age of failover_triggered_at
  flaps,            \* failover_flap_total
  pc,               \* the health checker
  best,             \* the replica trigger_failover chose
  turn,             \* the replica the checker visits next
  rc,               \* a recheck_health request
  rturn,            \* the replica it visits next
  okStreak,         \* history: pings of the primary answered in a row, capped
  failStreak,       \* history: pings of the primary failed in a row, capped
  sinceTrigger,     \* history: age of the last trigger that promoted a replica
  probed            \* history: condition in which a check last found each replica

env == <<primary, replica>>
health == <<failures, primaryHealthy, healthy, lag>>
failover == <<failover_idx, recovery_checks, triggered, flaps>>
checker == <<pc, best, turn>>
recheck == <<rc, rturn>>
history == <<okStreak, failStreak, sinceTrigger, probed>>
vars == <<env, health, failover, checker, recheck, history>>

-----------------------------------------------------------------------------
(* Counting stops where no comparison tells the difference any more. *)
Capped(n, cap) == IF n < cap THEN n ELSE cap

FailureCap == Threshold + 1

AgeCap == 2 * Cooldown

(* Does the primary pass its check?  MySQL: connect and ping.  PostgreSQL    *)
(* also asks Patroni for the role and pg_is_in_recovery().                  *)
Answers(c) == IF Protocol = "pgsql" THEN c = "writable" ELSE c # "down"

(* query_replica_lag: NULL in Seconds_Behind_Source ("replica thread not      *)
(* running"), an error or an empty result become 0.                         *)
ReportedLag(c) == IF c.lag = Stopped THEN 0 ELSE c.lag

(* lag_ms <= max_lag_ms *)
LagAccepted_Always(l) == TRUE
LagAccepted(l) == l <= MaxLag

(* The healthy replicas; min_by_key takes the first of the least lagging. *)
Candidates == {r \in Replicas : healthy[r]}

IsBest(r) ==
  /\ r \in Candidates
  /\ \A q \in Candidates : lag[r] < lag[q] \/ (lag[r] = lag[q] /\ r <= q)

(* A ping of the primary, seen from outside. *)
CountPing(ok) ==
  /\ okStreak' = IF ok THEN Capped(okStreak + 1, MinRecovery) ELSE 0
  /\ failStreak' = IF ok THEN 0 ELSE Capped(failStreak + 1, FailureCap)
  /\ UNCHANGED <<sinceTrigger, probed>>

-----------------------------------------------------------------------------
(* HealthChecker::run and check_primary *)

(* ticker.tick(), then connect and ping: the moment at which the outcome is     *)
(* settled.  While the primary is silent that moment need not come.            *)
Ping ==
  /\ pc = "idle"
  /\ pc' = IF Answers(primary) THEN "answered" ELSE "failed"
  /\ CountPing(Answers(primary))
  /\ UNCHANGED <<env, health, failover, best, turn, recheck>>

(* On to the replicas, or to the next round when there are none. *)
VisitReplicas == pc' = (IF N = 0 THEN "idle" ELSE "replicas") /\ turn' = 1

(* An elapsed cooldown no longer holds the failover. *)
CooldownOver_Ignored(t) == TRUE
CooldownOver(t) == t >= Cooldown

(* Cleared only in the round in which the primary comes back. *)
Recover_OnlyOnReturn ==
  IF failover_idx # 0
    THEN /\ IF recovery_checks + 1 >= MinRecovery /\ CooldownOver(triggered) /\ ~primaryHealthy
              THEN /\ failover_idx' = 0
                   /\ recovery_checks' = 0
                   /\ triggered' = AgeCap
              ELSE /\ recovery_checks' = Capped(recovery_checks + 1, MinRecovery)
                   /\ UNCHANGED <<failover_idx, triggered>>
    ELSE /\ recovery_checks' = IF ~primaryHealthy \/ failures >= Threshold
                                 THEN 0 ELSE recovery_checks
         /\ UNCHANGED <<failover_idx, triggered>>

(* The bookkeeping of failover_idx when the primary answers. *)
Recover ==
  IF failover_idx # 0
    THEN /\ IF recovery_checks + 1 >= MinRecovery /\ CooldownOver(triggered)
              THEN /\ failover_idx' = 0
                   /\ recovery_checks' = 0
                   /\ triggered' = AgeCap
              ELSE /\ recovery_checks' = Capped(recovery_checks + 1, MinRecovery)
                   /\ UNCHANGED <<failover_idx, triggered>>
    ELSE /\ recovery_checks' = IF ~primaryHealthy \/ failures >= Threshold
                                 THEN 0 ELSE recovery_checks
         /\ UNCHANGED <<failover_idx, triggered>>

(* The ok branch of check_primary. *)
PrimaryAnswered_KeepsCount ==
  /\ pc = "answered"
  /\ primaryHealthy' = TRUE
  /\ Recover
  /\ VisitReplicas
  /\ UNCHANGED <<env, failures, healthy, lag, flaps, best, recheck, history>>
PrimaryAnswered ==
  /\ pc = "answered"
  /\ failures' = 0
  /\ primaryHealthy' = TRUE
  /\ Recover
  /\ VisitReplicas
  /\ UNCHANGED <<env, healthy, lag, flaps, best, recheck, history>>

(* failures >= failover_threshold, and no failover is active. *)
MustTrigger_Once(n) == n = Threshold /\ failover_idx = 0
MustTrigger(n) == n >= Threshold /\ failover_idx = 0

(* The other branch, short of a trigger. *)
PrimaryFailed ==
  /\ pc = "failed"
  /\ ~MustTrigger(failures + 1)
  /\ failures' = Capped(failures + 1, FailureCap)
  /\ primaryHealthy' = FALSE
  /\ VisitReplicas
  /\ UNCHANGED <<env, healthy, lag, failover, best, recheck, history>>

(* ... and trigger_failover up to the choice of a replica. *)
Trigger ==
  /\ pc = "failed"
  /\ MustTrigger(failures + 1)
  /\ failures' = Capped(failures + 1, FailureCap)
  /\ primaryHealthy' = FALSE
  /\ flaps' = IF triggered < 2 * Cooldown THEN (flaps + 1) % FlapMod ELSE flaps
  /\ triggered' = 0
  /\ recovery_checks' = 0
  /\ \/ \E r \in Replicas :
          /\ IsBest(r)
          /\ best' = r
          /\ sinceTrigger' = 0
          /\ pc' = "promote"
          /\ UNCHANGED turn
     \/ /\ Candidates = {}
        /\ VisitReplicas
        /\ UNCHANGED <<best, sinceTrigger>>
  /\ UNCHANGED <<env, healthy, lag, failover_idx, recheck, okStreak, failStreak, probed>>

Promote ==
  /\ pc = "promote"
  /\ failover_idx' = best
  /\ best' = 0
  /\ VisitReplicas
  /\ UNCHANGED <<env, health, recovery_checks, triggered, flaps, recheck, history>>

(* The loop over replica_configs. *)
NextReplica_PastEnd(r) ==
  IF r <= N THEN turn' = r + 1 /\ UNCHANGED pc ELSE turn' = 1 /\ pc' = "idle"
NextReplica(r) ==
  IF r < N THEN turn' = r + 1 /\ UNCHANGED pc ELSE turn' = 1 /\ pc' = "idle"

(* check_replica for one replica.  With galera_check a node that is not       *)
(* SYNCED is set aside before its lag is read; patroni_check does the same,  *)
(* on PostgreSQL, to a node that is not a standby.                          *)
CheckReplica(r) ==
  LET c == replica[r] IN
  /\ pc = "replicas"
  /\ turn = r
  /\ \/ /\ c.up
        /\ GaleraCheck /\ ~c.synced
        /\ healthy' = [healthy EXCEPT ![r] = FALSE]
        /\ UNCHANGED lag
     \/ /\ c.up
        /\ GaleraCheck => c.synced
        /\ lag' = [lag EXCEPT ![r] = ReportedLag(c)]
        /\ healthy' = [healthy EXCEPT ![r] = LagAccepted(ReportedLag(c))]
     \/ /\ ~c.up
        /\ healthy' = [healthy EXCEPT ![r] = FALSE]
        /\ UNCHANGED lag
  /\ probed' = [probed EXCEPT ![r] = c]
  /\ NextReplica(r)
  /\ UNCHANGED <<env, failures, primaryHealthy, failover, best, recheck,
                 okStreak, failStreak, sinceTrigger>>

CheckerStep ==
  \/ Ping
  \/ PrimaryAnswered
  \/ PrimaryFailed
  \/ Trigger
  \/ Promote
  \/ \E r \in Replicas : CheckReplica(r)

-----------------------------------------------------------------------------
(* try_weighted_replica and get_hostgroup_for_database: no connection from    *)
(* the replica's pool, whatever the reason.                                 *)
RouterMarks(r) ==
  /\ healthy[r]
  /\ ~replica[r].up \/ PoolErrors
  /\ healthy' = [healthy EXCEPT ![r] = FALSE]
  /\ UNCHANGED <<env, failures, primaryHealthy, lag, failover, checker, recheck, history>>

-----------------------------------------------------------------------------
(* cluster_action *)

(* recheck_health: ping the primary ... *)
RecheckPing ==
  /\ rc = "idle"
  /\ rc' = IF primary # "down" THEN "answered" ELSE "failed"
  /\ CountPing(primary # "down")
  /\ UNCHANGED <<env, health, failover, checker, rturn>>

(* ... note the result, without a look at failover_idx ... *)
RecheckPrimary ==
  /\ rc \in {"answered", "failed"}
  /\ primaryHealthy' = (rc = "answered")
  /\ failures' = IF rc = "answered" THEN 0 ELSE Capped(failures + 1, FailureCap)
  /\ rc' = IF N = 0 THEN "idle" ELSE "replicas"
  /\ rturn' = 1
  /\ UNCHANGED <<env, healthy, lag, failover, checker, history>>

(* ... and ping each replica, without a look at its lag. *)
RecheckReplica(r) ==
  /\ rc = "replicas"
  /\ rturn = r
  /\ healthy' = [healthy EXCEPT ![r] = replica[r].up]
  /\ IF r < N THEN rturn' = r + 1 /\ UNCHANGED rc
              ELSE rturn' = 1 /\ rc' = "idle"
  /\ UNCHANGED <<env, failures, primaryHealthy, lag, failover, checker, history>>

(* trigger_failover stores failover_idx and nothing else. *)
ManualTrigger(force, r) ==
  /\ force \/ ~primaryHealthy
  /\ IsBest(r)
  /\ failover_idx' = r
  /\ sinceTrigger' = 0
  /\ UNCHANGED <<env, health, recovery_checks, triggered, flaps, checker, recheck,
                 okStreak, failStreak, probed>>

ManualClear ==
  /\ failover_idx' = 0
  /\ UNCHANGED <<env, health, recovery_checks, triggered, flaps, checker, recheck, history>>

OperatorStep ==
  /\ Operator
  /\ \/ RecheckPing
     \/ RecheckPrimary
     \/ \E r \in Replicas : RecheckReplica(r)
     \/ \E force \in BOOLEAN, r \in Replicas : ManualTrigger(force, r)
     \/ ManualClear

-----------------------------------------------------------------------------
(* The backends and the clock. *)
PrimaryChanges ==
  /\ primary' \in {"writable", "readonly", "down"} \ {primary}
  /\ UNCHANGED <<replica, health, failover, checker, recheck, history>>

ReplicaChanges(r) ==
  /\ \E c \in Conditions \ {replica[r]} : replica' = [replica EXCEPT ![r] = c]
  /\ UNCHANGED <<primary, health, failover, checker, recheck, history>>

Tick ==
  /\ triggered' = Capped(triggered + 1, AgeCap)
  /\ sinceTrigger' = Capped(sinceTrigger + 1, AgeCap)
  /\ UNCHANGED <<env, health, failover_idx, recovery_checks, flaps, checker, recheck,
                 okStreak, failStreak, probed>>

(* BackendPool::with_options: everybody is healthy until checked. *)
Init ==
  /\ primary \in {"writable", "readonly", "down"}
  /\ replica \in [Replicas -> Conditions]
  /\ failures = 0
  /\ primaryHealthy = TRUE
  /\ healthy = [r \in Replicas |-> TRUE]
  /\ lag = [r \in Replicas |-> 0]
  /\ failover_idx = 0
  /\ recovery_checks = 0
  /\ triggered = AgeCap
  /\ flaps = 0
  /\ pc = "idle"
  /\ best = 0
  /\ turn = 1
  /\ rc = "idle"
  /\ rturn = 1
  /\ okStreak = 0
  /\ failStreak = 0
  /\ sinceTrigger = AgeCap
  /\ probed = [r \in Replicas |-> [up |-> TRUE, synced |-> TRUE, lag |-> 0]]

Next ==
  \/ CheckerStep
  \/ \E r \in Replicas : RouterMarks(r)
  \/ OperatorStep
  \/ PrimaryChanges
  \/ \E r \in Replicas : ReplicaChanges(r)
  \/ Tick

Spec == Init /\ [][Next]_vars

(* What the checker does by itself between two calls to a backend. *)
OwnStep == PrimaryAnswered \/ PrimaryFailed \/ Trigger \/ Promote

(* The task runs on when it has its answer, and the clock advances.  Nothing    *)
(* makes a backend answer the checker.                                        *)
Fairness == WF_vars(OwnStep) /\ WF_vars(Tick)
LiveSpec == Spec /\ Fairness

-----------------------------------------------------------------------------
(* Types; a replica is waiting to be promoted exactly in trigger_failover. *)
TypeOK ==
  /\ primary \in {"writable", "readonly", "down"}
  /\ replica \in [Replicas -> Condition]
  /\ failures \in 0..FailureCap
  /\ primaryHealthy \in BOOLEAN
  /\ healthy \in [Replicas -> BOOLEAN]
  /\ lag \in [Replicas -> 0..Stopped]
  /\ failover_idx \in 0..N
  /\ recovery_checks \in 0..MinRecovery
  /\ triggered \in 0..AgeCap
  /\ flaps \in 0..FlapMod - 1
  /\ pc \in {"idle", "answered", "failed", "promote", "replicas"}
  /\ best \in 0..N /\ (pc = "promote" <=> best # 0)
  /\ turn \in Nat /\ (pc = "replicas" => turn \in Replicas)
  /\ rc \in {"idle", "answered", "failed", "replicas"}
  /\ rturn \in Nat /\ (rc = "replicas" => rturn \in Replicas)
  /\ okStreak \in 0..MinRecovery
  /\ failStreak \in 0..FailureCap
  /\ sinceTrigger \in 0..AgeCap
  /\ probed \in [Replicas -> Condition]

(* What a check accepts: reachable, SYNCED if that is asked for, and not more     *)
(* than max_replica_lag_ms behind as far as the replica tells.                   *)
Fit(c) ==
  /\ c.up
  /\ GaleraCheck => c.synced
  /\ c.lag = Stopped \/ c.lag <= MaxLag

(* A replica that its last check found unreachable, not SYNCED or lagging gets    *)
(* no reads and cannot be promoted, whatever the router, the failovers and the    *)
(* rest of the round do, until a check finds it fit again.                       *)
UnfitExcluded == \A r \in Replicas : healthy[r] => Fit(probed[r])

(* The checker promotes a replica only after the primary failed                *)
(* primary_failover_threshold pings with none answered in between, over        *)
(* whatever rounds without a candidate, recoveries and earlier failovers.      *)
NoEarlyFailover ==
  [][pc = "promote" /\ pc' # "promote" => failStreak >= Threshold]_vars

(* However often the primary comes and goes, the checker never gives up a       *)
(* failover before failover_cooldown_secs have passed since it was triggered.  *)
CooldownHeld ==
  [][pc = "answered" /\ pc' # pc /\ failover_idx # 0 /\ failover_idx' = 0
       => sinceTrigger >= Cooldown]_vars

(* The operator stops touching the cluster. *)
OperatorQuiet == <>[][~OperatorStep]_vars

(* Every connect, ping and query of the checker ends one way or the other: its    *)
(* rounds begin and end.                                                         *)
ChecksEnd == []<>(pc = "idle") /\ []<>(pc # "idle")

(* The pool of replica r can serve: the router no longer fails on it. *)
RouterQuiet(r) == <>[][~RouterMarks(r)]_vars

(* Once the operator leaves it alone, the primary stays away, a replica stays     *)
(* fit and its pool does not fail, and as long as the checks end, writes end up   *)
(* on a replica for good; also when no replica was fit when the threshold was     *)
(* reached, the router had marked it, or the operator had cleared a failover.     *)
FailsOver ==
  \A r \in Replicas :
     (/\ OperatorQuiet /\ RouterQuiet(r) /\ ChecksEnd
      /\ <>[](~Answers(primary) /\ Fit(replica[r])))
       => <>[](failover_idx # 0)

(* Once the operator leaves it alone and the primary stays up, and as long as the   *)
(* checks end, writes come back to it, from an automatic or a manual failover.    *)
FailsBack ==
  (OperatorQuiet /\ ChecksEnd /\ <>[]Answers(primary)) => <>[](failover_idx = 0)

-----------------------------------------------------------------------------
(* What the documentation says and the code does not do. *)

(* failure-modes.md, "Primary database unreachable": "transparent routing to         *)
(* failover backend afterwards".  A primary, or a replica, that neither answers nor *)
(* closes the connection stalls the checker's one task, and no failover comes.      *)
SilenceFailsOver ==
  \A r \in Replicas :
     (/\ OperatorQuiet /\ RouterQuiet(r)
      /\ <>[](~Answers(primary) /\ Fit(replica[r])))
       => <>[](failover_idx # 0)

(* ha-failover.md: "the primary must pass failover_min_recovery_checks            *)
(* consecutive successful health checks before the failover is cleared".         *)
(* A failed check does not reset recovery_checks.                                *)
RecoveryIsConsecutive ==
  [][pc = "answered" /\ pc' # pc /\ failover_idx # 0 /\ failover_idx' = 0
       => okStreak >= MinRecovery]_vars

(* ha-failover.md: "If a failover is re-triggered within cooldown_secs * 2 of      *)
(* the previous trigger, TurbineProxy increments the ... counter".  Clearing       *)
(* the failover sets failover_triggered_at to 0, so the next trigger sees none.   *)
FlapIsCounted ==
  [][pc # "promote" /\ pc' = "promote" /\ sinceTrigger < 2 * Cooldown
       => flaps' # flaps]_vars

(* failure-modes.md: "Promotes the healthy replica with the lowest replication      *)
(* lag".  A replica whose replication has stopped reports lag 0 and is preferred.  *)
PromotesFreshest ==
  [][pc # "promote" /\ pc' = "promote" =>
       \A r \in Candidates : probed[best'].lag <= probed[r].lag]_vars

(* failure-modes.md, primary unreachable and no healthy replica: recovery is         *)
(* "Automatic when either primary or a replica becomes reachable".  While            *)
(* failover_idx names a replica, no other is ever promoted.                         *)
ReachesGoodReplica ==
  \A r \in Replicas :
     <>[](/\ ~Answers(primary)
          /\ \A q \in Replicas : Fit(replica[q]) <=> q = r)
       => <>(failover_idx = r)
=============================================================================
