--------------------------- MODULE CircuitBreaker ---------------------------
(***************************************************************************)
(* The per-backend circuit breaker of src/proxy/circuit_breaker.rs, shared  *)
(* by every task that routes a query to the backend.  All its fields are    *)
(* relaxed atomics and no lock spans two of them, so one step is one load,  *)
(* one store or one read-modify-write.                                     *)
(*                                                                         *)
(* Clients call allows() before they take a connection.  Checkers record    *)
(* results without asking: the PostgreSQL health checker, and the router    *)
(* while a failover or Group Replication primary stands in for the          *)
(* configured one (get_primary_for_database returns before the gate, and    *)
(* the result is recorded on primary_breaker all the same).                *)
(*                                                                         *)
(* Times are ages that saturate at Recovery: the code only compares         *)
(* now - opened_at with recovery_ms.  The clock is the wall clock, taken not *)
(* to be set back.  A local that is not read again is put back to its        *)
(* initial value.                                                          *)
(***************************************************************************)
EXTENDS Integers, FiniteSets

CONSTANTS
  Clients,        \* tasks that go through allows()
  Checkers,       \* tasks that only record results
  ErrorThreshold, \* circuit_breaker_threshold
  Recovery        \* circuit_breaker_recovery_ms, in clock ticks

Callers == Clients \cup Checkers

ASSUME BreakerAssumption ==
  /\ IsFiniteSet(Clients) /\ IsFiniteSet(Checkers)
  /\ ErrorThreshold \in Nat
  /\ Recovery \in Nat

VARIABLES
  state,               \* AtomicU8: "Closed", "HalfOpen" or "Open"
  consecutive_errors,  \* AtomicU32
  age,                 \* how long ago opened_at is; Recovery also for "never"
  sinceOpen,           \* history: how long ago the last opening began that
                       \*   found no other under way
  at,                  \* where each caller is
  prev,                \* record_success: the state it loaded
  seen,                \* allows: the age of the opened_at it loaded
  stamp,               \* open: the age of the clock value it is about to store
  probe                \* history: the caller was let through as a probe

atomics == <<state, consecutive_errors, age, sinceOpen>>
breakerVars == <<state, consecutive_errors, age, sinceOpen, at, prev, seen, stamp, probe>>

States == {"Closed", "HalfOpen", "Open"}

PCs == {"ready", "loading", "timing", "admitting", "running", "resetting", "closing",
        "counting", "opening", "stamping", "storing", "clearing"}

(* One tick later; a longer time tells nothing more. *)
Older_Unsaturated(t) == t + 1
Older(t) == IF t < Recovery THEN t + 1 ELSE Recovery

Goto(r, l) == at' = [at EXCEPT ![r] = l]

(* Callers that have stored Open and not yet the time. *)
Stamping == {r \in Callers : at[r] \in {"stamping", "storing"}}

-----------------------------------------------------------------------------
(* allows() *)

(* Closed and HalfOpen let the caller through. *)
AllowsPass(r) ==
  /\ at[r] = "ready"
  /\ state # "Open"
  /\ Goto(r, "running")
  /\ probe' = [probe EXCEPT ![r] = state = "HalfOpen"]
  /\ UNCHANGED <<atomics, prev, seen, stamp>>

(* Open: look at opened_at ... *)
AllowsSeeOpen(r) ==
  /\ at[r] = "ready"
  /\ state = "Open"
  /\ Goto(r, "loading")
  /\ UNCHANGED <<atomics, prev, seen, stamp, probe>>

AllowsLoad(r) ==
  /\ at[r] = "loading"
  /\ seen' = [seen EXCEPT ![r] = age]
  /\ Goto(r, "timing")
  /\ UNCHANGED <<atomics, prev, stamp, probe>>

(* ... then at the clock: now_ms - opened >= recovery_ms ... *)
Elapsed(r) == seen[r] >= Recovery

AllowsDecide(r) ==
  /\ at[r] = "timing"
  /\ Goto(r, IF Elapsed(r) THEN "admitting" ELSE "ready")
  /\ seen' = [seen EXCEPT ![r] = Recovery]
  /\ UNCHANGED <<atomics, prev, stamp, probe>>

(* ... and move to HalfOpen. *)
AllowsAdmit(r) ==
  /\ at[r] = "admitting"
  /\ state' = "HalfOpen"
  /\ probe' = [probe EXCEPT ![r] = TRUE]
  /\ Goto(r, "running")
  /\ UNCHANGED <<consecutive_errors, age, sinceOpen, prev, seen, stamp>>

(* A caller that does not ask. *)
Bypass(r) ==
  /\ at[r] = "ready"
  /\ Goto(r, "running")
  /\ UNCHANGED <<atomics, prev, seen, stamp, probe>>

(* A caller that was let through ends without recording anything: the       *)
(* connect fails, or the retry of a lost query does.                       *)
Unrecorded(r) ==
  /\ at[r] = "running"
  /\ Goto(r, "ready")
  /\ probe' = [probe EXCEPT ![r] = FALSE]
  /\ UNCHANGED <<atomics, prev, seen, stamp>>

-----------------------------------------------------------------------------
(* record_success() *)

SuccessLoad(r) ==
  /\ at[r] = "running"
  /\ prev' = [prev EXCEPT ![r] = state]
  /\ probe' = [probe EXCEPT ![r] = FALSE]
  /\ Goto(r, "resetting")
  /\ UNCHANGED <<atomics, seen, stamp>>

SuccessReset(r) ==
  /\ at[r] = "resetting"
  /\ consecutive_errors' = 0
  /\ Goto(r, IF prev[r] = "Closed" THEN "ready" ELSE "closing")
  /\ prev' = [prev EXCEPT ![r] = "Closed"]
  /\ UNCHANGED <<state, age, sinceOpen, seen, stamp, probe>>

SuccessClose(r) ==
  /\ at[r] = "closing"
  /\ state' = "Closed"
  /\ Goto(r, "ready")
  /\ UNCHANGED <<consecutive_errors, age, sinceOpen, prev, seen, stamp, probe>>

-----------------------------------------------------------------------------
(* record_failure() and open() *)

(* Closed: count it.  HalfOpen: open.  Open: nothing. *)
FailureLoad_Reopens(r) ==
  /\ at[r] = "running"
  /\ Goto(r, IF state = "Closed" THEN "counting" ELSE "opening")
  /\ probe' = [probe EXCEPT ![r] = FALSE]
  /\ UNCHANGED <<atomics, prev, seen, stamp>>
FailureLoad(r) ==
  /\ at[r] = "running"
  /\ Goto(r, CASE state = "Closed" -> "counting"
               [] state = "HalfOpen" -> "opening"
               [] state = "Open" -> "ready")
  /\ probe' = [probe EXCEPT ![r] = FALSE]
  /\ UNCHANGED <<atomics, prev, seen, stamp>>

(* fetch_add, compared with the threshold. *)
FailureCount_OldValue(r) ==
  /\ at[r] = "counting"
  /\ consecutive_errors' = consecutive_errors + 1
  /\ Goto(r, IF consecutive_errors >= ErrorThreshold THEN "opening" ELSE "ready")
  /\ UNCHANGED <<state, age, sinceOpen, prev, seen, stamp, probe>>
FailureCount(r) ==
  /\ at[r] = "counting"
  /\ consecutive_errors' = consecutive_errors + 1
  /\ Goto(r, IF consecutive_errors + 1 >= ErrorThreshold THEN "opening" ELSE "ready")
  /\ UNCHANGED <<state, age, sinceOpen, prev, seen, stamp, probe>>

OpenStore(r) ==
  /\ at[r] = "opening"
  /\ state' = "Open"
  /\ sinceOpen' = IF Stamping = {} THEN 0 ELSE sinceOpen
  /\ Goto(r, "stamping")
  /\ UNCHANGED <<consecutive_errors, age, prev, seen, stamp, probe>>

(* current_time_ms(), then the store of what it returned. *)
OpenClock(r) ==
  /\ at[r] = "stamping"
  /\ stamp' = [stamp EXCEPT ![r] = 0]
  /\ Goto(r, "storing")
  /\ UNCHANGED <<atomics, prev, seen, probe>>

OpenStamp_Missing(r) ==
  /\ at[r] = "storing"
  /\ stamp' = [stamp EXCEPT ![r] = Recovery]
  /\ Goto(r, "clearing")
  /\ UNCHANGED <<atomics, prev, seen, probe>>
OpenStamp(r) ==
  /\ at[r] = "storing"
  /\ age' = stamp[r]
  /\ stamp' = [stamp EXCEPT ![r] = Recovery]
  /\ Goto(r, "clearing")
  /\ UNCHANGED <<state, consecutive_errors, sinceOpen, prev, seen, probe>>

OpenClear(r) ==
  /\ at[r] = "clearing"
  /\ consecutive_errors' = 0
  /\ Goto(r, "ready")
  /\ UNCHANGED <<state, age, sinceOpen, prev, seen, stamp, probe>>

-----------------------------------------------------------------------------
(* The clock advances for everyone, the instants in seen and stamp included. *)
ClockTick ==
  /\ age' = Older(age)
  /\ sinceOpen' = Older(sinceOpen)
  /\ seen' = [r \in Callers |-> Older(seen[r])]
  /\ stamp' = [r \in Callers |-> Older(stamp[r])]
  /\ UNCHANGED <<state, consecutive_errors, at, prev, probe>>

BreakerInit ==
  /\ state = "Closed"
  /\ consecutive_errors = 0
  /\ age = Recovery
  /\ sinceOpen = Recovery
  /\ at = [r \in Callers |-> "ready"]
  /\ prev = [r \in Callers |-> "Closed"]
  /\ seen = [r \in Callers |-> Recovery]
  /\ stamp = [r \in Callers |-> Recovery]
  /\ probe = [r \in Callers |-> FALSE]

Ask(r) ==
  \/ AllowsPass(r)
  \/ AllowsSeeOpen(r)
  \/ AllowsLoad(r)
  \/ AllowsDecide(r)
  \/ AllowsAdmit(r)

Record(r) ==
  \/ Unrecorded(r)
  \/ SuccessLoad(r)
  \/ SuccessReset(r)
  \/ SuccessClose(r)
  \/ FailureLoad(r)
  \/ FailureCount(r)
  \/ OpenStore(r)
  \/ OpenClock(r)
  \/ OpenStamp(r)
  \/ OpenClear(r)

BreakerNext ==
  \/ \E r \in Clients : Ask(r)
  \/ \E r \in Checkers : Bypass(r)
  \/ \E r \in Callers : Record(r)
  \/ ClockTick

(* Clients keep sending queries and every query ends, tasks keep running and *)
(* the clock advances.                                                      *)
BreakerFairness ==
  /\ \A r \in Clients : WF_breakerVars(Ask(r))
  /\ \A r \in Callers : WF_breakerVars(Record(r))
  /\ WF_breakerVars(ClockTick)

BreakerSpec == BreakerInit /\ [][BreakerNext]_breakerVars
BreakerLiveSpec == BreakerSpec /\ BreakerFairness

-----------------------------------------------------------------------------
(* Types: the state is one of the three, times are saturated ages. *)
BreakerTypeOK ==
  /\ state \in States
  /\ consecutive_errors \in Nat
  /\ age \in 0..Recovery
  /\ sinceOpen \in 0..Recovery
  /\ at \in [Callers -> PCs]
  /\ prev \in [Callers -> States]
  /\ seen \in [Callers -> 0..Recovery]
  /\ stamp \in [Callers -> 0..Recovery]
  /\ probe \in [Callers -> BOOLEAN]

(* Callers inside open(). *)
Openers == {r \in Callers : at[r] \in {"opening", "stamping", "storing", "clearing"}}

(* The error count that opens the breaker; a threshold of 0 acts like 1. *)
TripAt == IF ErrorThreshold = 0 THEN 1 ELSE ErrorThreshold

(* No trip is lost: whatever the race between failures, successes and         *)
(* open()'s own reset, the error counter reaches the threshold only while a  *)
(* caller is on its way through open(), and exceeds it by no more than the   *)
(* callers there - so the AtomicU32 cannot run away either.                 *)
ErrorsCovered == consecutive_errors < TripAt + Cardinality(Openers)

(* While no open() is between its stores of `state` and of opened_at,         *)
(* opened_at is not older than the last opening: the recovery time is        *)
(* counted from the latest trip, not from an earlier one.  Of openings that  *)
(* overlap, the store of any may come last, and the first of them counts.   *)
OpeningIsStamped == age <= sinceOpen \/ Stamping # {}

(* While clients keep coming the breaker does not stay Open for ever: not      *)
(* even a health check that fails on every round can keep it so.             *)
NotStuckOpen == state = "Open" ~> state # "Open"

-----------------------------------------------------------------------------
(* What comments and documentation say and the code does not do. *)

(* circuit_breaker.rs: HalfOpen is "Probing - one request allowed through to   *)
(* test recovery".  allows() answers true to everyone in HalfOpen.           *)
OneProbe == Cardinality({r \in Clients : at[r] = "running" /\ probe[r]}) <= 1

(* circuit_breaker.rs: "Open: blocks unless recovery_ms has elapsed".  Between  *)
(* the two stores of open() a caller compares the clock with the time of the  *)
(* previous opening, or with 0.                                              *)
OpenBlocks ==
  [][\A r \in Clients : AllowsAdmit(r) /\ state = "Open" => sinceOpen >= Recovery]_breakerVars

(* circuit_breaker.rs: "State machine: Closed -> Open -> HalfOpen -> Closed (on  *)
(* success) or Open (on failure)".  A success that comes late closes a         *)
(* breaker that is Open, skipping the recovery time and the probe.            *)
FollowsStateMachine ==
  [][state' # state =>
       <<state, state'>> \in {<<"Closed", "Open">>, <<"Open", "HalfOpen">>,
                              <<"HalfOpen", "Closed">>, <<"HalfOpen", "Open">>}]_breakerVars
=============================================================================
