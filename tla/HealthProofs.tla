---------------------------- MODULE HealthProofs ----------------------------
(***************************************************************************)
(* Proofs about the two judges of a backend's health, which keep separate    *)
(* state: CircuitBreaker, for any finite number of callers and any threshold  *)
(* and recovery time, and Failover, for any number of replicas and any       *)
(* threshold, recovery count, cooldown and lag limit.                       *)
(***************************************************************************)
EXTENDS CircuitBreaker, Failover, FiniteSetTheorems, TLAPS

-----------------------------------------------------------------------------
(* CircuitBreaker. *)

(* Saturated ages stay saturated ages. *)
LEMMA OlderType ==
  ASSUME NEW t \in 0..Recovery
  PROVE  Older(t) \in 0..Recovery
  BY BreakerAssumption DEF Older

(* The order of two ages survives a tick. *)
LEMMA OlderMono ==
  ASSUME NEW t \in 0..Recovery, NEW u \in 0..Recovery, t <= u
  PROVE  Older(t) <= Older(u)
  BY BreakerAssumption DEF Older

(* Steps of allows() and of a caller that does not ask. *)
LEMMA AskType ==
  ASSUME BreakerTypeOK, NEW r \in Callers, Ask(r) \/ Bypass(r)
  PROVE  BreakerTypeOK'
<1>1. CASE AllowsPass(r)
  BY <1>1 DEF BreakerTypeOK, AllowsPass, Goto, PCs, atomics
<1>2. CASE AllowsSeeOpen(r) \/ Bypass(r)
  BY <1>2 DEF BreakerTypeOK, AllowsSeeOpen, Bypass, Goto, PCs, atomics
<1>3. CASE AllowsLoad(r)
  BY <1>3 DEF BreakerTypeOK, AllowsLoad, Goto, PCs, atomics
<1>4. CASE AllowsDecide(r)
  BY <1>4, BreakerAssumption DEF BreakerTypeOK, AllowsDecide, Goto, PCs, atomics
<1>5. CASE AllowsAdmit(r)
  BY <1>5 DEF BreakerTypeOK, AllowsAdmit, Goto, PCs, States
<1>6. QED
  BY <1>1, <1>2, <1>3, <1>4, <1>5 DEF Ask

(* Steps of record_success(), record_failure() and open(). *)
LEMMA RecordType ==
  ASSUME BreakerTypeOK, NEW r \in Callers, Record(r)
  PROVE  BreakerTypeOK'
<1>1. CASE Unrecorded(r) \/ SuccessLoad(r)
  BY <1>1 DEF BreakerTypeOK, Unrecorded, SuccessLoad, Goto, PCs, atomics
<1>2. CASE SuccessReset(r) \/ SuccessClose(r)
  BY <1>2 DEF BreakerTypeOK, SuccessReset, SuccessClose, Goto, PCs, States
<1>3. CASE FailureLoad(r)
  <2>1. \E l \in {"counting", "opening", "ready"} : at' = [at EXCEPT ![r] = l]
    BY <1>3 DEF BreakerTypeOK, FailureLoad, Goto, States
  <2>2. QED
    BY <1>3, <2>1 DEF BreakerTypeOK, FailureLoad, PCs, atomics
<1>4. CASE FailureCount(r)
  BY <1>4 DEF BreakerTypeOK, FailureCount, Goto, PCs
<1>5. CASE OpenStore(r) \/ OpenClear(r)
  BY <1>5, BreakerAssumption DEF BreakerTypeOK, OpenStore, OpenClear, Goto, PCs, States
<1>6. CASE OpenClock(r) \/ OpenStamp(r)
  BY <1>6, BreakerAssumption DEF BreakerTypeOK, OpenClock, OpenStamp, Goto, PCs, atomics
<1>7. QED
  BY <1>1, <1>2, <1>3, <1>4, <1>5, <1>6 DEF Record

(* Every step keeps the types. *)
LEMMA BreakerNextType == BreakerTypeOK /\ [BreakerNext]_breakerVars => BreakerTypeOK'
<1> SUFFICES ASSUME BreakerTypeOK, [BreakerNext]_breakerVars
             PROVE  BreakerTypeOK'
  OBVIOUS
<1>1. ASSUME NEW r \in Callers, Ask(r) \/ Bypass(r) \/ Record(r)
      PROVE  BreakerTypeOK'
  BY <1>1, AskType, RecordType
<1>2. CASE ClockTick
  <2>1. age' \in 0..Recovery /\ sinceOpen' \in 0..Recovery
    BY <1>2, OlderType DEF BreakerTypeOK, ClockTick
  <2>2. /\ seen' \in [Callers -> 0..Recovery]
        /\ stamp' \in [Callers -> 0..Recovery]
    BY <1>2, OlderType DEF BreakerTypeOK, ClockTick
  <2>3. QED
    BY <1>2, <2>1, <2>2 DEF BreakerTypeOK, ClockTick
<1>3. CASE UNCHANGED breakerVars
  BY <1>3 DEF BreakerTypeOK, breakerVars
<1>4. QED
  BY <1>1, <1>2, <1>3 DEF BreakerNext, Callers

(* The breaker starts well typed. *)
LEMMA BreakerInitType == BreakerInit => BreakerTypeOK
  BY BreakerAssumption DEF BreakerInit, BreakerTypeOK, States, PCs

-----------------------------------------------------------------------------
(***************************************************************************)
(* ErrorsCovered is inductive given the types: a failure that brings the     *)
(* counter to the threshold or beyond adds its caller to Openers, and a      *)
(* caller leaves Openers only by setting the counter to 0.                  *)
(***************************************************************************)
ErrorsInv == BreakerTypeOK /\ ErrorsCovered

(* Openers is a finite set. *)
LEMMA OpenersFinite ==
  /\ IsFiniteSet(Openers) /\ IsFiniteSet(Openers')
  /\ Cardinality(Openers) \in Nat /\ Cardinality(Openers') \in Nat
<1>1. IsFiniteSet(Callers)
  BY BreakerAssumption, FS_Union DEF Callers
<1>2. Openers \in SUBSET Callers /\ Openers' \in SUBSET Callers
  BY DEF Openers
<1>3. QED
  BY <1>1, <1>2, FS_Subset, FS_CardinalityType

(* A threshold is at least one error. *)
LEMMA TripAtPositive == TripAt \in Nat /\ TripAt >= 1
  BY BreakerAssumption DEF TripAt

(* A step that does not raise the counter and takes nobody out of open()     *)
(* keeps the bound.                                                         *)
LEMMA CoveredWhenGrowing ==
  ASSUME ErrorsInv, BreakerTypeOK', Openers \subseteq Openers',
         consecutive_errors' <= consecutive_errors
  PROVE  ErrorsInv'
<1>1. Cardinality(Openers) <= Cardinality(Openers')
  BY OpenersFinite, FS_Subset
<1>2. consecutive_errors < TripAt + Cardinality(Openers)
  BY DEF ErrorsInv, ErrorsCovered
<1>3. consecutive_errors' \in Nat /\ consecutive_errors \in Nat
  BY DEF ErrorsInv, BreakerTypeOK
<1>4. consecutive_errors' < TripAt + Cardinality(Openers')
  BY <1>1, <1>2, <1>3, OpenersFinite, TripAtPositive
<1>5. QED
  BY <1>4 DEF ErrorsInv, ErrorsCovered, TripAt

(* A step that sets the counter to 0 establishes the bound. *)
LEMMA CoveredWhenReset ==
  ASSUME BreakerTypeOK', consecutive_errors' = 0
  PROVE  ErrorsInv'
<1>1. 0 < TripAt + Cardinality(Openers')
  BY OpenersFinite, TripAtPositive
<1>2. QED
  BY <1>1 DEF ErrorsInv, ErrorsCovered, TripAt

(* Counting a failure. *)
LEMMA CountCovered ==
  ASSUME ErrorsInv, BreakerTypeOK', NEW r \in Callers, FailureCount(r)
  PROVE  ErrorsInv'
<1>1. /\ at[r] = "counting" /\ consecutive_errors' = consecutive_errors + 1
      /\ consecutive_errors \in Nat
      /\ \A t \in Callers : t # r => at'[t] = at[t]
  BY DEF FailureCount, Goto, ErrorsInv, BreakerTypeOK
<1>2. CASE consecutive_errors + 1 >= ErrorThreshold
  <2>1. at'[r] = "opening"
    BY <1>2 DEF FailureCount, Goto, ErrorsInv, BreakerTypeOK
  <2>2. Openers' = Openers \cup {r} /\ r \notin Openers
    BY <1>1, <2>1 DEF Openers
  <2>3. Cardinality(Openers') = Cardinality(Openers) + 1
    BY <2>2, OpenersFinite, FS_AddElement
  <2>4. consecutive_errors < TripAt + Cardinality(Openers)
    BY DEF ErrorsInv, ErrorsCovered
  <2>5. consecutive_errors' < TripAt + Cardinality(Openers')
    <3>1. \A e, n, t \in Nat : e < t + n => e + 1 < t + (n + 1)
      OBVIOUS
    <3>2. QED
      BY <1>1, <2>3, <2>4, <3>1, OpenersFinite, TripAtPositive
  <2>6. QED
    BY <2>5 DEF ErrorsInv, ErrorsCovered, TripAt
<1>3. CASE ~(consecutive_errors + 1 >= ErrorThreshold)
  <2>1. consecutive_errors' < TripAt
    <3>1. ErrorThreshold \in Nat
      BY BreakerAssumption
    <3>2. consecutive_errors + 1 < ErrorThreshold
      BY <1>1, <1>3, <3>1
    <3>3. ErrorThreshold # 0
      BY <1>1, <3>1, <3>2
    <3>4. QED
      BY <1>1, <3>2, <3>3 DEF TripAt
  <2>2. consecutive_errors' < TripAt + Cardinality(Openers')
    BY <1>1, <2>1, OpenersFinite, TripAtPositive
  <2>3. QED
    BY <2>2 DEF ErrorsInv, ErrorsCovered, TripAt
<1>4. QED
  BY <1>2, <1>3

(* Every step keeps the bound on the counter. *)
LEMMA NextCovered == ErrorsInv /\ [BreakerNext]_breakerVars => ErrorsInv'
<1> SUFFICES ASSUME ErrorsInv, [BreakerNext]_breakerVars
             PROVE  ErrorsInv'
  OBVIOUS
<1>1. BreakerTypeOK'
  BY BreakerNextType DEF ErrorsInv
<1>2. consecutive_errors \in Nat
  BY DEF ErrorsInv, BreakerTypeOK
<1>3. ASSUME NEW r \in Callers, Ask(r) \/ Bypass(r)
      PROVE  ErrorsInv'
  <2>1. consecutive_errors' = consecutive_errors
    BY <1>3 DEF Ask, Bypass, AllowsPass, AllowsSeeOpen, AllowsLoad, AllowsDecide,
                AllowsAdmit, atomics
  <2>2. /\ at[r] \in {"ready", "loading", "timing", "admitting"}
        /\ \A t \in Callers : t # r => at'[t] = at[t]
    BY <1>3 DEF Ask, Bypass, AllowsPass, AllowsSeeOpen, AllowsLoad, AllowsDecide,
                AllowsAdmit, Goto, ErrorsInv, BreakerTypeOK
  <2>3. Openers \subseteq Openers'
    BY <2>2 DEF Openers
  <2>4. QED
    BY <1>1, <1>2, <2>1, <2>3, CoveredWhenGrowing
<1>4. ASSUME NEW r \in Callers, Record(r)
      PROVE  ErrorsInv'
  <2>1. CASE FailureCount(r)
    BY <1>1, <2>1, CountCovered
  <2>2. CASE SuccessReset(r) \/ OpenClear(r)
    BY <1>1, <2>2, CoveredWhenReset DEF SuccessReset, OpenClear
  <2>3. CASE \/ Unrecorded(r) \/ SuccessLoad(r) \/ SuccessClose(r) \/ FailureLoad(r)
             \/ OpenStore(r) \/ OpenClock(r) \/ OpenStamp(r)
    <3>1. consecutive_errors' = consecutive_errors
      BY <2>3 DEF Unrecorded, SuccessLoad, SuccessClose, FailureLoad, OpenStore, OpenClock,
                  OpenStamp, atomics
    <3>2. /\ \/ at[r] \in {"running", "closing"}
             \/ at'[r] \in {"stamping", "storing", "clearing"}
          /\ \A t \in Callers : t # r => at'[t] = at[t]
      BY <2>3 DEF Unrecorded, SuccessLoad, SuccessClose, FailureLoad, OpenStore, OpenClock,
                  OpenStamp, Goto, ErrorsInv, BreakerTypeOK
    <3>3. Openers \subseteq Openers'
      BY <3>2 DEF Openers
    <3>4. QED
      BY <1>1, <1>2, <3>1, <3>3, CoveredWhenGrowing
  <2>4. QED
    BY <1>4, <2>1, <2>2, <2>3 DEF Record
<1>5. CASE ClockTick \/ UNCHANGED breakerVars
  <2>1. consecutive_errors' = consecutive_errors /\ at' = at
    BY <1>5 DEF ClockTick, breakerVars
  <2>2. Openers \subseteq Openers'
    BY <2>1 DEF Openers
  <2>3. QED
    BY <1>1, <1>2, <2>1, <2>2, CoveredWhenGrowing
<1>6. QED
  BY <1>3, <1>4, <1>5 DEF BreakerNext, Callers

(* Whatever races through the breaker, no trip is lost and the counter is     *)
(* bounded by the threshold and the callers inside open().                  *)
THEOREM NoLostTrip == BreakerSpec => []ErrorsCovered
<1>1. BreakerInit => ErrorsInv
  <2> SUFFICES ASSUME BreakerInit PROVE ErrorsInv
    OBVIOUS
  <2>1. 0 < TripAt + Cardinality(Openers)
    BY OpenersFinite, TripAtPositive
  <2>2. QED
    BY <2>1, BreakerInitType DEF ErrorsInv, ErrorsCovered, BreakerInit
<1>2. ErrorsInv => ErrorsCovered
  BY DEF ErrorsInv
<1>3. QED
  BY <1>1, <1>2, NextCovered, PTL DEF BreakerSpec

-----------------------------------------------------------------------------
(***************************************************************************)
(* OpeningIsStamped needs to know what is about to be stored: the clock       *)
(* value an opener carries was read after the opening it has to cover.       *)
(***************************************************************************)
StampIsRecent ==
  \A r \in Callers : at[r] = "storing" => stamp[r] <= sinceOpen

StampInv == BreakerTypeOK /\ OpeningIsStamped /\ StampIsRecent

(* A step that leaves the times alone, and takes nobody into or out of the    *)
(* window of open(), keeps the invariant.                                    *)
LEMMA StampedWhenAside ==
  ASSUME StampInv, BreakerTypeOK', NEW r \in Callers,
         age' = age, sinceOpen' = sinceOpen, stamp' = stamp,
         at[r] \notin {"stamping", "storing"}, at'[r] # "storing",
         \A t \in Callers : t # r => at'[t] = at[t]
  PROVE  StampInv'
<1>1. Stamping \subseteq Stamping'
  BY DEF Stamping
<1>2. OpeningIsStamped'
  BY <1>1 DEF StampInv, OpeningIsStamped
<1>3. StampIsRecent'
  BY DEF StampInv, StampIsRecent
<1>4. QED
  BY <1>2, <1>3 DEF StampInv

(* The steps of open() that move the times. *)
LEMMA StampedInOpen ==
  ASSUME StampInv, BreakerTypeOK', NEW r \in Callers,
         OpenStore(r) \/ OpenClock(r) \/ OpenStamp(r)
  PROVE  StampInv'
<1>1. /\ age \in 0..Recovery /\ sinceOpen \in 0..Recovery
      /\ \A t \in Callers : stamp[t] \in 0..Recovery
      /\ \A t \in Callers : t # r => at'[t] = at[t]
  BY DEF StampInv, BreakerTypeOK, OpenStore, OpenClock, OpenStamp, Goto
<1>2. CASE OpenStore(r)
  <2>1. at'[r] = "stamping" /\ stamp' = stamp
    BY <1>2 DEF OpenStore, Goto, StampInv, BreakerTypeOK
  <2>2. r \in Stamping'
    BY <2>1 DEF Stamping
  <2>3. StampIsRecent'
    <3>1. CASE Stamping = {}
      BY <1>1, <2>1, <3>1 DEF Stamping, StampIsRecent
    <3>2. CASE Stamping # {}
      BY <1>1, <1>2, <2>1, <3>2 DEF OpenStore, StampInv, StampIsRecent
    <3>3. QED
      BY <3>1, <3>2
  <2>4. QED
    BY <2>2, <2>3 DEF StampInv, OpeningIsStamped
<1>3. CASE OpenClock(r)
  <2>1. /\ at'[r] = "storing" /\ sinceOpen' = sinceOpen
        /\ stamp'[r] = 0 /\ \A t \in Callers : t # r => stamp'[t] = stamp[t]
    BY <1>3 DEF OpenClock, Goto, atomics, StampInv, BreakerTypeOK
  <2>2. r \in Stamping'
    BY <2>1 DEF Stamping
  <2>3. StampIsRecent'
    BY <1>1, <2>1 DEF StampInv, StampIsRecent
  <2>4. QED
    BY <2>2, <2>3 DEF StampInv, OpeningIsStamped
<1>4. CASE OpenStamp(r)
  <2>1. /\ at[r] = "storing" /\ at'[r] = "clearing"
        /\ age' = stamp[r] /\ sinceOpen' = sinceOpen
        /\ \A t \in Callers : t # r => stamp'[t] = stamp[t]
    BY <1>4 DEF OpenStamp, Goto, StampInv, BreakerTypeOK
  <2>2. age' <= sinceOpen'
    BY <2>1 DEF StampInv, StampIsRecent
  <2>3. StampIsRecent'
    BY <1>1, <2>1 DEF StampInv, StampIsRecent
  <2>4. QED
    BY <2>2, <2>3 DEF StampInv, OpeningIsStamped
<1>5. QED
  BY <1>2, <1>3, <1>4

(* Every step keeps opened_at at or after the last opening, or has a caller   *)
(* on its way to store it.                                                  *)
LEMMA NextStamped == StampInv /\ [BreakerNext]_breakerVars => StampInv'
<1> SUFFICES ASSUME StampInv, [BreakerNext]_breakerVars
             PROVE  StampInv'
  OBVIOUS
<1>1. BreakerTypeOK'
  BY BreakerNextType DEF StampInv
<1>2. ASSUME NEW r \in Callers, Ask(r) \/ Bypass(r)
      PROVE  StampInv'
  <2>1. age' = age /\ sinceOpen' = sinceOpen /\ stamp' = stamp
    BY <1>2 DEF Ask, Bypass, AllowsPass, AllowsSeeOpen, AllowsLoad, AllowsDecide,
                AllowsAdmit, atomics
  <2>2. /\ at[r] \notin {"stamping", "storing"} /\ at'[r] # "storing"
        /\ \A t \in Callers : t # r => at'[t] = at[t]
    BY <1>2 DEF Ask, Bypass, AllowsPass, AllowsSeeOpen, AllowsLoad, AllowsDecide,
                AllowsAdmit, Goto, StampInv, BreakerTypeOK
  <2>3. QED
    BY <1>1, <2>1, <2>2, StampedWhenAside
<1>3. ASSUME NEW r \in Callers, Record(r)
      PROVE  StampInv'
  <2>1. CASE OpenStore(r) \/ OpenClock(r) \/ OpenStamp(r)
    BY <1>1, <2>1, StampedInOpen
  <2>2. CASE \/ Unrecorded(r) \/ SuccessLoad(r) \/ SuccessReset(r) \/ SuccessClose(r)
             \/ FailureLoad(r) \/ FailureCount(r) \/ OpenClear(r)
    <3>1. age' = age /\ sinceOpen' = sinceOpen /\ stamp' = stamp
      BY <2>2 DEF Unrecorded, SuccessLoad, SuccessReset, SuccessClose, FailureLoad,
                  FailureCount, OpenClear, atomics
    <3>2. /\ at[r] \notin {"stamping", "storing"}
          /\ \A t \in Callers : t # r => at'[t] = at[t]
      BY <2>2 DEF Unrecorded, SuccessLoad, SuccessReset, SuccessClose, FailureLoad,
                  FailureCount, OpenClear, Goto, StampInv, BreakerTypeOK
    <3>3. at'[r] # "storing"
      <4>1. CASE FailureLoad(r)
        <5>1. \E l \in {"counting", "opening", "ready"} : at' = [at EXCEPT ![r] = l]
          BY <4>1 DEF StampInv, BreakerTypeOK, FailureLoad, Goto, States
        <5>2. QED
          BY <5>1 DEF StampInv, BreakerTypeOK
      <4>2. QED
        BY <2>2, <4>1 DEF Unrecorded, SuccessLoad, SuccessReset, SuccessClose,
                          FailureCount, OpenClear, Goto, StampInv, BreakerTypeOK
    <3>4. QED
      BY <1>1, <3>1, <3>2, <3>3, StampedWhenAside
  <2>3. QED
    BY <1>3, <2>1, <2>2 DEF Record
<1>4. CASE ClockTick
  <2>1. /\ age' = Older(age) /\ sinceOpen' = Older(sinceOpen) /\ at' = at
        /\ \A r \in Callers : stamp'[r] = Older(stamp[r])
    BY <1>4 DEF ClockTick
  <2>2. /\ age \in 0..Recovery /\ sinceOpen \in 0..Recovery
        /\ \A r \in Callers : stamp[r] \in 0..Recovery
    BY DEF StampInv, BreakerTypeOK
  <2>3. OpeningIsStamped'
    <3>1. CASE age <= sinceOpen
      BY <2>1, <2>2, <3>1, OlderMono DEF OpeningIsStamped
    <3>2. CASE Stamping # {}
      BY <2>1, <3>2 DEF OpeningIsStamped, Stamping
    <3>3. QED
      BY <3>1, <3>2 DEF StampInv, OpeningIsStamped
  <2>4. StampIsRecent'
    BY <2>1, <2>2, OlderMono DEF StampInv, StampIsRecent
  <2>5. QED
    BY <1>1, <2>3, <2>4 DEF StampInv
<1>5. CASE UNCHANGED breakerVars
  BY <1>1, <1>5 DEF breakerVars, StampInv, OpeningIsStamped, StampIsRecent, Stamping
<1>6. QED
  BY <1>2, <1>3, <1>4, <1>5 DEF BreakerNext, Callers

(* The recovery time of the breaker is counted from its latest opening,        *)
(* outside the window in which open() has stored the state and not yet the    *)
(* time.                                                                     *)
THEOREM RecoveryCountsFromLastOpening == BreakerSpec => [](BreakerTypeOK /\ OpeningIsStamped)
<1>1. BreakerInit => StampInv
  BY BreakerInitType, BreakerAssumption DEF BreakerInit, StampInv, OpeningIsStamped, StampIsRecent
<1>2. StampInv => BreakerTypeOK /\ OpeningIsStamped
  BY DEF StampInv
<1>3. QED
  BY <1>1, <1>2, NextStamped, PTL DEF BreakerSpec

-----------------------------------------------------------------------------
(* Failover. *)

(* A capped counter stays within its cap. *)
LEMMA CappedType ==
  ASSUME NEW n \in Nat, NEW cap \in Nat
  PROVE  Capped(n, cap) \in 0..cap
  BY DEF Capped

(* The caps are numbers. *)
LEMMA CapsType == FailureCap \in Nat /\ AgeCap \in Nat
  BY FailoverAssumption DEF FailureCap, AgeCap

(* What a replica reports is a lag. *)
LEMMA ReportedLagType ==
  ASSUME NEW c \in Condition
  PROVE  ReportedLag(c) \in 0..Stopped
  BY FailoverAssumption DEF ReportedLag, Condition

-----------------------------------------------------------------------------
(* The types of the variables fall into groups that few actions share. *)
EnvOK == primary \in {"writable", "readonly", "down"} /\ replica \in [Replicas -> Condition]
HealthOK ==
  /\ failures \in 0..FailureCap
  /\ primaryHealthy \in BOOLEAN
  /\ healthy \in [Replicas -> BOOLEAN]
  /\ lag \in [Replicas -> 0..Stopped]
FailoverOK ==
  /\ failover_idx \in 0..N
  /\ recovery_checks \in 0..MinRecovery
  /\ triggered \in 0..AgeCap
  /\ flaps \in 0..FlapMod - 1
CheckerOK ==
  /\ pc \in {"idle", "answered", "failed", "promote", "replicas"}
  /\ best \in 0..N /\ (pc = "promote" <=> best # 0)
  /\ turn \in Nat /\ (pc = "replicas" => turn \in Replicas)
RecheckOK ==
  /\ rc \in {"idle", "answered", "failed", "replicas"}
  /\ rturn \in Nat /\ (rc = "replicas" => rturn \in Replicas)
HistoryOK ==
  /\ okStreak \in 0..MinRecovery
  /\ failStreak \in 0..FailureCap
  /\ sinceTrigger \in 0..AgeCap
  /\ probed \in [Replicas -> Condition]

(* Together they are the type invariant, before and after a step. *)
LEMMA TypeParts ==
  /\ TypeOK <=> EnvOK /\ HealthOK /\ FailoverOK /\ CheckerOK /\ RecheckOK /\ HistoryOK
  /\ TypeOK' <=> /\ EnvOK' /\ HealthOK' /\ FailoverOK'
                 /\ CheckerOK' /\ RecheckOK' /\ HistoryOK'
  BY DEF TypeOK, EnvOK, HealthOK, FailoverOK, CheckerOK, RecheckOK, HistoryOK

(* A group whose variables do not change keeps its types. *)
LEMMA PartsUnchanged ==
  /\ EnvOK /\ UNCHANGED env => EnvOK'
  /\ HealthOK /\ UNCHANGED health => HealthOK'
  /\ FailoverOK /\ UNCHANGED failover => FailoverOK'
  /\ CheckerOK /\ UNCHANGED checker => CheckerOK'
  /\ RecheckOK /\ UNCHANGED recheck => RecheckOK'
  /\ HistoryOK /\ UNCHANGED history => HistoryOK'
<1>1. EnvOK /\ UNCHANGED env => EnvOK'
  BY DEF EnvOK, env
<1>2. HealthOK /\ UNCHANGED health => HealthOK'
  BY DEF HealthOK, health
<1>3. FailoverOK /\ UNCHANGED failover => FailoverOK'
  BY DEF FailoverOK, failover
<1>4. CheckerOK /\ UNCHANGED checker => CheckerOK'
  BY DEF CheckerOK, checker
<1>5. RecheckOK /\ UNCHANGED recheck => RecheckOK'
  BY DEF RecheckOK, recheck
<1>6. HistoryOK /\ UNCHANGED history => HistoryOK'
  BY DEF HistoryOK, history
<1>7. QED
  BY <1>1, <1>2, <1>3, <1>4, <1>5, <1>6

(* Starting the visits of the replicas. *)
LEMMA VisitType ==
  ASSUME VisitReplicas, best' = 0
  PROVE  CheckerOK'
  BY FailoverAssumption DEF VisitReplicas, CheckerOK, Replicas

(* Counting a ping. *)
LEMMA CountPingType ==
  ASSUME HistoryOK, NEW ok \in BOOLEAN, CountPing(ok)
  PROVE  HistoryOK'
<1>1. okStreak' \in 0..MinRecovery
  BY CappedType, FailoverAssumption DEF HistoryOK, CountPing
<1>2. failStreak' \in 0..FailureCap
  BY CappedType, CapsType DEF HistoryOK, CountPing
<1>3. QED
  BY <1>1, <1>2 DEF HistoryOK, CountPing

(* The steps of the health checker. *)
LEMMA CheckerType ==
  ASSUME TypeOK, CheckerStep
  PROVE  TypeOK'
<1> USE TypeParts
<1>1. CASE Ping
  <2>1. CheckerOK'
    BY <1>1 DEF Ping, CheckerOK
  <2>2. Answers(primary) \in BOOLEAN
    BY DEF Answers
  <2>3. HistoryOK'
    BY <1>1, <2>2, CountPingType DEF Ping
  <2>4. QED
    BY <1>1, <2>1, <2>3, PartsUnchanged DEF Ping
<1>2. CASE PrimaryAnswered
  <2>1. failures' \in 0..FailureCap
    BY <1>2, CapsType DEF PrimaryAnswered
  <2>2. HealthOK'
    BY <1>2, <2>1 DEF PrimaryAnswered, HealthOK
  <2>3. recovery_checks' \in 0..MinRecovery
    <3>1. recovery_checks \in 0..MinRecovery /\ recovery_checks + 1 \in Nat
      BY FailoverAssumption DEF FailoverOK
    <3>2. Capped(recovery_checks + 1, MinRecovery) \in 0..MinRecovery
      BY <3>1, CappedType, FailoverAssumption
    <3>3. recovery_checks' \in {0, recovery_checks, Capped(recovery_checks + 1, MinRecovery)}
      BY <1>2 DEF PrimaryAnswered, Recover
    <3>4. QED
      BY <3>1, <3>2, <3>3, FailoverAssumption
  <2>4. triggered' \in 0..AgeCap /\ failover_idx' \in 0..N
    BY <1>2, CapsType, FailoverAssumption DEF PrimaryAnswered, Recover, FailoverOK
  <2>5. FailoverOK'
    BY <1>2, <2>3, <2>4 DEF PrimaryAnswered, FailoverOK
  <2>6. best' = 0
    BY <1>2 DEF PrimaryAnswered, CheckerOK
  <2>7. CheckerOK'
    BY <1>2, <2>6, VisitType DEF PrimaryAnswered
  <2>8. QED
    BY <1>2, <2>2, <2>5, <2>7, PartsUnchanged DEF PrimaryAnswered
<1>3. ASSUME PrimaryFailed \/ Trigger PROVE HealthOK'
  <2>1. failures' \in 0..FailureCap
    BY <1>3, CappedType, CapsType DEF PrimaryFailed, Trigger, HealthOK
  <2>2. QED
    BY <1>3, <2>1 DEF PrimaryFailed, Trigger, HealthOK
<1>4. CASE PrimaryFailed
  <2>1. best' = 0
    BY <1>4 DEF PrimaryFailed, CheckerOK
  <2>2. CheckerOK'
    BY <1>4, <2>1, VisitType DEF PrimaryFailed
  <2>3. QED
    BY <1>3, <1>4, <2>2, PartsUnchanged DEF PrimaryFailed
<1>5. CASE Trigger
  <2>1. flaps' \in 0..FlapMod - 1
    BY <1>5, FailoverAssumption DEF Trigger, FailoverOK
  <2>2. FailoverOK'
    BY <1>5, <2>1, CapsType, FailoverAssumption DEF Trigger, FailoverOK
  <2>3. HistoryOK'
    BY <1>5, CapsType DEF Trigger, HistoryOK
  <2>4. CheckerOK'
    <3>1. CASE \E r \in Replicas : best' = r /\ pc' = "promote" /\ UNCHANGED turn
      BY <1>5, <3>1, FailoverAssumption DEF CheckerOK, Replicas
    <3>2. CASE VisitReplicas /\ UNCHANGED best
      <4>1. best' = 0
        BY <1>5, <3>2 DEF Trigger, CheckerOK
      <4>2. QED
        BY <3>2, <4>1, VisitType
    <3>3. QED
      BY <1>5, <3>1, <3>2 DEF Trigger
  <2>5. QED
    BY <1>3, <1>5, <2>2, <2>3, <2>4, PartsUnchanged DEF Trigger
<1>6. CASE Promote
  <2>1. CheckerOK'
    BY <1>6, VisitType DEF Promote
  <2>2. FailoverOK'
    BY <1>6 DEF Promote, FailoverOK, CheckerOK
  <2>3. QED
    BY <1>6, <2>1, <2>2, PartsUnchanged DEF Promote
<1>7. ASSUME NEW r \in Replicas, CheckReplica(r)
      PROVE  TypeOK'
  <2>1. replica[r] \in Condition
    BY DEF EnvOK
  <2>2. /\ healthy' = [healthy EXCEPT ![r] = FALSE]
        /\ lag' = lag
     \/ /\ healthy' = [healthy EXCEPT ![r] = LagAccepted(ReportedLag(replica[r]))]
        /\ lag' = [lag EXCEPT ![r] = ReportedLag(replica[r])]
    BY <1>7 DEF CheckReplica
  <2>3. lag' \in [Replicas -> 0..Stopped]
    BY <2>1, <2>2, ReportedLagType DEF HealthOK
  <2>4. LagAccepted(ReportedLag(replica[r])) \in BOOLEAN
    BY DEF LagAccepted
  <2>5. healthy' \in [Replicas -> BOOLEAN]
    BY <2>2, <2>4 DEF HealthOK
  <2>6. HealthOK'
    BY <1>7, <2>3, <2>5 DEF CheckReplica, HealthOK
  <2>7. HistoryOK'
    BY <1>7, <2>1 DEF CheckReplica, HistoryOK
  <2>8. CheckerOK'
    BY <1>7, FailoverAssumption DEF CheckReplica, NextReplica, CheckerOK, Replicas
  <2>9. QED
    BY <1>7, <2>6, <2>7, <2>8, PartsUnchanged DEF CheckReplica
<1>8. QED
  BY <1>1, <1>2, <1>4, <1>5, <1>6, <1>7 DEF CheckerStep

(* The steps of the operator, the router, the backends and the clock. *)
LEMMA OthersType ==
  ASSUME TypeOK,
         \/ OperatorStep
         \/ \E r \in Replicas : RouterMarks(r) \/ ReplicaChanges(r)
         \/ PrimaryChanges
         \/ Tick
  PROVE  TypeOK'
<1> USE TypeParts
<1>1. CASE RecheckPing
  <2>1. RecheckOK'
    BY <1>1 DEF RecheckPing, RecheckOK
  <2>2. HistoryOK'
    BY <1>1, CountPingType DEF RecheckPing
  <2>3. QED
    BY <1>1, <2>1, <2>2, PartsUnchanged DEF RecheckPing
<1>2. CASE RecheckPrimary
  <2>1. failures' \in 0..FailureCap
    BY <1>2, CappedType, CapsType DEF RecheckPrimary, HealthOK
  <2>2. HealthOK'
    BY <1>2, <2>1 DEF RecheckPrimary, HealthOK
  <2>3. RecheckOK'
    BY <1>2, FailoverAssumption DEF RecheckPrimary, RecheckOK, Replicas
  <2>4. QED
    BY <1>2, <2>2, <2>3, PartsUnchanged DEF RecheckPrimary
<1>3. ASSUME NEW r \in Replicas, RecheckReplica(r)
      PROVE  TypeOK'
  <2>1. replica[r].up \in BOOLEAN
    BY DEF EnvOK, Condition
  <2>2. HealthOK'
    BY <1>3, <2>1 DEF RecheckReplica, HealthOK
  <2>3. RecheckOK'
    BY <1>3, FailoverAssumption DEF RecheckReplica, RecheckOK, Replicas
  <2>4. QED
    BY <1>3, <2>2, <2>3, PartsUnchanged DEF RecheckReplica
<1>4. ASSUME NEW force \in BOOLEAN, NEW r \in Replicas, ManualTrigger(force, r)
      PROVE  TypeOK'
  <2>1. FailoverOK'
    BY <1>4, FailoverAssumption DEF ManualTrigger, FailoverOK, Replicas
  <2>2. HistoryOK'
    BY <1>4, CapsType DEF ManualTrigger, HistoryOK
  <2>3. QED
    BY <1>4, <2>1, <2>2, PartsUnchanged DEF ManualTrigger
<1>5. CASE ManualClear
  <2>1. FailoverOK'
    BY <1>5, FailoverAssumption DEF ManualClear, FailoverOK
  <2>2. QED
    BY <1>5, <2>1, PartsUnchanged DEF ManualClear
<1>6. ASSUME NEW r \in Replicas, RouterMarks(r)
      PROVE  TypeOK'
  <2>1. HealthOK'
    BY <1>6 DEF RouterMarks, HealthOK
  <2>2. QED
    BY <1>6, <2>1, PartsUnchanged DEF RouterMarks
<1>7. ASSUME NEW r \in Replicas, ReplicaChanges(r)
      PROVE  TypeOK'
  <2>1. EnvOK'
    BY <1>7, FailoverAssumption DEF ReplicaChanges, EnvOK
  <2>2. QED
    BY <1>7, <2>1, PartsUnchanged DEF ReplicaChanges
<1>8. CASE PrimaryChanges
  <2>1. EnvOK'
    BY <1>8 DEF PrimaryChanges, EnvOK
  <2>2. QED
    BY <1>8, <2>1, PartsUnchanged DEF PrimaryChanges
<1>9. CASE Tick
  <2>1. triggered' \in 0..AgeCap /\ sinceTrigger' \in 0..AgeCap
    BY <1>9, CappedType, CapsType DEF Tick, FailoverOK, HistoryOK
  <2>2. FailoverOK' /\ HistoryOK'
    BY <1>9, <2>1 DEF Tick, FailoverOK, HistoryOK
  <2>3. QED
    BY <1>9, <2>2, PartsUnchanged DEF Tick
<1>10. QED
  BY <1>1, <1>2, <1>3, <1>4, <1>5, <1>6, <1>7, <1>8, <1>9 DEF OperatorStep

(* Every step keeps the types. *)
LEMMA NextType == TypeOK /\ [Next]_vars => TypeOK'
<1> SUFFICES ASSUME TypeOK, [Next]_vars
             PROVE  TypeOK'
  OBVIOUS
<1>1. CASE UNCHANGED vars
  BY <1>1, TypeParts, PartsUnchanged DEF vars
<1>2. CASE Next
  BY <1>2, CheckerType, OthersType DEF Next
<1>3. QED
  BY <1>1, <1>2

(* The initial state is well typed. *)
LEMMA InitType == Init => TypeOK
  BY FailoverAssumption, CapsType DEF Init, TypeOK, Condition, Replicas

(* The health checker's state is well typed, with and without an operator. *)
THEOREM TypeCorrect == Spec => []TypeOK
  BY InitType, NextType, PTL DEF Spec

-----------------------------------------------------------------------------
(* A step that marks replicas unhealthy at most keeps the unfit ones out. *)
LEMMA ExcludedWhenFewer ==
  ASSUME UnfitExcluded, probed' = probed,
         \A r \in Replicas : healthy'[r] => healthy[r]
  PROVE  UnfitExcluded'
  BY DEF UnfitExcluded, Fit

(* Every step keeps the unfit replicas out, as long as nobody uses             *)
(* recheck_health.                                                            *)
LEMMA NextExcluded ==
  ASSUME ~Operator, TypeOK, UnfitExcluded, [Next]_vars
  PROVE  UnfitExcluded'
<1>1. ASSUME NEW r \in Replicas, CheckReplica(r)
      PROVE  UnfitExcluded'
  <2>1. replica[r] \in Condition
    BY DEF TypeOK
  <2>2. probed'[r] = replica[r] /\ \A q \in Replicas : q # r => probed'[q] = probed[q]
    BY <1>1 DEF CheckReplica, TypeOK
  <2>3. healthy'[r] => Fit(replica[r])
    <3>1. CASE healthy' = [healthy EXCEPT ![r] = FALSE]
      BY <3>1 DEF TypeOK
    <3>2. CASE /\ replica[r].up /\ (GaleraCheck => replica[r].synced)
               /\ healthy' = [healthy EXCEPT ![r] = LagAccepted(ReportedLag(replica[r]))]
      <4>1. healthy'[r] = LagAccepted(ReportedLag(replica[r]))
        BY <3>2 DEF TypeOK
      <4>2. LagAccepted(ReportedLag(replica[r])) =>
              replica[r].lag = Stopped \/ replica[r].lag <= MaxLag
        BY <2>1 DEF LagAccepted, ReportedLag
      <4>3. QED
        BY <3>2, <4>1, <4>2, Zenon DEF Fit
    <3>3. QED
      BY <1>1, <3>1, <3>2 DEF CheckReplica
  <2>4. \A q \in Replicas : q # r => healthy'[q] = healthy[q]
    BY <1>1 DEF CheckReplica, TypeOK
  <2>5. QED
    BY <2>2, <2>3, <2>4 DEF UnfitExcluded, Fit
<1>2. ASSUME NEW r \in Replicas, RouterMarks(r)
      PROVE  UnfitExcluded'
  <2>1. probed' = probed /\ \A q \in Replicas : healthy'[q] => healthy[q]
    BY <1>2 DEF RouterMarks, history, TypeOK
  <2>2. QED
    BY <2>1, ExcludedWhenFewer
<1>3. CASE \/ Ping \/ PrimaryAnswered \/ PrimaryFailed \/ Trigger \/ Promote
           \/ (\E r \in Replicas : ReplicaChanges(r)) \/ PrimaryChanges \/ Tick
           \/ UNCHANGED vars
  <2>1. probed' = probed /\ healthy' = healthy
    BY <1>3 DEF Ping, CountPing, PrimaryAnswered, PrimaryFailed, Trigger, Promote,
                ReplicaChanges, PrimaryChanges, Tick, vars, health, history
  <2>2. QED
    BY <2>1, ExcludedWhenFewer
<1>4. QED
  BY <1>1, <1>2, <1>3 DEF Next, CheckerStep, OperatorStep

(* For any number of replicas: one that its last check found unfit serves no    *)
(* reads and is no candidate for promotion.                                    *)
THEOREM UnfitNeverServe ==
  ASSUME ~Operator
  PROVE  Spec => []UnfitExcluded
<1>1. Init => UnfitExcluded
  BY FailoverAssumption DEF Init, UnfitExcluded, Fit
<1>2. TypeOK /\ UnfitExcluded /\ [Next]_vars => UnfitExcluded'
  BY NextExcluded
<1>3. QED
  BY <1>1, <1>2, TypeCorrect, PTL DEF Spec

-----------------------------------------------------------------------------
(***************************************************************************)
(* CooldownHeld compares the code's failover_triggered_at with the time of   *)
(* the trigger itself.  The link is an invariant: while a failover is        *)
(* active or about to be, failover_triggered_at is not older than the        *)
(* trigger it comes from.                                                   *)
(***************************************************************************)
StampIsFresh == failover_idx # 0 \/ pc = "promote" => triggered <= sinceTrigger

(* The order of two capped ages survives a tick. *)
LEMMA CappedMono ==
  ASSUME NEW t \in 0..AgeCap, NEW u \in 0..AgeCap, t <= u
  PROVE  Capped(t + 1, AgeCap) <= Capped(u + 1, AgeCap)
  BY CapsType DEF Capped

(* Every step keeps the stamp fresh, as long as nobody triggers by hand. *)
LEMMA NextFresh ==
  ASSUME ~Operator, TypeOK, StampIsFresh, [Next]_vars
  PROVE  StampIsFresh'
<1>1. triggered \in 0..AgeCap /\ sinceTrigger \in 0..AgeCap
  BY DEF TypeOK
<1>2. CASE Ping
  BY <1>2 DEF Ping, CountPing, StampIsFresh, failover
<1>3. CASE PrimaryAnswered
  <2>1. sinceTrigger' = sinceTrigger /\ pc' # "promote" /\ pc # "promote"
    BY <1>3 DEF PrimaryAnswered, VisitReplicas, history
  <2>2. failover_idx' = 0 \/ UNCHANGED <<failover_idx, triggered>>
    BY <1>3 DEF PrimaryAnswered, Recover
  <2>3. QED
    BY <2>1, <2>2 DEF StampIsFresh
<1>4. CASE PrimaryFailed
  BY <1>4 DEF PrimaryFailed, VisitReplicas, StampIsFresh, failover, history
<1>5. CASE Trigger
  <2>1. triggered' = 0 /\ sinceTrigger' \in {0, sinceTrigger}
    BY <1>5 DEF Trigger
  <2>2. QED
    BY <1>1, <2>1, CapsType DEF StampIsFresh
<1>6. CASE Promote
  BY <1>6 DEF Promote, StampIsFresh, history
<1>7. ASSUME NEW r \in Replicas, CheckReplica(r)
      PROVE  StampIsFresh'
  BY <1>7 DEF CheckReplica, NextReplica, StampIsFresh, failover
<1>8. ASSUME NEW r \in Replicas, RouterMarks(r) \/ ReplicaChanges(r)
      PROVE  StampIsFresh'
  BY <1>8 DEF RouterMarks, ReplicaChanges, StampIsFresh, failover, checker, history
<1>9. CASE PrimaryChanges
  BY <1>9 DEF PrimaryChanges, StampIsFresh, failover, checker, history
<1>10. CASE Tick
  <2>1. /\ triggered' = Capped(triggered + 1, AgeCap)
        /\ sinceTrigger' = Capped(sinceTrigger + 1, AgeCap)
        /\ failover_idx' = failover_idx /\ pc' = pc
    BY <1>10 DEF Tick, checker
  <2>2. QED
    BY <1>1, <2>1, CappedMono DEF StampIsFresh
<1>11. CASE UNCHANGED vars
  BY <1>11 DEF vars, StampIsFresh, failover, checker, history
<1>12. QED
  BY <1>2, <1>3, <1>4, <1>5, <1>6, <1>7, <1>8, <1>9, <1>10, <1>11
     DEF Next, CheckerStep, OperatorStep

(* For any cooldown and any comings and goings of the primary, the checker      *)
(* keeps a failover for failover_cooldown_secs from its trigger.               *)
THEOREM FailoverHeld ==
  ASSUME ~Operator
  PROVE  Spec => CooldownHeld
<1>1. Init => StampIsFresh
  BY CapsType DEF Init, StampIsFresh
<1>2. TypeOK /\ StampIsFresh /\ [Next]_vars => StampIsFresh'
  BY NextFresh
<1>3. ASSUME TypeOK, StampIsFresh, [Next]_vars
      PROVE  [pc = "answered" /\ pc' # pc /\ failover_idx # 0 /\ failover_idx' = 0
                => sinceTrigger >= Cooldown]_vars
  <2> SUFFICES ASSUME pc = "answered", pc' # pc, failover_idx # 0, failover_idx' = 0
               PROVE  sinceTrigger >= Cooldown
    OBVIOUS
  <2>1. PrimaryAnswered
    BY <1>3 DEF Next, CheckerStep, Ping, PrimaryFailed, Trigger, Promote, CheckReplica,
                OperatorStep, RouterMarks, PrimaryChanges, ReplicaChanges, Tick, vars, checker
  <2>2. triggered >= Cooldown
    BY <2>1 DEF PrimaryAnswered, Recover, CooldownOver
  <2>3. triggered <= sinceTrigger /\ triggered \in 0..AgeCap /\ sinceTrigger \in 0..AgeCap
    BY <1>3 DEF StampIsFresh, TypeOK
  <2>4. QED
    BY <2>2, <2>3, CapsType, FailoverAssumption
<1>4. QED
  BY <1>1, <1>2, <1>3, TypeCorrect, PTL DEF Spec, CooldownHeld

-----------------------------------------------------------------------------
(***************************************************************************)
(* NoEarlyFailover compares consecutive_failures, which the checker writes a  *)
(* step after the answer, with the pings themselves.  The link: the counter   *)
(* is the streak of failed pings, or will be once the answer is noted.        *)
(***************************************************************************)
CountsPings ==
  /\ pc \in {"idle", "replicas", "promote"} => failures = failStreak
  /\ pc = "failed" => failStreak = Capped(failures + 1, FailureCap)
  /\ pc = "answered" => failStreak = 0
  /\ pc = "promote" => failStreak >= Threshold

(* Every step keeps the link, as long as nobody uses recheck_health. *)
LEMMA NextCounts ==
  ASSUME ~Operator, TypeOK, CountsPings, [Next]_vars
  PROVE  CountsPings'
<1>1. /\ failures \in 0..FailureCap /\ failStreak \in 0..FailureCap
      /\ FailureCap = Threshold + 1 /\ Threshold \in Nat
  BY FailoverAssumption DEF TypeOK, FailureCap
<1>2. CASE Ping
  <2>1. /\ pc = "idle" /\ failures' = failures
        /\ pc' = IF Answers(primary) THEN "answered" ELSE "failed"
        /\ failStreak' = IF Answers(primary) THEN 0 ELSE Capped(failStreak + 1, FailureCap)
    BY <1>2 DEF Ping, CountPing, health
  <2> QED
    BY <2>1 DEF CountsPings, FailureCap
<1>3. CASE PrimaryAnswered
  BY <1>3 DEF PrimaryAnswered, VisitReplicas, CountsPings, history
<1>4. CASE PrimaryFailed
  BY <1>4 DEF PrimaryFailed, VisitReplicas, CountsPings, history, FailureCap
<1>5. CASE Trigger
  <2>1. /\ failures' = failStreak /\ failStreak' = failStreak
        /\ pc' \in {"idle", "replicas", "promote"}
    BY <1>5 DEF Trigger, VisitReplicas, CountsPings, FailureCap
  <2>2. failStreak >= Threshold
    BY <1>1, <1>5 DEF Trigger, MustTrigger, CountsPings, Capped
  <2> QED
    BY <2>1, <2>2 DEF CountsPings
<1>6. CASE Promote
  BY <1>6 DEF Promote, VisitReplicas, CountsPings, health, history
<1>7. ASSUME NEW r \in Replicas, CheckReplica(r)
      PROVE  CountsPings'
  BY <1>7 DEF CheckReplica, NextReplica, CountsPings
<1>8. CASE \/ \E r \in Replicas : RouterMarks(r) \/ ReplicaChanges(r)
           \/ PrimaryChanges \/ Tick \/ UNCHANGED vars
  <2>1. UNCHANGED <<pc, failures, failStreak>>
    BY <1>8 DEF RouterMarks, ReplicaChanges, PrimaryChanges, Tick, vars, health, checker, history
  <2> QED
    BY <2>1 DEF CountsPings, FailureCap
<1> QED
  BY <1>2, <1>3, <1>4, <1>5, <1>6, <1>7, <1>8 DEF Next, CheckerStep, OperatorStep

(* For any threshold and any number of replicas, over rounds without a candidate and     *)
(* earlier failovers: the checker promotes only after that many failed pings in a row.  *)
THEOREM FailoverIsEarned ==
  ASSUME ~Operator
  PROVE  Spec => NoEarlyFailover
<1>1. Init => CountsPings
  BY DEF Init, CountsPings
<1>2. TypeOK /\ CountsPings /\ [Next]_vars => CountsPings'
  BY NextCounts
<1>3. CountsPings
        => [pc = "promote" /\ pc' # "promote" => failStreak >= Threshold]_vars
  BY DEF CountsPings
<1> QED
  BY <1>1, <1>2, <1>3, TypeCorrect, PTL DEF Spec, NoEarlyFailover
=============================================================================
