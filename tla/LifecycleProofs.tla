--------------------------- MODULE LifecycleProofs ---------------------------
(***************************************************************************)
(* Proofs about Lifecycle, for any number of clients, users and login          *)
(* requests, and any limits.  The parts of the process share no               *)
(* variable, so each has an invariant of its own.                           *)
(***************************************************************************)
EXTENDS Lifecycle, SumsProofs, FiniteSetTheorems, TLAPS

-----------------------------------------------------------------------------
(***************************************************************************)
(* Counting the elements of a set that have a property which one element      *)
(* gains or loses.                                                          *)
(***************************************************************************)

(* A finite set gains an element. *)
LEMMA GainOne ==
  ASSUME NEW S, IsFiniteSet(S), NEW A \in SUBSET S, NEW x \in S, x \notin A
  PROVE  /\ Cardinality(A \cup {x}) = Cardinality(A) + 1
         /\ Cardinality(A \cup {x}) <= Cardinality(S)
         /\ Cardinality(A) \in Nat /\ Cardinality(S) \in Nat
<1>1. IsFiniteSet(A) /\ A \cup {x} \in SUBSET S
  BY FS_Subset
<1>2. QED
  BY <1>1, FS_AddElement, FS_Subset, FS_CardinalityType

(* A finite set loses an element. *)
LEMMA LoseOne ==
  ASSUME NEW S, IsFiniteSet(S), NEW A \in SUBSET S, NEW x \in A
  PROVE  /\ Cardinality(A \ {x}) = Cardinality(A) - 1
         /\ Cardinality(A) \in Nat /\ Cardinality(A) > 0
<1>1. IsFiniteSet(A) /\ IsFiniteSet(A \ {x})
  BY FS_Subset, FS_RemoveElement
<1>2. Cardinality(A) \in Nat /\ Cardinality(A \ {x}) \in Nat
  BY <1>1, FS_CardinalityType
<1>3. QED
  BY <1>1, <1>2, FS_RemoveElement

(* A part is no larger. *)
LEMMA NoMore ==
  ASSUME NEW S, IsFiniteSet(S), NEW A \in SUBSET S, NEW B \in SUBSET A
  PROVE  Cardinality(B) <= Cardinality(A) /\ Cardinality(A) \in Nat /\ Cardinality(B) \in Nat
<1>1. IsFiniteSet(A)
  BY FS_Subset
<1>2. QED
  BY <1>1, FS_Subset, FS_CardinalityType

-----------------------------------------------------------------------------
(***************************************************************************)
(* The dashboard's logins.  A request that passed the check may still fail:   *)
(* it is counted with the failures from the moment it passed.                *)
(***************************************************************************)
Checked == {b \in Browsers : login[b] = "checked"}

LoginInv ==
  /\ login \in [Browsers -> {"idle", "checked"}]
  /\ failures \in Nat
  /\ failures + Cardinality(Checked) <= MaxAttempts + Cardinality(Browsers) - 1

(* A request that passes, when fewer than the limit have failed. *)
LEMMA LoginKeeps ==
  ASSUME LoginInv, LoginNext \/ LoginRestart \/ UNCHANGED loginVars
  PROVE  LoginInv'
<1> DEFINE n == Cardinality(Browsers)
<1>1. /\ login \in [Browsers -> {"idle", "checked"}] /\ failures \in Nat
      /\ failures + Cardinality(Checked) <= MaxAttempts + n - 1
      /\ Checked \in SUBSET Browsers /\ IsFiniteSet(Browsers) /\ MaxAttempts \in Nat \ {0}
      /\ Cardinality(Checked) \in Nat /\ n \in Nat
  BY LoginAssumption, NoMore, FS_CardinalityType DEF LoginInv, Checked
<1>2. ASSUME NEW b \in Browsers, CheckRate(b)
      PROVE  LoginInv'
  <2>1. /\ login[b] = "idle" /\ failures' \in Nat /\ failures' <= failures
        /\ login' = [login EXCEPT ![b] = IF failures' >= MaxAttempts THEN "idle" ELSE "checked"]
    BY <1>1, <1>2 DEF CheckRate
  <2>2. CASE failures' >= MaxAttempts
    <3>1. login' = login
      BY <1>1, <2>1, <2>2
    <3>2. QED
      BY <1>1, <2>1, <3>1 DEF LoginInv, Checked
  <2>3. CASE ~(failures' >= MaxAttempts)
    <3>1. login' = [login EXCEPT ![b] = "checked"]
      BY <2>1, <2>3
    <3>2. Checked' = Checked \cup {b} /\ b \notin Checked
      BY <1>1, <2>1, <3>1 DEF Checked
    <3>3. Cardinality(Checked') <= n /\ Cardinality(Checked') \in Nat
      BY <1>1, <3>2, GainOne
    <3>4. failures' <= MaxAttempts - 1
      BY <1>1, <2>1, <2>3
    <3>5. QED
      BY <1>1, <2>1, <3>1, <3>3, <3>4 DEF LoginInv
  <2>4. QED
    BY <2>2, <2>3
<1>3. ASSUME NEW b \in Browsers, LoginFails(b) \/ \E t \in Tokens : LoginSucceeds(b, t)
      PROVE  LoginInv'
  <2>1. /\ login[b] = "checked" /\ login' = [login EXCEPT ![b] = "idle"]
        /\ failures' \in {failures, failures + 1}
    BY <1>3 DEF LoginFails, LoginSucceeds
  <2>2. Checked' = Checked \ {b} /\ b \in Checked
    BY <1>1, <2>1 DEF Checked
  <2>3. Cardinality(Checked') = Cardinality(Checked) - 1
    BY <1>1, <2>2, LoseOne
  <2>4. QED
    BY <1>1, <2>1, <2>3 DEF LoginInv
<1>4. ASSUME login' = login, failures' \in {failures, 0}
      PROVE  LoginInv'
  BY <1>1, <1>4 DEF LoginInv, Checked
<1>5. ASSUME NEW t \in Tokens, Logout(t) \/ Admit(t) \/ \E new \in Tokens : Refresh(t, new)
      PROVE  LoginInv'
  <2>1. UNCHANGED <<login, failures>>
    BY <1>5 DEF Logout, Admit, Refresh
  <2>2. QED
    BY <1>4, <2>1
<1>6. ASSUME Sweep \/ TimeoutsRun \/ UNCHANGED loginVars
      PROVE  LoginInv'
  <2>1. login' = login /\ failures' \in {failures, 0}
    BY <1>6 DEF Sweep, TimeoutsRun, loginVars
  <2>2. QED
    BY <1>4, <2>1
<1>7. CASE LoginRestart
  <2>1. login' = [b \in Browsers |-> "idle"] /\ failures' = 0
    BY <1>7 DEF LoginRestart
  <2>2. Checked' = {}
    BY <2>1 DEF Checked
  <2>3. QED
    BY <1>1, <2>1, <2>2, FS_EmptySet DEF LoginInv
<1>8. QED
  BY <1>2, <1>3, <1>5, <1>6, <1>7 DEF LoginNext

(* Nobody has tried to log in. *)
LEMMA LoginStarts ==
  ASSUME LoginInit
  PROVE  LoginInv
<1>1. Checked = {} /\ login \in [Browsers -> {"idle", "checked"}] /\ failures = 0
  BY DEF LoginInit, Checked
<1>2. Cardinality(Checked) = 0 /\ Cardinality(Browsers) \in Nat
  BY <1>1, FS_EmptySet, FS_CardinalityType, LoginAssumption
<1>3. QED
  BY <1>1, <1>2, LoginAssumption DEF LoginInv

-----------------------------------------------------------------------------
(***************************************************************************)
(* The counts.  An event is in one place only, whatever is dropped on the way. *)
(***************************************************************************)
QueryStep == CountQuery \/ RecordEvent \/ RecordThroughput

CountInv ==
  /\ stored \in Nat /\ batch \in Nat /\ map \in Nat /\ chan \in Nat
  /\ total \in Nat /\ recorded \in Nat /\ counted \in Nat
  /\ CountedOnce

(* Every step of the collector and of timeseries_loop, and a restart. *)
LEMMA CountKeeps ==
  ASSUME CountInv, TelemetryNext \/ QueryStep \/ TelemetryRestart \/ UNCHANGED telemetryVars
  PROVE  CountInv'
<1>1. CASE Aggregate \/ AggregatorDies
  BY <1>1 DEF CountInv, CountedOnce, Aggregate, AggregatorDies
<1>2. CASE Drain
  BY <1>2 DEF CountInv, CountedOnce, Drain
<1>3. CASE Flush
  BY <1>3 DEF CountInv, CountedOnce, Flush
<1>4. CASE FlushStats
  BY <1>4 DEF CountInv, CountedOnce, FlushStats, collectorVars
<1>5. CASE UNCHANGED <<total, recorded, counted, collectorVars>>
  BY <1>5 DEF CountInv, CountedOnce, collectorVars
<1>6. CASE TakeSnapshot \/ RecordMinute \/ RollupHourly \/ RollupDaily \/ Prune \/ MinutePasses
  <2>1. UNCHANGED <<total, recorded, counted, collectorVars>>
    BY <1>6 DEF TakeSnapshot, RecordMinute, RollupHourly, RollupDaily, Prune, MinutePasses
  <2>2. QED
    BY <1>5, <2>1
<1>7. CASE QueryStep
  <2>1. CASE CountQuery
    BY <2>1 DEF CountInv, CountedOnce, CountQuery, collectorVars
  <2>2. CASE RecordEvent
    BY <2>2 DEF CountInv, CountedOnce, RecordEvent, TryRecord
  <2>3. CASE RecordThroughput
    BY <1>5, <2>3 DEF RecordThroughput
  <2> QED
    BY <1>7, <2>1, <2>2, <2>3 DEF QueryStep
<1>8. CASE TelemetryRestart
  BY <1>8 DEF CountInv, CountedOnce, TelemetryRestart
<1>9. CASE UNCHANGED telemetryVars
  BY <1>5, <1>9 DEF telemetryVars, collectorVars
<1>10. QED
  BY <1>1, <1>2, <1>3, <1>4, <1>6, <1>7, <1>8, <1>9 DEF TelemetryNext

-----------------------------------------------------------------------------
(***************************************************************************)
(* The client connections.  The counter of a user is at least the number of   *)
(* connections that raised it and have not lowered it: a panic leaves it too  *)
(* high, never too low.                                                     *)
(***************************************************************************)
Listeners == {"mysql", "pgsql"}
PCs == {"none", "handshake", "registered", "refusing", "loop", "done"}

ConnOK(x) ==
  /\ x \in [pc : PCs, user : Users \cup {"none"}]
  /\ x.pc = "none" => x = NoConn
  /\ x.pc # "none" => x.user \in Users

(* The connections that are in the counter of user u. *)
Raised(u) ==
  {c \in Clients \ PgClients : conn[c].pc \in {"registered", "refusing", "loop"} /\ conn[c].user = u}

ConnsOK == conn \in [Clients -> [pc : PCs, user : Users \cup {"none"}]] /\ \A c \in Clients : ConnOK(conn[c])
CountersOK ==
  registry \in [Users -> Nat] /\ \A u \in Users : Cardinality(Raised(u)) <= registry[u]
ServedOK == UserLimit > 0 => \A u \in Users : Cardinality(Served(u)) <= UserLimit
PermitsOK ==
  permits \in [Listeners -> Nat] /\ \A l \in Listeners : permits[l] + Cardinality(Holding(l)) = MaxConns

FrontInv == ConnsOK /\ CountersOK /\ ServedOK /\ PermitsOK

(* The sets that are counted are finite. *)
LEMMA Counts ==
  /\ \A u \in Users : Raised(u) \in SUBSET Clients /\ Cardinality(Raised(u)) \in Nat
  /\ \A u \in Users : Served(u) \in SUBSET Raised(u) /\ Cardinality(Served(u)) \in Nat
  /\ \A u \in Users : Cardinality(Served(u)) <= Cardinality(Raised(u))
  /\ \A l \in Listeners : Holding(l) \in SUBSET Clients /\ Cardinality(Holding(l)) \in Nat
<1>1. IsFiniteSet(Clients)
  BY FrontendAssumption
<1>2. ASSUME NEW u \in Users
      PROVE  /\ Raised(u) \in SUBSET Clients /\ Served(u) \in SUBSET Raised(u)
             /\ Cardinality(Raised(u)) \in Nat /\ Cardinality(Served(u)) \in Nat
             /\ Cardinality(Served(u)) <= Cardinality(Raised(u))
  <2>1. Raised(u) \in SUBSET Clients /\ Served(u) \in SUBSET Raised(u)
    BY DEF Raised, Served
  <2>2. QED
    BY <1>1, <2>1, NoMore
<1>3. ASSUME NEW l \in Listeners
      PROVE  Holding(l) \in SUBSET Clients /\ Cardinality(Holding(l)) \in Nat
  <2>1. Holding(l) \in SUBSET Clients
    BY DEF Holding
  <2>2. QED
    BY <1>1, <2>1, NoMore
<1>4. QED
  BY <1>2, <1>3

(* A connection goes from one state to another, without touching its permit. *)
LEMMA MoveIs ==
  ASSUME FrontInv, NEW c \in Clients, conn[c].pc # "none", NEW pc \in PCs \ {"none"}, Move(c, pc)
  PROVE  /\ ConnsOK' /\ \A l \in Listeners : Holding(l)' = Holding(l)
         /\ conn'[c].pc = pc /\ conn'[c].user = conn[c].user /\ conn[c].user \in Users
         /\ \A d \in Clients : d # c => conn'[d] = conn[d]
<1>1. /\ conn \in [Clients -> [pc : PCs, user : Users \cup {"none"}]]
      /\ \A d \in Clients : ConnOK(conn[d])
  BY DEF FrontInv, ConnsOK
<1>2. /\ conn' \in [Clients -> [pc : PCs, user : Users \cup {"none"}]]
      /\ conn'[c].pc = pc /\ conn'[c].user = conn[c].user
      /\ \A d \in Clients : d # c => conn'[d] = conn[d]
  BY <1>1 DEF Move
<1>3. conn[c].user \in Users
  BY <1>1 DEF ConnOK
<1>4. ConnsOK'
  BY <1>1, <1>2, <1>3 DEF ConnsOK, ConnOK
<1>5. NoConn.pc = "none"
  BY DEF NoConn
<1>6. \A l \in Listeners : Holding(l)' = Holding(l)
  BY <1>2, <1>5 DEF Holding
<1>7. QED
  BY <1>2, <1>3, <1>4, <1>6

(* The permits stay when nobody comes or leaves. *)
LEMMA PermitsStay ==
  ASSUME FrontInv, permits' = permits, \A l \in Listeners : Holding(l)' = Holding(l)
  PROVE  PermitsOK'
  BY DEF FrontInv, PermitsOK

(* Only somebody whose counter is lowered leaves the counted, and nobody comes. *)
LEMMA CountersStay ==
  ASSUME FrontInv, registry' = registry,
         \A u \in Users : Raised(u)' \in SUBSET Raised(u)
  PROVE  CountersOK'
<1>1. \A u \in Users : /\ Raised(u) \in SUBSET Clients /\ Cardinality(Raised(u)) \in Nat
  BY Counts
<1>2. \A u \in Users : /\ Cardinality(Raised(u)') <= Cardinality(Raised(u))
                       /\ Cardinality(Raised(u)') \in Nat
  BY <1>1, NoMore, FrontendAssumption
<1>3. QED
  BY <1>1, <1>2 DEF FrontInv, CountersOK

(* Nobody new is served. *)
LEMMA ServedStay ==
  ASSUME FrontInv, \A u \in Users : Served(u)' \in SUBSET Served(u)
  PROVE  ServedOK'
<1>1. \A u \in Users : Served(u) \in SUBSET Clients /\ Cardinality(Served(u)) \in Nat
  BY Counts DEF Served
<1>2. \A u \in Users : /\ Cardinality(Served(u)') <= Cardinality(Served(u))
                       /\ Cardinality(Served(u)') \in Nat
  BY <1>1, NoMore, FrontendAssumption
<1>3. QED
  BY <1>1, <1>2, FrontendAssumption DEF FrontInv, ServedOK

(* A connection is accepted with a permit, or dropped at once. *)
LEMMA AcceptKeeps ==
  ASSUME FrontInv, NEW c \in Clients, NEW u \in Users, Accept(c, u)
  PROVE  FrontInv'
<1>1. /\ conn[c] = NoConn /\ registry' = registry
      /\ conn \in [Clients -> [pc : PCs, user : Users \cup {"none"}]]
      /\ permits \in [Listeners -> Nat] /\ Listener(c) \in Listeners
  BY DEF Accept, FrontInv, ConnsOK, PermitsOK, Listener, Listeners
<1>2. CASE permits[Listener(c)] = 0
  <2>1. UNCHANGED <<conn, permits>>
    BY <1>2 DEF Accept
  <2>2. QED
    BY <1>1, <2>1 DEF FrontInv, ConnsOK, ConnOK, CountersOK, ServedOK, PermitsOK, Raised, Served, Holding
<1>3. CASE permits[Listener(c)] # 0
  <2> DEFINE x == [pc |-> "handshake", user |-> u]
  <2>1. conn' = [conn EXCEPT ![c] = x] /\ permits' = [permits EXCEPT ![Listener(c)] = @ - 1]
    BY <1>3 DEF Accept
  <2>2. x \in [pc : PCs, user : Users \cup {"none"}] /\ x.pc = "handshake" /\ x.user = u /\ NoConn.pc = "none"
    BY DEF PCs, NoConn
  <2> HIDE DEF x
  <2>3. /\ conn' \in [Clients -> [pc : PCs, user : Users \cup {"none"}]]
        /\ conn'[c] = x /\ \A d \in Clients : d # c => conn'[d] = conn[d]
    BY <1>1, <2>1, <2>2
  <2>4. ConnsOK'
    BY <2>2, <2>3 DEF FrontInv, ConnsOK, ConnOK
  <2>5. CountersOK'
    <3>1. \A v \in Users : Raised(v)' \in SUBSET Raised(v)
      BY <1>1, <2>2, <2>3 DEF Raised
    <3>2. QED
      BY <1>1, <3>1, CountersStay
  <2>6. ServedOK'
    <3>1. \A v \in Users : Served(v)' \in SUBSET Served(v)
      BY <1>1, <2>2, <2>3 DEF Served
    <3>2. QED
      BY <3>1, ServedStay
  <2>7. PermitsOK'
    <3>1. /\ Holding(Listener(c))' = Holding(Listener(c)) \cup {c} /\ c \notin Holding(Listener(c))
          /\ \A l \in Listeners : l # Listener(c) => Holding(l)' = Holding(l)
      BY <1>1, <2>2, <2>3 DEF Holding
    <3>2. \A l \in Listeners : Holding(l) \in SUBSET Clients /\ Cardinality(Holding(l)) \in Nat
      BY Counts
    <3>3. Cardinality(Holding(Listener(c))') = Cardinality(Holding(Listener(c))) + 1
      BY <1>1, <3>1, <3>2, GainOne, FrontendAssumption
    <3>4. /\ permits' \in [Listeners -> Nat]
          /\ permits'[Listener(c)] = permits[Listener(c)] - 1
          /\ \A l \in Listeners : l # Listener(c) => permits'[l] = permits[l]
      BY <1>1, <1>3, <2>1
    <3>5. \A l \in Listeners : permits[l] + Cardinality(Holding(l)) = MaxConns
      BY DEF FrontInv, PermitsOK
    <3>6. ASSUME NEW l \in Listeners
          PROVE  permits'[l] + Cardinality(Holding(l)') = MaxConns
      <4>1. Cardinality(Holding(l)) \in Nat /\ permits[l] \in Nat /\ MaxConns \in Nat
        BY <1>1, <3>2, FrontendAssumption
      <4>2. permits[l] + Cardinality(Holding(l)) = MaxConns
        BY <3>5
      <4>3. CASE l = Listener(c)
        <5>1. Cardinality(Holding(l)') = Cardinality(Holding(l)) + 1
          BY <3>3, <4>3
        <5>2. permits'[l] = permits[l] - 1
          BY <3>4, <4>3
        <5>3. QED
          BY <4>1, <4>2, <5>1, <5>2
      <4>4. CASE l # Listener(c)
        <5>1. Holding(l)' = Holding(l)
          BY <3>1, <4>4
        <5>2. permits'[l] = permits[l]
          BY <3>4, <4>4
        <5>3. QED
          BY <4>2, <5>1, <5>2
      <4>5. QED
        BY <4>3, <4>4
    <3>7. QED
      BY <3>4, <3>6 DEF PermitsOK
  <2>8. QED
    BY <2>4, <2>5, <2>6, <2>7 DEF FrontInv
<1>4. QED
  BY <1>2, <1>3

(* A connection ends: its permit is released, its counters were settled before or are
   left too high. *)
LEMMA LeavesKeeps ==
  ASSUME FrontInv, NEW c \in Clients, conn[c].pc # "none", registry' = registry,
         conn' = [conn EXCEPT ![c] = NoConn], permits' = [permits EXCEPT ![Listener(c)] = @ + 1]
  PROVE  FrontInv'
<1>1. /\ conn \in [Clients -> [pc : PCs, user : Users \cup {"none"}]]
      /\ permits \in [Listeners -> Nat] /\ Listener(c) \in Listeners
  BY DEF FrontInv, ConnsOK, PermitsOK, Listener, Listeners
<1>2. NoConn \in [pc : PCs, user : Users \cup {"none"}] /\ NoConn.pc = "none"
  BY DEF NoConn, PCs
<1>3. /\ conn' \in [Clients -> [pc : PCs, user : Users \cup {"none"}]]
      /\ conn'[c] = NoConn /\ \A d \in Clients : d # c => conn'[d] = conn[d]
  BY <1>1, <1>2
<1>4. ConnsOK'
  BY <1>2, <1>3 DEF FrontInv, ConnsOK, ConnOK
<1>5. CountersOK'
  <2>1. \A v \in Users : Raised(v)' \in SUBSET Raised(v)
    BY <1>2, <1>3 DEF Raised
  <2>2. QED
    BY <2>1, CountersStay
<1>6. ServedOK'
  <2>1. \A v \in Users : Served(v)' \in SUBSET Served(v)
    BY <1>2, <1>3 DEF Served
  <2>2. QED
    BY <2>1, ServedStay
<1>7. PermitsOK'
  <2>1. /\ Holding(Listener(c))' = Holding(Listener(c)) \ {c} /\ c \in Holding(Listener(c))
        /\ \A l \in Listeners : l # Listener(c) => Holding(l)' = Holding(l)
    BY <1>2, <1>3 DEF Holding
  <2>2. \A l \in Listeners : Holding(l) \in SUBSET Clients /\ Cardinality(Holding(l)) \in Nat
    BY Counts
  <2>3. Cardinality(Holding(Listener(c))') = Cardinality(Holding(Listener(c))) - 1
    BY <1>1, <2>1, <2>2, LoseOne, FrontendAssumption
  <2>4. /\ permits' \in [Listeners -> Nat]
        /\ permits'[Listener(c)] = permits[Listener(c)] + 1
        /\ \A l \in Listeners : l # Listener(c) => permits'[l] = permits[l]
    BY <1>1
  <2>5. \A l \in Listeners : permits[l] + Cardinality(Holding(l)) = MaxConns
    BY DEF FrontInv, PermitsOK
  <2>6. ASSUME NEW l \in Listeners
        PROVE  permits'[l] + Cardinality(Holding(l)') = MaxConns
    <3>1. Cardinality(Holding(l)) \in Nat /\ permits[l] \in Nat /\ MaxConns \in Nat
      BY <1>1, <2>2, FrontendAssumption
    <3>2. permits[l] + Cardinality(Holding(l)) = MaxConns
      BY <2>5
    <3>3. CASE l = Listener(c)
      <4>1. Cardinality(Holding(l)') = Cardinality(Holding(l)) - 1
        BY <2>3, <3>3
      <4>2. permits'[l] = permits[l] + 1
        BY <2>4, <3>3
      <4>3. QED
        BY <3>1, <3>2, <4>1, <4>2
    <3>4. CASE l # Listener(c)
      <4>1. Holding(l)' = Holding(l)
        BY <2>1, <3>4
      <4>2. permits'[l] = permits[l]
        BY <2>4, <3>4
      <4>3. QED
        BY <3>2, <4>1, <4>2
    <3>5. QED
      BY <3>3, <3>4
  <2>7. QED
    BY <2>4, <2>6 DEF PermitsOK
<1>8. QED
  BY <1>4, <1>5, <1>6, <1>7 DEF FrontInv

(* The handshake ends: the counter of the user is raised, or nothing is. *)
LEMMA HandshakeKeeps ==
  ASSUME FrontInv, NEW c \in Clients, Authenticate(c) \/ PgAuthenticate(c) \/ HandshakeFails(c)
  PROVE  FrontInv'
<1>1. conn[c].pc = "handshake" /\ permits' = permits
  BY DEF Authenticate, PgAuthenticate, HandshakeFails
<1>2. CASE Authenticate(c)
  <2>0. conn[c].user \in Users
    BY <1>1 DEF FrontInv, ConnsOK, ConnOK
  <2> PICK u \in Users : u = conn[c].user
    BY <2>0
  <2>1. c \notin PgClients /\ Move(c, "registered") /\ registry' = [registry EXCEPT ![u] = @ + 1]
    BY <1>2 DEF Authenticate, OnConnect
  <2>2. /\ ConnsOK' /\ \A l \in Listeners : Holding(l)' = Holding(l)
        /\ conn'[c].pc = "registered" /\ conn'[c].user = u /\ u \in Users
        /\ \A d \in Clients : d # c => conn'[d] = conn[d]
    BY <1>1, <2>1, MoveIs DEF PCs
  <2>3. PermitsOK'
    BY <1>1, <2>2, PermitsStay
  <2>4. ServedOK'
    <3>1. \A v \in Users : Served(v)' \in SUBSET Served(v)
      BY <2>2 DEF Served
    <3>2. QED
      BY <3>1, ServedStay
  <2>5. CountersOK'
    <3>1. /\ Raised(u)' = Raised(u) \cup {c} /\ c \notin Raised(u)
          /\ \A v \in Users : v # u => Raised(v)' = Raised(v)
      BY <1>1, <2>1, <2>2 DEF Raised
    <3>2. \A v \in Users : Raised(v) \in SUBSET Clients /\ Cardinality(Raised(v)) \in Nat
      BY Counts
    <3>3. Cardinality(Raised(u)') = Cardinality(Raised(u)) + 1
      BY <2>2, <3>1, <3>2, GainOne, FrontendAssumption
    <3>4. registry \in [Users -> Nat] /\ \A v \in Users : Cardinality(Raised(v)) <= registry[v]
      BY DEF FrontInv, CountersOK
    <3>5. /\ registry' \in [Users -> Nat] /\ registry'[u] = registry[u] + 1
          /\ \A v \in Users : v # u => registry'[v] = registry[v]
      BY <2>1, <2>2, <3>4
    <3>6. ASSUME NEW v \in Users
          PROVE  Cardinality(Raised(v)') <= registry'[v]
      <4>1. /\ Cardinality(Raised(v)) \in Nat /\ registry[v] \in Nat
            /\ Cardinality(Raised(v)) <= registry[v]
        BY <3>2, <3>4
      <4>2. CASE v = u
        <5>1. Cardinality(Raised(v)') = Cardinality(Raised(v)) + 1
          BY <3>3, <4>2
        <5>2. registry'[v] = registry[v] + 1
          BY <3>5, <4>2
        <5>3. QED
          BY <4>1, <5>1, <5>2
      <4>3. CASE v # u
        <5>1. Raised(v)' = Raised(v)
          BY <3>1, <4>3
        <5>2. registry'[v] = registry[v]
          BY <3>5, <4>3
        <5>3. QED
          BY <4>1, <5>1, <5>2
      <4>4. QED
        BY <4>2, <4>3
    <3>7. QED
      BY <3>5, <3>6 DEF CountersOK
  <2>6. QED
    BY <2>2, <2>3, <2>4, <2>5 DEF FrontInv
<1>3. CASE PgAuthenticate(c) \/ HandshakeFails(c)
  <2>1. registry' = registry /\ ((c \in PgClients /\ Move(c, "loop")) \/ Move(c, "done"))
    BY <1>3 DEF PgAuthenticate, HandshakeFails
  <2>2. /\ ConnsOK' /\ \A l \in Listeners : Holding(l)' = Holding(l)
        /\ conn'[c].pc = "done" \/ c \in PgClients
        /\ \A d \in Clients : d # c => conn'[d] = conn[d]
    <3>1. CASE c \in PgClients /\ Move(c, "loop")
      BY <1>1, <3>1, MoveIs DEF PCs
    <3>2. CASE Move(c, "done")
      BY <1>1, <3>2, MoveIs DEF PCs
    <3>3. QED
      BY <2>1, <3>1, <3>2
  <2>3. \A v \in Users : Served(v)' \in SUBSET Served(v) /\ Raised(v)' \in SUBSET Raised(v)
    BY <2>2 DEF Served, Raised
  <2>4. QED
    BY <1>1, <2>1, <2>2, <2>3, PermitsStay, CountersStay, ServedStay DEF FrontInv
<1>4. QED
  BY <1>2, <1>3

(* The limit is checked: who is let in is in the counter that was read. *)
LEMMA CheckLimitKeeps ==
  ASSUME FrontInv, NEW c \in Clients, CheckLimit(c)
  PROVE  FrontInv'
<1>1. conn[c].pc = "registered" /\ permits' = permits /\ registry' = registry
  BY DEF CheckLimit
<1>2. conn[c].user \in Users
  BY <1>1 DEF FrontInv, ConnsOK, ConnOK
<1> PICK u \in Users : u = conn[c].user
  BY <1>2
<1>3. PICK pc \in {"refusing", "loop"} : Move(c, pc) /\ (pc = "loop" => ~(UserLimit > 0 /\ registry[u] > UserLimit))
  BY DEF CheckLimit
<1>4. /\ ConnsOK' /\ \A l \in Listeners : Holding(l)' = Holding(l)
      /\ conn'[c].pc = pc /\ conn'[c].user = u
      /\ \A d \in Clients : d # c => conn'[d] = conn[d]
  BY <1>1, <1>3, MoveIs DEF PCs
<1>5. PermitsOK'
  BY <1>1, <1>4, PermitsStay
<1>6. \A v \in Users : Raised(v)' = Raised(v)
  BY <1>1, <1>3, <1>4 DEF Raised
<1>7. CountersOK'
  <2>1. \A v \in Users : Raised(v)' \in SUBSET Raised(v)
    BY <1>6
  <2>2. QED
    BY <1>1, <2>1, CountersStay
<1>8. ASSUME NEW v \in Users, UserLimit > 0
      PROVE  Cardinality(Served(v)') <= UserLimit
  <2>1. /\ Cardinality(Served(v)) <= UserLimit /\ UserLimit \in Nat
        /\ registry[v] \in Nat /\ Cardinality(Raised(v)) <= registry[v]
        /\ Raised(v) \in SUBSET Clients /\ Served(v) \in SUBSET Clients
    BY <1>8, FrontendAssumption, Counts DEF FrontInv, ServedOK, CountersOK
  <2>2. CASE v = u /\ pc = "loop"
    <3>1. registry[v] <= UserLimit
      BY <1>3, <1>8, <2>1, <2>2
    <3>2. Served(v)' \in SUBSET Raised(v)
      <4>1. Served(v)' \in SUBSET Raised(v)'
        BY DEF Served, Raised
      <4>2. QED
        BY <1>6, <4>1
    <3>3. Cardinality(Served(v)') <= Cardinality(Raised(v)) /\ Cardinality(Raised(v)) \in Nat
          /\ Cardinality(Served(v)') \in Nat
      BY <2>1, <3>2, NoMore, FrontendAssumption
    <3>4. QED
      BY <2>1, <3>1, <3>3
  <2>3. CASE ~(v = u /\ pc = "loop")
    <3>1. Served(v)' \in SUBSET Served(v)
      BY <1>3, <1>4, <2>3 DEF Served
    <3>2. Cardinality(Served(v)') <= Cardinality(Served(v)) /\ Cardinality(Served(v)) \in Nat
          /\ Cardinality(Served(v)') \in Nat
      BY <2>1, <3>1, NoMore, FrontendAssumption
    <3>3. QED
      BY <2>1, <3>2
  <2>4. QED
    BY <2>2, <2>3
<1>9. ServedOK'
  BY <1>8 DEF ServedOK
<1>10. QED
  BY <1>4, <1>5, <1>7, <1>9 DEF FrontInv

(* A refused connection, or one whose command loop is over, lowers what it raised: the
   counter is never below the number of those who still have to. *)
LEMMA DisconnectKeeps ==
  ASSUME FrontInv, NEW c \in Clients, Disconnect(c)
  PROVE  FrontInv'
<1>1. conn[c].pc \in {"refusing", "loop"} /\ permits' = permits /\ Move(c, "done")
  BY DEF Disconnect
<1>2. conn[c].user \in Users
  BY <1>1 DEF FrontInv, ConnsOK, ConnOK
<1> PICK u \in Users : u = conn[c].user
  BY <1>2
<1>3. registry' = IF c \in PgClients THEN registry ELSE OnDisconnect(u)
  BY DEF Disconnect
<1>4. /\ ConnsOK' /\ \A l \in Listeners : Holding(l)' = Holding(l)
      /\ conn'[c].pc = "done" /\ conn'[c].user = u
      /\ \A d \in Clients : d # c => conn'[d] = conn[d]
  BY <1>1, MoveIs DEF PCs
<1>5. PermitsOK'
  BY <1>1, <1>4, PermitsStay
<1>6. ServedOK'
  <2>1. \A v \in Users : Served(v)' \in SUBSET Served(v)
    BY <1>4 DEF Served
  <2>2. QED
    BY <2>1, ServedStay
<1>7. CountersOK'
  <2>1. CASE c \in PgClients
    <3>1. \A v \in Users : Raised(v)' \in SUBSET Raised(v)
      BY <1>4, <2>1 DEF Raised
    <3>2. QED
      BY <1>3, <2>1, <3>1, CountersStay
  <2>2. CASE c \notin PgClients
    <3>1. /\ Raised(u)' = Raised(u) \ {c} /\ c \in Raised(u)
          /\ \A v \in Users : v # u => Raised(v)' = Raised(v)
      BY <1>1, <1>4, <2>2 DEF Raised
    <3>2. /\ Cardinality(Raised(u)') = Cardinality(Raised(u)) - 1
          /\ Cardinality(Raised(u)) > 0 /\ Cardinality(Raised(u)) \in Nat
      <4>1. Raised(u) \in SUBSET Clients
        BY Counts
      <4>2. QED
        BY <3>1, <4>1, LoseOne, FrontendAssumption
    <3>3. registry \in [Users -> Nat] /\ \A v \in Users : Cardinality(Raised(v)) <= registry[v]
      BY DEF FrontInv, CountersOK
    <3>4. registry[u] > 0
      BY <3>2, <3>3
    <3>5. /\ registry' \in [Users -> Nat] /\ registry'[u] = registry[u] - 1
          /\ \A v \in Users : v # u => registry'[v] = registry[v]
      BY <1>3, <2>2, <3>3, <3>4 DEF OnDisconnect
    <3>6. ASSUME NEW v \in Users
          PROVE  Cardinality(Raised(v)') <= registry'[v]
      <4>1. Cardinality(Raised(v)) <= registry[v]
        BY <3>3
      <4>2. CASE v = u
        <5>1. Cardinality(Raised(v)') = Cardinality(Raised(v)) - 1 /\ Cardinality(Raised(v)) \in Nat
          BY <3>2, <4>2
        <5>2. registry'[v] = registry[v] - 1 /\ registry[v] \in Nat
          BY <3>3, <3>5, <4>2
        <5>3. QED
          BY <4>1, <5>1, <5>2
      <4>3. CASE v # u
        <5>1. Raised(v)' = Raised(v) /\ registry'[v] = registry[v]
          BY <3>1, <3>5, <4>3
        <5>2. QED
          BY <4>1, <5>1
      <4>4. QED
        BY <4>2, <4>3
    <3>7. QED
      BY <3>5, <3>6 DEF CountersOK
  <2>3. QED
    BY <2>1, <2>2
<1>8. QED
  BY <1>4, <1>5, <1>6, <1>7 DEF FrontInv

(* A process that has just started, with or without clients being served. *)
LEMMA FreshIsFit ==
  ASSUME NEW up \in SUBSET PgClients, Cardinality(up) <= MaxConns,
         NEW x \in [pc : PCs, user : Users \cup {"none"}], x.pc = "loop", x.user \in Users,
         conn = [c \in Clients |-> IF c \in up THEN x ELSE NoConn],
         permits \in [Listeners -> Int], permits["mysql"] = MaxConns,
         permits["pgsql"] = MaxConns - Cardinality(up),
         registry = [v \in Users |-> 0]
  PROVE  FrontInv
<1>1. /\ up \in SUBSET Clients /\ MaxConns \in Nat /\ UserLimit \in Nat /\ Cardinality(up) \in Nat
      /\ PgClients \in SUBSET Clients
  BY FrontendAssumption, NoMore
<1>2. NoConn.pc = "none" /\ NoConn \in [pc : PCs, user : Users \cup {"none"}]
  BY DEF NoConn, PCs
<1>3. ConnsOK
  BY <1>2 DEF ConnsOK, ConnOK
<1>4. ASSUME NEW v \in Users
      PROVE  Cardinality(Raised(v)) = 0 /\ Cardinality(Served(v)) = 0
  <2>1. Raised(v) = {} /\ Served(v) = {}
    BY <1>2 DEF Raised, Served
  <2>2. QED
    BY <2>1, FS_EmptySet
<1>5. ServedOK
  BY <1>1, <1>4 DEF ServedOK
<1>6. CountersOK
  BY <1>4 DEF CountersOK
<1>7. PermitsOK
  <2>1. permits \in [Listeners -> Nat]
    BY <1>1 DEF Listeners
  <2>2. Holding("mysql") = {} /\ Holding("pgsql") = up
    BY <1>1, <1>2 DEF Holding, Listener
  <2>3. Cardinality(Holding("mysql")) = 0 /\ Cardinality(Holding("pgsql")) = Cardinality(up)
    BY <2>2, FS_EmptySet
  <2>4. permits["mysql"] + Cardinality(Holding("mysql")) = MaxConns
    BY <1>1, <2>3
  <2>5. permits["pgsql"] + Cardinality(Holding("pgsql")) = MaxConns
    BY <1>1, <2>3
  <2>6. QED
    BY <2>1, <2>4, <2>5 DEF PermitsOK, Listeners
<1>8. QED
  BY <1>3, <1>5, <1>6, <1>7 DEF FrontInv

(* The first process. *)
LEMMA FrontStarts ==
  ASSUME NEW b \in Budgets, FrontInit(b.up, b.server)
  PROVE  FrontInv
<1>1. b.up \in SUBSET PgClients /\ Cardinality(b.up) <= MaxConns
  BY BudgetsAssumption
<1> PICK up \in SUBSET PgClients : up = b.up
  BY <1>1
<1>2. Cardinality(up) \in Nat /\ MaxConns \in Nat /\ Cardinality(up) <= MaxConns
  BY <1>1, FrontendAssumption, NoMore
<1>3. PICK u \in Users :
        conn = [c \in Clients |-> IF c \in up THEN [pc |-> "loop", user |-> u] ELSE NoConn]
  BY DEF FrontInit
<1>4. PICK x \in [pc : PCs, user : Users \cup {"none"}] : x = [pc |-> "loop", user |-> u]
  BY DEF PCs
<1>5. x.pc = "loop" /\ x.user \in Users /\ conn = [c \in Clients |-> IF c \in up THEN x ELSE NoConn]
  BY <1>3, <1>4
<1>6. /\ permits \in [Listeners -> Int] /\ permits["mysql"] = MaxConns
      /\ permits["pgsql"] = MaxConns - Cardinality(up)
  <2>1. permits = [Fresh.permits EXCEPT !["pgsql"] = @ - Cardinality(up)]
    BY DEF FrontInit
  <2>2. Fresh.permits = [l \in Listeners |-> MaxConns]
    BY DEF Fresh, Listeners
  <2>3. QED
    BY <1>2, <2>1, <2>2 DEF Listeners
<1>7. registry = [v \in Users |-> 0]
  BY DEF FrontInit, Fresh
<1>8. QED
  BY <1>2, <1>5, <1>6, <1>7, FreshIsFit

(* The next process: nobody is connected. *)
LEMMA RestartKeeps ==
  ASSUME FrontRestart
  PROVE  FrontInv'
<1>1. /\ conn' = [c \in Clients |-> NoConn] /\ permits' = [l \in Listeners |-> MaxConns]
      /\ registry' = [v \in Users |-> 0] /\ MaxConns \in Nat /\ UserLimit \in Nat
  BY FrontendAssumption DEF FrontRestart, Fresh, Listeners
<1>2. NoConn.pc = "none" /\ NoConn \in [pc : PCs, user : Users \cup {"none"}]
  BY DEF NoConn, PCs
<1>3. ConnsOK'
  BY <1>1, <1>2 DEF ConnsOK, ConnOK
<1>4. ASSUME NEW v \in Users
      PROVE  Cardinality(Raised(v)') = 0 /\ Cardinality(Served(v)') = 0
  <2>1. Raised(v)' = {} /\ Served(v)' = {}
    BY <1>1, <1>2 DEF Raised, Served
  <2>2. QED
    BY <2>1, FS_EmptySet
<1>5. ServedOK'
  <2>1. \A v \in Users : Cardinality(Served(v)') <= UserLimit
    BY <1>1, <1>4
  <2>2. QED
    BY <2>1 DEF ServedOK
<1>6. CountersOK'
  <2>1. \A v \in Users : Cardinality(Raised(v)') <= registry'[v]
    BY <1>1, <1>4
  <2>2. QED
    BY <1>1, <2>1 DEF CountersOK
<1>7. PermitsOK'
  <2>1. ASSUME NEW l \in Listeners
        PROVE  permits'[l] + Cardinality(Holding(l)') = MaxConns
    <3>1. Holding(l)' = {}
      BY <1>1 DEF Holding
    <3>2. Cardinality(Holding(l)') = 0
      BY <3>1, FS_EmptySet
    <3>3. QED
      BY <1>1, <3>2
  <2>2. permits' \in [Listeners -> Nat]
    BY <1>1
  <2>3. QED
    BY <2>1, <2>2 DEF PermitsOK
<1>8. QED
  BY <1>3, <1>5, <1>6, <1>7 DEF FrontInv

(* Every step of the accept loops, of a connection and of the shutdown. *)
LEMMA FrontKeeps ==
  ASSUME FrontInv, FrontNext \/ UNCHANGED frontVars
  PROVE  FrontInv'
<1>1. ASSUME UNCHANGED <<conn, permits, registry>>
      PROVE  FrontInv'
  BY <1>1 DEF FrontInv, ConnsOK, CountersOK, ServedOK, PermitsOK, Raised, Served, Holding
<1>2. ASSUME NEW c \in Clients, Lives(c)
      PROVE  FrontInv'
  <2>1. CASE HandshakeFails(c) \/ Authenticate(c) \/ PgAuthenticate(c)
    BY <2>1, HandshakeKeeps
  <2>2. CASE CheckLimit(c)
    BY <2>2, CheckLimitKeeps
  <2>3. CASE Disconnect(c)
    BY <2>3, DisconnectKeeps
  <2>4. CASE Finish(c) \/ Panic(c)
    <3>1. /\ conn[c].pc # "none" /\ registry' = registry
          /\ conn' = [conn EXCEPT ![c] = NoConn] /\ permits' = [permits EXCEPT ![Listener(c)] = @ + 1]
      BY <2>4 DEF Finish, Panic
    <3>2. QED
      BY <3>1, LeavesKeeps
  <2>5. QED
    BY <1>2, <2>1, <2>2, <2>3, <2>4 DEF Lives
<1>3. ASSUME Sigterm \/ StopAccepting \/ DrainDone \/ TimePasses \/ UNCHANGED frontVars
      PROVE  FrontInv'
  <2>1. UNCHANGED <<conn, permits, registry>>
    BY <1>3 DEF Sigterm, StopAccepting, DrainDone, TimePasses, frontVars
  <2>2. QED
    BY <1>1, <2>1
<1>4. QED
  BY <1>2, <1>3, AcceptKeeps DEF FrontNext

-----------------------------------------------------------------------------
(***************************************************************************)
(* The rollups.  A table is within what was recorded, always, and exact for   *)
(* the buckets that prune has not cut into, after a rollup from an exact      *)
(* table.  The minutes are exact at any time.                               *)
(***************************************************************************)
Recorded(k, b, len) == Total(k, MinutesOf(b, len))

Buckets(len) == {Bucket(m, len) : m \in Minutes}

Within(k, table, len) ==
  /\ DOMAIN table \subseteq Buckets(len)
  /\ \A b \in DOMAIN table : table[b] \in Nat /\ table[b] <= Recorded(k, b, len)

Exact(k, cut, table, len) ==
  \A b \in Buckets(len) : b >= cut => Shown(table, b) = Recorded(k, b, len)

ExactMinutes(k, cut, table) ==
  /\ DOMAIN table \subseteq Minutes
  /\ \A m \in DOMAIN table : m >= cut /\ table[m] = k[m]
  /\ \A m \in Minutes \ DOMAIN table : m >= cut => k[m] = 0

(* The quotient is the only one. *)
LEMMA Quotient ==
  ASSUME NEW q \in Nat, NEW n \in Nat \ {0}, NEW r \in 0..n - 1
  PROVE  Bucket(q * n + r, n) = q * n
<1>1. (q * n + r) \div n = q
  OBVIOUS
<1> QED
  BY <1>1 DEF Bucket

(* A bucket begins at most its length before its members. *)
LEMMA BucketIs ==
  ASSUME NEW m \in Nat, NEW n \in Nat \ {0}
  PROVE  \E q \in Nat, r \in 0..n - 1 : m = q * n + r /\ Bucket(m, n) = q * n
                                       /\ q * n \in Nat /\ q * n <= m
<1>1. PICK q, r : q = m \div n /\ r = m % n
  OBVIOUS
<1>2. q \in Nat /\ r \in 0..n - 1 /\ m = q * n + r
  BY <1>1
<1>3. q * n \in Nat
  BY <1>2
<1>4. q * n <= m
  BY <1>2, <1>3
<1>5. Bucket(m, n) = q * n
  BY <1>1 DEF Bucket
<1> QED
  BY <1>2, <1>3, <1>4, <1>5, Zenon

(* The day of a minute is the day of its hour. *)
LEMMA NestedBuckets ==
  ASSUME NEW m \in Nat
  PROVE  Bucket(Bucket(m, HourLen), DayLen) = Bucket(m, DayLen)
<1>0. HourLen \in Nat \ {0} /\ DayLen \in Nat \ {0} /\ DayLen % HourLen = 0
  BY TelemetryAssumption
<1>1. PICK n \in Nat \ {0} : n = HourLen
  BY <1>0
<1>2. PICK d \in Nat \ {0} : d = DayLen
  BY <1>0
<1>3. PICK k \in Nat : d = k * n
  <2>1. d % n = 0 /\ d \div n \in Nat
    BY <1>0, <1>1, <1>2
  <2>2. d = (d \div n) * n + (d % n)
    OBVIOUS
  <2>3. PICK k : k = d \div n
    OBVIOUS
  <2>4. k \in Nat /\ d = k * n
    <3>1. d = k * n + 0
      BY <2>1, <2>2, <2>3
    <3>2. k \in Nat /\ k * n \in Nat
      BY <2>1, <2>3
    <3> QED
      BY <3>1, <3>2
  <2> QED
    BY <2>4
<1>4. k \in Nat \ {0}
  BY <1>2, <1>3
<1>5. PICK q \in Nat, r \in 0..n - 1 : m = q * n + r /\ Bucket(m, n) = q * n
  BY <1>1, BucketIs
<1>6. PICK q2, r2 : q2 = q \div k /\ r2 = q % k
  OBVIOUS
<1>7. q2 \in Nat /\ r2 \in 0..k - 1 /\ q = q2 * k + r2
  BY <1>4, <1>6
<1>8. q * n = q2 * d + r2 * n
  <2>1. (q2 * k + r2) * n = (q2 * k) * n + r2 * n
    BY <1>7
  <2>2. (q2 * k) * n = q2 * (k * n)
    BY <1>7
  <2> QED
    BY <1>3, <1>7, <2>1, <2>2
<1>9. r2 * n \in 0..d - n
  <2>1. k * n = (k - 1) * n + n
    OBVIOUS
  <2>2. (k - 1) * n = r2 * n + (k - 1 - r2) * n
    BY <1>7
  <2>3. (k - 1 - r2) * n \in Nat
    <3>1. k - 1 - r2 \in Nat
      BY <1>4, <1>7
    <3> QED
      BY <3>1
  <2>4. r2 * n \in Nat
    <3>1. r2 \in Nat
      BY <1>4, <1>7
    <3> QED
      BY <3>1
  <2>5. PICK a, b : a = r2 * n /\ b = (k - 1 - r2) * n
    OBVIOUS
  <2>6. d = a + b + n /\ a \in Nat /\ b \in Nat
    BY <1>3, <2>1, <2>2, <2>3, <2>4, <2>5
  <2>7. a \in 0..d - n
    BY <2>6
  <2> QED
    BY <2>5, <2>7
<1>10. PICK a : a = r2 * n
  OBVIOUS
<1>11. a \in 0..d - 1 /\ a + r \in 0..d - 1
  BY <1>9, <1>10
<1>12. q2 * d \in Nat
  BY <1>7
<1>13. Bucket(q2 * d + a, d) = q2 * d /\ Bucket(q2 * d + (a + r), d) = q2 * d
  BY <1>7, <1>11, Quotient
<1>14. m = q2 * d + (a + r) /\ q * n = q2 * d + a
  BY <1>5, <1>8, <1>10, <1>11, <1>12
<1> QED
  BY <1>1, <1>2, <1>5, <1>13, <1>14

(* The buckets of minutes are minutes, and begin before their members. *)
LEMMA BucketType ==
  ASSUME NEW len \in {HourLen, DayLen}, NEW m \in Minutes
  PROVE  Bucket(m, len) \in Minutes /\ Bucket(m, len) <= m /\ Bucket(m, len) \in Buckets(len)
<1>1. m \in Nat /\ m <= LastMinute /\ LastMinute \in Nat /\ len \in Nat \ {0}
  BY TelemetryAssumption DEF Minutes
<1>2. PICK b : b = Bucket(m, len)
  OBVIOUS
<1>3. b \in Nat /\ b <= m
  BY <1>1, <1>2, BucketIs
<1>4. b \in Minutes
  BY <1>1, <1>3 DEF Minutes
<1> QED
  BY <1>2, <1>3, <1>4 DEF Buckets

(* A sum of minutes is a number. *)
LEMMA RecordedType ==
  ASSUME NEW k \in [Minutes -> Nat], NEW b, NEW len
  PROVE  /\ IsFiniteSet(MinutesOf(b, len)) /\ MinutesOf(b, len) \in SUBSET Minutes
         /\ IsFiniteSet(Minutes) /\ Recorded(k, b, len) \in Nat
<1>1. IsFiniteSet(Minutes)
  BY TelemetryAssumption, FS_Interval DEF Minutes
<1>2. MinutesOf(b, len) \in SUBSET Minutes
  BY DEF MinutesOf
<1>3. IsFiniteSet(MinutesOf(b, len))
  BY <1>1, <1>2, FS_Subset
<1>4. \A x \in MinutesOf(b, len) : k[x] \in Nat
  BY <1>2
<1> QED
  BY <1>1, <1>2, <1>3, <1>4, TotalType DEF Recorded

(* A rolled-up table is within its bounds and exact where its sums are. *)
LEMMA RollupFits ==
  ASSUME NEW k \in [Minutes -> Nat], NEW cut \in Nat, NEW len, NEW fine, NEW coarse,
         Within(k, coarse, len), NEW t, t = Rollup(fine, coarse, len),
         \A x \in DOMAIN fine : Bucket(x, len) \in Buckets(len),
         \A b \in Buckets(len) :
            /\ Total(fine, RowsOf(fine, b, len)) \in Nat
            /\ Total(fine, RowsOf(fine, b, len)) <= Recorded(k, b, len)
  PROVE  /\ Within(k, t, len)
         /\ (\A b \in Buckets(len) : b >= cut =>
               Total(fine, RowsOf(fine, b, len)) = Recorded(k, b, len))
            => Exact(k, cut, t, len)
<1>1. /\ DOMAIN t = {Bucket(x, len) : x \in DOMAIN fine} \cup DOMAIN coarse
      /\ \A b \in DOMAIN t : RowsOf(fine, b, len) # {} => t[b] = Total(fine, RowsOf(fine, b, len))
      /\ \A b \in DOMAIN t : RowsOf(fine, b, len) = {} => b \in DOMAIN coarse /\ t[b] = coarse[b]
      /\ \A b : RowsOf(fine, b, len) # {} => b \in DOMAIN t
  BY DEF Rollup, RowsOf
<1>2. DOMAIN t \subseteq Buckets(len)
  BY <1>1 DEF Within
<1>3. \A b \in DOMAIN t : t[b] \in Nat /\ t[b] <= Recorded(k, b, len)
  <2> SUFFICES ASSUME NEW b \in DOMAIN t PROVE t[b] \in Nat /\ t[b] <= Recorded(k, b, len)
    OBVIOUS
  <2>1. CASE RowsOf(fine, b, len) # {}
    BY <1>1, <1>2, <2>1
  <2>2. CASE RowsOf(fine, b, len) = {}
    BY <1>1, <2>2 DEF Within
  <2> QED
    BY <2>1, <2>2
<1>4. ASSUME \A b \in Buckets(len) : b >= cut =>
               Total(fine, RowsOf(fine, b, len)) = Recorded(k, b, len),
             NEW b \in Buckets(len), b >= cut
      PROVE  Shown(t, b) = Recorded(k, b, len)
  <2>1. Total(fine, RowsOf(fine, b, len)) = Recorded(k, b, len)
    BY <1>4
  <2>2. CASE RowsOf(fine, b, len) # {}
    BY <1>1, <2>1, <2>2 DEF Shown
  <2>3. CASE RowsOf(fine, b, len) = {}
    <3>1. Total(fine, RowsOf(fine, b, len)) = 0
      BY <2>3, FS_EmptySet DEF Total, Units
    <3>2. b \in DOMAIN t => t[b] = 0
      <4>1. Recorded(k, b, len) = 0
        BY <2>1, <3>1
      <4>2. b \in DOMAIN t => t[b] \in Nat /\ t[b] <= 0
        BY <1>3, <4>1
      <4> QED
        BY <4>2
    <3> QED
      BY <2>1, <3>1, <3>2 DEF Shown
  <2> QED
    BY <2>2, <2>3
<1> QED
  BY <1>2, <1>3, <1>4 DEF Within, Exact

(* Minutes into hours. *)
LEMMA HourlyFits ==
  ASSUME NEW k \in [Minutes -> Nat], NEW cut \in Nat, NEW fine, NEW coarse,
         ExactMinutes(k, cut, fine), Within(k, coarse, HourLen),
         NEW t, t = Rollup(fine, coarse, HourLen)
  PROVE  Within(k, t, HourLen) /\ Exact(k, cut, t, HourLen)
<1>1. \A x \in DOMAIN fine : Bucket(x, HourLen) \in Buckets(HourLen)
  BY DEF ExactMinutes, Buckets
<1>2. ASSUME NEW b \in Buckets(HourLen)
      PROVE  /\ Total(fine, RowsOf(fine, b, HourLen)) \in Nat
             /\ Total(fine, RowsOf(fine, b, HourLen)) <= Recorded(k, b, HourLen)
             /\ b >= cut => Total(fine, RowsOf(fine, b, HourLen)) = Recorded(k, b, HourLen)
  <2>1. PICK R, M : R = RowsOf(fine, b, HourLen) /\ M = MinutesOf(b, HourLen)
    OBVIOUS
  <2>2. R \in SUBSET M /\ \A x \in R : fine[x] = k[x]
    BY <2>1 DEF RowsOf, MinutesOf, ExactMinutes
  <2>3. IsFiniteSet(M) /\ M \in SUBSET Minutes
    BY <2>1, RecordedType
  <2>4. \A x \in M : k[x] \in Nat
    BY <2>3
  <2>5. Total(fine, R) = Total(k, R)
    BY <2>2, TotalSame
  <2>6. Total(k, R) <= Total(k, M) /\ Total(k, R) \in Nat
    BY <2>2, <2>3, <2>4, TotalMono
  <2>7. ASSUME b >= cut PROVE Total(fine, R) = Total(k, M)
    <3>1. \A x \in M \ R : k[x] = 0
      <4> SUFFICES ASSUME NEW x \in M \ R PROVE k[x] = 0
        OBVIOUS
      <4>1. x \in Minutes /\ Bucket(x, HourLen) = b /\ x \notin DOMAIN fine
        BY <2>1 DEF RowsOf, MinutesOf
      <4>2. b <= x /\ b \in Minutes
        BY <4>1, BucketType
      <4>3. x >= cut
        <5>1. x \in Nat /\ b \in Nat
          BY <4>1, <4>2 DEF Minutes
        <5> QED
          BY <2>7, <4>2, <5>1
      <4> QED
        BY <4>1, <4>3 DEF ExactMinutes
    <3> QED
      BY <2>2, <3>1, TotalSupport
  <2> QED
    BY <2>1, <2>5, <2>6, <2>7 DEF Recorded
<1> QED
  BY <1>1, <1>2, RollupFits

(* The hours of a day. *)
HoursOf(b) == {h \in Buckets(HourLen) : Bucket(h, DayLen) = b}

(* What a day recorded is what its hours did. *)
LEMMA DayOfHours ==
  ASSUME NEW k \in [Minutes -> Nat], NEW b
  PROVE  /\ Total([h \in HoursOf(b) |-> Recorded(k, h, HourLen)], HoursOf(b)) = Recorded(k, b, DayLen)
         /\ IsFiniteSet(HoursOf(b)) /\ HoursOf(b) \in SUBSET Minutes
<1> DEFINE part == [h \in HoursOf(b) |-> MinutesOf(h, HourLen)]
           f == [h \in HoursOf(b) |-> Recorded(k, h, HourLen)]
<1>1. HoursOf(b) \in SUBSET Minutes
  BY BucketType DEF HoursOf, Buckets
<1>2. IsFiniteSet(HoursOf(b))
  BY <1>1, RecordedType, FS_Subset
<1>3. \A h \in HoursOf(b) : IsFiniteSet(part[h]) /\ f[h] = Total(k, part[h])
  BY RecordedType DEF Recorded
<1>4. \A h \in HoursOf(b) : \A x \in part[h] : k[x] \in Nat
  BY RecordedType
<1>5. \A h, g \in HoursOf(b) : h # g => part[h] \cap part[g] = {}
  BY DEF MinutesOf
<1>6. Union(part, HoursOf(b)) = MinutesOf(b, DayLen)
  <2>1. ASSUME NEW m \in Minutes
        PROVE  /\ Bucket(m, HourLen) \in Buckets(HourLen)
               /\ Bucket(Bucket(m, HourLen), DayLen) = Bucket(m, DayLen)
    <3>1. m \in Nat
      BY TelemetryAssumption DEF Minutes
    <3> QED
      BY <3>1, BucketType, NestedBuckets
  <2>2. \A m : m \in Union(part, HoursOf(b)) => m \in MinutesOf(b, DayLen)
    <3> SUFFICES ASSUME NEW m, m \in Union(part, HoursOf(b)) PROVE m \in MinutesOf(b, DayLen)
      OBVIOUS
    <3>1. PICK h \in HoursOf(b) : m \in part[h]
      BY DEF Union
    <3>2. m \in Minutes /\ Bucket(m, HourLen) = h /\ Bucket(h, DayLen) = b
      BY <3>1 DEF MinutesOf, HoursOf
    <3> QED
      BY <2>1, <3>2 DEF MinutesOf
  <2>3. \A m : m \in MinutesOf(b, DayLen) => m \in Union(part, HoursOf(b))
    <3> SUFFICES ASSUME NEW m, m \in MinutesOf(b, DayLen) PROVE m \in Union(part, HoursOf(b))
      OBVIOUS
    <3>1. PICK h : h = Bucket(m, HourLen)
      OBVIOUS
    <3>2. m \in Minutes /\ h \in HoursOf(b)
      BY <2>1, <3>1 DEF MinutesOf, HoursOf
    <3>3. m \in part[h]
      BY <3>1, <3>2 DEF MinutesOf
    <3> QED
      BY <3>2, <3>3 DEF Union
  <2> QED
    BY <2>2, <2>3
<1> HIDE DEF part, f
<1>7. Total(f, HoursOf(b)) = Total(k, Union(part, HoursOf(b)))
  BY <1>2, <1>3, <1>4, <1>5, TotalOfParts
<1> QED
  BY <1>1, <1>2, <1>6, <1>7 DEF Recorded, f

(* Hours into days. *)
LEMMA DailyFits ==
  ASSUME NEW k \in [Minutes -> Nat], NEW cut \in Nat, NEW fine, NEW coarse,
         Within(k, fine, HourLen), Within(k, coarse, DayLen),
         NEW t, t = Rollup(fine, coarse, DayLen)
  PROVE  Within(k, t, DayLen) /\ (Exact(k, cut, fine, HourLen) => Exact(k, cut, t, DayLen))
<1>1. \A x \in DOMAIN fine : Bucket(x, DayLen) \in Buckets(DayLen)
  <2>1. \A x \in DOMAIN fine : x \in Minutes
    BY BucketType DEF Within, Buckets
  <2> QED
    BY <2>1, BucketType
<1>2. ASSUME NEW b \in Buckets(DayLen)
      PROVE  /\ Total(fine, RowsOf(fine, b, DayLen)) \in Nat
             /\ Total(fine, RowsOf(fine, b, DayLen)) <= Recorded(k, b, DayLen)
             /\ Exact(k, cut, fine, HourLen) /\ b >= cut =>
                  Total(fine, RowsOf(fine, b, DayLen)) = Recorded(k, b, DayLen)
  <2>1. PICK R, H : R = RowsOf(fine, b, DayLen) /\ H = HoursOf(b)
    OBVIOUS
  <2>2. PICK f : f = [h \in H |-> Recorded(k, h, HourLen)]
    OBVIOUS
  <2>3. Total(f, H) = Recorded(k, b, DayLen) /\ IsFiniteSet(H) /\ H \in SUBSET Minutes
    BY <2>1, <2>2, DayOfHours
  <2>4. R \in SUBSET H /\ \A h \in R : fine[h] \in Nat /\ fine[h] <= f[h]
    BY <2>1, <2>2 DEF RowsOf, HoursOf, Within
  <2>5. \A h \in H : f[h] \in Nat
    BY <2>2, RecordedType
  <2>6. IsFiniteSet(R)
    BY <2>3, <2>4, FS_Subset
  <2>7. Total(fine, R) <= Total(f, R) /\ Total(fine, R) \in Nat /\ Total(f, R) \in Nat
    <3>1. \A h \in R : fine[h] \in Nat /\ f[h] \in Nat /\ fine[h] <= f[h]
      BY <2>4, <2>5
    <3> QED
      BY <2>6, <3>1, TotalOrder
  <2>8. Total(f, R) <= Total(f, H) /\ Total(f, H) \in Nat
    BY <2>3, <2>4, <2>5, TotalMono
  <2>9. ASSUME Exact(k, cut, fine, HourLen), b >= cut
        PROVE  Total(fine, R) = Total(f, H)
    <3>1. \A h \in H : Shown(fine, h) = f[h]
      <4> SUFFICES ASSUME NEW h \in H PROVE Shown(fine, h) = f[h]
        OBVIOUS
      <4>1. h \in Buckets(HourLen) /\ Bucket(h, DayLen) = b /\ h \in Minutes
        BY <2>1, <2>3 DEF HoursOf
      <4>2. b <= h /\ b \in Minutes
        BY <4>1, BucketType
      <4>3. h >= cut
        <5>1. h \in Nat /\ b \in Nat
          BY <4>1, <4>2 DEF Minutes
        <5> QED
          BY <2>9, <4>2, <5>1
      <4> QED
        BY <2>2, <2>9, <4>1, <4>3 DEF Exact
    <3>2. \A h \in R : fine[h] = f[h]
      BY <2>1, <2>4, <3>1 DEF Shown, RowsOf
    <3>3. \A h \in H \ R : f[h] = 0
      BY <2>1, <3>1 DEF Shown, RowsOf, HoursOf
    <3> QED
      BY <2>4, <3>2, <3>3, TotalSupport
  <2> QED
    BY <2>1, <2>3, <2>7, <2>8, <2>9
<1>3. /\ Within(k, t, DayLen)
      /\ (\A b \in Buckets(DayLen) : b >= cut =>
            Total(fine, RowsOf(fine, b, DayLen)) = Recorded(k, b, DayLen))
         => Exact(k, cut, t, DayLen)
  BY <1>1, <1>2, RollupFits
<1> QED
  BY <1>2, <1>3

(* Old rows go. *)
LEMMA PrunedFits ==
  ASSUME NEW k \in [Minutes -> Nat], NEW cut \in Nat, NEW later \in Nat, cut <= later,
         NEW table, NEW len \in {HourLen, DayLen}, Within(k, table, len),
         NEW t, t = Restrict(table, {b \in DOMAIN table : b >= later})
  PROVE  /\ Within(k, t, len)
         /\ Exact(k, cut, table, len) => Exact(k, later, t, len)
<1>1. /\ DOMAIN t = {b \in DOMAIN table : b >= later}
      /\ \A b \in DOMAIN t : t[b] = table[b]
  BY DEF Restrict
<1>2. Within(k, t, len)
  BY <1>1 DEF Within
<1>3. ASSUME Exact(k, cut, table, len), NEW b \in Buckets(len), b >= later
      PROVE  Shown(t, b) = Recorded(k, b, len)
  <2>1. b \in Nat
    BY BucketType DEF Buckets, Minutes
  <2>2. b >= cut
    BY <1>3, <2>1
  <2>3. Shown(t, b) = Shown(table, b)
    BY <1>1, <1>3 DEF Shown
  <2> QED
    BY <1>3, <2>2, <2>3 DEF Exact
<1> QED
  BY <1>2, <1>3 DEF Exact

(* More is recorded. *)
LEMMA GrowthFits ==
  ASSUME NEW k \in [Minutes -> Nat], NEW k2 \in [Minutes -> Nat], NEW len, NEW table,
         \A m \in Minutes : k[m] <= k2[m], Within(k, table, len)
  PROVE  Within(k2, table, len)
<1>1. \A b : Recorded(k, b, len) <= Recorded(k2, b, len) /\ Recorded(k, b, len) \in Nat
             /\ Recorded(k2, b, len) \in Nat
  <2> TAKE b
  <2>1. IsFiniteSet(MinutesOf(b, len)) /\ MinutesOf(b, len) \in SUBSET Minutes
    BY RecordedType
  <2>2. \A x \in MinutesOf(b, len) : k[x] \in Nat /\ k2[x] \in Nat /\ k[x] <= k2[x]
    BY <2>1
  <2> QED
    BY <2>1, <2>2, TotalOrder DEF Recorded
<1> QED
  BY <1>1 DEF Within

(* The cutoff of a prune at time t. *)
CutAt(t) == IF t > Retention THEN t - Retention ELSE 0

SeriesTypes ==
  /\ now \in Minutes /\ counter \in Nat /\ cutoff \in Nat /\ cutoff <= CutAt(now)
  /\ kept \in [Minutes -> Nat]
  /\ ts \in [pc : {"idle", "minute", "hour", "day", "prune"}, snap : Nat, bucket : Nat,
             ticks : Nat, age : Nat]
  /\ rows = [minute |-> rows.minute, hour |-> rows.hour, day |-> rows.day]
  /\ ts.pc = "minute" => ts.bucket \in Minutes /\ cutoff <= ts.bucket

RollInv ==
  /\ SeriesTypes
  /\ ExactMinutes(kept, cutoff, rows.minute)
  /\ Within(kept, rows.hour, HourLen)
  /\ Within(kept, rows.day, DayLen)
  /\ ts.pc = "day" /\ seen => Exact(kept, cutoff, rows.hour, HourLen)
  /\ ts.pc \in {"idle", "prune"} /\ seen => Exact(kept, cutoff, rows.day, DayLen)

(* The invariant has what RollupExact asks for. *)
LEMMA RollIsExact == RollInv => RollupExact
<1> SUFFICES ASSUME RollInv, NEW b \in Buckets(DayLen)
             PROVE  /\ Shown(rows.day, b) <= Recorded(kept, b, DayLen)
                    /\ ts.pc = "idle" /\ seen /\ b >= cutoff
                         => Shown(rows.day, b) = Recorded(kept, b, DayLen)
  BY DEF RollupExact, Buckets, Recorded
<1>1. Recorded(kept, b, DayLen) \in Nat
  BY RecordedType DEF RollInv, SeriesTypes
<1>2. Shown(rows.day, b) <= Recorded(kept, b, DayLen)
  BY <1>1 DEF RollInv, Within, Shown
<1>3. ts.pc = "idle" /\ seen /\ b >= cutoff => Shown(rows.day, b) = Recorded(kept, b, DayLen)
  BY DEF RollInv, Exact
<1> QED
  BY <1>2, <1>3

(* A cutoff is not in the future, and later ones are not earlier. *)
LEMMA CutType ==
  ASSUME NEW t \in Minutes
  PROVE  CutAt(t) \in Nat /\ CutAt(t) <= t /\ (t < LastMinute => CutAt(t) <= CutAt(t + 1) /\ t + 1 \in Minutes)
  BY TelemetryAssumption DEF CutAt, Minutes

(* Steps that leave the tables alone, and what was recorded and cut. *)
LEMMA RollKept ==
  ASSUME RollInv, SeriesTypes', UNCHANGED <<rows, kept, cutoff>>,
         \/ ~seen'
         \/ seen' = seen /\ ts'.pc = ts.pc
  PROVE  RollInv'
<1>1. ExactMinutes(kept, cutoff, rows.minute)'
  BY DEF RollInv
<1>2. Within(kept, rows.hour, HourLen)' /\ Within(kept, rows.day, DayLen)'
  BY DEF RollInv
<1>3. (ts.pc = "day" /\ seen => Exact(kept, cutoff, rows.hour, HourLen))'
  BY DEF RollInv
<1>4. (ts.pc \in {"idle", "prune"} /\ seen => Exact(kept, cutoff, rows.day, DayLen))'
  BY DEF RollInv
<1> QED
  BY <1>1, <1>2, <1>3, <1>4 DEF RollInv

(* The minute is recorded. *)
LEMMA MinuteStep ==
  ASSUME RollInv, RecordMinute
  PROVE  RollInv'
<1>1. /\ ts.pc = "minute" /\ ts.bucket \in Minutes /\ cutoff <= ts.bucket /\ ts.snap \in Nat
      /\ ts'.pc = "hour" /\ UNCHANGED <<now, counter, seen, cutoff>>
      /\ ts' \in [pc : {"idle", "minute", "hour", "day", "prune"}, snap : Nat, bucket : Nat,
                  ticks : Nat, age : Nat]
  BY DEF RecordMinute, RollInv, SeriesTypes
<1>2. CASE UNCHANGED <<rows, kept>>
  <2>1. SeriesTypes'
    BY <1>1, <1>2 DEF RollInv, SeriesTypes
  <2>2. ExactMinutes(kept, cutoff, rows.minute)' /\ Within(kept, rows.hour, HourLen)'
        /\ Within(kept, rows.day, DayLen)'
    BY <1>1, <1>2 DEF RollInv
  <2> QED
    BY <1>1, <2>1, <2>2 DEF RollInv
<1>3. CASE ~UNCHANGED <<rows, kept>>
  <2>1. PICK x \in Minutes : x = ts.bucket
    BY <1>1
  <2>2. PICK n \in Nat : n = ts.snap
    BY <1>1
  <2>3. PICK old : old = rows.minute
    OBVIOUS
  <2>4. /\ rows' = [rows EXCEPT !.minute =
                      [m \in DOMAIN old \cup {x} |-> IF m = x THEN Shown(old, m) + n ELSE old[m]]]
        /\ kept' = [kept EXCEPT ![x] = kept[x] + n]
    BY <1>3, <2>1, <2>2, <2>3 DEF RecordMinute
  <2>5. kept \in [Minutes -> Nat] /\ rows = [minute |-> rows.minute, hour |-> rows.hour, day |-> rows.day]
        /\ ExactMinutes(kept, cutoff, old)
    BY <2>3 DEF RollInv, SeriesTypes
  <2>6. /\ rows' = [minute |-> rows'.minute, hour |-> rows'.hour, day |-> rows'.day]
        /\ rows'.hour = rows.hour /\ rows'.day = rows.day
        /\ rows'.minute = [m \in DOMAIN old \cup {x} |-> IF m = x THEN Shown(old, m) + n ELSE old[m]]
    BY <2>4, <2>5
  <2>7. kept' \in [Minutes -> Nat] /\ \A m \in Minutes : kept[m] <= kept'[m]
    BY <2>4, <2>5
  <2>8. SeriesTypes'
    BY <1>1, <2>6, <2>7 DEF RollInv, SeriesTypes
  <2>9. Within(kept, rows.hour, HourLen)' /\ Within(kept, rows.day, DayLen)'
    BY <2>5, <2>6, <2>7, GrowthFits DEF RollInv
  <2>10. ExactMinutes(kept', cutoff, rows'.minute)
    <3>1. DOMAIN rows'.minute = DOMAIN old \cup {x} /\ DOMAIN old \subseteq Minutes
      BY <2>5, <2>6 DEF ExactMinutes
    <3>2. \A m \in DOMAIN rows'.minute : m >= cutoff /\ rows'.minute[m] = kept'[m]
      <4> SUFFICES ASSUME NEW m \in DOMAIN rows'.minute
                   PROVE  m >= cutoff /\ rows'.minute[m] = kept'[m]
        OBVIOUS
      <4>1. CASE m = x
        <5>1. x \in Nat /\ cutoff \in Nat /\ cutoff <= x
          BY <1>1, <2>1 DEF RollInv, SeriesTypes, Minutes
        <5>2. Shown(old, x) = kept[x]
          BY <2>5, <5>1 DEF Shown, ExactMinutes
        <5> QED
          BY <2>4, <2>5, <2>6, <4>1, <5>1, <5>2
      <4>2. CASE m # x
        BY <2>4, <2>5, <2>6, <3>1, <4>2 DEF ExactMinutes
      <4> QED
        BY <4>1, <4>2
    <3>3. \A m \in Minutes \ DOMAIN rows'.minute : m >= cutoff => kept'[m] = 0
      BY <2>4, <2>5, <3>1 DEF ExactMinutes
    <3> QED
      BY <3>1, <3>2, <3>3 DEF ExactMinutes
  <2> QED
    BY <1>1, <2>8, <2>9, <2>10 DEF RollInv
<1> QED
  BY <1>2, <1>3

(* The hours are rolled up, or that fails. *)
LEMMA HourStep ==
  ASSUME RollInv, RollupHourly
  PROVE  RollInv'
<1>1. /\ ts'.pc = "day" /\ UNCHANGED <<now, counter, kept, cutoff>>
      /\ ts' \in [pc : {"idle", "minute", "hour", "day", "prune"}, snap : Nat, bucket : Nat,
                  ticks : Nat, age : Nat]
  BY DEF RollupHourly, RollInv, SeriesTypes
<1>2. CASE rows' = rows /\ ~seen'
  <2>1. SeriesTypes'
    BY <1>1, <1>2 DEF RollInv, SeriesTypes
  <2> QED
    BY <1>1, <1>2, <2>1, RollKept
<1>3. CASE rows' = [rows EXCEPT !.hour = Rollup(rows.minute, rows.hour, HourLen)]
  <2>1. PICK t : t = Rollup(rows.minute, rows.hour, HourLen)
    OBVIOUS
  <2>2. /\ rows' = [minute |-> rows'.minute, hour |-> rows'.hour, day |-> rows'.day]
        /\ rows'.minute = rows.minute /\ rows'.day = rows.day /\ rows'.hour = t
    BY <1>3, <2>1 DEF RollInv, SeriesTypes
  <2>3. SeriesTypes'
    BY <1>1, <2>2 DEF RollInv, SeriesTypes
  <2>4. Within(kept, t, HourLen) /\ Exact(kept, cutoff, t, HourLen)
    BY <2>1, HourlyFits DEF RollInv, SeriesTypes
  <2>5. ExactMinutes(kept, cutoff, rows.minute)' /\ Within(kept, rows.day, DayLen)'
    BY <1>1, <2>2 DEF RollInv
  <2>6. Within(kept, rows.hour, HourLen)' /\ Exact(kept, cutoff, rows.hour, HourLen)'
    BY <1>1, <2>2, <2>4
  <2> QED
    BY <1>1, <2>3, <2>5, <2>6 DEF RollInv
<1> QED
  BY <1>2, <1>3 DEF RollupHourly

(* The days are rolled up, or that fails. *)
LEMMA DayStep ==
  ASSUME RollInv, RollupDaily
  PROVE  RollInv'
<1>1. /\ ts.pc = "day" /\ ts'.pc \in {"idle", "prune"} /\ UNCHANGED <<now, counter, kept, cutoff>>
      /\ ts' \in [pc : {"idle", "minute", "hour", "day", "prune"}, snap : Nat, bucket : Nat,
                  ticks : Nat, age : Nat]
  BY DEF RollupDaily, RollInv, SeriesTypes
<1>2. CASE rows' = rows /\ ~seen'
  <2>1. SeriesTypes'
    BY <1>1, <1>2 DEF RollInv, SeriesTypes
  <2> QED
    BY <1>1, <1>2, <2>1, RollKept
<1>3. CASE rows' = [rows EXCEPT !.day = Rollup(rows.hour, rows.day, DayLen)] /\ seen' = seen
  <2>1. PICK t : t = Rollup(rows.hour, rows.day, DayLen)
    OBVIOUS
  <2>2. /\ rows' = [minute |-> rows'.minute, hour |-> rows'.hour, day |-> rows'.day]
        /\ rows'.minute = rows.minute /\ rows'.day = t /\ rows'.hour = rows.hour
    BY <1>3, <2>1 DEF RollInv, SeriesTypes
  <2>3. SeriesTypes'
    BY <1>1, <2>2 DEF RollInv, SeriesTypes
  <2>4. Within(kept, t, DayLen) /\ (seen => Exact(kept, cutoff, t, DayLen))
    BY <1>1, <2>1, DailyFits DEF RollInv, SeriesTypes
  <2>5. ExactMinutes(kept, cutoff, rows.minute)' /\ Within(kept, rows.hour, HourLen)'
    BY <1>1, <2>2 DEF RollInv
  <2>6. Within(kept, rows.day, DayLen)' /\ (seen => Exact(kept, cutoff, rows.day, DayLen))'
    BY <1>1, <1>3, <2>2, <2>4
  <2> QED
    BY <1>1, <2>3, <2>5, <2>6 DEF RollInv
<1> QED
  BY <1>2, <1>3 DEF RollupDaily

(* Old rows are removed, or that fails. *)
LEMMA PruneStep ==
  ASSUME RollInv, Prune
  PROVE  RollInv'
<1>1. /\ ts.pc = "prune" /\ ts'.pc = "idle" /\ UNCHANGED <<now, counter, kept, seen>>
      /\ ts' \in [pc : {"idle", "minute", "hour", "day", "prune"}, snap : Nat, bucket : Nat,
                  ticks : Nat, age : Nat]
  BY DEF Prune, RollInv, SeriesTypes
<1>2. CASE UNCHANGED <<rows, cutoff>>
  <2>1. SeriesTypes'
    BY <1>1, <1>2 DEF RollInv, SeriesTypes
  <2>2. ExactMinutes(kept, cutoff, rows.minute)' /\ Within(kept, rows.hour, HourLen)'
        /\ Within(kept, rows.day, DayLen)' /\ (seen => Exact(kept, cutoff, rows.day, DayLen))'
    BY <1>1, <1>2 DEF RollInv
  <2> QED
    BY <1>1, <2>1, <2>2 DEF RollInv
<1>3. CASE ~UNCHANGED <<rows, cutoff>>
  <2>1. PICK cut : cut = CutAt(now)
    OBVIOUS
  <2>2. cut \in Nat /\ cutoff \in Nat /\ cutoff <= cut
    BY <2>1, CutType DEF RollInv, SeriesTypes
  <2> DEFINE Keep(table) == Restrict(table, {b \in DOMAIN table : b >= cut})
  <2>3. /\ rows' = [minute |-> Keep(rows.minute), hour |-> Keep(rows.hour), day |-> Keep(rows.day)]
        /\ cutoff' = cut
    BY <1>3, <2>1 DEF Prune, CutAt
  <2>4. PICK mi, ho, da : mi = Keep(rows.minute) /\ ho = Keep(rows.hour) /\ da = Keep(rows.day)
    OBVIOUS
  <2>5. /\ rows' = [minute |-> rows'.minute, hour |-> rows'.hour, day |-> rows'.day]
        /\ rows'.minute = mi /\ rows'.hour = ho /\ rows'.day = da
    BY <2>3, <2>4
  <2>6. SeriesTypes'
    BY <1>1, <2>1, <2>2, <2>3, <2>5 DEF RollInv, SeriesTypes
  <2>7. Within(kept, ho, HourLen) /\ Within(kept, da, DayLen)
        /\ (seen => Exact(kept, cut, da, DayLen))
    BY <1>1, <2>2, <2>4, PrunedFits DEF RollInv, SeriesTypes
  <2>8. ExactMinutes(kept, cut, mi)
    <3>1. DOMAIN mi = {b \in DOMAIN rows.minute : b >= cut} /\ \A m \in DOMAIN mi : mi[m] = rows.minute[m]
      BY <2>4 DEF Restrict
    <3>2. \A m \in Minutes : m \in Nat
      BY DEF Minutes
    <3>3. ExactMinutes(kept, cutoff, rows.minute)
      BY DEF RollInv
    <3>4. \A m \in Minutes \ DOMAIN mi : m >= cut => m \notin DOMAIN rows.minute /\ m >= cutoff
      BY <2>2, <3>1, <3>2
    <3> QED
      BY <3>1, <3>3, <3>4 DEF ExactMinutes
  <2>9. ExactMinutes(kept, cutoff, rows.minute)' /\ Within(kept, rows.hour, HourLen)'
        /\ Within(kept, rows.day, DayLen)' /\ (seen => Exact(kept, cutoff, rows.day, DayLen))'
    BY <1>1, <2>3, <2>5, <2>7, <2>8
  <2> QED
    BY <1>1, <2>6, <2>9 DEF RollInv
<1> QED
  BY <1>2, <1>3

(* Every step of the counts, and a restart. *)
LEMMA RollKeeps ==
  ASSUME RollInv, TelemetryNext \/ QueryStep \/ TelemetryRestart \/ UNCHANGED telemetryVars
  PROVE  RollInv'
<1>0. SeriesTypes
  BY DEF RollInv
<1>1. CASE \/ Aggregate \/ AggregatorDies \/ Drain \/ Flush \/ FlushStats \/ QueryStep
           \/ UNCHANGED telemetryVars
  <2>1. UNCHANGED <<ts, rows, now, kept, seen, cutoff>> /\ counter' \in Nat
    BY <1>0, <1>1 DEF Aggregate, AggregatorDies, Drain, Flush, FlushStats, QueryStep, CountQuery, RecordEvent,
                      RecordThroughput, telemetryVars, seriesVars, SeriesTypes
  <2>2. SeriesTypes'
    BY <1>0, <2>1 DEF SeriesTypes
  <2> QED
    BY <2>1, <2>2, RollKept
<1>2. CASE MinutePasses
  <2>1. /\ now < LastMinute /\ now' = now + 1 /\ UNCHANGED <<rows, kept, seen, cutoff, counter>>
        /\ ts' \in [pc : {"idle", "minute", "hour", "day", "prune"}, snap : Nat, bucket : Nat,
                    ticks : Nat, age : Nat]
        /\ ts'.pc = ts.pc /\ ts'.bucket = ts.bucket
    <3>1. PICK p \in {"idle", "minute", "hour", "day", "prune"}, sn \in Nat, bu \in Nat,
               ti \in Nat, ag \in Nat :
             ts = [pc |-> p, snap |-> sn, bucket |-> bu, ticks |-> ti, age |-> ag]
      BY <1>0 DEF SeriesTypes
    <3>2. PICK older \in Nat : older = IF ag = DayLen THEN DayLen ELSE ag + 1
      BY TelemetryAssumption
    <3>3. ts' = [pc |-> p, snap |-> sn, bucket |-> bu, ticks |-> ti + 1, age |-> older]
      BY <1>2, <3>1, <3>2 DEF MinutePasses
    <3>4. ti + 1 \in Nat
      OBVIOUS
    <3>5. /\ now < LastMinute /\ now' = now + 1 /\ UNCHANGED <<rows, kept, seen, cutoff, counter>>
      BY <1>2 DEF MinutePasses
    <3> QED
      BY <3>1, <3>2, <3>3, <3>4, <3>5
  <2>2. now' \in Minutes /\ cutoff' <= CutAt(now)'
    <3>1. PICK t \in Minutes : t = now
      BY <1>0 DEF SeriesTypes
    <3>2. CutAt(t) \in Nat /\ CutAt(t) <= CutAt(t + 1) /\ t + 1 \in Minutes /\ CutAt(t + 1) \in Nat
      BY <2>1, <3>1, CutType
    <3>3. cutoff \in Nat /\ cutoff <= CutAt(t)
      BY <1>0, <3>1 DEF SeriesTypes
    <3>4. cutoff <= CutAt(t + 1)
      BY <3>2, <3>3
    <3>5. CutAt(now)' = CutAt(t + 1)
      BY <2>1, <3>1 DEF CutAt
    <3> QED
      BY <2>1, <3>1, <3>2, <3>4, <3>5
  <2>3. SeriesTypes'
    BY <1>0, <2>1, <2>2 DEF SeriesTypes
  <2> QED
    BY <2>1, <2>3, RollKept
<1>3. CASE TakeSnapshot
  <2>1. /\ UNCHANGED <<rows, kept, cutoff, now>> /\ ~seen' /\ counter' = 0
        /\ ts' \in [pc : {"idle", "minute", "hour", "day", "prune"}, snap : Nat, bucket : Nat,
                    ticks : Nat, age : Nat]
        /\ ts'.pc = "minute" /\ ts'.bucket = now
    <3>1. PICK p \in {"idle", "minute", "hour", "day", "prune"}, sn \in Nat, bu \in Nat,
               ti \in Nat, ag \in Nat :
             ts = [pc |-> p, snap |-> sn, bucket |-> bu, ticks |-> ti, age |-> ag]
      BY <1>0 DEF SeriesTypes
    <3>2. /\ ts.ticks > 0 /\ UNCHANGED <<rows, kept, cutoff, now>> /\ ~seen' /\ counter' = 0
      BY <1>3 DEF TakeSnapshot
    <3>3. ti - 1 \in Nat
      BY <3>1, <3>2
    <3>4. ts' = [pc |-> "minute", snap |-> counter, bucket |-> now, ticks |-> ti - 1, age |-> ag]
      BY <1>3, <3>1 DEF TakeSnapshot
    <3>5. counter \in Nat /\ now \in Nat
      BY <1>0 DEF SeriesTypes, Minutes
    <3> QED
      BY <3>1, <3>2, <3>3, <3>4, <3>5
  <2>2. cutoff <= now
    <3>1. CutAt(now) \in Nat /\ CutAt(now) <= now /\ now \in Nat
      BY <1>0, CutType DEF SeriesTypes, Minutes
    <3> QED
      BY <1>0, <3>1 DEF SeriesTypes
  <2>3. SeriesTypes'
    BY <1>0, <2>1, <2>2 DEF SeriesTypes, CutAt
  <2> QED
    BY <2>1, <2>3, RollKept
<1>4. CASE TelemetryRestart
  <2>1. /\ UNCHANGED <<rows, kept, cutoff, now>> /\ ~seen' /\ counter' = 0
        /\ ts' = Idle
    BY <1>4 DEF TelemetryRestart
  <2>2. SeriesTypes'
    BY <1>0, <2>1 DEF SeriesTypes, Idle, CutAt
  <2> QED
    BY <2>1, <2>2, RollKept
<1> QED
  BY <1>1, <1>2, <1>3, <1>4, MinuteStep, HourStep, DayStep, PruneStep DEF TelemetryNext

(* Nothing is recorded at the start. *)
LEMMA RollStarts ==
  ASSUME TelemetryInit, now \in Minutes
  PROVE  RollInv
<1>1. /\ kept = [m \in Minutes |-> 0] /\ cutoff = 0 /\ counter = 0 /\ ts = Idle /\ ~seen
      /\ rows = [minute |-> NoRows, hour |-> NoRows, day |-> NoRows] /\ DOMAIN NoRows = {}
  BY DEF TelemetryInit, NoRows
<1>2. 0 <= CutAt(now)
  BY CutType
<1>3. SeriesTypes
  BY <1>1, <1>2 DEF SeriesTypes, Idle
<1>4. rows.minute = NoRows /\ rows.hour = NoRows /\ rows.day = NoRows
  BY <1>1
<1>5. ExactMinutes(kept, cutoff, rows.minute)
  BY <1>1, <1>4 DEF ExactMinutes
<1>6. Within(kept, rows.hour, HourLen) /\ Within(kept, rows.day, DayLen)
  BY <1>1, <1>4 DEF Within
<1> QED
  BY <1>1, <1>3, <1>5, <1>6 DEF RollInv

-----------------------------------------------------------------------------
(***************************************************************************)
(* The process.                                                            *)
(***************************************************************************)
IInv == FrontInv /\ LoginInv /\ CountInv /\ RollInv

(* Nobody has logged in, nothing is counted, and who is served has a permit. *)
LEMMA InitKeeps == Init => IInv
<1> SUFFICES ASSUME Init
             PROVE  IInv
  OBVIOUS
<1>1. FrontInv
  BY FrontStarts DEF Init
<1>2. LoginInv
  BY LoginStarts DEF Init
<1>3. CountInv
  BY DEF Init, TelemetryInit, CountInv, CountedOnce
<1>4. now \in Minutes
  BY BudgetsAssumption DEF Init, Minutes
<1>5. RollInv
  BY <1>4, RollStarts DEF Init
<1>6. QED
  BY <1>1, <1>2, <1>3, <1>5 DEF IInv

(* A step of one part leaves the others alone; a restart is one of all. *)
LEMMA NextKeeps == IInv /\ [Next]_vars => IInv'
<1> SUFFICES ASSUME IInv, [Next]_vars
             PROVE  IInv'
  OBVIOUS
<1>1. FrontInv /\ LoginInv /\ CountInv /\ RollInv
  BY DEF IInv
<1>2. CASE Restart
  <2>1. FrontRestart /\ LoginRestart /\ TelemetryRestart
    BY <1>2 DEF Restart
  <2>2. QED
    BY <1>1, <2>1, RestartKeeps, LoginKeeps, CountKeeps, RollKeeps DEF IInv
<1>3. CASE ~Restart
  <2>1. FrontNext \/ UNCHANGED frontVars
    BY <1>3 DEF Next, FrontStep, LoginStep, TelemetryStep, Query, vars
  <2>2. LoginNext \/ UNCHANGED loginVars
    BY <1>3 DEF Next, FrontStep, LoginStep, TelemetryStep, Query, vars
  <2>3. TelemetryNext \/ QueryStep \/ UNCHANGED telemetryVars
    BY <1>3 DEF Next, FrontStep, LoginStep, TelemetryStep, Query, Starts, Records, Ends, QueryStep, vars
  <2>4. QED
    BY <1>1, <2>1, <2>2, <2>3, FrontKeeps, LoginKeeps, CountKeeps, RollKeeps DEF IInv
<1>4. QED
  BY <1>2, <1>3

(* The four invariants hold of every life of the process. *)
LEMMA InvariantHolds == Spec => []IInv
  BY InitKeeps, NextKeeps, PTL DEF Spec

(* For any number of clients, users and connections, and however the accepts, handshakes,
   limit checks, disconnects, panics, shutdowns and restarts interleave: no more than
   max_connections clients of a user are served (handle_client raises the user's counter
   before it checks it), and every permit of a listener is free or held by a connection. *)
THEOREM LimitsAreKept == Spec => []LimitsHold
<1>1. IInv => LimitsHold
  BY DEF IInv, FrontInv, ServedOK, PermitsOK, LimitsHold, Listeners
<1>2. QED
  BY <1>1, InvariantHolds, PTL

(* The requests that pass check_login_rate before any of them has failed may overshoot the
   limit, by at most one less than there are of them at a time, for any limit and number. *)
THEOREM AttemptsAreBounded == Spec => []AttemptsBounded
<1>1. IInv => AttemptsBounded
  <2>1. Checked \in SUBSET Browsers
    BY DEF Checked
  <2>2. Cardinality(Checked) \in Nat /\ Cardinality(Browsers) \in Nat
    BY <2>1, NoMore, LoginAssumption, FS_CardinalityType
  <2>3. QED
    BY <2>2, LoginAssumption DEF IInv, LoginInv, AttemptsBounded
<1>2. QED
  BY <1>1, InvariantHolds, PTL

(* No event of try_record is counted twice on its way through the channel, the shard maps,
   the batch and the stored statistics, whatever is dropped, dies, fails to be written or
   is restarted; and queries_total, restored from the statistics, never exceeds them and
   what the process has counted, however many events a query records. *)
THEOREM EventsCountedOnce == Spec => []CountedOnce
<1>1. IInv => CountedOnce
  BY DEF IInv, CountInv
<1>2. QED
  BY <1>1, InvariantHolds, PTL

(* However often the rollups run, whatever of them fails, and wherever prune's cutoff falls
   inside an hour or a day: no row of a day claims more than record_minute wrote, and after
   a pass whose rollups both succeeded the days that are not cut into are exact.  For any
   lengths of an hour and a day, any retention and any budget of queries and faults. *)
THEOREM RollupsAreExact == Spec => []RollupExact
<1>1. IInv => RollupExact
  BY RollIsExact DEF IInv
<1>2. QED
  BY <1>1, InvariantHolds, PTL
=============================================================================
