----------------------------- MODULE PoolProofs -----------------------------
(***************************************************************************)
(* Proofs about ConnectionPool and BackendPool, both of src/proxy/pool.rs:  *)
(* first one kind of pool by itself, for any number of sessions, backends   *)
(* and databases and any pool size, connection limit and queue size; then   *)
(* the weighted choice; then the routing over the pools, for any number of  *)
(* replicas, any weights and any backups.                                  *)
(***************************************************************************)
EXTENDS BackendPool, SumsProofs, FiniteSetTheorems, TLAPS

-----------------------------------------------------------------------------
(* Removing an element of a sequence leaves a sequence over the same set. *)
LEMMA RemoveAtType ==
  ASSUME NEW S, NEW q \in Seq(S), NEW i \in DOMAIN q
  PROVE  RemoveAt(q, i) \in Seq(S)
  BY DEF RemoveAt

(* The wrap-around counters stay in the range of a usize. *)
LEMMA CounterType ==
  ASSUME NEW x \in 0..UsizeMax
  PROVE  FetchAdd(x) \in 0..UsizeMax /\ FetchSub(x) \in 0..UsizeMax
  BY PoolAssumption DEF FetchAdd, FetchSub

(* The initial state of the pool is well typed. *)
LEMMA InitType == Init => TypeOK
  BY PoolAssumption DEF Init, TypeOK, OwnsConn, PCs

(* Popping from a bucket, whether it finds a connection or not. *)
LEMMA PopType ==
  ASSUME TypeOK, NEW s \in Sessions, NEW b \in Backends, NEW d \in Databases,
         Pop(s, b, d)
  PROVE  TypeOK'
<1>1. /\ permits' \in [Backends -> Nat]
      /\ waiting' \in [Backends -> Seq(Sessions)]
      /\ at' \in [Sessions -> Backends]
      /\ key' \in [Sessions -> Databases]
      /\ now' \in Nat
      /\ lost' \in [Backends -> Nat]
      /\ checkouts' \in [Backends -> Nat]
  <2>1. permits' \in [Backends -> Nat] /\ waiting' \in [Backends -> Seq(Sessions)]
    BY DEF TypeOK, Pop
  <2>2. at' \in [Sessions -> Backends] /\ key' \in [Sessions -> Databases]
    BY DEF TypeOK, Pop
  <2>3. now' \in Nat /\ lost' \in [Backends -> Nat]
    BY DEF TypeOK, Pop
  <2>4. checkouts' \in [Backends -> Nat]
    BY DEF TypeOK, Pop
  <2>5. QED
    BY <2>1, <2>2, <2>3, <2>4
<1>2. CASE Reuse(s, b, d)
  <2>1. PICK i \in DOMAIN idle[b][d] :
          /\ idle' = [idle EXCEPT ![b][d] = SubSeq(idle[b][d], 1, i - 1)]
          /\ borrowed' = [borrowed EXCEPT ![b] = FetchAdd(@)]
          /\ conn' = [conn EXCEPT ![s] = idle[b][d][i].conn]
          /\ pc' = [pc EXCEPT ![s] = "held"]
    BY <1>2 DEF Reuse
  <2>2. idle[b][d] \in Seq(PooledConn)
    BY DEF TypeOK
  <2>3. idle[b][d][i] \in PooledConn
    BY <2>2
  <2>4. idle[b][d][i].conn \in Conn
    BY <2>3 DEF PooledConn
  <2>5. SubSeq(idle[b][d], 1, i - 1) \in Seq(PooledConn)
    BY <2>2
  <2>6. idle' \in [Backends -> [Databases -> Seq(PooledConn)]]
    BY <2>1, <2>5 DEF TypeOK
  <2>7. borrowed' \in [Backends -> 0..UsizeMax]
    BY <2>1, CounterType DEF TypeOK
  <2>8. pc' \in [Sessions -> PCs] /\ conn' \in [Sessions -> Conn \cup {NoConn}]
    BY <2>1, <2>4 DEF TypeOK, PCs
  <2>9. OwnsConn'
    BY <2>1, <2>4 DEF TypeOK, OwnsConn
  <2>10. QED
    BY <1>1, <2>6, <2>7, <2>8, <2>9 DEF TypeOK
<1>3. CASE Miss(s, b, d)
  <2>1. idle' \in [Backends -> [Databases -> Seq(PooledConn)]]
    BY <1>3 DEF TypeOK, Miss
  <2>2. /\ borrowed' = borrowed /\ conn' = conn
        /\ pc' \in [Sessions -> PCs]
    BY <1>3 DEF TypeOK, Miss, PCs
  <2>3. OwnsConn'
    BY <1>3 DEF TypeOK, Miss, OwnsConn
  <2>4. QED
    BY <1>1, <2>1, <2>2, <2>3 DEF TypeOK
<1>4. QED
  BY <1>2, <1>3 DEF Pop

(* A step of a running get. *)
LEMMA GetStepType ==
  ASSUME TypeOK, NEW s \in Sessions, GetStep(s)
  PROVE  TypeOK'
<1>1. at[s] \in Backends
  BY DEF TypeOK
<1>2. CASE BelowLimit(s) \/ RejectFast(s) \/ ConnectFail(s) \/ GiveUp(s)
  BY <1>2 DEF TypeOK, OwnsConn, PCs, BelowLimit, RejectFast, ConnectFail, GiveUp,
              poolVars, histVars
<1>3. CASE Enqueue(s)
  <2>1. waiting' \in [Backends -> Seq(Sessions)]
    BY <1>1, <1>3 DEF TypeOK, Enqueue
  <2>2. QED
    BY <1>3, <2>1 DEF TypeOK, OwnsConn, PCs, Enqueue, histVars
<1>4. CASE AcquirePermit(s)
  <2>1. PICK i \in DOMAIN waiting[at[s]] :
          /\ i <= permits[at[s]]
          /\ waiting' = [waiting EXCEPT ![at[s]] = RemoveAt(@, i)]
    BY <1>4 DEF AcquirePermit, Granted
  <2>2. waiting[at[s]] \in Seq(Sessions)
    BY <1>1 DEF TypeOK
  <2>3. RemoveAt(waiting[at[s]], i) \in Seq(Sessions)
    BY <2>2, RemoveAtType
  <2>4. waiting' \in [Backends -> Seq(Sessions)]
    BY <1>1, <2>1, <2>3 DEF TypeOK
  <2>5. permits[at[s]] \in Nat /\ permits[at[s]] >= 1
    BY <1>1, <2>1, <2>2 DEF TypeOK
  <2>6. permits' = [permits EXCEPT ![at[s]] = permits[at[s]] - 1]
    BY <1>4 DEF AcquirePermit
  <2>7. permits[at[s]] - 1 \in Nat
    BY <2>5
  <2>8. permits' \in [Backends -> Nat]
    BY <2>6, <2>7 DEF TypeOK
  <2>9. QED
    BY <1>4, <2>4, <2>8 DEF TypeOK, OwnsConn, PCs, AcquirePermit, histVars
<1>5. CASE WaitTimeout(s)
  <2>1. PICK i \in DOMAIN waiting[at[s]] :
          waiting' = [waiting EXCEPT ![at[s]] = RemoveAt(@, i)]
    BY <1>5 DEF WaitTimeout
  <2>2. waiting[at[s]] \in Seq(Sessions)
    BY <1>1 DEF TypeOK
  <2>3. RemoveAt(waiting[at[s]], i) \in Seq(Sessions)
    BY <2>2, RemoveAtType
  <2>4. waiting' \in [Backends -> Seq(Sessions)]
    BY <1>1, <2>1, <2>3 DEF TypeOK
  <2>5. QED
    BY <1>5, <2>4 DEF TypeOK, OwnsConn, PCs, WaitTimeout, histVars
<1>6. CASE Connect(s)
  <2>1. [home |-> at[s], db |-> key[s], inTx |-> FALSE, healthy |-> TRUE] \in Conn
    BY <1>1 DEF TypeOK, Conn
  <2>2. borrowed' \in [Backends -> 0..UsizeMax]
    BY <1>1, <1>6, CounterType DEF TypeOK, Connect
  <2>3. /\ conn' \in [Sessions -> Conn \cup {NoConn}]
        /\ pc' \in [Sessions -> PCs]
    BY <1>6, <2>1 DEF TypeOK, Connect, PCs
  <2>4. OwnsConn'
    BY <1>6, <2>1 DEF TypeOK, OwnsConn, Connect
  <2>5. QED
    BY <1>6, <2>2, <2>3, <2>4 DEF TypeOK, Connect, histVars
<1>7. QED
  BY <1>2, <1>3, <1>4, <1>5, <1>6 DEF GetStep, WaitStep, ConnectStep

(* What the owner of a connection does with it. *)
LEMMA UseStepType ==
  ASSUME TypeOK, NEW s \in Sessions, UseStep(s)
  PROVE  TypeOK'
<1>1. pc[s] = "held"
  BY DEF UseStep, ToggleTx, ReadFails, SelectDb, Abandon
<1>2. conn[s] \in Conn
  BY <1>1 DEF TypeOK, OwnsConn
<1>3. CASE ToggleTx(s)
  <2>1. [conn[s] EXCEPT !.inTx = ~conn[s].inTx] \in Conn
    BY <1>2 DEF Conn
  <2>2. conn' = [conn EXCEPT ![s] = [conn[s] EXCEPT !.inTx = ~conn[s].inTx]]
    BY <1>3 DEF ToggleTx
  <2>3. QED
    BY <1>3, <2>1, <2>2 DEF TypeOK, OwnsConn, ToggleTx, poolVars, histVars
<1>4. CASE ReadFails(s)
  <2>1. [conn[s] EXCEPT !.healthy = FALSE] \in Conn
    BY <1>2 DEF Conn
  <2>2. conn' = [conn EXCEPT ![s] = [conn[s] EXCEPT !.healthy = FALSE]]
    BY <1>4 DEF ReadFails
  <2>3. QED
    BY <1>4, <2>1, <2>2 DEF TypeOK, OwnsConn, ReadFails, poolVars, histVars
<1>5. ASSUME NEW d \in Databases, SelectDb(s, d)
      PROVE  TypeOK'
  <2>1. [conn[s] EXCEPT !.db = d] \in Conn
    BY <1>2 DEF Conn
  <2>2. conn' = [conn EXCEPT ![s] = [conn[s] EXCEPT !.db = d]]
    BY <1>5 DEF SelectDb
  <2>3. QED
    BY <1>5, <2>1, <2>2 DEF TypeOK, OwnsConn, SelectDb, poolVars, histVars
<1>6. CASE Abandon(s)
  BY <1>6 DEF TypeOK, OwnsConn, PCs, Abandon, poolVars
<1>7. QED
  BY <1>3, <1>4, <1>5, <1>6 DEF UseStep

(* Returning a connection: the counter and the permit, then the bucket. *)
LEMMA PutType ==
  ASSUME TypeOK, NEW s \in Sessions, NEW b \in Backends,
         PutRelease(s, b) \/ PutStore(s)
  PROVE  TypeOK'
<1>1. CASE PutRelease(s, b)
  <2>1. conn[s] \in Conn
    BY <1>1 DEF TypeOK, OwnsConn, PutRelease
  <2>2. borrowed' \in [Backends -> 0..UsizeMax]
    BY <1>1, CounterType DEF TypeOK, PutRelease
  <2>3. permits' \in [Backends -> Nat] /\ at' \in [Sessions -> Backends]
    BY <1>1 DEF TypeOK, PutRelease
  <2>4. /\ pc' \in [Sessions -> PCs]
        /\ conn' \in [Sessions -> Conn \cup {NoConn}]
        /\ OwnsConn'
    BY <1>1, <2>1 DEF TypeOK, OwnsConn, PCs, PutRelease
  <2>5. QED
    BY <1>1, <2>2, <2>3, <2>4 DEF TypeOK, PutRelease, histVars
<1>2. CASE PutStore(s)
  <2>1. at[s] \in Backends /\ key[s] \in Databases /\ conn[s] \in Conn
    BY <1>2 DEF TypeOK, OwnsConn, PutStore
  <2>2. [conn |-> conn[s], since |-> now] \in PooledConn
    BY <2>1 DEF TypeOK, PooledConn
  <2>3. idle[at[s]][key[s]] \in Seq(PooledConn)
    BY <2>1 DEF TypeOK
  <2>4. idle' \in [Backends -> [Databases -> Seq(PooledConn)]]
    BY <1>2, <2>1, <2>2, <2>3 DEF TypeOK, PutStore, PutKey
  <2>5. /\ pc' \in [Sessions -> PCs]
        /\ conn' \in [Sessions -> Conn \cup {NoConn}]
        /\ OwnsConn'
    BY <1>2 DEF TypeOK, OwnsConn, PCs, PutStore
  <2>6. QED
    BY <1>2, <2>4, <2>5 DEF TypeOK, PutStore, histVars
<1>3. QED
  BY <1>1, <1>2

(* Every step keeps the state well typed. *)
LEMMA NextType == TypeOK /\ [Next]_vars => TypeOK'
<1> SUFFICES ASSUME TypeOK, [Next]_vars
             PROVE  TypeOK'
  OBVIOUS
<1>1. ASSUME NEW s \in Sessions, NEW b \in Backends, NEW d \in Keys(b), Pop(s, b, d)
      PROVE  TypeOK'
  BY <1>1, PopType, PoolAssumption DEF Keys
<1>2. ASSUME NEW s \in Sessions, GetStep(s) \/ UseStep(s)
      PROVE  TypeOK'
  BY <1>2, GetStepType, UseStepType
<1>3. ASSUME NEW s \in Sessions, PutRelease(s, at[s]) \/ PutStore(s)
      PROVE  TypeOK'
  <2>1. at[s] \in Backends
    BY DEF TypeOK
  <2>2. QED
    BY <1>3, <2>1, PutType
<1>4. CASE Tick
  BY <1>4 DEF TypeOK, OwnsConn, Tick, poolVars, slotVars, histVars
<1>5. CASE UNCHANGED vars
  BY <1>5 DEF TypeOK, OwnsConn, vars
<1>6. QED
  BY <1>1, <1>2, <1>3, <1>4, <1>5 DEF Next, Finished

(* The pool's state is well typed in every reachable state, and no session   *)
(* ever executes on, or returns, a connection it does not own.              *)
THEOREM TypeCorrect == Spec => []TypeOK
<1>1. QED
  BY InitType, NextType, PTL DEF Spec

-----------------------------------------------------------------------------
(***************************************************************************)
(* The accounting of `borrowed`.  BorrowedAccounted is not inductive: that  *)
(* FetchAdd does not wrap needs a bound, and the bound is that every        *)
(* connection that is out or lost was paid for by a checkout.              *)
(***************************************************************************)

(* Sessions whose checkout from b is under way or done. *)
InUse(b) == {s \in Sessions : at[s] = b /\ pc[s] \in {"miss", "queued", "connect", "held"}}

CheckoutsCover ==
  \A b \in Backends :
     /\ Cardinality(InUse(b)) + lost[b] <= checkouts[b]
     /\ checkouts[b] <= MaxCheckouts

AccountInv == TypeOK /\ BorrowedAccounted /\ CheckoutsCover

(* Adding one member to a set of sessions. *)
LEMMA OneMore ==
  ASSUME NEW S \in SUBSET Sessions, NEW s \in Sessions, s \notin S
  PROVE  /\ Cardinality(S) \in Nat
         /\ Cardinality(S \cup {s}) = Cardinality(S) + 1
<1>1. IsFiniteSet(S)
  BY PoolAssumption, FS_Subset
<1>2. QED
  BY <1>1, FS_AddElement, FS_CardinalityType

(* Removing one member from a set of sessions. *)
LEMMA OneLess ==
  ASSUME NEW S \in SUBSET Sessions, NEW s \in S
  PROVE  /\ Cardinality(S) \in Nat /\ Cardinality(S) >= 1
         /\ Cardinality(S \ {s}) = Cardinality(S) - 1
<1>1. IsFiniteSet(S)
  BY PoolAssumption, FS_Subset
<1>2. Cardinality(S \ {s}) = Cardinality(S) - 1
  BY <1>1, FS_RemoveElement
<1>3. Cardinality(S) \in Nat /\ Cardinality(S \ {s}) \in Nat
  BY <1>1, FS_CardinalityType, FS_Subset, S \ {s} \in SUBSET S
<1>4. QED
  BY <1>2, <1>3

(* Sets of sessions are finite, so their cardinalities are numbers. *)
LEMMA CardNat ==
  ASSUME NEW S \in SUBSET Sessions
  PROVE  Cardinality(S) \in Nat
  BY PoolAssumption, FS_Subset, FS_CardinalityType

(* ... and grow with the set. *)
LEMMA CardMono ==
  ASSUME NEW S \in SUBSET Sessions, NEW T \in SUBSET S
  PROVE  Cardinality(T) <= Cardinality(S)
  BY PoolAssumption, FS_Subset

(* Before a session's connection is counted there is room in the counter. *)
LEMMA RoomToBorrow ==
  ASSUME AccountInv, NEW s \in Sessions, NEW b \in Backends,
         s \in InUse(b), pc[s] # "held"
  PROVE  FetchAdd(borrowed[b]) = Cardinality(Holders(b)) + 1 + lost[b]
<1>1. Holders(b) \in SUBSET Sessions /\ s \notin Holders(b)
  BY DEF Holders
<1>2. Holders(b) \cup {s} \in SUBSET InUse(b) /\ InUse(b) \in SUBSET Sessions
  BY DEF Holders, InUse
<1>3. Cardinality(Holders(b)) + 1 <= Cardinality(InUse(b))
  BY <1>1, <1>2, OneMore, CardMono
<1>4. /\ Cardinality(Holders(b)) \in Nat /\ Cardinality(InUse(b)) \in Nat
      /\ lost[b] \in Nat /\ checkouts[b] \in Nat
  BY <1>1, <1>2, CardNat DEF AccountInv, TypeOK
<1>5. Cardinality(InUse(b)) + lost[b] <= checkouts[b] /\ checkouts[b] <= MaxCheckouts
  BY DEF AccountInv, CheckoutsCover
<1>6. Cardinality(Holders(b)) + 1 + lost[b] <= UsizeMax
  BY <1>3, <1>4, <1>5, PoolAssumption
<1>7. borrowed[b] = Cardinality(Holders(b)) + lost[b]
  BY DEF AccountInv, BorrowedAccounted
<1>8. QED
  BY <1>4, <1>6, <1>7, PoolAssumption DEF FetchAdd

(* A step that leaves the counters alone, keeps the holders of every pool,   *)
(* and adds nobody to the users of a pool, keeps the accounting.            *)
LEMMA AccountUnchanged ==
  ASSUME AccountInv, TypeOK',
         UNCHANGED <<borrowed, lost, checkouts>>,
         \A b \in Backends : Holders(b)' = Holders(b) /\ InUse(b)' \subseteq InUse(b)
  PROVE  AccountInv'
<1>1. BorrowedAccounted'
  BY DEF AccountInv, BorrowedAccounted
<1>2. ASSUME NEW b \in Backends
      PROVE  /\ Cardinality(InUse(b)') + lost'[b] <= checkouts'[b]
             /\ checkouts'[b] <= MaxCheckouts
  <2>1. InUse(b) \in SUBSET Sessions /\ InUse(b)' \in SUBSET InUse(b)
    BY DEF InUse
  <2>2. /\ Cardinality(InUse(b)') \in Nat /\ Cardinality(InUse(b)) \in Nat
        /\ Cardinality(InUse(b)') <= Cardinality(InUse(b))
    BY <2>1, CardMono, CardNat
  <2>3. Cardinality(InUse(b)) + lost[b] <= checkouts[b] /\ checkouts[b] <= MaxCheckouts
    BY DEF AccountInv, CheckoutsCover
  <2>4. lost[b] \in Nat /\ checkouts[b] \in Nat
    BY DEF AccountInv, TypeOK
  <2>5. QED
    BY <2>2, <2>3, <2>4
<1>3. CheckoutsCover'
  BY <1>2 DEF CheckoutsCover
<1>4. QED
  BY <1>1, <1>3 DEF AccountInv

(* Starting a checkout pays for one more user of the pool. *)
LEMMA PopAccount ==
  ASSUME AccountInv, TypeOK', NEW s \in Sessions, NEW b \in Backends,
         NEW d \in Databases, Pop(s, b, d)
  PROVE  AccountInv'
<1>1. /\ pc[s] = "ready" /\ at' = [at EXCEPT ![s] = b]
      /\ checkouts[b] < MaxCheckouts
      /\ checkouts' = [checkouts EXCEPT ![b] = @ + 1] /\ lost' = lost
  BY DEF Pop
<1>2. pc' = [pc EXCEPT ![s] = "held"] \/ pc' = [pc EXCEPT ![s] = "miss"]
  BY DEF Pop, Reuse, Miss
<1>3. s \notin InUse(b) /\ s \notin Holders(b)
  BY <1>1 DEF InUse, Holders
<1>4. InUse(b)' = InUse(b) \cup {s}
  <2>1. \A t \in Sessions : t # s => pc'[t] = pc[t] /\ at'[t] = at[t]
    BY <1>1, <1>2 DEF AccountInv, TypeOK
  <2>2. pc'[s] \in {"held", "miss"} /\ at'[s] = b
    BY <1>1, <1>2 DEF AccountInv, TypeOK
  <2>3. QED
    BY <2>1, <2>2 DEF InUse
<1>5. \A c \in Backends \ {b} : InUse(c)' = InUse(c) /\ Holders(c)' = Holders(c)
  <2>1. \A t \in Sessions : t # s => pc'[t] = pc[t] /\ at'[t] = at[t]
    BY <1>1, <1>2 DEF AccountInv, TypeOK
  <2>2. pc[s] = "ready" /\ at'[s] = b
    BY <1>1 DEF AccountInv, TypeOK
  <2>3. QED
    BY <2>1, <2>2 DEF InUse, Holders
<1>6. InUse(b) \in SUBSET Sessions /\ Holders(b) \in SUBSET Sessions
  BY DEF InUse, Holders
<1>7. Cardinality(InUse(b)') = Cardinality(InUse(b)) + 1 /\ Cardinality(InUse(b)) \in Nat
  BY <1>3, <1>4, <1>6, OneMore
<1>8. \A c \in Backends : /\ lost[c] \in Nat /\ checkouts[c] \in Nat
                          /\ Cardinality(InUse(c)) + lost[c] <= checkouts[c]
                          /\ checkouts[c] <= MaxCheckouts
  BY DEF AccountInv, TypeOK, CheckoutsCover
<1>9. CheckoutsCover'
  <2>1. ASSUME NEW c \in Backends
        PROVE  /\ Cardinality(InUse(c)') + lost'[c] <= checkouts'[c]
               /\ checkouts'[c] <= MaxCheckouts
    <3>1. CASE c = b
      <4>1. checkouts'[b] = checkouts[b] + 1
        BY <1>1 DEF AccountInv, TypeOK
      <4>2. QED
        BY <1>1, <1>7, <1>8, <3>1, <4>1, PoolAssumption
    <3>2. CASE c # b
      <4>1. checkouts'[c] = checkouts[c]
        BY <1>1, <3>2 DEF AccountInv, TypeOK
      <4>2. QED
        BY <1>1, <1>5, <1>8, <3>2, <4>1
    <3>3. QED
      BY <3>1, <3>2
  <2>2. QED
    BY <2>1 DEF CheckoutsCover
<1>10. BorrowedAccounted'
  <2>1. CASE Reuse(s, b, d)
    <3>1. /\ borrowed' = [borrowed EXCEPT ![b] = FetchAdd(borrowed[b])]
          /\ pc' = [pc EXCEPT ![s] = "held"]
      BY <2>1 DEF Reuse
    <3>2. Holders(b)' = Holders(b) \cup {s}
      <4>1. \A t \in Sessions : t # s => pc'[t] = pc[t] /\ at'[t] = at[t]
        BY <1>1, <3>1 DEF AccountInv, TypeOK
      <4>2. pc'[s] = "held" /\ at'[s] = b
        BY <1>1, <3>1 DEF AccountInv, TypeOK
      <4>3. QED
        BY <4>1, <4>2 DEF Holders
    <3>3. Cardinality(Holders(b)') = Cardinality(Holders(b)) + 1
          /\ Cardinality(Holders(b)) \in Nat
      BY <1>3, <1>6, <3>2, OneMore
    <3>4. FetchAdd(borrowed[b]) = Cardinality(Holders(b)) + 1 + lost[b]
      <4>1. Holders(b) \in SUBSET InUse(b)
        BY DEF Holders, InUse
      <4>2. Cardinality(Holders(b)) <= Cardinality(InUse(b))
        BY <1>6, <4>1, CardMono
      <4>3. borrowed[b] = Cardinality(Holders(b)) + lost[b]
        BY DEF AccountInv, BorrowedAccounted
      <4>4. Cardinality(Holders(b)) + lost[b] < UsizeMax
        BY <1>1, <1>7, <1>8, <3>3, <4>2, PoolAssumption
      <4>5. QED
        BY <1>8, <3>3, <4>3, <4>4, PoolAssumption DEF FetchAdd
    <3>5. QED
      BY <1>1, <1>5, <3>1, <3>3, <3>4 DEF BorrowedAccounted, AccountInv, TypeOK
  <2>2. CASE Miss(s, b, d)
    <3>1. borrowed' = borrowed /\ pc' = [pc EXCEPT ![s] = "miss"]
      BY <2>2 DEF Miss
    <3>2. Holders(b)' = Holders(b)
      <4>1. \A t \in Sessions : t # s => pc'[t] = pc[t] /\ at'[t] = at[t]
        BY <1>1, <3>1 DEF AccountInv, TypeOK
      <4>2. pc[s] # "held" /\ pc'[s] # "held"
        BY <1>1, <3>1 DEF AccountInv, TypeOK
      <4>3. QED
        BY <4>1, <4>2 DEF Holders
    <3>3. QED
      BY <1>1, <1>5, <3>1, <3>2 DEF BorrowedAccounted, AccountInv
  <2>3. QED
    BY <2>1, <2>2 DEF Pop
<1>11. QED
  BY <1>9, <1>10 DEF AccountInv

(* The steps of a running get count a connection only when it is made. *)
LEMMA GetStepAccount ==
  ASSUME AccountInv, TypeOK', NEW s \in Sessions, GetStep(s)
  PROVE  AccountInv'
<1>1. at' = at /\ lost' = lost /\ checkouts' = checkouts
  BY DEF GetStep, WaitStep, ConnectStep, BelowLimit, RejectFast, Enqueue, AcquirePermit, WaitTimeout, Connect,
         ConnectFail, GiveUp, histVars
<1>2. \A t \in Sessions : t # s => pc'[t] = pc[t]
  BY DEF GetStep, WaitStep, ConnectStep, BelowLimit, RejectFast, Enqueue, AcquirePermit, WaitTimeout, Connect,
         ConnectFail, GiveUp, AccountInv, TypeOK
<1>3. CASE Connect(s)
  <2> DEFINE b == at[s]
  <2>1. /\ b \in Backends /\ pc[s] = "connect" /\ pc'[s] = "held"
        /\ borrowed' = [borrowed EXCEPT ![b] = FetchAdd(borrowed[b])]
    BY <1>3 DEF Connect, AccountInv, TypeOK
  <2>2. s \in InUse(b) /\ s \notin Holders(b) /\ Holders(b) \in SUBSET Sessions
    BY <2>1 DEF InUse, Holders
  <2>3. \A c \in Backends : InUse(c)' = InUse(c)
    BY <1>1, <1>2, <2>1 DEF InUse
  <2>4. \A c \in Backends \ {b} : Holders(c)' = Holders(c)
    BY <1>1, <1>2, <2>1 DEF Holders
  <2>5. Holders(b)' = Holders(b) \cup {s}
    BY <1>1, <1>2, <2>1 DEF Holders
  <2>6. Cardinality(Holders(b)') = Cardinality(Holders(b)) + 1
    BY <2>2, <2>5, OneMore
  <2>7. FetchAdd(borrowed[b]) = Cardinality(Holders(b)) + 1 + lost[b]
    BY <2>1, <2>2, RoomToBorrow
  <2>8. BorrowedAccounted'
    BY <1>1, <2>1, <2>4, <2>6, <2>7 DEF BorrowedAccounted, AccountInv, TypeOK
  <2>9. CheckoutsCover'
    BY <1>1, <2>3 DEF CheckoutsCover, AccountInv
  <2>10. QED
    BY <2>8, <2>9 DEF AccountInv
<1>4. CASE ~Connect(s)
  <2>1. /\ borrowed' = borrowed
        /\ pc[s] \in {"miss", "queued", "connect"} \/ pc'[s] = "ready"
        /\ pc[s] # "held" /\ pc'[s] # "held"
    BY <1>4 DEF GetStep, WaitStep, ConnectStep, BelowLimit, RejectFast, Enqueue, AcquirePermit, WaitTimeout,
                ConnectFail, GiveUp, poolVars, AccountInv, TypeOK
  <2>2. \A b \in Backends : Holders(b)' = Holders(b)
    BY <1>1, <1>2, <2>1 DEF Holders
  <2>3. \A b \in Backends : InUse(b)' \subseteq InUse(b)
    BY <1>1, <1>2, <2>1 DEF InUse
  <2>4. QED
    BY <1>1, <2>1, <2>2, <2>3, AccountUnchanged
<1>5. QED
  BY <1>3, <1>4

(* Using a connection changes no counter; dropping it moves it from the      *)
(* connections that are out to the lost ones.                               *)
LEMMA UseStepAccount ==
  ASSUME AccountInv, TypeOK', NEW s \in Sessions, UseStep(s)
  PROVE  AccountInv'
<1>1. CASE Abandon(s)
  <2> DEFINE b == at[s]
  <2>1. /\ b \in Backends /\ pc[s] = "held" /\ pc'[s] = "ready" /\ at' = at
        /\ borrowed' = borrowed /\ checkouts' = checkouts
        /\ lost' = [lost EXCEPT ![b] = lost[b] + 1]
    BY <1>1 DEF Abandon, poolVars, AccountInv, TypeOK
  <2>2. \A t \in Sessions : t # s => pc'[t] = pc[t]
    BY <1>1 DEF Abandon, AccountInv, TypeOK
  <2>3. \A c \in Backends \ {b} : Holders(c)' = Holders(c) /\ InUse(c)' = InUse(c)
    BY <2>1, <2>2 DEF Holders, InUse
  <2>4. Holders(b)' = Holders(b) \ {s} /\ InUse(b)' = InUse(b) \ {s}
    BY <2>1, <2>2 DEF Holders, InUse
  <2>5. /\ s \in Holders(b) /\ s \in InUse(b)
        /\ Holders(b) \in SUBSET Sessions /\ InUse(b) \in SUBSET Sessions
    BY <2>1 DEF Holders, InUse
  <2>6. /\ Cardinality(Holders(b)') = Cardinality(Holders(b)) - 1
        /\ Cardinality(InUse(b)') = Cardinality(InUse(b)) - 1
        /\ Cardinality(Holders(b)) \in Nat /\ Cardinality(InUse(b)) \in Nat
    BY <2>4, <2>5, OneLess
  <2>7. /\ lost[b] \in Nat /\ lost'[b] = lost[b] + 1 /\ checkouts[b] \in Nat
        /\ \A c \in Backends \ {b} : lost'[c] = lost[c]
    BY <2>1 DEF AccountInv, TypeOK
  <2>8. BorrowedAccounted'
    <3>1. borrowed'[b] = Cardinality(Holders(b)') + lost'[b]
      BY <2>1, <2>6, <2>7 DEF BorrowedAccounted, AccountInv
    <3>2. QED
      BY <2>1, <2>3, <2>7, <3>1 DEF BorrowedAccounted, AccountInv
  <2>9. CheckoutsCover'
    <3>1. Cardinality(InUse(b)') + lost'[b] <= checkouts'[b]
      BY <2>1, <2>6, <2>7 DEF CheckoutsCover, AccountInv
    <3>2. QED
      BY <2>1, <2>3, <2>7, <3>1 DEF CheckoutsCover, AccountInv
  <2>10. QED
    BY <2>8, <2>9 DEF AccountInv
<1>2. CASE ~Abandon(s)
  <2>1. UNCHANGED <<borrowed, lost, checkouts, pc, at>>
    BY <1>2 DEF UseStep, ToggleTx, ReadFails, SelectDb, poolVars, histVars
  <2>2. \A b \in Backends : Holders(b)' = Holders(b) /\ InUse(b)' = InUse(b)
    BY <2>1 DEF Holders, InUse
  <2>3. QED
    BY <2>1, <2>2, AccountUnchanged
<1>3. QED
  BY <1>1, <1>2

(* Returning a connection takes one from both sides; fetch_sub does not      *)
(* wrap, because the session that returns it is itself one of the holders.  *)
LEMMA PutAccount ==
  ASSUME AccountInv, TypeOK', NEW s \in Sessions,
         PutRelease(s, at[s]) \/ PutStore(s)
  PROVE  AccountInv'
<1>1. CASE PutRelease(s, at[s])
  <2> DEFINE b == at[s]
  <2>1. /\ b \in Backends /\ pc[s] = "held"
        /\ borrowed' = [borrowed EXCEPT ![b] = FetchSub(borrowed[b])]
        /\ lost' = lost /\ checkouts' = checkouts
    BY <1>1 DEF PutRelease, histVars, AccountInv, TypeOK
  <2>2. pc'[s] \in {"ready", "storing"}
    BY <1>1 DEF PutRelease, AccountInv, TypeOK
  <2>3. at' = at
    BY <1>1 DEF PutRelease, AccountInv, TypeOK
  <2>4. \A t \in Sessions : t # s => pc'[t] = pc[t]
    BY <1>1 DEF PutRelease, AccountInv, TypeOK
  <2>5. \A c \in Backends \ {b} : Holders(c)' = Holders(c) /\ InUse(c)' = InUse(c)
    BY <2>1, <2>2, <2>3, <2>4 DEF Holders, InUse
  <2>6. Holders(b)' = Holders(b) \ {s} /\ InUse(b)' = InUse(b) \ {s}
    BY <2>1, <2>2, <2>3, <2>4 DEF Holders, InUse
  <2>7. /\ s \in Holders(b) /\ s \in InUse(b)
        /\ Holders(b) \in SUBSET Sessions /\ InUse(b) \in SUBSET Sessions
    BY <2>1 DEF Holders, InUse
  <2>8. /\ Cardinality(Holders(b)') = Cardinality(Holders(b)) - 1
        /\ Cardinality(InUse(b)') = Cardinality(InUse(b)) - 1
        /\ Cardinality(Holders(b)) \in Nat /\ Cardinality(InUse(b)) \in Nat
        /\ Cardinality(Holders(b)) >= 1
    BY <2>6, <2>7, OneLess
  <2>9. lost[b] \in Nat /\ checkouts[b] \in Nat
    BY <2>1 DEF AccountInv, TypeOK
  <2>10. FetchSub(borrowed[b]) = Cardinality(Holders(b)) - 1 + lost[b]
    <3>1. borrowed[b] = Cardinality(Holders(b)) + lost[b]
      BY <2>1 DEF AccountInv, BorrowedAccounted
    <3>2. QED
      BY <2>8, <2>9, <3>1 DEF FetchSub
  <2>11. BorrowedAccounted'
    <3>1. borrowed'[b] = Cardinality(Holders(b)') + lost'[b]
      BY <2>1, <2>8, <2>10 DEF AccountInv, TypeOK
    <3>2. \A c \in Backends \ {b} : borrowed'[c] = borrowed[c]
      BY <2>1 DEF AccountInv, TypeOK
    <3>3. QED
      BY <2>1, <2>3, <2>5, <3>1, <3>2 DEF BorrowedAccounted, AccountInv
  <2>12. CheckoutsCover'
    <3>1. Cardinality(InUse(b)') + lost'[b] <= checkouts'[b]
      BY <2>1, <2>8, <2>9 DEF CheckoutsCover, AccountInv
    <3>2. QED
      BY <2>1, <2>3, <2>5, <3>1 DEF CheckoutsCover, AccountInv
  <2>13. QED
    BY <2>11, <2>12 DEF AccountInv
<1>2. CASE PutStore(s)
  <2>1. UNCHANGED <<borrowed, lost, checkouts, at>>
    BY <1>2 DEF PutStore, histVars
  <2>2. /\ pc[s] = "storing" /\ pc'[s] = "ready"
        /\ \A t \in Sessions : t # s => pc'[t] = pc[t]
    BY <1>2 DEF PutStore, AccountInv, TypeOK
  <2>3. \A b \in Backends : Holders(b)' = Holders(b) /\ InUse(b)' = InUse(b)
    BY <2>1, <2>2 DEF Holders, InUse
  <2>4. QED
    BY <2>1, <2>3, AccountUnchanged
<1>3. QED
  BY <1>1, <1>2

(* Nothing is out when the pool is built. *)
LEMMA InitAccount == Init => AccountInv
<1> SUFFICES ASSUME Init PROVE AccountInv
  OBVIOUS
<1>1. \A b \in Backends : Holders(b) = {} /\ InUse(b) = {}
  BY DEF Init, Holders, InUse
<1>2. Cardinality({}) = 0
  BY FS_EmptySet
<1>3. \A b \in Backends : borrowed[b] = 0 /\ lost[b] = 0 /\ checkouts[b] \in 0..MaxCheckouts
  BY PoolAssumption DEF Init
<1>4. BorrowedAccounted /\ CheckoutsCover
  <2>1. ASSUME NEW b \in Backends
        PROVE  Cardinality(Holders(b)) = 0 /\ Cardinality(InUse(b)) = 0
    BY <1>1, <1>2
  <2>2. QED
    BY <1>3, <2>1, PoolAssumption DEF BorrowedAccounted, CheckoutsCover
<1>5. QED
  BY <1>4, InitType DEF AccountInv

(* Every step keeps the accounting. *)
LEMMA NextAccount == AccountInv /\ [Next]_vars => AccountInv'
<1> SUFFICES ASSUME AccountInv, [Next]_vars
             PROVE  AccountInv'
  OBVIOUS
<1>1. TypeOK'
  BY NextType DEF AccountInv
<1>2. ASSUME NEW s \in Sessions, NEW b \in Backends, NEW d \in Keys(b), Pop(s, b, d)
      PROVE  AccountInv'
  BY <1>1, <1>2, PopAccount, PoolAssumption DEF Keys
<1>3. ASSUME NEW s \in Sessions, GetStep(s) \/ UseStep(s)
      PROVE  AccountInv'
  BY <1>1, <1>3, GetStepAccount, UseStepAccount
<1>4. ASSUME NEW s \in Sessions, PutRelease(s, at[s]) \/ PutStore(s)
      PROVE  AccountInv'
  BY <1>1, <1>4, PutAccount
<1>5. CASE Tick \/ UNCHANGED vars
  <2>1. UNCHANGED <<borrowed, lost, checkouts, pc, at>>
    BY <1>5 DEF Tick, vars, poolVars, slotVars, histVars
  <2>2. \A b \in Backends : Holders(b)' = Holders(b) /\ InUse(b)' = InUse(b)
    BY <2>1 DEF Holders, InUse
  <2>3. QED
    BY <1>1, <2>1, <2>2, AccountUnchanged
<1>6. QED
  BY <1>2, <1>3, <1>4, <1>5 DEF Next, Finished

(* For any number of sessions racing through get and put, `borrowed` equals   *)
(* the connections that are out plus those dropped without a put.           *)
THEOREM BorrowedAccounting == Spec => []BorrowedAccounted
<1>1. AccountInv => BorrowedAccounted
  BY DEF AccountInv
<1>2. QED
  BY <1>1, InitAccount, NextAccount, PTL DEF Spec

-----------------------------------------------------------------------------
(***************************************************************************)
(* What a bucket of a pool holds.  The strengthening follows a              *)
(* connection through its owner: while it is out it stays open to its       *)
(* pool's backend and its bucket's database, and a session that is about    *)
(* to store it has seen it clean.                                          *)
(***************************************************************************)

(* What the pool promises of a connection in bucket d of pool b. *)
Fit(e, b, d) ==
  /\ e.conn.home = b
  /\ Protocol[b] = "pgsql" => ~e.conn.inTx /\ e.conn.healthy /\ e.conn.db = d

FitBuckets == \A b \in Backends, d \in Databases : \A i \in DOMAIN idle[b][d] :
                Fit(idle[b][d][i], b, d)

OwnedMatches ==
  \A s \in Sessions :
     /\ pc[s] \in {"held", "storing"} =>
          conn[s].home = at[s] /\ (Protocol[at[s]] = "pgsql" => conn[s].db = key[s])
     /\ pc[s] = "storing" /\ Protocol[at[s]] = "pgsql" => ~conn[s].inTx /\ conn[s].healthy

IdleInv == TypeOK /\ FitBuckets /\ OwnedMatches

(* A bucket that is unchanged, or cut down to a prefix, still fits. *)
LEMMA PopFit ==
  ASSUME IdleInv, TypeOK', NEW s \in Sessions, NEW b \in Backends,
         NEW d \in Databases, Pop(s, b, d)
  PROVE  IdleInv'
<1>1. /\ pc[s] = "ready" /\ at' = [at EXCEPT ![s] = b] /\ key' = [key EXCEPT ![s] = d]
  BY DEF Pop
<1>2. \A t \in Sessions : t # s => /\ pc'[t] = pc[t] /\ at'[t] = at[t]
                                   /\ key'[t] = key[t] /\ conn'[t] = conn[t]
  BY DEF Pop, Reuse, Miss, IdleInv, TypeOK
<1>3. at'[s] = b /\ key'[s] = d
  BY <1>1 DEF IdleInv, TypeOK
<1>4. idle[b][d] \in Seq(PooledConn)
  BY DEF IdleInv, TypeOK
<1>5. CASE Reuse(s, b, d)
  <2>1. PICK i \in DOMAIN idle[b][d] :
          /\ idle' = [idle EXCEPT ![b][d] = SubSeq(idle[b][d], 1, i - 1)]
          /\ conn' = [conn EXCEPT ![s] = idle[b][d][i].conn]
          /\ pc' = [pc EXCEPT ![s] = "held"]
    BY <1>5 DEF Reuse
  <2>2. pc'[s] = "held" /\ conn'[s] = idle[b][d][i].conn
    BY <2>1 DEF IdleInv, TypeOK
  <2>3. conn'[s].home = b /\ (Protocol[b] = "pgsql" => conn'[s].db = d)
    BY <2>1, <2>2 DEF IdleInv, FitBuckets, Fit
  <2>4. OwnedMatches'
    BY <1>2, <1>3, <2>2, <2>3 DEF IdleInv, OwnedMatches
  <2>5. idle'[b][d] = SubSeq(idle[b][d], 1, i - 1)
    BY <2>1 DEF IdleInv, TypeOK
  <2>6. \A c \in Backends, e \in Databases :
          c # b \/ e # d => idle'[c][e] = idle[c][e]
    BY <2>1 DEF IdleInv, TypeOK
  <2>7. \A j \in DOMAIN idle'[b][d] : j \in DOMAIN idle[b][d] /\ idle'[b][d][j] = idle[b][d][j]
    BY <1>4, <2>1, <2>5
  <2>8. FitBuckets'
    BY <2>6, <2>7 DEF IdleInv, FitBuckets
  <2>9. QED
    BY <2>4, <2>8 DEF IdleInv
<1>6. CASE Miss(s, b, d)
  <2>1. idle'[b][d] = <<>> /\ pc'[s] = "miss"
    BY <1>6 DEF Miss, IdleInv, TypeOK
  <2>2. \A c \in Backends, e \in Databases :
          c # b \/ e # d => idle'[c][e] = idle[c][e]
    BY <1>6 DEF Miss, IdleInv, TypeOK
  <2>3. FitBuckets'
    BY <2>1, <2>2 DEF IdleInv, FitBuckets
  <2>4. OwnedMatches'
    BY <1>2, <2>1 DEF IdleInv, OwnedMatches
  <2>5. QED
    BY <2>3, <2>4 DEF IdleInv
<1>7. QED
  BY <1>5, <1>6 DEF Pop

(* A new connection goes to the backend and the database that were asked     *)
(* for; the other steps of a get own no connection.                         *)
LEMMA GetStepFit ==
  ASSUME IdleInv, TypeOK', NEW s \in Sessions, GetStep(s)
  PROVE  IdleInv'
<1>1. idle' = idle /\ at' = at /\ key' = key
  BY DEF GetStep, WaitStep, ConnectStep, BelowLimit, RejectFast, Enqueue, AcquirePermit, WaitTimeout, Connect,
         ConnectFail, GiveUp, poolVars
<1>2. \A t \in Sessions : t # s => pc'[t] = pc[t] /\ conn'[t] = conn[t]
  BY DEF GetStep, WaitStep, ConnectStep, BelowLimit, RejectFast, Enqueue, AcquirePermit, WaitTimeout, Connect,
         ConnectFail, GiveUp, IdleInv, TypeOK
<1>3. \/ pc'[s] \notin {"held", "storing"}
      \/ /\ pc'[s] = "held"
         /\ conn'[s] = [home |-> at[s], db |-> key[s], inTx |-> FALSE, healthy |-> TRUE]
  BY DEF GetStep, WaitStep, ConnectStep, BelowLimit, RejectFast, Enqueue, AcquirePermit, WaitTimeout, Connect,
         ConnectFail, GiveUp, IdleInv, TypeOK
<1>4. OwnedMatches'
  BY <1>1, <1>2, <1>3 DEF IdleInv, OwnedMatches
<1>5. FitBuckets'
  BY <1>1 DEF IdleInv, FitBuckets
<1>6. QED
  BY <1>4, <1>5 DEF IdleInv

(* Using a connection does not change its server, nor the database of a     *)
(* PostgreSQL connection.                                                   *)
LEMMA UseStepFit ==
  ASSUME IdleInv, TypeOK', NEW s \in Sessions, UseStep(s)
  PROVE  IdleInv'
<1>1. idle' = idle /\ at' = at /\ key' = key /\ pc[s] = "held"
  BY DEF UseStep, ToggleTx, ReadFails, SelectDb, Abandon, poolVars
<1>2. \A t \in Sessions : t # s => pc'[t] = pc[t] /\ conn'[t] = conn[t]
  BY DEF UseStep, ToggleTx, ReadFails, SelectDb, Abandon, IdleInv, TypeOK
<1>3. conn[s] \in Conn /\ conn[s].home = at[s]
  BY <1>1 DEF IdleInv, TypeOK, OwnsConn, OwnedMatches
<1>4. \/ pc'[s] = "ready"
      \/ /\ pc'[s] = "held" /\ conn'[s].home = conn[s].home
         /\ Protocol[at[s]] = "pgsql" => conn'[s].db = conn[s].db
  <2>1. CASE ToggleTx(s) \/ ReadFails(s)
    <3>1. pc' = pc
      BY <2>1 DEF ToggleTx, ReadFails
    <3>2. \/ conn' = [conn EXCEPT ![s] = [conn[s] EXCEPT !.inTx = ~conn[s].inTx]]
          \/ conn' = [conn EXCEPT ![s] = [conn[s] EXCEPT !.healthy = FALSE]]
      BY <2>1 DEF ToggleTx, ReadFails
    <3>3. \/ conn'[s] = [conn[s] EXCEPT !.inTx = ~conn[s].inTx]
          \/ conn'[s] = [conn[s] EXCEPT !.healthy = FALSE]
      BY <3>2 DEF IdleInv, TypeOK
    <3>4. QED
      BY <1>1, <1>3, <3>1, <3>3 DEF Conn
  <2>2. CASE Abandon(s)
    BY <2>2 DEF Abandon, IdleInv, TypeOK
  <2>3. ASSUME NEW d \in Databases, SelectDb(s, d)
        PROVE  /\ pc'[s] = "held" /\ conn'[s].home = conn[s].home
               /\ Protocol[at[s]] # "pgsql"
    <3>1. conn' = [conn EXCEPT ![s] = [conn[s] EXCEPT !.db = d]] /\ pc' = pc
      BY <2>3 DEF SelectDb
    <3>2. conn'[s] = [conn[s] EXCEPT !.db = d]
      BY <3>1 DEF IdleInv, TypeOK
    <3>3. conn'[s].home = conn[s].home
      BY <1>3, <3>2 DEF Conn
    <3>4. Protocol[at[s]] # "pgsql"
      BY <1>3, <2>3 DEF SelectDb
    <3>5. QED
      BY <1>1, <3>1, <3>3, <3>4
  <2>4. QED
    BY <2>1, <2>2, <2>3 DEF UseStep
<1>5. OwnedMatches'
  BY <1>1, <1>2, <1>4 DEF IdleInv, OwnedMatches
<1>6. FitBuckets'
  BY <1>1 DEF IdleInv, FitBuckets
<1>7. QED
  BY <1>5, <1>6 DEF IdleInv

(* A put stores only what it has seen clean, into the bucket it came from. *)
LEMMA PutFit ==
  ASSUME IdleInv, TypeOK', NEW s \in Sessions,
         PutRelease(s, at[s]) \/ PutStore(s)
  PROVE  IdleInv'
<1>1. CASE PutRelease(s, at[s])
  <2>1. pc[s] = "held" /\ idle' = idle /\ key' = key
    BY <1>1 DEF PutRelease
  <2>2. at' = at
    BY <1>1 DEF PutRelease, IdleInv, TypeOK
  <2>3. \A t \in Sessions : t # s => pc'[t] = pc[t] /\ conn'[t] = conn[t]
    BY <1>1 DEF PutRelease, IdleInv, TypeOK
  <2>4. \/ pc'[s] = "ready"
        \/ /\ pc'[s] = "storing" /\ conn'[s] = conn[s]
           /\ Protocol[at[s]] = "pgsql" => ~conn[s].inTx /\ conn[s].healthy
    <3>1. conn[s].home = at[s]
      BY <2>1 DEF IdleInv, OwnedMatches
    <3>2. QED
      BY <1>1, <3>1 DEF PutRelease, ReportsTx, ReportsHealthy, IdleInv, TypeOK
  <2>5. OwnedMatches'
    BY <2>1, <2>2, <2>3, <2>4 DEF IdleInv, OwnedMatches
  <2>6. FitBuckets'
    BY <2>1 DEF IdleInv, FitBuckets
  <2>7. QED
    BY <2>5, <2>6 DEF IdleInv
<1>2. CASE PutStore(s)
  <2> DEFINE b == at[s]
             d == key[s]
             e == [conn |-> conn[s], since |-> now]
  <2>1. /\ pc[s] = "storing" /\ pc'[s] = "ready" /\ at' = at /\ key' = key
        /\ b \in Backends /\ d \in Databases
    BY <1>2 DEF PutStore, IdleInv, TypeOK
  <2>2. \A t \in Sessions : t # s => pc'[t] = pc[t] /\ conn'[t] = conn[t]
    BY <1>2 DEF PutStore, IdleInv, TypeOK
  <2>3. idle' = idle \/ idle' = [idle EXCEPT ![b][d] = Append(idle[b][d], e)]
    BY <1>2 DEF PutStore, PutKey
  <2>4. OwnedMatches'
    BY <2>1, <2>2 DEF IdleInv, OwnedMatches
  <2>5. Fit(e, b, d)
    BY <2>1 DEF IdleInv, OwnedMatches, Fit
  <2>6. CASE idle' = idle
    BY <2>4, <2>6 DEF IdleInv, FitBuckets
  <2>7. CASE idle' = [idle EXCEPT ![b][d] = Append(idle[b][d], e)]
    <3>1. idle[b][d] \in Seq(PooledConn)
      BY <2>1 DEF IdleInv, TypeOK
    <3>2. idle'[b][d] = Append(idle[b][d], e)
      BY <2>1, <2>7 DEF IdleInv, TypeOK
    <3>3. \A c \in Backends, f \in Databases :
            c # b \/ f # d => idle'[c][f] = idle[c][f]
      BY <2>1, <2>7 DEF IdleInv, TypeOK
    <3>4. \A j \in DOMAIN idle'[b][d] :
            \/ j \in DOMAIN idle[b][d] /\ idle'[b][d][j] = idle[b][d][j]
            \/ idle'[b][d][j] = e
      BY <3>1, <3>2
    <3>5. FitBuckets'
      BY <2>1, <2>5, <3>3, <3>4 DEF IdleInv, FitBuckets
    <3>6. QED
      BY <2>4, <3>5 DEF IdleInv
  <2>8. QED
    BY <2>3, <2>6, <2>7
<1>3. QED
  BY <1>1, <1>2

(* Every step keeps the buckets fit. *)
LEMMA NextFit == IdleInv /\ [Next]_vars => IdleInv'
<1> SUFFICES ASSUME IdleInv, [Next]_vars
             PROVE  IdleInv'
  OBVIOUS
<1>1. TypeOK'
  BY NextType DEF IdleInv
<1>2. ASSUME NEW s \in Sessions, NEW b \in Backends, NEW d \in Keys(b), Pop(s, b, d)
      PROVE  IdleInv'
  BY <1>1, <1>2, PopFit, PoolAssumption DEF Keys
<1>3. ASSUME NEW s \in Sessions, GetStep(s) \/ UseStep(s)
      PROVE  IdleInv'
  BY <1>1, <1>3, GetStepFit, UseStepFit
<1>4. ASSUME NEW s \in Sessions, PutRelease(s, at[s]) \/ PutStore(s)
      PROVE  IdleInv'
  BY <1>1, <1>4, PutFit
<1>5. CASE Tick \/ UNCHANGED vars
  <2>1. UNCHANGED <<idle, pc, at, key, conn>>
    BY <1>5 DEF Tick, vars, poolVars, slotVars, histVars
  <2>2. QED
    BY <1>1, <2>1 DEF IdleInv, FitBuckets, OwnedMatches
<1>6. QED
  BY <1>2, <1>3, <1>4, <1>5 DEF Next, Finished

(* The strengthening is an invariant of the pool. *)
LEMMA IdleInvariance == Spec => []IdleInv
<1>1. Init => IdleInv
  BY InitType DEF Init, IdleInv, FitBuckets, OwnedMatches
<1>2. QED
  BY <1>1, NextFit, PTL DEF Spec

(* No PostgreSQL pool hands out a connection with another session's open    *)
(* transaction on it or one that is known to be broken: put_for_database    *)
(* drops those, whatever races with it.                                    *)
THEOREM IdleConnectionsClean == Spec => []IdleIsClean
<1>1. IdleInv => IdleIsClean
  BY DEF IdleInv, FitBuckets, Fit, IdleIsClean
<1>2. QED
  BY <1>1, IdleInvariance, PTL

(* No pool hands out a connection to the wrong server, and no PostgreSQL     *)
(* pool one to the wrong database.                                         *)
THEOREM IdleConnectionsFit == Spec => []IdleMatchesBucket
<1>1. IdleInv => IdleMatchesBucket
  BY DEF IdleInv, FitBuckets, Fit, IdleMatchesBucket
<1>2. QED
  BY <1>1, IdleInvariance, PTL

-----------------------------------------------------------------------------
(* The weighted choice. *)

(* The slots of the candidates up to r, and before r. *)
Acc(C, r) == TotalWeight({q \in C : q <= r})
Below(C, r) == TotalWeight({q \in C : q < r})

(* A weight is a number of slots. *)
LEMMA WeightType ==
  ASSUME NEW r \in Replicas
  PROVE  SlotWeight(r) \in Nat \ {0} /\ r \in Nat /\ r >= 1 /\ r <= N /\ N \in Nat
  BY BackendPoolAssumption DEF SlotWeight, Replicas

(* Weights of all replicas at once. *)
LEMMA WeightIs ==
  ASSUME NEW R \in SUBSET Replicas
  PROVE  TotalWeight(R) = Total([r \in Replicas |-> SlotWeight(r)], R)
  BY TotalSame DEF TotalWeight

(* The replicas are finitely many. *)
LEMMA FiniteReplicas ==
  ASSUME NEW R \in SUBSET Replicas
  PROVE  IsFiniteSet(R)
<1>1. IsFiniteSet(1..N)
  BY BackendPoolAssumption, FS_Interval
<1> QED
  BY <1>1, FS_Subset DEF Replicas

(* Fewer candidates have fewer slots. *)
LEMMA WeightMono ==
  ASSUME NEW R \in SUBSET Replicas, NEW Q \in SUBSET R
  PROVE  TotalWeight(Q) <= TotalWeight(R) /\ TotalWeight(Q) \in Nat /\ TotalWeight(R) \in Nat
<1> DEFINE f == [r \in Replicas |-> SlotWeight(r)]
<1>1. \A x \in R : f[x] \in Nat
  BY WeightType
<1>2. IsFiniteSet(R)
  BY FiniteReplicas
<1>3. TotalWeight(R) = Total(f, R) /\ TotalWeight(Q) = Total(f, Q)
  BY WeightIs
<1> HIDE DEF f
<1> QED
  BY <1>1, <1>2, <1>3, TotalMono

(* The slots of r are those between Below and Acc. *)
LEMMA SlotsOf ==
  ASSUME NEW C \in SUBSET Replicas, NEW r \in C
  PROVE  /\ Acc(C, r) = Below(C, r) + SlotWeight(r) /\ Below(C, r) \in Nat /\ Acc(C, r) \in Nat
         /\ Acc(C, r) <= TotalWeight(C) /\ TotalWeight(C) \in Nat \ {0}
<1> DEFINE f == [q \in Replicas |-> SlotWeight(q)]
           R == {q \in C : q <= r}
           Q == {q \in C : q < r}
<1>1. \A q \in C : q \in Nat
  BY WeightType
<1>2. r \in R /\ Q = R \ {r} /\ R \in SUBSET C /\ Q \in SUBSET C
  BY <1>1
<1>3. \A x \in R : f[x] \in Nat
  BY WeightType
<1>4. f[r] = SlotWeight(r)
  OBVIOUS
<1>5. IsFiniteSet(R)
  BY FiniteReplicas
<1>6. TotalWeight(R) = Total(f, R) /\ TotalWeight(Q) = Total(f, Q)
  BY <1>2, WeightIs
<1>7. TotalWeight(R) <= TotalWeight(C) /\ TotalWeight(R) \in Nat /\ TotalWeight(C) \in Nat
  BY <1>2, WeightMono
<1>8. TotalWeight(Q) \in Nat
  BY <1>2, WeightMono
<1>9. Acc(C, r) = TotalWeight(R) /\ Below(C, r) = TotalWeight(Q)
  BY DEF Acc, Below
<1> HIDE DEF f, R, Q
<1>10. Total(f, R) = Total(f, R \ {r}) + f[r]
  BY <1>2, <1>3, <1>5, TotalWithout
<1>11. SlotWeight(r) \in Nat \ {0}
  BY WeightType
<1> QED
  BY <1>2, <1>4, <1>6, <1>7, <1>8, <1>9, <1>10, <1>11

(* The slots of two candidates are apart. *)
LEMMA SlotsApart ==
  ASSUME NEW C \in SUBSET Replicas, NEW r \in C, NEW q \in C, q < r
  PROVE  Acc(C, q) <= Below(C, r)
<1>1. \A x \in C : x \in Nat
  BY WeightType
<1>2. \A x \in {y \in C : y <= q} : x \in {y \in C : y < r}
  BY <1>1
<1>3. {y \in C : y <= q} \in SUBSET {y \in C : y < r}
  BY <1>2
<1>4. {y \in C : y < r} \in SUBSET Replicas
  OBVIOUS
<1> QED
  BY <1>3, <1>4, WeightMono DEF Acc, Below

(* Every slot is somebody's. *)
LEMMA SlotsCover ==
  ASSUME NEW C \in SUBSET Replicas, C # {}, NEW slot \in 0..TotalWeight(C) - 1
  PROVE  \E r \in C : Below(C, r) <= slot /\ slot < Acc(C, r)
<1>0. N \in Nat /\ \A q \in C : q \in Nat /\ q >= 1 /\ q <= N
  BY WeightType
<1>1. TotalWeight(C) \in Nat /\ slot \in Nat /\ slot < TotalWeight(C)
  BY WeightMono
<1>2. \A k \in Nat : Acc(C, k) \in Nat
  BY WeightMono DEF Acc
<1> DEFINE S == {k \in Nat : slot < Acc(C, k)}
<1>3. N \in S
  <2>1. {q \in C : q <= N} = C
    BY <1>0
  <2> QED
    BY <1>0, <1>1, <2>1 DEF Acc
<1>4. PICK k \in S : \A j \in S : k <= j
  <2>1. S \in SUBSET Nat /\ S # {}
    BY <1>3
  <2> HIDE DEF S
  <2> QED
    BY <2>1, Least
<1>5. k \in Nat /\ slot < Acc(C, k)
  BY <1>4
<1>6. k # 0
  <2>1. {q \in C : q <= 0} = {}
    BY <1>0
  <2>2. Acc(C, 0) = 0
    <3>1. Units([r \in {} |-> SlotWeight(r)], {}) = {}
      BY DEF Units
    <3> QED
      BY <2>1, <3>1, FS_EmptySet DEF Acc, TotalWeight, Total
  <2> QED
    BY <1>1, <1>5, <2>2
<1>7. Acc(C, k - 1) <= slot
  BY <1>1, <1>2, <1>4, <1>5, <1>6
<1>8. {q \in C : q <= k - 1} = {q \in C : q < k}
  BY <1>0, <1>5
<1>9. Below(C, k) <= slot
  BY <1>7, <1>8 DEF Acc, Below
<1>10. k \in C
  <2> SUFFICES ASSUME k \notin C PROVE FALSE
    OBVIOUS
  <2>1. {q \in C : q <= k} = {q \in C : q <= k - 1}
    BY <1>0, <1>5
  <2> QED
    BY <1>1, <1>2, <1>5, <1>6, <1>7, <2>1 DEF Acc
<1> QED
  BY <1>5, <1>9, <1>10

(* Chosen is the owner of the slot. *)
LEMMA ChosenOwns ==
  ASSUME NEW C \in SUBSET Replicas, C # {}, NEW n \in Nat
  PROVE  /\ Chosen(C, n) \in C
         /\ \A r \in C : Chosen(C, n) = r <=>
              Below(C, r) <= n % TotalWeight(C) /\ n % TotalWeight(C) < Acc(C, r)
<1>1. TotalWeight(C) \in Nat \ {0}
  BY SlotsOf
<1>2. PICK slot \in 0..TotalWeight(C) - 1 : slot = n % TotalWeight(C)
  BY <1>1, Division
<1>3. slot \in Nat /\ \A r \in C : r \in Nat /\ Acc(C, r) \in Nat /\ Below(C, r) \in Nat
  BY <1>1, SlotsOf, WeightType
<1> DEFINE Owns(r) == slot < Acc(C, r) /\ \A q \in C : q < r => slot >= Acc(C, q)
<1>4. Chosen(C, n) = CHOOSE r \in C : Owns(r)
  BY <1>2 DEF Chosen, Acc
<1>5. \A r \in C : Below(C, r) <= slot /\ slot < Acc(C, r) => Owns(r)
  BY <1>3, SlotsApart
<1>6. PICK k \in C : Below(C, k) <= slot /\ slot < Acc(C, k)
  BY SlotsCover
<1>7. \A r \in C : Owns(r) => r = k
  BY <1>3, <1>6, SlotsApart
<1> HIDE DEF Owns
<1>8. Chosen(C, n) \in C /\ Owns(Chosen(C, n))
  BY <1>4, <1>5, <1>6
<1>9. Chosen(C, n) = k
  BY <1>7, <1>8
<1> QED
  BY <1>2, <1>5, <1>6, <1>7, <1>9

(* p takes n to the remainder of b + n, and these are the n that it takes to an interval. *)
Rotates(p, b, m) == \A n \in 0..m - 1 : p[n] = IF b + n < m THEN b + n ELSE b + n - m
Into(p, m, lo, hi) == {n \in 0..m - 1 : lo <= p[n] /\ p[n] < hi}

(* A rotation takes as many numbers to an interval as it has. *)
LEMMA TurnCount ==
  ASSUME NEW m \in Nat, NEW b \in Nat, b < m, NEW lo \in Nat, NEW hi \in Nat, lo <= hi, hi <= m,
         NEW p, Rotates(p, b, m)
  PROVE  Cardinality(Into(p, m, lo, hi)) = hi - lo
<1> DEFINE A == {n \in 0..m - 1 : lo <= p[n] /\ p[n] < hi}
           B == lo..hi - 1
           h == [n \in A |-> p[n]]
<1>0. \A n \in 0..m - 1 : p[n] = IF b + n < m THEN b + n ELSE b + n - m
  BY DEF Rotates
<1>1. \A n \in 0..m - 1 : n \in Nat /\ n < m /\ p[n] \in Nat /\ p[n] < m
  BY <1>0
<1>3. h \in [A -> B]
  BY <1>1
<1>4. \A x, y \in A : h[x] = h[y] => x = y
  <2>1. \A x, y \in 0..m - 1 : p[x] = p[y] => x = y
    BY <1>0
  <2> QED
    BY <2>1
<1>5. \A v \in B : \E n \in A : h[n] = v
  <2> SUFFICES ASSUME NEW v \in B PROVE \E n \in A : h[n] = v
    OBVIOUS
  <2>0. v \in Nat /\ lo <= v /\ v < hi
    OBVIOUS
  <2> DEFINE n == IF v >= b THEN v - b ELSE v - b + m
  <2>1. n \in 0..m - 1 /\ p[n] = v
    BY <1>0, <2>0
  <2> HIDE DEF n
  <2>2. n \in A /\ h[n] = v
    BY <2>0, <2>1
  <2> QED
    BY <2>2
<1>6. IsFiniteSet(A)
  <2>1. IsFiniteSet(0..m - 1)
    BY FS_Interval
  <2> QED
    BY <2>1, FS_Subset
<1>7. Cardinality(B) = hi - lo
  <2>1. hi - 1 \in Int /\ lo \in Int
    OBVIOUS
  <2>2. Cardinality(lo..hi - 1) = IF lo > hi - 1 THEN 0 ELSE (hi - 1) - lo + 1
    BY <2>1, FS_Interval
  <2> QED
    BY <2>2
<1>8. h \in Bijection(A, B)
  BY <1>3, <1>4, <1>5 DEF Bijection, Injection, Surjection, IsInjective
<1> HIDE DEF A, B, h
<1>9. ExistsBijection(A, B)
  BY <1>8 DEF ExistsBijection
<1>10. Cardinality(A) = hi - lo
  BY <1>6, <1>7, <1>9, FS_Bijection
<1> QED
  BY <1>10 DEF A, Into

(* In one turn of the counter, wherever it stands, each candidate is chosen as often as its  *)
(* weight says.                                                                           *)
LEMMA ShareOfWeight ==
  ASSUME NEW a \in Nat, NEW C \in SUBSET Replicas, NEW r \in C
  PROVE  Cardinality({n \in 0..TotalWeight(C) - 1 : Chosen(C, a + n) = r}) = SlotWeight(r)
<1>1. PICK m \in Nat \ {0} : m = TotalWeight(C)
  BY SlotsOf
<1>2. PICK lo \in Nat : lo = Below(C, r)
  BY SlotsOf
<1>3. PICK hi \in Nat : hi = Acc(C, r)
  BY SlotsOf
<1>4. hi = lo + SlotWeight(r) /\ hi <= m /\ SlotWeight(r) \in Nat
  BY <1>1, <1>2, <1>3, SlotsOf, WeightType
<1>a. PICK b \in Nat : b = a % m /\ b < m
  BY Division
<1>p. PICK p : p = [n \in 0..m - 1 |-> (a + n) % m]
  OBVIOUS
<1>b. Rotates(p, b, m)
  <2> SUFFICES ASSUME NEW n \in 0..m - 1
               PROVE  p[n] = IF b + n < m THEN b + n ELSE b + n - m
    BY DEF Rotates
  <2>0. a \in Int /\ m \in Nat \ {0}
    OBVIOUS
  <2>1. (a + n) % m = IF (a % m) + n < m THEN (a % m) + n ELSE (a % m) + n - m
    BY <2>0, Shifted, Zenon
  <2>2. p[n] = (a + n) % m
    BY <1>p
  <2> QED
    BY <1>a, <2>1, <2>2
<1>5. \A n \in 0..m - 1 : Chosen(C, a + n) = r <=> lo <= p[n] /\ p[n] < hi
  <2> SUFFICES ASSUME NEW n \in 0..m - 1
               PROVE  Chosen(C, a + n) = r <=> lo <= p[n] /\ p[n] < hi
    OBVIOUS
  <2>1. PICK c \in Nat : c = a + n
    OBVIOUS
  <2>2. Chosen(C, c) = r <=> lo <= c % m /\ c % m < hi
    BY <1>1, <1>2, <1>3, ChosenOwns
  <2>3. p[n] = c % m
    BY <1>p, <2>1
  <2> QED
    BY <2>1, <2>2, <2>3
<1>6. {n \in 0..m - 1 : Chosen(C, a + n) = r} = Into(p, m, lo, hi)
  BY <1>5 DEF Into
<1>7. Cardinality(Into(p, m, lo, hi)) = hi - lo
  BY <1>4, <1>a, <1>b, TurnCount
<1>8. {n \in 0..TotalWeight(C) - 1 : Chosen(C, a + n) = r} = Into(p, m, lo, hi)
  BY <1>1, <1>6
<1>9. hi - lo = SlotWeight(r)
  BY <1>4
<1> QED
  BY <1>7, <1>8, <1>9, Zenon

-----------------------------------------------------------------------------
(* Types of the routing state.  What follows a replica that gives no connection is never    *)
(* another replica by name.                                                               *)
NextOK ==
  \A s \in Sessions : At(s, "replica") => route[s].next \in {"pass2", "primary"}

RoutesOK ==
  /\ route \in [Sessions -> Route]
  /\ \A s \in Sessions : At(s, "replica") => route[s].target \in Replicas
  /\ NextOK

FlagsOK ==
  /\ replica_index \in 0..UsizeMax
  /\ healthy \in [Replicas -> BOOLEAN]
  /\ failover_idx \in 0..N
  /\ gr_primary_idx \in 0..N

HistoryOK ==
  /\ reading \in [Sessions -> BOOLEAN]
  /\ refused \in [Sessions -> SUBSET Replicas]

(* The parts make the type invariant. *)
LEMMA RouteParts ==
  /\ RouteTypeOK /\ NextOK <=> TypeOK /\ FlagsOK /\ RoutesOK /\ HistoryOK
  /\ RouteTypeOK' /\ NextOK' <=> TypeOK' /\ FlagsOK' /\ RoutesOK' /\ HistoryOK'
  BY DEF RouteTypeOK, FlagsOK, RoutesOK, HistoryOK

(* Parts that a step leaves alone. *)
LEMMA RoutePartsKept ==
  /\ TypeOK /\ UNCHANGED vars => TypeOK'
  /\ FlagsOK /\ UNCHANGED routing => FlagsOK'
  /\ RoutesOK /\ UNCHANGED route => RoutesOK'
  /\ HistoryOK /\ UNCHANGED history => HistoryOK'
  BY DEF TypeOK, OwnsConn, vars, FlagsOK, routing, RoutesOK, NextOK, At, HistoryOK, history

(* The replicas are backends, and so is whoever is the primary. *)
LEMMA Names ==
  /\ Replicas \subseteq Backends /\ Primary \in Backends
  /\ FlagsOK => GetsFrom \in Backends /\ PutsTo \in Backends
  BY BackendPoolAssumption DEF Replicas, Primary, FlagsOK, GetsFrom, PutsTo

(* A stage other than a replica. *)
LEMMA GoToType ==
  ASSUME RoutesOK, NEW s \in Sessions, NEW g \in Stages \ {"replica"}, GoTo(s, g)
  PROVE  RoutesOK' /\ route'[s].stage = g /\ \A t \in Sessions \ {s} : route'[t] = route[t]
<1>1. [NoRoute EXCEPT !.stage = g] = [stage |-> g, target |-> 0, left |-> {}, next |-> "none"]
  BY DEF NoRoute
<1>2. route' = [route EXCEPT ![s] = [stage |-> g, target |-> 0, left |-> {}, next |-> "none"]]
  BY <1>1 DEF GoTo
<1>3. [stage |-> g, target |-> 0, left |-> {}, next |-> "none"] \in Route
  BY BackendPoolAssumption DEF Route, Stages
<1>4. route' \in [Sessions -> Route] /\ route'[s].stage = g
      /\ \A t \in Sessions \ {s} : route'[t] = route[t]
  BY <1>2, <1>3 DEF RoutesOK
<1> QED
  BY <1>4 DEF RoutesOK, NextOK, At

(* A replica to be asked. *)
LEMMA AskType ==
  ASSUME RoutesOK, NEW s \in Sessions, NEW r \in Replicas, NEW others \in SUBSET Replicas,
         NEW after \in {"pass2", "primary"}, Ask(s, r, others, after)
  PROVE  /\ RoutesOK' /\ \A t \in Sessions \ {s} : route'[t] = route[t]
         /\ route'[s].stage = "replica" /\ route'[s].target = r
         /\ route'[s].left = others /\ route'[s].next = after
<1>1. [stage |-> "replica", target |-> r, left |-> others, next |-> after] \in Route
  BY WeightType DEF Route, Stages
<1>2. /\ route' \in [Sessions -> Route]
      /\ \A t \in Sessions \ {s} : route'[t] = route[t]
      /\ route'[s].stage = "replica" /\ route'[s].target = r
      /\ route'[s].left = others /\ route'[s].next = after
  BY <1>1 DEF RoutesOK, Ask
<1> QED
  BY <1>2 DEF RoutesOK, NextOK, At

(* Refusals. *)
LEMMA RefuseType ==
  ASSUME HistoryOK, NEW s \in Sessions, NEW R \in SUBSET Replicas, Refuse(s, R)
  PROVE  /\ HistoryOK' /\ reading' = reading /\ refused'[s] = refused[s] \cup R
         /\ \A t \in Sessions \ {s} : refused'[t] = refused[t]
  BY DEF HistoryOK, Refuse

(* Candidates of a pass. *)
LEMMA PassType ==
  ASSUME NEW backup_pass \in BOOLEAN
  PROVE  PassSet(backup_pass) \in SUBSET Replicas
  BY BackendPoolAssumption DEF PassSet

(* The least of some replicas is one of them. *)
LEMMA MinType ==
  ASSUME NEW R \in SUBSET Replicas, R # {}
  PROVE  Min(R) \in R
<1>1. \A r \in R : r \in Nat
  BY WeightType
<1>2. R \in SUBSET Nat
  BY <1>1
<1>3. \E x \in R : \A y \in R : x <= y
  BY <1>2, Least
<1> QED
  BY <1>3 DEF Min

-----------------------------------------------------------------------------
(* What a read has found out when it comes to a stage: which replicas refused it.           *)
Rest == Replicas \ Backup

Searched(s) ==
  LET r == route[s] IN
  /\ r.stage = "pass2" => Rest \subseteq refused[s]
  /\ r.stage = "primary" => Replicas \subseteq refused[s]
  /\ r.stage = "replica" /\ r.next = "pass2" =>
       /\ r.target \in Rest /\ r.left \subseteq Rest
       /\ Rest \ ({r.target} \cup r.left) \subseteq refused[s]
  /\ r.stage = "replica" /\ r.next = "primary" =>
       /\ r.target \in Backup /\ r.left \subseteq Backup
       /\ Replicas \ ({r.target} \cup r.left) \subseteq refused[s]

SearchOK == \A s \in Sessions : reading[s] => Searched(s)

RouteInv == TypeOK /\ FlagsOK /\ RoutesOK /\ HistoryOK /\ SearchOK

(* The invariant has what LastResort asks for. *)
LEMMA SearchIsLastResort == RouteInv => LastResort
<1> SUFFICES ASSUME RouteInv, NEW s \in Sessions, reading[s]
             PROVE  /\ At(s, "replica") /\ route[s].target \in Backup => Rest \subseteq refused[s]
                    /\ At(s, "primary") => refused[s] = Replicas
  BY DEF LastResort, Rest
<1>1. Searched(s) /\ refused[s] \subseteq Replicas /\ Backup \subseteq Replicas
  BY BackendPoolAssumption DEF RouteInv, SearchOK, HistoryOK
<1>2. At(s, "replica") => route[s].next \in {"pass2", "primary"}
  BY DEF RouteInv, RoutesOK, NextOK
<1> QED
  BY <1>1, <1>2 DEF Searched, At, Rest

(* A session whose route and history a step leaves alone. *)
LEMMA SearchKept ==
  ASSUME NEW t \in Sessions, reading[t] => Searched(t),
         route'[t] = route[t], refused'[t] = refused[t], reading'[t] = reading[t]
  PROVE  reading'[t] => Searched(t)'
  BY DEF Searched

(* A step of one session: what it leaves alone of the others, and its own search. *)
LEMMA SearchStep ==
  ASSUME SearchOK, NEW s \in Sessions, reading'[s] => Searched(s)',
         \A t \in Sessions \ {s} : /\ route'[t] = route[t] /\ refused'[t] = refused[t]
                                   /\ reading'[t] = reading[t]
  PROVE  SearchOK'
  BY SearchKept DEF SearchOK

(* A session that ends its request. *)
LEMMA SearchOver ==
  ASSUME RouteInv, NEW s \in Sessions, GoTo(s, "none"), UNCHANGED history
  PROVE  RoutesOK' /\ HistoryOK' /\ SearchOK'
<1>1. RoutesOK' /\ route'[s].stage = "none" /\ \A t \in Sessions \ {s} : route'[t] = route[t]
  BY GoToType DEF RouteInv, Stages
<1>2. Searched(s)'
  BY <1>1 DEF Searched
<1>3. HistoryOK'
  BY RoutePartsKept DEF RouteInv
<1> QED
  BY <1>1, <1>2, <1>3, SearchStep DEF RouteInv, history

(* One pass over the replicas, for a session that is at it. *)
LEMMA PassStep ==
  ASSUME RouteInv, NEW s \in Sessions, NEW backup_pass \in BOOLEAN,
         NEW after \in {"pass2", "primary"}, after = IF backup_pass THEN "primary" ELSE "pass2",
         At(s, IF backup_pass THEN "pass2" ELSE "pass1"),
         TryWeightedReplica(s, backup_pass, after)
  PROVE  RouteInv'
<1>1. PICK allowed \in SUBSET PassSet(backup_pass) :
        LET candidates == {r \in allowed : healthy[r]} IN
        /\ Refuse(s, PassSet(backup_pass) \ candidates)
        /\ \/ /\ candidates = {}
              /\ GoTo(s, after)
              /\ UNCHANGED replica_index
           \/ /\ candidates # {}
              /\ LET c == Chosen(candidates, replica_index)
                 IN Ask(s, c, candidates \ {c}, after)
              /\ replica_index' = FetchAdd(replica_index)
  BY DEF TryWeightedReplica
<1> DEFINE C == {r \in allowed : healthy[r]}
           P == PassSet(backup_pass)
<1>2. C \in SUBSET P /\ P \in SUBSET Replicas /\ C \in SUBSET Replicas
  BY PassType
<1>3. /\ Refuse(s, P \ C)
      /\ \/ C = {} /\ GoTo(s, after) /\ UNCHANGED replica_index
         \/ /\ C # {}
            /\ Ask(s, Chosen(C, replica_index), C \ {Chosen(C, replica_index)}, after)
            /\ replica_index' = FetchAdd(replica_index)
  BY <1>1
<1>4. /\ P = IF backup_pass THEN Backup ELSE Rest
      /\ Backup \subseteq Replicas
  BY BackendPoolAssumption DEF PassSet, Rest
<1> HIDE DEF C, P
<1>5. HistoryOK' /\ reading' = reading /\ refused'[s] = refused[s] \cup (P \ C)
      /\ \A t \in Sessions \ {s} : refused'[t] = refused[t]
  BY <1>2, <1>3, RefuseType DEF RouteInv
<1>6. TypeOK' /\ FlagsOK'
  <2>1. UNCHANGED <<vars, healthy, failover_idx, gr_primary_idx>>
    BY DEF TryWeightedReplica
  <2>2. replica_index \in 0..UsizeMax
    BY DEF RouteInv, FlagsOK
  <2>3. replica_index' \in 0..UsizeMax
    BY <1>3, <2>2, CounterType
  <2> QED
    BY <2>1, <2>3, RoutePartsKept DEF RouteInv, FlagsOK
<1>7. reading[s] /\ backup_pass => Rest \subseteq refused[s]
  BY DEF RouteInv, SearchOK, Searched, At
<1>8. CASE C = {}
  <2>1. RoutesOK' /\ route'[s].stage = after /\ \A t \in Sessions \ {s} : route'[t] = route[t]
    BY <1>3, <1>8, GoToType DEF RouteInv, Stages
  <2>2. reading'[s] => Searched(s)'
    <3> SUFFICES ASSUME reading[s] PROVE Searched(s)'
      BY <1>5
    <3>1. after = "primary" => Replicas \subseteq refused'[s]
      BY <1>4, <1>5, <1>7, <1>8 DEF Rest
    <3>2. after = "pass2" => Rest \subseteq refused'[s]
      BY <1>4, <1>5, <1>8
    <3> QED
      BY <2>1, <3>1, <3>2 DEF Searched
  <2> QED
    BY <1>5, <1>6, <2>1, <2>2, SearchStep DEF RouteInv
<1>9. CASE C # {}
  <2>1. PICK c : c = Chosen(C, replica_index)
    OBVIOUS
  <2>2. c \in C /\ c \in Replicas /\ C \ {c} \in SUBSET Replicas
    <3>1. replica_index \in Nat
      BY PoolAssumption DEF RouteInv, FlagsOK
    <3> QED
      BY <1>2, <1>9, <2>1, <3>1, ChosenOwns
  <2>3. Ask(s, c, C \ {c}, after)
    BY <1>3, <1>9, <2>1
  <2>4. /\ RoutesOK' /\ \A t \in Sessions \ {s} : route'[t] = route[t]
        /\ route'[s].stage = "replica" /\ route'[s].target = c
        /\ route'[s].left = C \ {c} /\ route'[s].next = after
    BY <2>2, <2>3, AskType DEF RouteInv
  <2>5. reading'[s] => Searched(s)'
    <3> SUFFICES ASSUME reading[s] PROVE Searched(s)'
      BY <1>5
    <3>1. after = "primary" =>
            /\ c \in Backup /\ C \ {c} \subseteq Backup
            /\ Replicas \ ({c} \cup (C \ {c})) \subseteq refused'[s]
      BY <1>2, <1>4, <1>5, <1>7, <2>2 DEF Rest
    <3>2. after = "pass2" =>
            /\ c \in Rest /\ C \ {c} \subseteq Rest
            /\ Rest \ ({c} \cup (C \ {c})) \subseteq refused'[s]
      BY <1>2, <1>4, <1>5, <2>2
    <3> QED
      BY <2>4, <3>1, <3>2 DEF Searched
  <2> QED
    BY <1>5, <1>6, <2>4, <2>5, SearchStep DEF RouteInv
<1> QED
  BY <1>8, <1>9

(* A replica gives no connection. *)
LEMMA FailedStep ==
  ASSUME RouteInv, NEW s \in Sessions, ReplicaFailed(s)
  PROVE  RouteInv'
<1>1. PICK r : r = route[s]
  OBVIOUS
<1>2. /\ r.stage = "replica" /\ r.target \in Replicas /\ r.left \in SUBSET Replicas
      /\ r.next \in {"pass2", "primary"}
  BY <1>1 DEF ReplicaFailed, RouteInv, RoutesOK, NextOK, At, Route
<1>3. /\ HistoryOK' /\ reading' = reading /\ refused'[s] = refused[s] \cup {r.target}
      /\ \A t \in Sessions \ {s} : refused'[t] = refused[t]
  BY <1>1, <1>2, RefuseType DEF ReplicaFailed, RouteInv
<1>4. TypeOK'
  BY GetStepType DEF ReplicaFailed, GetStep, WaitStep, ConnectStep, RouteInv
<1>5. FlagsOK'
  BY DEF ReplicaFailed, RouteInv, FlagsOK
<1>6. reading[s] =>
        /\ r.next = "pass2" => /\ r.target \in Rest /\ r.left \subseteq Rest
                               /\ Rest \ ({r.target} \cup r.left) \subseteq refused[s]
        /\ r.next = "primary" => /\ r.target \in Backup /\ r.left \subseteq Backup
                                 /\ Replicas \ ({r.target} \cup r.left) \subseteq refused[s]
  BY <1>1, <1>2 DEF RouteInv, SearchOK, Searched
<1>7. CASE r.left = {}
  <2>1. GoTo(s, r.next)
    BY <1>1, <1>7 DEF ReplicaFailed
  <2>2. RoutesOK' /\ route'[s].stage = r.next /\ \A t \in Sessions \ {s} : route'[t] = route[t]
    BY <1>2, <2>1, GoToType DEF RouteInv, Stages
  <2>3. reading'[s] => Searched(s)'
    BY <1>2, <1>3, <1>6, <1>7, <2>2 DEF Searched
  <2> QED
    BY <1>3, <1>4, <1>5, <2>2, <2>3, SearchStep DEF RouteInv
<1>8. CASE r.left # {}
  <2>1. PICK c : c = Min(r.left)
    OBVIOUS
  <2>2. c \in r.left /\ c \in Replicas /\ r.left \ {c} \in SUBSET Replicas
    BY <1>2, <1>8, <2>1, MinType
  <2>3. Ask(s, c, r.left \ {c}, r.next)
    BY <1>1, <1>8, <2>1 DEF ReplicaFailed
  <2>4. /\ RoutesOK' /\ \A t \in Sessions \ {s} : route'[t] = route[t]
        /\ route'[s].stage = "replica" /\ route'[s].target = c
        /\ route'[s].left = r.left \ {c} /\ route'[s].next = r.next
    BY <1>2, <2>2, <2>3, AskType DEF RouteInv
  <2>5. reading'[s] => Searched(s)'
    BY <1>2, <1>3, <1>6, <2>2, <2>4 DEF Searched
  <2> QED
    BY <1>3, <1>4, <1>5, <2>4, <2>5, SearchStep DEF RouteInv
<1> QED
  BY <1>7, <1>8

(* A request begins: nobody has refused it. *)
LEMMA StartStep ==
  ASSUME RouteInv, NEW s \in Sessions, NEW d \in Databases,
         \/ StartRead(s, d)
         \/ StartWrite(s, d)
         \/ \E h \in 0..N + 1 : StartHostgroup(s, d, h)
  PROVE  RouteInv'
<1>1. PICK read \in BOOLEAN : Start(s, d, read) /\ (read => StartRead(s, d))
  BY DEF StartRead, StartWrite, StartHostgroup
<1>2. TypeOK'
  BY <1>1 DEF Start, RouteInv, TypeOK, OwnsConn, poolVars, histVars
<1>3. FlagsOK'
  BY <1>1, RoutePartsKept DEF Start, RouteInv
<1>4. /\ HistoryOK' /\ reading'[s] = read /\ refused'[s] = {}
      /\ \A t \in Sessions \ {s} : reading'[t] = reading[t] /\ refused'[t] = refused[t]
  BY <1>1 DEF Start, RouteInv, HistoryOK
<1>5. CASE \E g \in {"pass1", "primary"} : GoTo(s, g) /\ (read /\ g = "primary" => N = 0)
  <2>1. PICK g \in {"pass1", "primary"} : GoTo(s, g) /\ (read /\ g = "primary" => N = 0)
    BY <1>5
  <2>2. RoutesOK' /\ route'[s].stage = g /\ \A t \in Sessions \ {s} : route'[t] = route[t]
    BY <2>1, GoToType DEF RouteInv, Stages
  <2>3. read /\ g = "primary" => Replicas = {}
    BY <2>1 DEF Replicas
  <2>4. reading'[s] => Searched(s)'
    BY <1>4, <2>2, <2>3 DEF Searched
  <2> QED
    BY <1>2, <1>3, <1>4, <2>2, <2>4, SearchStep DEF RouteInv
<1>6. CASE ~read /\ \E h \in Replicas : Ask(s, h, {}, "primary")
  <2>1. RoutesOK' /\ \A t \in Sessions \ {s} : route'[t] = route[t]
    BY <1>6, AskType DEF RouteInv
  <2>2. reading'[s] => Searched(s)'
    BY <1>4, <1>6
  <2> QED
    BY <1>2, <1>3, <1>4, <2>1, <2>2, SearchStep DEF RouteInv
<1>7. CASE StartRead(s, d)
  BY <1>5, <1>7 DEF StartRead
<1>8. CASE ~read
  <2>1. CASE StartWrite(s, d)
    BY <1>5, <1>8, <2>1 DEF StartWrite
  <2>2. CASE \E h \in 0..N + 1 : StartHostgroup(s, d, h)
    BY <1>5, <1>6, <1>8, <2>2 DEF StartHostgroup
  <2> QED
    BY <1>7, <2>1, <2>2
<1> QED
  BY <1>1, <1>7, <1>8

(* A step of the pools that leaves the routing alone. *)
LEMMA PoolOnly ==
  ASSUME RouteInv, TypeOK', UNCHANGED <<routing, route, history>>
  PROVE  RouteInv'
<1>1. FlagsOK' /\ RoutesOK' /\ HistoryOK'
  BY RoutePartsKept DEF RouteInv
<1>2. SearchOK'
  BY SearchKept DEF RouteInv, SearchOK, history
<1> QED
  BY <1>1, <1>2 DEF RouteInv

(* A step that ends a request or gives its connection back. *)
LEMMA PoolAndOver ==
  ASSUME RouteInv, TypeOK', NEW s \in Sessions, GoTo(s, "none"), UNCHANGED <<routing, history>>
  PROVE  RouteInv'
<1>1. RoutesOK' /\ HistoryOK' /\ SearchOK'
  BY SearchOver
<1>2. FlagsOK'
  BY RoutePartsKept DEF RouteInv
<1> QED
  BY <1>1, <1>2 DEF RouteInv

(* The writers of the routing state. *)
LEMMA WriterStep ==
  ASSUME RouteInv,
         \/ \E r \in Replicas : HealthChange(r)
         \/ FailoverChange
         \/ \E a \in GrAnswers : GrPoll(a)
         \/ UNCHANGED rvars
  PROVE  RouteInv'
<1>1. UNCHANGED <<vars, route, history>>
  BY DEF HealthChange, FailoverChange, GrPoll, rvars
<1>2. TypeOK' /\ RoutesOK' /\ HistoryOK'
  BY <1>1, RoutePartsKept DEF RouteInv
<1>3. SearchOK'
  BY <1>1, SearchKept DEF RouteInv, SearchOK, history
<1>4. FlagsOK'
  <2>1. FlagsOK
    BY DEF RouteInv
  <2>2. CASE \E r \in Replicas : HealthChange(r)
    BY <2>1, <2>2 DEF HealthChange, FlagsOK
  <2>3. CASE FailoverChange
    BY <2>1, <2>3, BackendPoolAssumption DEF FailoverChange, FlagsOK
  <2>4. CASE \E a \in GrAnswers : GrPoll(a)
    BY <2>1, <2>4, BackendPoolAssumption DEF GrPoll, FlagsOK, Replicas
  <2>5. CASE UNCHANGED rvars
    BY <2>1, <2>5 DEF rvars, routing, FlagsOK
  <2> QED
    BY <2>2, <2>3, <2>4, <2>5
<1> QED
  BY <1>2, <1>3, <1>4 DEF RouteInv

(* Every step keeps the invariant of the routing. *)
LEMMA RouteInductive == RouteInv /\ [RouteNext]_rvars => RouteInv'
<1> SUFFICES ASSUME RouteInv, [RouteNext]_rvars PROVE RouteInv'
  OBVIOUS
<1>0. TypeOK /\ FlagsOK /\ key \in [Sessions -> Databases]
  BY DEF RouteInv, TypeOK
<1>1. ASSUME NEW s \in Sessions, RouteStep(s)
      PROVE  RouteInv'
  <2>1. CASE At(s, "pass1") /\ TryWeightedReplica(s, FALSE, "pass2")
    BY <2>1, PassStep
  <2>2. CASE At(s, "pass2") /\ TryWeightedReplica(s, TRUE, "primary")
    BY <2>2, PassStep
  <2>3. CASE AskReplica(s)
    <3>1. route[s].target \in Backends
      BY <2>3, Names DEF AskReplica, RouteInv, RoutesOK
    <3>2. TypeOK'
      BY <1>0, <2>3, <3>1, PopType DEF AskReplica
    <3> QED
      BY <2>3, <3>2, PoolOnly DEF AskReplica
  <2>4. CASE ReplicaFailed(s)
    BY <2>4, FailedStep
  <2>5. CASE AskPrimary(s)
    <3>1. TypeOK'
      BY <1>0, <2>5, Names, PopType DEF AskPrimary
    <3> QED
      BY <2>5, <3>1, PoolOnly DEF AskPrimary
  <2>6. CASE PrimaryRefused(s)
    <3>1. TypeOK'
      BY <1>0, <2>6, RoutePartsKept DEF PrimaryRefused
    <3> QED
      BY <2>6, <3>1, PoolAndOver DEF PrimaryRefused
  <2>7. CASE PrimaryFailed(s)
    <3>1. TypeOK'
      BY <1>0, <2>7, GetStepType DEF PrimaryFailed, GetStep, WaitStep, ConnectStep
    <3> QED
      BY <2>7, <3>1, PoolAndOver DEF PrimaryFailed
  <2> QED
    BY <1>1, <2>1, <2>2, <2>3, <2>4, <2>5, <2>6, <2>7 DEF RouteStep
<1>2. ASSUME NEW s \in Sessions, PoolStep(s)
      PROVE  RouteInv'
  <2>1. TypeOK'
    BY <1>0, <1>2, Names, GetStepType, PutType DEF PoolStep, PoolRuns, PoolConnects, GetStep, WaitStep, ConnectStep
  <2> QED
    BY <1>2, <2>1, PoolOnly DEF PoolStep, PoolRuns, PoolConnects, ConnectStep
<1>3. ASSUME NEW s \in Sessions, ClientStep(s)
      PROVE  RouteInv'
  <2>1. Keys(Primary) \subseteq Databases
    BY PoolAssumption DEF Keys
  <2>2. CASE PutPrimary(s)
    <3>1. TypeOK'
      BY <1>0, <2>2, Names, PutType DEF PutPrimary
    <3> QED
      BY <2>2, <3>1, PoolAndOver DEF PutPrimary
  <2>3. CASE PutReplica(s)
    <3>1. route[s].target \in Backends
      BY <2>3, Names DEF PutReplica, RouteInv, RoutesOK
    <3>2. TypeOK'
      BY <1>0, <2>3, <3>1, PutType DEF PutReplica
    <3> QED
      BY <2>3, <3>2, PoolAndOver DEF PutReplica
  <2>4. CASE Drop(s)
    <3>1. TypeOK'
      BY <1>0, <2>4, UseStepType DEF Drop, UseStep
    <3> QED
      BY <2>4, <3>1, PoolAndOver DEF Drop
  <2>5. CASE ReadFails(s) /\ UNCHANGED <<routing, route, history>>
    <3>1. TypeOK'
      BY <1>0, <2>5, UseStepType DEF UseStep
    <3> QED
      BY <2>5, <3>1, PoolOnly
  <2> QED
    BY <1>3, <2>1, <2>2, <2>3, <2>4, <2>5, StartStep DEF ClientStep
<1> QED
  BY <1>1, <1>2, <1>3, WriterStep DEF RouteNext

(* It holds at the start. *)
LEMMA RouteStart == RouteInit => RouteInv
<1> SUFFICES ASSUME RouteInit PROVE RouteInv
  OBVIOUS
<1>1. TypeOK
  BY InitType DEF RouteInit
<1>2. FlagsOK
  BY PoolAssumption, BackendPoolAssumption DEF RouteInit, FlagsOK
<1>3. NoRoute \in Route /\ NoRoute.stage = "none"
  BY BackendPoolAssumption DEF NoRoute, Route, Stages
<1>4. RoutesOK
  BY <1>3 DEF RouteInit, RoutesOK, NextOK, At
<1>5. HistoryOK /\ SearchOK
  BY DEF RouteInit, HistoryOK, SearchOK
<1> QED
  BY <1>1, <1>2, <1>4, <1>5 DEF RouteInv

(* It is an invariant. *)
LEMMA RouteInvariance == RouteSpec => []RouteInv
  BY RouteStart, RouteInductive, PTL DEF RouteSpec

(* For any number of replicas and backups and any comings and goings of their health:        *)
(* get_replica_for_database comes to a backup only when every other replica refused, and     *)
(* to the primary only when all of them did.                                               *)
THEOREM BackupsAreLast == RouteSpec => []LastResort
  BY RouteInvariance, SearchIsLastResort, PTL

(* For any weights, whichever replicas are candidates and wherever the counter stands: one    *)
(* turn of try_weighted_replica shares the requests out as the weights say.                  *)
THEOREM ReadsFollowWeights == RouteSpec => []WeightedShare
<1>1. RouteInv => WeightedShare
  <2> SUFFICES ASSUME RouteInv, NEW C \in SUBSET Replicas \ {{}}, NEW r \in C
               PROVE  Cardinality({n \in 0..TotalWeight(C) - 1 : Chosen(C, replica_index + n) = r})
                        = SlotWeight(r)
    BY DEF WeightedShare
  <2>1. PICK a \in Nat : a = replica_index
    BY PoolAssumption DEF RouteInv, FlagsOK
  <2>2. C \in SUBSET Replicas
    OBVIOUS
  <2>3. Cardinality({n \in 0..TotalWeight(C) - 1 : Chosen(C, a + n) = r}) = SlotWeight(r)
    BY <2>2, ShareOfWeight
  <2> QED
    BY <2>1, <2>3
<1> QED
  BY <1>1, RouteInvariance, PTL

-----------------------------------------------------------------------------
(***************************************************************************)
(* The counters of all the pools together.  put_primary_for_database may   *)
(* take a connection of one pool to another, so no counter of a single      *)
(* pool can be relied on, and one may wrap below zero; what every step      *)
(* keeps is the difference of the two sums, as a multiple of 2^w.           *)
(***************************************************************************)

(* The connections of each pool that are out or were dropped without a put. *)
Out == [b \in Backends |-> Cardinality(Holders(b)) + lost[b]]

Modulus == UsizeMax + 1

Even(f, g) == \E k \in Int : Total(f, Backends) = Total(g, Backends) + k * Modulus

Counts == [Backends -> Nat]

(* One pool gains i in f, with or without a wrap, and another gains i in g. *)
LEMMA EvenMoved ==
  ASSUME NEW f \in Counts, NEW f2 \in Counts, NEW g \in Counts, NEW g2 \in Counts,
         NEW b \in Backends, NEW c \in Backends, NEW i \in Int, NEW j \in Int,
         Even(f, g),
         f2[b] = f[b] + i + j * Modulus, \A x \in Backends \ {b} : f2[x] = f[x],
         g2[c] = g[c] + i, \A x \in Backends \ {c} : g2[x] = g[x]
  PROVE  Even(f2, g2)
<1>1. IsFiniteSet(Backends)
  BY BackendPoolAssumption, FS_Interval
<1>2. /\ Total(f2, Backends) = Total(f, Backends) + f2[b] - f[b]
      /\ Total(f, Backends) \in Nat /\ Total(f2, Backends) \in Nat
  <2>1. \A x \in Backends : f[x] \in Nat /\ f2[x] \in Nat
    BY DEF Counts
  <2> QED
    BY <1>1, <2>1, TotalChanged
<1>3. /\ Total(g2, Backends) = Total(g, Backends) + g2[c] - g[c]
      /\ Total(g, Backends) \in Nat /\ Total(g2, Backends) \in Nat
  <2>1. \A x \in Backends : g[x] \in Nat /\ g2[x] \in Nat
    BY DEF Counts
  <2> QED
    BY <1>1, <2>1, TotalChanged
<1>4. PICK k \in Int : Total(f, Backends) = Total(g, Backends) + k * Modulus
  BY DEF Even
<1>5. Modulus \in Int /\ f[b] \in Int /\ g[c] \in Int
  BY PoolAssumption DEF Modulus, Counts
<1>6. k + j \in Int
  OBVIOUS
<1>7. (k + j) * Modulus = (k * Modulus) + (j * Modulus)
      /\ k * Modulus \in Int /\ j * Modulus \in Int
  BY <1>5
<1> DEFINE km == k * Modulus
           jm == j * Modulus
<1>8. km \in Int /\ jm \in Int /\ (k + j) * Modulus = km + jm
      /\ Total(f, Backends) = Total(g, Backends) + km
      /\ f2[b] = f[b] + i + jm
  BY <1>4, <1>7
<1> HIDE DEF km, jm
<1>9. Total(f2, Backends) = Total(g2, Backends) + km + jm
  BY <1>2, <1>3, <1>5, <1>8
<1>10. Total(f2, Backends) = Total(g2, Backends) + (k + j) * Modulus
  BY <1>3, <1>8, <1>9
<1> QED
  BY <1>6, <1>10 DEF Even

(* Nothing changes. *)
LEMMA EvenKept ==
  ASSUME NEW f, NEW g, NEW f2, NEW g2, Even(f, g),
         \A x \in Backends : f2[x] = f[x] /\ g2[x] = g[x]
  PROVE  Even(f2, g2)
<1>1. Total(f2, Backends) = Total(f, Backends) /\ Total(g2, Backends) = Total(g, Backends)
  BY TotalSame
<1> QED
  BY <1>1 DEF Even

(* The counters are numbers, and so is what they should count. *)
LEMMA CountsType ==
  /\ TypeOK => borrowed \in Counts /\ Out \in Counts
  /\ TypeOK' => borrowed' \in Counts /\ Out' \in Counts
<1>1. \A b \in Backends : Cardinality(Holders(b)) \in Nat
  BY CardNat DEF Holders
<1>2. \A b \in Backends : Cardinality(Holders(b)') \in Nat
  BY CardNat DEF Holders
<1>3. \A n \in 0..UsizeMax : n \in Nat
  BY PoolAssumption
<1>4. TypeOK => borrowed \in Counts
  BY <1>3 DEF TypeOK, Counts
<1>5. TypeOK' => borrowed' \in Counts
  BY <1>3 DEF TypeOK, Counts
<1>6. TypeOK => Out \in Counts
  BY <1>1 DEF TypeOK, Out, Counts
<1>7. TypeOK' => Out' \in Counts
  BY <1>2 DEF TypeOK, Out, Counts
<1> QED
  BY <1>4, <1>5, <1>6, <1>7

(* fetch_add and fetch_sub move a counter by one, modulo 2^w. *)
LEMMA CounterMoves ==
  ASSUME NEW x \in 0..UsizeMax
  PROVE  /\ \E j \in Int : FetchAdd(x) = x + 1 + j * Modulus
         /\ \E j \in Int : FetchSub(x) = x - 1 + j * Modulus
<1>1. UsizeMax \in Nat
  BY PoolAssumption
<1>2. x = UsizeMax => FetchAdd(x) = x + 1 + (-1) * Modulus
  BY <1>1 DEF FetchAdd, Modulus
<1>3. x # UsizeMax => FetchAdd(x) = x + 1 + 0 * Modulus
  BY <1>1 DEF FetchAdd, Modulus
<1>4. x = 0 => FetchSub(x) = x - 1 + 1 * Modulus
  BY <1>1 DEF FetchSub, Modulus
<1>5. x # 0 => FetchSub(x) = x - 1 + 0 * Modulus
  BY <1>1 DEF FetchSub, Modulus
<1>6. -1 \in Int /\ 0 \in Int /\ 1 \in Int
  OBVIOUS
<1> QED
  BY <1>2, <1>3, <1>4, <1>5, <1>6

(* A session takes a connection of pool b. *)
LEMMA Gained ==
  ASSUME TypeOK, TypeOK', NEW s \in Sessions, NEW b \in Backends,
         pc[s] # "held", pc'[s] = "held", at'[s] = b, lost' = lost,
         \A t \in Sessions \ {s} : pc'[t] = pc[t] /\ at'[t] = at[t]
  PROVE  /\ Out'[b] = Out[b] + 1
         /\ \A x \in Backends \ {b} : Out'[x] = Out[x]
<1>1. Holders(b)' = Holders(b) \cup {s}
  BY DEF Holders
<1>2. \A x \in Backends \ {b} : Holders(x)' = Holders(x)
  BY DEF Holders
<1>3. Holders(b) \in SUBSET Sessions /\ s \notin Holders(b)
  BY DEF Holders
<1>4. Cardinality(Holders(b)') = Cardinality(Holders(b)) + 1 /\ Cardinality(Holders(b)) \in Nat
  BY <1>1, <1>3, OneMore
<1>5. lost[b] \in Nat
  BY DEF TypeOK
<1> QED
  BY <1>2, <1>4, <1>5 DEF Out

(* A session that had one of pool b has it no more. *)
LEMMA GivenUp ==
  ASSUME TypeOK, TypeOK', NEW s \in Sessions, NEW b \in Backends,
         pc[s] = "held", pc'[s] # "held", at[s] = b,
         \A t \in Sessions \ {s} : pc'[t] = pc[t] /\ at'[t] = at[t]
  PROVE  /\ Cardinality(Holders(b)') = Cardinality(Holders(b)) - 1
         /\ Cardinality(Holders(b)) \in Nat
         /\ \A x \in Backends \ {b} : Holders(x)' = Holders(x)
<1>1. Holders(b)' = Holders(b) \ {s}
  BY DEF Holders
<1>2. \A x \in Backends \ {b} : Holders(x)' = Holders(x)
  BY DEF Holders
<1>3. Holders(b) \in SUBSET Sessions /\ s \in Holders(b)
  BY DEF Holders
<1> QED
  BY <1>1, <1>2, <1>3, OneLess

(* Steps that take no connection and give none up. *)
LEMMA Elsewhere ==
  ASSUME NEW s \in Sessions, lost' = lost, borrowed' = borrowed, Even(borrowed, Out),
         pc[s] # "held", pc'[s] # "held",
         \A t \in Sessions \ {s} : pc'[t] = pc[t] /\ at'[t] = at[t]
  PROVE  Even(borrowed, Out)'
<1>1. \A x \in Backends : Holders(x)' = Holders(x)
  BY DEF Holders
<1>2. \A x \in Backends : Out'[x] = Out[x] /\ borrowed'[x] = borrowed[x]
  BY <1>1 DEF Out
<1> QED
  BY <1>2, EvenKept

(* A checkout up to the release of the bucket lock. *)
LEMMA PopEven ==
  ASSUME TypeOK, TypeOK', Even(borrowed, Out), NEW s \in Sessions, NEW b \in Backends,
         NEW d \in Databases, Pop(s, b, d)
  PROVE  Even(borrowed, Out)'
<1>1. /\ pc[s] = "ready" /\ at'[s] = b /\ lost' = lost
      /\ \A t \in Sessions \ {s} : pc'[t] = pc[t] /\ at'[t] = at[t]
  BY DEF Pop, Reuse, Miss, TypeOK
<1>2. CASE Reuse(s, b, d)
  <2>1. /\ pc'[s] = "held" /\ borrowed'[b] = FetchAdd(borrowed[b])
        /\ \A x \in Backends \ {b} : borrowed'[x] = borrowed[x]
    BY <1>2 DEF Reuse, TypeOK
  <2>2. /\ Out'[b] = Out[b] + 1
        /\ \A x \in Backends \ {b} : Out'[x] = Out[x]
    BY <1>1, <2>1, Gained
  <2>3. PICK j \in Int : borrowed'[b] = borrowed[b] + 1 + j * Modulus
    BY <2>1, CounterMoves DEF TypeOK
  <2> QED
    BY <2>1, <2>2, <2>3, CountsType, EvenMoved
<1>3. CASE Miss(s, b, d)
  BY <1>1, <1>3, Elsewhere DEF Miss, TypeOK
<1> QED
  BY <1>2, <1>3 DEF Pop

(* A running get. *)
LEMMA GetStepEven ==
  ASSUME TypeOK, TypeOK', Even(borrowed, Out), NEW s \in Sessions, GetStep(s)
  PROVE  Even(borrowed, Out)'
<1>1. /\ at' = at /\ lost' = lost
      /\ \A t \in Sessions \ {s} : pc'[t] = pc[t]
  BY DEF GetStep, WaitStep, ConnectStep, BelowLimit, RejectFast, Enqueue, AcquirePermit, WaitTimeout, Connect,
         ConnectFail, GiveUp, histVars, TypeOK
<1>2. CASE Connect(s)
  <2>1. PICK b \in Backends : b = at[s]
    BY DEF TypeOK
  <2>2. /\ pc[s] = "connect" /\ pc'[s] = "held" /\ borrowed'[b] = FetchAdd(borrowed[b])
        /\ \A x \in Backends \ {b} : borrowed'[x] = borrowed[x]
    BY <1>2, <2>1 DEF Connect, TypeOK
  <2>3. /\ Out'[b] = Out[b] + 1
        /\ \A x \in Backends \ {b} : Out'[x] = Out[x]
    BY <1>1, <2>1, <2>2, Gained
  <2>4. PICK j \in Int : borrowed'[b] = borrowed[b] + 1 + j * Modulus
    BY <2>2, CounterMoves DEF TypeOK
  <2> QED
    BY <2>2, <2>3, <2>4, CountsType, EvenMoved
<1>3. CASE ~Connect(s)
  <2>1. borrowed' = borrowed /\ pc[s] # "held" /\ pc'[s] # "held"
    BY <1>3 DEF GetStep, WaitStep, ConnectStep, BelowLimit, RejectFast, Enqueue, AcquirePermit, WaitTimeout,
                ConnectFail, GiveUp, poolVars, TypeOK
  <2> QED
    BY <1>1, <2>1, Elsewhere
<1> QED
  BY <1>2, <1>3

(* A connection is returned, to whichever pool. *)
LEMMA PutEven ==
  ASSUME TypeOK, TypeOK', Even(borrowed, Out), NEW s \in Sessions, NEW b \in Backends,
         PutRelease(s, b)
  PROVE  Even(borrowed, Out)'
<1>1. /\ pc[s] = "held" /\ lost' = lost
      /\ \A t \in Sessions \ {s} : pc'[t] = pc[t] /\ at'[t] = at[t]
      /\ borrowed'[b] = FetchSub(borrowed[b])
      /\ \A x \in Backends \ {b} : borrowed'[x] = borrowed[x]
  BY DEF PutRelease, histVars, TypeOK
<1>2. pc'[s] # "held"
  BY DEF PutRelease, TypeOK
<1>3. PICK c \in Backends : c = at[s]
  BY DEF TypeOK
<1>4. /\ Out'[c] = Out[c] + (-1)
      /\ \A x \in Backends \ {c} : Out'[x] = Out[x]
  <2>1. lost[c] \in Nat
    BY DEF TypeOK
  <2>2. /\ Cardinality(Holders(c)') = Cardinality(Holders(c)) - 1
        /\ Cardinality(Holders(c)) \in Nat
        /\ \A x \in Backends \ {c} : Holders(x)' = Holders(x)
    BY <1>1, <1>2, <1>3, GivenUp
  <2> QED
    BY <1>1, <2>1, <2>2 DEF Out
<1>5. PICK j \in Int : borrowed'[b] = borrowed[b] - 1 + j * Modulus
  BY <1>1, CounterMoves DEF TypeOK
<1>6. borrowed'[b] = borrowed[b] + (-1) + j * Modulus
  <2>1. borrowed[b] \in Int
    BY PoolAssumption DEF TypeOK
  <2> QED
    BY <1>5, <2>1
<1>7. -1 \in Int
  OBVIOUS
<1> QED
  BY <1>1, <1>4, <1>6, <1>7, CountsType, EvenMoved

(* A connection is dropped without a put: it is still counted, on both sides. *)
LEMMA DropEven ==
  ASSUME TypeOK, TypeOK', Even(borrowed, Out), NEW s \in Sessions, Abandon(s)
  PROVE  Even(borrowed, Out)'
<1>1. PICK b \in Backends : b = at[s]
  BY DEF TypeOK
<1>2. /\ pc[s] = "held" /\ pc'[s] = "ready" /\ borrowed' = borrowed
      /\ \A t \in Sessions \ {s} : pc'[t] = pc[t] /\ at'[t] = at[t]
      /\ lost'[b] = lost[b] + 1 /\ lost[b] \in Nat
      /\ \A x \in Backends \ {b} : lost'[x] = lost[x]
  BY <1>1 DEF Abandon, poolVars, TypeOK
<1>3. /\ Cardinality(Holders(b)') = Cardinality(Holders(b)) - 1
      /\ Cardinality(Holders(b)) \in Nat
      /\ \A x \in Backends \ {b} : Holders(x)' = Holders(x)
  BY <1>1, <1>2, GivenUp
<1>4. Out'[b] = Out[b]
  BY <1>2, <1>3 DEF Out
<1>5. \A x \in Backends \ {b} : Out'[x] = Out[x]
  BY <1>2, <1>3 DEF Out
<1>6. \A x \in Backends : Out'[x] = Out[x] /\ borrowed'[x] = borrowed[x]
  BY <1>2, <1>4, <1>5
<1> QED
  BY <1>6, EvenKept

(* Steps that change neither the counters nor who holds what. *)
LEMMA QuietEven ==
  ASSUME Even(borrowed, Out), UNCHANGED <<borrowed, lost, pc, at>>
  PROVE  Even(borrowed, Out)'
<1>1. \A x \in Backends : Out'[x] = Out[x] /\ borrowed'[x] = borrowed[x]
  BY DEF Out, Holders
<1> QED
  BY <1>1, EvenKept

BalanceInv == RouteInv /\ Even(borrowed, Out)

(* Every step keeps the balance. *)
LEMMA BalanceInductive == BalanceInv /\ [RouteNext]_rvars => BalanceInv'
<1> SUFFICES ASSUME BalanceInv, [RouteNext]_rvars PROVE Even(borrowed, Out)'
  BY RouteInductive DEF BalanceInv
<1>0. TypeOK /\ TypeOK' /\ RouteInv /\ Even(borrowed, Out) /\ key \in [Sessions -> Databases]
      /\ FlagsOK /\ RoutesOK
  BY RouteInductive DEF BalanceInv, RouteInv, TypeOK
<1>1. ASSUME NEW s \in Sessions, RouteStep(s)
      PROVE  Even(borrowed, Out)'
  <2>1. CASE \/ At(s, "pass1") /\ TryWeightedReplica(s, FALSE, "pass2")
             \/ At(s, "pass2") /\ TryWeightedReplica(s, TRUE, "primary")
             \/ PrimaryRefused(s)
    <3>1. UNCHANGED vars
      BY <2>1 DEF TryWeightedReplica, PrimaryRefused
    <3> QED
      BY <1>0, <3>1, QuietEven DEF vars
  <2>2. CASE AskReplica(s)
    <3>1. route[s].target \in Backends
      BY <1>0, <2>2, Names DEF AskReplica, RoutesOK
    <3> QED
      BY <1>0, <2>2, <3>1, PopEven DEF AskReplica
  <2>3. CASE AskPrimary(s)
    BY <1>0, <2>3, Names, PopEven DEF AskPrimary
  <2>4. CASE ReplicaFailed(s) \/ PrimaryFailed(s)
    BY <1>0, <2>4, GetStepEven DEF ReplicaFailed, PrimaryFailed, GetStep, WaitStep, ConnectStep
  <2> QED
    BY <1>1, <2>1, <2>2, <2>3, <2>4 DEF RouteStep
<1>2. ASSUME NEW s \in Sessions, PoolStep(s)
      PROVE  Even(borrowed, Out)'
  <2>1. CASE PutStore(s)
    <3>1. /\ lost' = lost /\ borrowed' = borrowed /\ pc[s] # "held" /\ pc'[s] # "held"
          /\ \A t \in Sessions \ {s} : pc'[t] = pc[t] /\ at'[t] = at[t]
      BY <1>0, <2>1 DEF PutStore, histVars, TypeOK
    <3> QED
      BY <1>0, <3>1, Elsewhere
  <2>2. CASE GetStep(s)
    BY <1>0, <2>2, GetStepEven
  <2> QED
    BY <1>2, <2>1, <2>2 DEF PoolStep, PoolRuns, PoolConnects, GetStep, WaitStep, ConnectStep
<1>3. ASSUME NEW s \in Sessions, ClientStep(s)
      PROVE  Even(borrowed, Out)'
  <2>1. CASE PutPrimary(s)
    BY <1>0, <2>1, Names, PutEven DEF PutPrimary
  <2>2. CASE PutReplica(s)
    <3>1. route[s].target \in Backends
      BY <1>0, <2>2, Names DEF PutReplica, RoutesOK
    <3> QED
      BY <1>0, <2>2, <3>1, PutEven DEF PutReplica
  <2>3. CASE Drop(s)
    BY <1>0, <2>3, DropEven DEF Drop
  <2>4. CASE \/ \E d \in Keys(Primary) : \/ StartRead(s, d)
                                         \/ StartWrite(s, d)
                                         \/ \E h \in 0..N + 1 : StartHostgroup(s, d, h)
             \/ ReadFails(s)
    <3>1. UNCHANGED <<borrowed, lost, pc, at>>
      BY <2>4 DEF StartRead, StartWrite, StartHostgroup, Start, ReadFails, poolVars, histVars
    <3> QED
      BY <1>0, <3>1, QuietEven
  <2> QED
    BY <1>3, <2>1, <2>2, <2>3, <2>4 DEF ClientStep
<1>4. CASE \/ \E r \in Replicas : HealthChange(r)
           \/ FailoverChange
           \/ \E a \in GrAnswers : GrPoll(a)
           \/ UNCHANGED rvars
  <2>1. UNCHANGED vars
    BY <1>4 DEF HealthChange, FailoverChange, GrPoll, rvars
  <2> QED
    BY <1>0, <2>1, QuietEven DEF vars
<1> QED
  BY <1>1, <1>2, <1>3, <1>4 DEF RouteNext

(* Nothing is out at the start. *)
LEMMA BalanceStart == RouteInit => BalanceInv
<1> SUFFICES ASSUME RouteInit PROVE Even(borrowed, Out)
  BY RouteStart DEF BalanceInv
<1>1. \A b \in Backends : Holders(b) = {} /\ borrowed[b] = 0 /\ lost[b] = 0
  BY DEF RouteInit, Init, Holders
<1>2. \A b \in Backends : borrowed[b] = Out[b]
  BY <1>1, FS_EmptySet DEF Out
<1>3. Total(borrowed, Backends) = Total(Out, Backends)
  BY <1>2, TotalSame
<1>4. Total(Out, Backends) \in Nat
  <2>1. IsFiniteSet(Backends)
    BY BackendPoolAssumption, FS_Interval
  <2>2. \A b \in Backends : Out[b] \in Nat
    BY RouteStart, CountsType DEF RouteInv, Counts
  <2> QED
    BY <2>1, <2>2, TotalType
<1>5. Total(borrowed, Backends) = Total(Out, Backends) + 0 * Modulus
  BY <1>3, <1>4, PoolAssumption DEF Modulus
<1> QED
  BY <1>5 DEF Even

(* The balance is what TotalAccounted says. *)
LEMMA BalanceIsTotal == BalanceInv => TotalAccounted
<1> SUFFICES ASSUME BalanceInv
             PROVE  (Total(borrowed, Backends) - Total(Out, Backends)) % (UsizeMax + 1) = 0
  BY DEF TotalAccounted, Out
<1>1. PICK k \in Int : Total(borrowed, Backends) = Total(Out, Backends) + k * Modulus
  BY DEF BalanceInv, Even
<1>2. PICK a : a = Total(borrowed, Backends)
  OBVIOUS
<1>3. PICK c : c = Total(Out, Backends)
  OBVIOUS
<1>4. c \in Nat
  <2>1. IsFiniteSet(Backends)
    BY BackendPoolAssumption, FS_Interval
  <2>2. \A b \in Backends : Out[b] \in Nat
    BY CountsType DEF BalanceInv, RouteInv, Counts
  <2> QED
    BY <1>3, <2>1, <2>2, TotalType
<1>5. PICK m \in Nat \ {0} : m = UsizeMax + 1
  BY PoolAssumption
<1>6. a - c = k * m + 0
  <2>1. a = c + k * m
    BY <1>1, <1>2, <1>3, <1>5 DEF Modulus
  <2>2. k * m \in Int
    OBVIOUS
  <2> QED
    BY <1>4, <2>1, <2>2
<1>7. (k * m + 0) % m = 0
  BY Remainder
<1>8. (a - c) % m = 0
  BY <1>6, <1>7
<1> QED
  BY <1>2, <1>3, <1>5, <1>8

(* For any number of sessions, pools and replicas, while failovers and elections come and   *)
(* go and put_primary_for_database returns connections to pools they were not taken from:   *)
(* the `borrowed` counters of all the pools together count, modulo 2^w, the connections     *)
(* that are out or were dropped without a put.                                            *)
THEOREM CountersBalance == RouteSpec => []TotalAccounted
  BY BalanceStart, BalanceInductive, BalanceIsTotal, PTL DEF RouteSpec
=============================================================================
