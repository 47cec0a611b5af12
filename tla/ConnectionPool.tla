--------------------------- MODULE ConnectionPool ---------------------------
(***************************************************************************)
(* The per-backend connection pool of src/proxy/pool.rs (ConnectionPool):  *)
(* get_for_database and put_for_database, called concurrently by session   *)
(* tasks that share only the pool's atomics, its semaphore and the mutex   *)
(* around the idle buckets.                                                *)
(*                                                                         *)
(* A member of Sessions is one checkout slot of a client session: its      *)
(* tx_conn, its stmt_conn or the local `conn` of one routed request.  One  *)
(* step is what happens between two points where the task can be           *)
(* interleaved: the bucket lock, the load of `borrowed`, the semaphore,    *)
(* the TCP connect.                                                        *)
(*                                                                         *)
(* Left out: the counters that are only reported (created, reused,         *)
(* evicted, wait_timeouts) and all log output.  wait_queue_length is       *)
(* Len(waiting[b]).                                                        *)
(***************************************************************************)
EXTENDS Integers, FiniteSets, SequencesExt

CONSTANTS
  Backends,        \* one pool per backend
  Sessions,        \* checkout slots
  Databases,       \* backend databases, the keys of the idle buckets
  DefaultDb,       \* the pool's config.database
  Protocol,        \* "mysql" or "pgsql": which BackendConnection each pool holds
  PoolSize,        \* max_size: idle connections kept per bucket
  MaxConnections,  \* config.max_connections; None is any value > UsizeMax
  WaitQueueSize,   \* pool_wait_queue_size of each pool; 0 is none, as in mirror pools
  MaxIdle,         \* max_idle in clock ticks; None is any value > MaxClock
  UsizeMax,        \* usize::MAX, scaled down
  MaxCheckouts,    \* bound: checkouts started in a behaviour, per pool
  Spent,           \* bound: how many of these are spent at the start, one function per case
  MaxClock,        \* bound: last instant of the clock
  NoConn           \* "this slot holds no connection"

ASSUME PoolAssumption ==
  /\ IsFiniteSet(Sessions)
  /\ DefaultDb \in Databases
  /\ Protocol \in [Backends -> {"mysql", "pgsql"}]
  /\ PoolSize \in Nat
  /\ MaxConnections \in Nat
  /\ WaitQueueSize \in [Backends -> Nat]
  /\ MaxIdle \in Nat \ {0}
  /\ UsizeMax \in Nat
  /\ MaxCheckouts \in Nat
  /\ MaxCheckouts <= UsizeMax
  /\ Spent \subseteq [Backends -> 0..MaxCheckouts]
  /\ MaxClock \in Nat

VARIABLES
  borrowed,   \* the `borrowed` atomic of each pool
  idle,       \* idle buckets: a stack of pooled connections per database
  permits,    \* free permits of the wait-queue semaphore
  waiting,    \* sessions parked in acquire(), in arrival order
  pc,         \* where a session is inside get/put
  at,         \* the pool a session is talking to, or got its connection from
  key,        \* the database key of its get/put
  conn,       \* the connection it owns
  now,        \* the clock
  lost,       \* history: connections dropped without a put, per pool
  checkouts   \* history: checkouts started, per pool

poolVars == <<borrowed, idle, permits, waiting>>
slotVars == <<pc, at, key, conn>>
histVars == <<lost, checkouts>>
vars == <<borrowed, idle, permits, waiting, pc, at, key, conn, now, lost, checkouts>>

-----------------------------------------------------------------------------
(* A backend connection, as far as the pool's decisions depend on it: the  *)
(* server it is open to, that session's current database, whether a        *)
(* transaction is open on it, and the flag its I/O code keeps.             *)
Conn == [home : Backends, db : Databases, inTx : BOOLEAN, healthy : BOOLEAN]

PooledConn == [conn : Conn, since : Nat]

PCs == {"ready", "miss", "queued", "connect", "held", "storing", "failed"}

(* MySQL sessions always pass database = None, so every key is the          *)
(* configured one; PostgreSQL sessions pass the client's database.         *)
Keys(b) == IF Protocol[b] = "mysql" THEN {DefaultDb} ELSE Databases

(* BackendConnection::in_transaction(): PgBackendConnection copies the      *)
(* ReadyForQuery status; MySQLBackendConnection sets the field to false     *)
(* when it is built and never again.                                       *)
ReportsTx_Never(c) == FALSE
ReportsTx(c) == Protocol[c.home] = "pgsql" /\ c.inTx

(* BackendConnection::is_healthy(): PgBackendConnection clears its flag     *)
(* when a read fails; MySQLBackendConnection answers true.                 *)
ReportsHealthy(c) == Protocol[c.home] = "mysql" \/ c.healthy

(* entry.idle_since.elapsed() >= max *)
IsStale(e) == now - e.since >= MaxIdle

(* AtomicUsize::fetch_add / fetch_sub wrap around. *)
FetchAdd(x) == IF x = UsizeMax THEN 0 ELSE x + 1
FetchSub_Skipped(x) == x
FetchSub(x) == IF x = 0 THEN UsizeMax ELSE x - 1

(* bucket.len() < self.max_size *)
HasRoom_Inclusive(q) == Len(q) <= PoolSize
HasRoom(q) == Len(q) < PoolSize

(* The bucket a connection is returned to: every caller passes put the      *)
(* database it passed to get.                                              *)
PutKey_Default(s) == DefaultDb
PutKey(s) == key[s]

-----------------------------------------------------------------------------
(* get_for_database *)

(* A queue in place of the stack: the loop takes from the other end. *)
Reuse_Fifo(s, b, d) ==
  LET q == idle[b][d] IN
  \E i \in DOMAIN q :
     /\ ~IsStale(q[i])
     /\ \A j \in DOMAIN q : j < i => IsStale(q[j])
     /\ idle' = [idle EXCEPT ![b][d] = SubSeq(q, i + 1, Len(q))]
     /\ borrowed' = [borrowed EXCEPT ![b] = FetchAdd(@)]
     /\ conn' = [conn EXCEPT ![s] = q[i].conn]
     /\ pc' = [pc EXCEPT ![s] = "held"]

(* The pop loop found a usable connection at height i of the bucket's       *)
(* stack; the stale ones above it are discarded.                           *)
Reuse(s, b, d) ==
  LET q == idle[b][d] IN
  \E i \in DOMAIN q :
     /\ ~IsStale(q[i])
     /\ \A j \in DOMAIN q : j > i => IsStale(q[j])
     /\ idle' = [idle EXCEPT ![b][d] = SubSeq(q, 1, i - 1)]
     /\ borrowed' = [borrowed EXCEPT ![b] = FetchAdd(@)]
     /\ conn' = [conn EXCEPT ![s] = q[i].conn]
     /\ pc' = [pc EXCEPT ![s] = "held"]

(* The pop loop ran the bucket empty. *)
Miss(s, b, d) ==
  /\ \A j \in DOMAIN idle[b][d] : IsStale(idle[b][d][j])
  /\ idle' = [idle EXCEPT ![b][d] = <<>>]
  /\ pc' = [pc EXCEPT ![s] = "miss"]
  /\ UNCHANGED <<borrowed, conn>>

(* A call of get_for_database up to the release of the bucket lock. *)
Pop(s, b, d) ==
  /\ pc[s] = "ready"
  /\ checkouts[b] < MaxCheckouts
  /\ checkouts' = [checkouts EXCEPT ![b] = @ + 1]
  /\ at' = [at EXCEPT ![s] = b]
  /\ key' = [key EXCEPT ![s] = d]
  /\ Reuse(s, b, d) \/ Miss(s, b, d)
  /\ UNCHANGED <<permits, waiting, now, lost>>

(* borrowed < max_connections: go and connect. *)
BelowLimit(s) ==
  /\ pc[s] = "miss"
  /\ borrowed[at[s]] < MaxConnections
  /\ pc' = [pc EXCEPT ![s] = "connect"]
  /\ UNCHANGED <<poolVars, at, key, conn, now, histVars>>

(* At the limit without a wait queue: Err at once. *)
RejectFast(s) ==
  /\ pc[s] = "miss"
  /\ borrowed[at[s]] >= MaxConnections
  /\ WaitQueueSize[at[s]] = 0
  /\ pc' = [pc EXCEPT ![s] = "failed"]
  /\ UNCHANGED <<poolVars, at, key, conn, now, histVars>>

(* At the limit with a wait queue: park in sem.acquire(). *)
Enqueue(s) ==
  /\ pc[s] = "miss"
  /\ borrowed[at[s]] >= MaxConnections
  /\ WaitQueueSize[at[s]] > 0
  /\ waiting' = [waiting EXCEPT ![at[s]] = Append(@, s)]
  /\ pc' = [pc EXCEPT ![s] = "queued"]
  /\ UNCHANGED <<borrowed, idle, permits, at, key, conn, now, histVars>>

(* The semaphore assigns permits in arrival order: the session at place i   *)
(* of the queue has one when there are at least i.                         *)
Granted_Always(b, i) == TRUE
Granted(b, i) == i <= permits[b]

(* acquire() returns and the permit is forgotten; nothing is looked at      *)
(* again, neither the bucket nor `borrowed`.                               *)
AcquirePermit(s) ==
  LET b == at[s] IN
  /\ pc[s] = "queued"
  /\ \E i \in DOMAIN waiting[b] :
       /\ waiting[b][i] = s
       /\ Granted(b, i)
       /\ waiting' = [waiting EXCEPT ![b] = RemoveAt(@, i)]
  /\ permits' = [permits EXCEPT ![b] = @ - 1]
  /\ pc' = [pc EXCEPT ![s] = "connect"]
  /\ UNCHANGED <<borrowed, idle, at, key, conn, now, histVars>>

(* wait_timeout elapses first.  tokio::time::timeout polls acquire() before *)
(* the timer, so a permit that is there wins.                              *)
WaitTimeout_Missing(s) == FALSE
WaitTimeout(s) ==
  LET b == at[s] IN
  /\ pc[s] = "queued"
  /\ \E i \in DOMAIN waiting[b] :
       /\ waiting[b][i] = s
       /\ ~Granted(b, i)
       /\ waiting' = [waiting EXCEPT ![b] = RemoveAt(@, i)]
  /\ pc' = [pc EXCEPT ![s] = "failed"]
  /\ UNCHANGED <<borrowed, idle, permits, at, key, conn, now, histVars>>

(* connect_backend and every init_connect statement succeed. *)
Connect(s) ==
  /\ pc[s] = "connect"
  /\ borrowed' = [borrowed EXCEPT ![at[s]] = FetchAdd(@)]
  /\ conn' = [conn EXCEPT ![s] = [home |-> at[s], db |-> key[s],
                                  inTx |-> FALSE, healthy |-> TRUE]]
  /\ pc' = [pc EXCEPT ![s] = "held"]
  /\ UNCHANGED <<idle, permits, waiting, at, key, now, histVars>>

(* connect_backend or an init_connect statement fails. *)
ConnectFail(s) ==
  /\ pc[s] = "connect"
  /\ pc' = [pc EXCEPT ![s] = "failed"]
  /\ UNCHANGED <<poolVars, at, key, conn, now, histVars>>

(* The caller sees the error of get_for_database and gives up. *)
GiveUp(s) ==
  /\ pc[s] = "failed"
  /\ pc' = [pc EXCEPT ![s] = "ready"]
  /\ UNCHANGED <<poolVars, at, key, conn, now, histVars>>

-----------------------------------------------------------------------------
(* What the owner of a connection does with it between get and put. *)

(* A statement opens a transaction, or ends one. *)
ToggleTx(s) ==
  /\ pc[s] = "held"
  /\ conn' = [conn EXCEPT ![s].inTx = ~@]
  /\ UNCHANGED <<poolVars, pc, at, key, now, histVars>>

(* A read from a PostgreSQL backend fails and is noted on the connection. *)
ReadFails(s) ==
  /\ pc[s] = "held"
  /\ Protocol[conn[s].home] = "pgsql"
  /\ conn' = [conn EXCEPT ![s].healthy = FALSE]
  /\ UNCHANGED <<poolVars, pc, at, key, now, histVars>>

(* MySQL: COM_INIT_DB or USE forwarded to the backend (router::route_raw). *)
SelectDb(s, d) ==
  /\ pc[s] = "held"
  /\ Protocol[conn[s].home] = "mysql"
  /\ conn' = [conn EXCEPT ![s].db = d]
  /\ UNCHANGED <<poolVars, pc, at, key, now, histVars>>

(* The connection is dropped on an error path that never calls put, so      *)
(* `borrowed` is not decremented and no permit is added.                   *)
Abandon(s) ==
  /\ pc[s] = "held"
  /\ lost' = [lost EXCEPT ![at[s]] = @ + 1]
  /\ conn' = [conn EXCEPT ![s] = NoConn]
  /\ pc' = [pc EXCEPT ![s] = "ready"]
  /\ UNCHANGED <<poolVars, at, key, now, checkouts>>

-----------------------------------------------------------------------------
(* put_for_database *)

(* Up to the bucket lock: the counter, the permit, and the early return     *)
(* that drops a connection reported in a transaction or unhealthy.  b is    *)
(* the pool the connection is returned to.                                 *)
PutRelease(s, b) ==
  /\ pc[s] = "held"
  /\ borrowed' = [borrowed EXCEPT ![b] = FetchSub(@)]
  /\ permits' = [permits EXCEPT ![b] = IF WaitQueueSize[b] > 0 THEN @ + 1 ELSE @]
  /\ at' = [at EXCEPT ![s] = b]
  /\ IF ReportsTx(conn[s]) \/ ~ReportsHealthy(conn[s])
       THEN /\ pc' = [pc EXCEPT ![s] = "ready"]
            /\ conn' = [conn EXCEPT ![s] = NoConn]
       ELSE /\ pc' = [pc EXCEPT ![s] = "storing"]
            /\ UNCHANGED conn
  /\ UNCHANGED <<idle, waiting, key, now, histVars>>

(* Under the bucket lock: push, or drop when the bucket is full. *)
PutStore(s) ==
  LET b == at[s]
      d == PutKey(s)
  IN
  /\ pc[s] = "storing"
  /\ idle' = IF HasRoom(idle[b][d])
               THEN [idle EXCEPT ![b][d] =
                       Append(@, [conn |-> conn[s], since |-> now])]
               ELSE idle
  /\ conn' = [conn EXCEPT ![s] = NoConn]
  /\ pc' = [pc EXCEPT ![s] = "ready"]
  /\ UNCHANGED <<borrowed, permits, waiting, at, key, now, histVars>>

-----------------------------------------------------------------------------
(* Time passes. *)
Tick ==
  /\ now < MaxClock
  /\ now' = now + 1
  /\ UNCHANGED <<poolVars, slotVars, histVars>>

(* with_wait_queue: empty buckets, and a semaphore that starts with         *)
(* wait_queue_size permits.                                                *)
Init ==
  /\ borrowed = [b \in Backends |-> 0]
  /\ idle = [b \in Backends |-> [d \in Databases |-> <<>>]]
  /\ permits = WaitQueueSize
  /\ waiting = [b \in Backends |-> <<>>]
  /\ pc = [s \in Sessions |-> "ready"]
  /\ at \in [Sessions -> Backends]
  /\ key = [s \in Sessions |-> DefaultDb]
  /\ conn = [s \in Sessions |-> NoConn]
  /\ now = 0
  /\ lost = [b \in Backends |-> 0]
  /\ checkouts \in Spent

(* The steps of a running get that the proxy takes by itself: its own code, *)
(* the semaphore and the timer of the wait queue.                          *)
WaitStep(s) ==
  \/ BelowLimit(s)
  \/ RejectFast(s)
  \/ Enqueue(s)
  \/ AcquirePermit(s)
  \/ WaitTimeout(s)
  \/ GiveUp(s)

(* The backend's part.  No timeout is around connect_backend, its handshake *)
(* or the init_connect statements: a backend that stays silent keeps the    *)
(* get in "connect" for ever.                                              *)
ConnectStep(s) == Connect(s) \/ ConnectFail(s)

GetStep(s) == WaitStep(s) \/ ConnectStep(s)

UseStep(s) ==
  \/ ToggleTx(s)
  \/ ReadFails(s)
  \/ \E d \in Databases : SelectDb(s, d)
  \/ Abandon(s)

(* Nobody is inside the pool and the checkout budget is spent. *)
Finished ==
  /\ \A s \in Sessions : pc[s] = "ready"
  /\ \A b \in Backends : checkouts[b] = MaxCheckouts
  /\ UNCHANGED vars

Next ==
  \/ \E s \in Sessions :
       \/ \E b \in Backends : \E d \in Keys(b) : Pop(s, b, d)
       \/ GetStep(s)
       \/ UseStep(s)
       \/ PutRelease(s, at[s])
       \/ PutStore(s)
  \/ Tick
  \/ Finished

(* tokio keeps polling a task that is inside get or put, and timers fire.   *)
(* Nothing obliges a backend to answer a connect, or a client to start a    *)
(* request or to finish with a connection.                                 *)
Fairness == \A s \in Sessions : WF_vars(WaitStep(s)) /\ WF_vars(PutStore(s))

Spec == Init /\ [][Next]_vars /\ Fairness

-----------------------------------------------------------------------------
(* A session inside put or between get and put owns a connection. *)
OwnsConn == \A s \in Sessions : pc[s] \in {"held", "storing"} => conn[s] \in Conn

(* Types, and that no session ever uses or returns a connection it has not. *)
TypeOK ==
  /\ borrowed \in [Backends -> 0..UsizeMax]
  /\ idle \in [Backends -> [Databases -> Seq(PooledConn)]]
  /\ permits \in [Backends -> Nat]
  /\ waiting \in [Backends -> Seq(Sessions)]
  /\ pc \in [Sessions -> PCs]
  /\ at \in [Sessions -> Backends]
  /\ key \in [Sessions -> Databases]
  /\ conn \in [Sessions -> Conn \cup {NoConn}]
  /\ OwnsConn
  /\ now \in Nat
  /\ lost \in [Backends -> Nat]
  /\ checkouts \in [Backends -> Nat]

Holders(b) == {s \in Sessions : pc[s] = "held" /\ at[s] = b}

(* The `borrowed` counter that max_connections is enforced with counts the  *)
(* connections that are out plus the ones some error path dropped without   *)
(* a put, whatever the interleaving of get, put, waits, timeouts and failed *)
(* connects; in particular fetch_sub never wraps below zero.               *)
BorrowedAccounted ==
  \A b \in Backends : borrowed[b] = Cardinality(Holders(b)) + lost[b]

(* put_for_database returns early for a connection in a transaction or      *)
(* unhealthy: no PostgreSQL session ever finds another session's open       *)
(* transaction, or a connection known to be broken, in the pool.  A MySQL   *)
(* connection reports neither.                                             *)
IdleIsClean ==
  \A b \in Backends, d \in Databases : \A i \in DOMAIN idle[b][d] :
     LET c == idle[b][d][i].conn IN Protocol[b] = "pgsql" => ~c.inTx /\ c.healthy

(* A pooled connection is open to the backend of its pool and to the        *)
(* database of its bucket ("Connections are only reused within the same     *)
(* database key", get_for_database).  A MySQL connection may have been      *)
(* switched to another database while it was out.                          *)
IdleMatchesBucket ==
  \A b \in Backends, d \in Databases : \A i \in DOMAIN idle[b][d] :
     LET c == idle[b][d][i].conn IN c.home = b /\ (Protocol[b] = "pgsql" => c.db = d)

(* The check of the bucket's length and the push are under one lock, so     *)
(* racing puts keep a bucket within max_size.                              *)
IdleWithinPoolSize ==
  \A b \in Backends, d \in Databases : Len(idle[b][d]) <= PoolSize

(* The bucket is a stack filled in time order, so the pop loop of           *)
(* get_for_database discards stale connections only when the whole bucket   *)
(* is stale: a get that reuses a connection leaves all the others alone.    *)
ReuseEvictsNothing ==
  [][\A b \in Backends, d \in Databases :
       (borrowed'[b] # borrowed[b] /\ Len(idle'[b][d]) < Len(idle[b][d]))
          => Len(idle'[b][d]) = Len(idle[b][d]) - 1]_vars

(* A get_for_database whose own connects end (they are untimed) returns a    *)
(* connection or an error.  In particular a session parked in the wait       *)
(* queue gets a permit or its timeout, even when every other session keeps   *)
(* its connection, or hangs in its connect, for ever.                       *)
GetReturns ==
  \A s \in Sessions :
     []<>(pc[s] # "connect") =>
        ((pc[s] \in {"miss", "queued", "connect"}) ~> (pc[s] \in {"held", "failed", "ready"}))

-----------------------------------------------------------------------------
(* What the configuration comments and the documentation say of the pool    *)
(* and the code does not do; TLC refutes each of them.                     *)

(* config/mod.rs: max_connections is the "Maximum simultaneous connections   *)
(* TurbineProxy may open to this backend".  The load of `borrowed` and its  *)
(* increment are on both sides of the connect.                             *)
LimitHolds == \A b \in Backends : borrowed[b] <= MaxConnections

(* config/mod.rs: "up to this many requests will wait for a free slot".      *)
(* The semaphore counts permits, not waiters, and parks any number.        *)
QueueIsBounded ==
  \A b \in Backends : Len(waiting[b]) - permits[b] <= WaitQueueSize[b]

(* failure-modes.md: "If a slot frees within the timeout, the request        *)
(* proceeds".  A waiter that takes the permit of a freed slot and then      *)
(* fails to connect keeps the permit, and the waiters behind it time out    *)
(* while the backend is below its limit, connects under way included.      *)
TimeoutMeansFull ==
  [][\A s \in Sessions :
       LET b == at[s]
           connecting == {t \in Sessions : pc[t] = "connect" /\ at[t] = b}
       IN WaitTimeout(s) =>
            borrowed[b] + permits[b] + Cardinality(connecting) >= MaxConnections]_vars

(* pool.rs: `borrowed` is "Connections currently checked out (in use by a     *)
(* session)".  Error paths that drop a connection never decrement it.      *)
BorrowedIsInUse == \A b \in Backends : borrowed[b] = Cardinality(Holders(b))
=============================================================================
