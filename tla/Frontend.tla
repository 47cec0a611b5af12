------------------------------ MODULE Frontend ------------------------------
(* Client connections from accept to their last counter update: the accept loops of
   proxy/server.rs and proxy/pg_server.rs, the handshake and the credential check
   (accept_client in protocol/mysql/mod.rs, proxy/auth_cache.rs), the per-user counters
   (proxy/user_registry.rs) with their limit, and the graceful shutdown (main.rs and
   ProxyServer::run).

   Both accept loops count into the same connections_active, which the shutdown waits
   for; only the MySQL loop stops accepting.  Without a MySQL listener main waits on
   pending(), and nobody takes the notification of the SIGTERM handler.  Times are
   countdowns. *)
EXTENDS Naturals, FiniteSets

CONSTANTS
  Clients,        \* client connections that can exist at a time
  PgClients,      \* those of them that use the PostgreSQL listener
  Users,          \* the users of the MySQL clients
  UserLimit,      \* max_connections of a user, 0 for none
  MaxConns,       \* max_connections of a listener
  AuthTtl,        \* auth_cache_ttl_secs
  DrainTime       \* shutdown_timeout_secs

VARIABLES
  conn,           \* the connection tasks
  permits,        \* free permits of each listener's semaphore
  active,         \* metrics.connections_active
  registry,       \* connections_active of each user
  authLeft,       \* time until the credential cache expires
  server,         \* what main awaits: the MySQL accept loop and its drain, or pending()
  term,           \* SIGTERM was received: draining is set, shutdown_notify notified
  drainLeft,      \* time until the drain deadline
  arrivals,       \* bound: connections that may still arrive
  signals         \* bound: SIGTERMs that may still arrive

frontVars == <<conn, permits, active, registry, authLeft, server, term, drainLeft, arrivals, signals>>

ASSUME FrontendAssumption ==
  /\ IsFiniteSet(Clients) /\ PgClients \subseteq Clients
  /\ UserLimit \in Nat /\ MaxConns \in Nat \ {0} /\ AuthTtl \in Nat \ {0} /\ DrainTime \in Nat \ {0}

Listener(c) == IF c \in PgClients THEN "pgsql" ELSE "mysql"
NoConn == [pc |-> "none", user |-> "none"]

(* A process that has just started. *)
Fresh ==
  [conn |-> [c \in Clients |-> NoConn], permits |-> [l \in {"mysql", "pgsql"} |-> MaxConns],
   registry |-> [u \in Users |-> 0]]

(* The clients of `up', of the PostgreSQL listener, are already being served. *)
FrontInit(up, main) ==
  /\ \E u \in Users :
       conn = [c \in Clients |-> IF c \in up THEN [pc |-> "loop", user |-> u] ELSE NoConn]
  /\ permits = [Fresh.permits EXCEPT !["pgsql"] = @ - Cardinality(up)]
  /\ registry = Fresh.registry
  /\ active = Cardinality(up) /\ authLeft = AuthTtl
  /\ server = main /\ term = FALSE /\ drainLeft = 0

Move(c, pc) == conn' = [conn EXCEPT ![c].pc = pc]

-----------------------------------------------------------------------------
(* The accept loops.  A connection beyond the permits is dropped at once. *)

Accept(c, u) ==
  /\ conn[c] = NoConn
  /\ arrivals > 0 /\ arrivals' = arrivals - 1
  /\ IF c \in PgClients THEN server # "stopped" ELSE server = "accept"
  /\ IF permits[Listener(c)] = 0 THEN UNCHANGED <<conn, permits, active>>
     ELSE /\ conn' = [conn EXCEPT ![c] = [pc |-> "handshake", user |-> u]]
          /\ permits' = [permits EXCEPT ![Listener(c)] = @ - 1]
          /\ active' = active + 1
  /\ UNCHANGED <<registry, authLeft, server, term, drainLeft, signals>>

(* AuthCache::verify: the entries were made at the start and expire together. *)
Verified == authLeft > 0

OnConnect(u) == [registry EXCEPT ![u] = @ + 1]
OnDisconnect(u) == [registry EXCEPT ![u] = IF @ = 0 THEN 0 ELSE @ - 1]

(* accept_client: the credentials are right and the cache still knows the user. *)
Authenticate(c) ==
  /\ conn[c].pc = "handshake" /\ c \notin PgClients
  /\ Verified
  /\ registry' = OnConnect(conn[c].user)
  /\ Move(c, "registered")
  /\ UNCHANGED <<permits, active, authLeft, server, term, drainLeft, arrivals, signals>>

(* The PostgreSQL server checks passwords without the cache and keeps no user counters. *)
PgAuthenticate(c) ==
  /\ conn[c].pc = "handshake" /\ c \in PgClients
  /\ Move(c, "loop")
  /\ UNCHANGED <<permits, active, registry, authLeft, server, term, drainLeft, arrivals, signals>>

(* A bad password, an expired entry, a broken PROXY header or a client that left. *)
HandshakeFails(c) ==
  /\ conn[c].pc = "handshake"
  /\ Move(c, "done")
  /\ UNCHANGED <<permits, active, registry, authLeft, server, term, drainLeft, arrivals, signals>>

CheckLimit_Late(c) ==
  /\ conn[c].pc = "registered"
  /\ Move(c, IF UserLimit > 0 /\ registry[conn[c].user] - 1 > UserLimit THEN "refusing" ELSE "loop")
  /\ UNCHANGED <<permits, active, registry, authLeft, server, term, drainLeft, arrivals, signals>>

(* The counter, which already includes this connection, is read again. *)
CheckLimit(c) ==
  /\ conn[c].pc = "registered"
  /\ Move(c, IF UserLimit > 0 /\ registry[conn[c].user] > UserLimit THEN "refusing" ELSE "loop")
  /\ UNCHANGED <<permits, active, registry, authLeft, server, term, drainLeft, arrivals, signals>>

(* on_disconnect, of a refused connection and at the end of the command loop. *)
Disconnect(c) ==
  /\ conn[c].pc \in {"refusing", "loop"}
  /\ registry' = IF c \in PgClients THEN registry ELSE OnDisconnect(conn[c].user)
  /\ Move(c, "done")
  /\ UNCHANGED <<permits, active, authLeft, server, term, drainLeft, arrivals, signals>>

(* The task that wraps the handler ends. *)
Finish(c) ==
  /\ conn[c].pc = "done"
  /\ conn' = [conn EXCEPT ![c] = NoConn]
  /\ active' = active - 1
  /\ permits' = [permits EXCEPT ![Listener(c)] = @ + 1]
  /\ UNCHANGED <<registry, authLeft, server, term, drainLeft, arrivals, signals>>

(* The handler panics (it slices statement texts at byte positions): the permit is
   released with the task, the counters are not touched. *)
Panic(c) ==
  /\ conn[c].pc = "loop"
  /\ conn' = [conn EXCEPT ![c] = NoConn]
  /\ permits' = [permits EXCEPT ![Listener(c)] = @ + 1]
  /\ UNCHANGED <<active, registry, authLeft, server, term, drainLeft, arrivals, signals>>

-----------------------------------------------------------------------------
(* Shutdown. *)

(* The handler takes one signal, sets draining and notifies; later ones do nothing. *)
Sigterm ==
  /\ ~term /\ server # "stopped"
  /\ signals > 0 /\ signals' = signals - 1
  /\ term' = TRUE
  /\ UNCHANGED <<conn, permits, active, registry, authLeft, server, drainLeft, arrivals>>

(* The notification stays until the accept loop takes it. *)
StopAccepting ==
  /\ server = "accept" /\ term
  /\ IF active > 0 THEN server' = "drain" /\ drainLeft' = DrainTime
     ELSE server' = "stopped" /\ UNCHANGED drainLeft
  /\ UNCHANGED <<conn, permits, active, registry, authLeft, term, arrivals, signals>>

DrainDone_Waits ==
  /\ server = "drain"
  /\ active = 0
  /\ server' = "stopped"
  /\ UNCHANGED <<conn, permits, active, registry, authLeft, term, drainLeft, arrivals, signals>>

(* The drain loop looks at the counter and at its deadline. *)
DrainDone ==
  /\ server = "drain"
  /\ active = 0 \/ drainLeft = 0
  /\ server' = "stopped"
  /\ UNCHANGED <<conn, permits, active, registry, authLeft, term, drainLeft, arrivals, signals>>

TimePasses ==
  /\ server # "stopped"
  /\ authLeft > 0 \/ drainLeft > 0
  /\ authLeft' = IF authLeft > 0 THEN authLeft - 1 ELSE 0
  /\ drainLeft' = IF drainLeft > 0 THEN drainLeft - 1 ELSE 0
  /\ UNCHANGED <<conn, permits, active, registry, server, term, arrivals, signals>>

Lives(c) ==
  \/ HandshakeFails(c) \/ Authenticate(c) \/ PgAuthenticate(c)
  \/ CheckLimit(c) \/ Disconnect(c) \/ Finish(c) \/ Panic(c)

(* A process starts anew, from the same configuration. *)
FrontRestart ==
  /\ conn' = Fresh.conn /\ permits' = Fresh.permits /\ registry' = Fresh.registry
  /\ active' = 0 /\ authLeft' = AuthTtl
  /\ server' = (IF server = "pending" THEN "pending" ELSE "accept") /\ term' = FALSE /\ drainLeft' = 0
  /\ UNCHANGED <<arrivals, signals>>

FrontNext ==
  \/ \E c \in Clients : (server # "stopped" /\ Lives(c)) \/ \E u \in Users : Accept(c, u)
  \/ Sigterm \/ StopAccepting \/ DrainDone \/ TimePasses

-----------------------------------------------------------------------------
Served(u) == {c \in Clients \ PgClients : conn[c].pc = "loop" /\ conn[c].user = u}
Holding(l) == {c \in Clients : Listener(c) = l /\ conn[c] # NoConn}

(* However the connects, refusals, disconnects and panics of a user's clients interleave,
   no more than max_connections of them (0 is no limit) are ever served, because the counter is raised
   before it is checked and only lowered by who raised it; and no way out of a
   connection loses a permit of its listener. *)
LimitsHold ==
  /\ UserLimit > 0 => \A u \in Users : Cardinality(Served(u)) <= UserLimit
  /\ \A l \in {"mysql", "pgsql"} : permits[l] + Cardinality(Holding(l)) = MaxConns

(* SIGTERM ends a process with a MySQL listener: whatever the clients of both listeners do,
   and even when a handler died without lowering connections_active, the drain ends at
   its deadline. *)
TermStops == (term /\ server # "pending") ~> (server = "stopped" \/ ~term)

(* Stronger than the code: SIGTERM ends every process.  Without a MySQL listener the handler
   takes the signal and main goes on waiting. *)
TermAlwaysStops == term ~> (server = "stopped" \/ ~term)

(* Stronger than the code: connections_active is the number of connections, so that the
   drain ends with the last of them. *)
ActiveIsExact == active = Cardinality({c \in Clients : conn[c] # NoConn})

(* Stronger than the code: a user with the right password can always log in. *)
LoginStaysPossible == authLeft > 0
=============================================================================
