# TLA+ models of TurbineProxy

TurbineProxy is a MySQL/PostgreSQL proxy in Rust (tokio): clients connect to it, it
classifies each query, and sends it over a pooled connection to the primary or to a
replica. This directory holds TLA+ models of its core, the TLC configurations that check
them on small instances, and TLAPS proofs for every size. Source paths below are relative
to the repository's `src/`; `PROJECT.json` maps every definition to its lines.

## 1. The system

### Components, their state and operations

| Component (file) | State | Operations | Hard behaviour | What makes it correct | Module |
|---|---|---|---|---|---|
| Connection pool (`proxy/pool.rs`, `ConnectionPool`) | idle stacks per database under a mutex; atomic `borrowed`; semaphore of the wait queue | `get_for_database`, `put_for_database` | limit checked and counted in different steps; permits forgotten before the connect; error paths that never put | the counter is exact; idle connections are clean and belong to their bucket; every get whose connects end returns | `ConnectionPool` |
| Backend pool (`proxy/pool.rs`, `BackendPool`) | pools, health flags, breakers, `failover_idx`, `gr_primary_idx`, round-robin counter | `get_primary/replica/hostgroup_for_database`, `put_primary/replica_for_database` | the answer to "who is the primary" changes between get and put; candidates change while they are tried | backups and the primary serve reads last; counters add up; weights are honoured; every request whose connects end returns | `BackendPool` |
| Circuit breaker (`proxy/circuit_breaker.rs`) | four relaxed atomics per backend | `allows`, `record_success`, `record_failure`, `open` | every pair of atomics can be torn | no trip lost; recovery time counted from the last trip; not stuck open | `CircuitBreaker` |
| Health and failover (`proxy/health.rs`, `proxy/pg_health.rs`) | failure and recovery counters, health and lag of each replica, `failover_idx`, trigger time | one loop: ping, act, visit replicas | counters and times of earlier rounds decide about later ones; router and dashboard write the same flags | no early failover, cooldown kept, unfit replicas excluded; fails over and back as long as its checks end | `Failover` |
| Cluster actions (`dashboard/routes.rs`) | - | `recheck_health`, `trigger_failover`, `clear_failover` | race with the checker | as above | `Failover` |
| Group Replication monitor (`proxy/group_replication.rs`) | `gr_primary_idx` | poll | its index is used by get and not by put | counters add up | `BackendPool` |
| Query router (`proxy/router.rs`) | handle of the pool, cache, rule engine | `route_query`, `route_fast`, `route_raw`, statement routes, reload | retry of what was already executed; cache filled after it was invalidated; `KILL QUERY` after a timeout | answers are true; reads of the primary are fresh; kills hit their query; requests end where a time limit covers them | `QueryRouter`, and the sessions' modules |
| Query cache (`proxy/cache.rs`) | entries with deadline and tables | get, put, invalidate | put racing with invalidate; eviction at the limit | nothing older than an invalidation stays | `QueryRouter` |
| MySQL session (`proxy/server.rs`) | transaction flags, `tx_conn`, `stmt_conn`, pin, hint index, timers | one client command at a time | flag and connection out of step after errors, kills, lost backends; connections that never report their transaction | a transaction's statements stay in it; open transactions stay with their session; connections go home | `MysqlSession` |
| PostgreSQL session (`proxy/pg_server.rs`, `protocol/postgres/mod.rs`) | the same, with the status of ReadyForQuery | simple queries, pipelines, meta-commands, COPY, Sync, Flush | status taken from connections that are not kept; prepared names on shared connections | sessions do not get into each other's transactions or statements | `PgSession` |
| Statement shadowing (`proxy/stmt_shadow.rs`) | client to backend statement ids | prepare, execute, long data, reset, close | re-prepare on another connection, ids of two connections in one table | an id runs the statement it was given for | `StmtShadow`, `StatementContract` |
| Rules, rate limits, rewriter (`proxy/rules.rs`, `proxy/rewriter.rs`) | rule sets, token buckets | compile, swap, match, consume | bucket refilled by load and store while others consume; old sets still in use | a bucket's credit is bounded | `RuleEngine` |
| Runtime configuration (`config/store.rs`, `dashboard/routes_config.rs`, `config/mod.rs`) | tables, file, what is in force | create/update/delete, apply, reload, import, export, cluster sync, SIGHUP, seed | stored and not applied, applied and not stored, two handlers interleaved | what is in force is what is stored; an unexported change is stamped after the export | `RuntimeConfig` |
| Listeners and shutdown (`proxy/server.rs`, `proxy/pg_server.rs`, `main.rs`) | semaphores, `connections_active`, user counters, credential cache | accept, authenticate, refuse, close, panic, SIGTERM, drain | counters raised and lowered on many ways out; one drain for two listeners | limits hold; SIGTERM ends a process that has a MySQL listener | `Frontend` |
| Dashboard login (`dashboard/routes.rs`, `dashboard/mod.rs`) | tokens, failed attempts | login, logout, refresh, middleware, sweep | checked under one lock, counted under another | attempts are bounded | `DashboardLogin` |
| Analytics (`analytics/`, loops in `main.rs`) | channel, map, batch, SQLite tables | record, aggregate, drain, flush, snapshot, roll up, prune | every hand-over can fail or be cut by a restart; prune and rollup overlap | nothing counted twice; rollups exact | `Telemetry` |
| Classifier, fingerprints, wire formats, observability stores, metrics | none, or counters for reports | - | - | - | not modelled, section 8 |

### How they interact

A session task calls the router; the router asks the rule engine and the cache, then takes a
connection from the backend pool, which consults breakers, health flags and the two primary
indices and calls one connection pool. The result is recorded on the breaker, the connection
is put back, kept by the session (transaction, pin, prepared statements), or dropped on an
error. The health checker, the Group Replication monitor and the dashboard are other tasks
that write the flags and indices; configuration handlers and SIGHUP swap the rule set, the
rewriter and the whole pool under the router. Nothing but atomics, a few locks and the
semaphores orders these tasks.

The full list of what is hard to test, at its lines, is `hazards` in `PROJECT.json`. A hazard
without a property there is one the code does not survive: the note names the definition that
is refuted.

## 2. Modules

| Module | Models | Composed from |
|---|---|---|
| `ConnectionPool` | get and put of the pools, step by step, and what a session does with a connection in between | - |
| `BackendPool` | the choice of a backend, and the way back, over real pools | EXTENDS `ConnectionPool`, `Sums` |
| `CircuitBreaker` | one breaker, one atomic access per step | - |
| `Failover` | health checker, failover, router marks, operator, world | - |
| `QueryRouter` | routing of single queries with retry, time limit and `KILL QUERY`, the result cache, primary and replica data | - |
| `MysqlSession` | the command loop of MySQL clients with their sticky connections | - |
| `PgSession` | the command loop of PostgreSQL clients, pipelines and statement names | - |
| `StatementContract` | what a client is promised about prepared statements | - |
| `StmtShadow` | the MySQL statement shadow and its route | INSTANCE `StatementContract` |
| `RuleEngine` | rule sets, rewriter, token buckets, requests that use them | - |
| `RuntimeConfig` | store, handlers, file, reloads, restart | EXTENDS `RuleEngine` |
| `Frontend`, `DashboardLogin`, `Telemetry` | listeners and shutdown; dashboard sessions; counts on their way to the disk | - |
| `Lifecycle` | one process over its life, with restarts | EXTENDS the three above |
| `MC*` | constants and symmetry sets for TLC | the module named |
| `Sums` | sums over finite sets, used by `BackendPool` and `Telemetry` | - |
| `PoolProofs`, `HealthProofs`, `RouterProofs`, `MysqlSessionProofs`, `PgSessionProofs`, `LifecycleProofs`, `RuntimeConfigProofs` | theorems, section 5 | the modules they are about |
| `SumsProofs` | lemmas about sums and numbers, for two of the above | EXTENDS `Sums` |

### ConnectionPool

A member of `Sessions` is one checkout slot of a client session (`tx_conn`, `stmt_conn` or
the local `conn` of a request). `pc` is its place in `get_for_database` or
`put_for_database`; a step ends where another task can come in between: at the bucket lock
(`Pop`), after the load of `borrowed` (`BelowLimit`, `RejectFast`, `Enqueue`), in the
semaphore (`AcquirePermit`, `WaitTimeout`), at the connect with its handshake (`Connect`,
`ConnectFail`; no time limit covers it, so it may also never end),
between `fetch_sub` with the early returns (`PutRelease`) and the second lock (`PutStore`).
A connection is a record: the backend it is open to, the database it is in, whether a
transaction is open on it, and whether reading from it failed. What the pool sees of the
last two depends on the protocol: `is_healthy` and `in_transaction` of the MySQL connection
are constants, the PostgreSQL one tracks both (`ReportsTx`, `ReportsHealthy`). `Protocol` says which
a pool holds; `Spent` is a bound with which an instance says how many of the checkouts of each pool a
behaviour may still use (in `Pool`, those of one of the two).
`Abandon` is the drop without a put of the router's error paths; the history variable `lost`
counts these. `borrowed` is arithmetic modulo `UsizeMax + 1`.

### BackendPool

Backend 0 is the configured primary; 0 in `failover_idx` and `gr_primary_idx` is the code's
-1. `route` follows a request through `get_replica_for_database` (first pass, backups,
primary), `get_hostgroup_for_database` and `get_primary_for_database`; each candidate is
asked through the steps of `ConnectionPool`. `GetsFrom` and `PutsTo` are the two answers to
who the primary is; the code gives them at different times and the second ignores
`gr_primary_idx`. Health flags and failover change at any time here, and a breaker's answer
is any subset of the candidates: `Failover` and `CircuitBreaker` model who decides them.

### CircuitBreaker

Every load, store and read-modify-write is a step, the clock reads included. Times are ages
saturating at `Recovery`. `Clients` call `allows` first; `Checkers` (the PostgreSQL health
checker, and queries that reach a failover or Group Replication primary) only record.

### Failover

`Ping`, `PrimaryAnswered`, `PrimaryFailed`, `Trigger`, `Promote` and `CheckReplica` are the
rounds of `HealthChecker::run`; `Protocol = "pgsql"` adds the writability test of
`ping_and_check_primary`. `RouterMarks` is the router's write of a health flag, `Recheck*`
and `Manual*` the dashboard's. The primary and the replicas change condition at any time
(`PrimaryChanges`, `ReplicaChanges`). The checker connects and pings without a time limit: a check may
stay where it is for ever. A replica whose replication is stopped reports lag 0
(`ReportedLag`). Counters and ages are capped where no comparison tells a difference any
more, `flaps` is kept modulo `FlapMod` because only its change matters.

### QueryRouter

Each request is a task in `route_query_inner` or `route_fast`; `pc` says what it awaits: the
cache lock (`lookup`, `filling`, `invalidating`), a connection (`connect`, `reconnect`) or the
backend (`sent`, `resent`). A query is what rules and classifier make of it: read or write,
its tables, whether it may be cached, and where it goes (`Query`); a read's tables are its
cache key. Data are versions, the number of writes executed on a table; the replica
(`copy`) follows at any time. `Lost` is a broken connection: what was sent on it may still be
executed later (`loose`), while the request goes on with its retry. `TimeOut` starts a kill
(`kills`), which runs on the configured primary whenever it gets there. Servers give every
connection a thread id of its own; `FreshTids` says which ids a new connection can have.
`told`, `cleared`, `since`, `runs` and `answer` are history.

Only MySQL: for PostgreSQL the cache key begins with `[db:...]`, which `is_cacheable` refuses
in `QueryCache::put`, so nothing is ever stored, and there is no thread id to kill.
Connections themselves, their pools and failovers are in `BackendPool`. Getting a connection and
replaying the session's variables on it (`connect`, `reconnect`) may take for ever. Rules may send a
write to a replica.

### MysqlSession

One action is one client command, from `read_command` to the last flush, because a session is
one task and only its backend connections are shared. `sess` holds the locals of
`handle_connection` (`in_tx`, `tx_conn`, `stmt_conn`, the pin, the index of a sticky_backend
hint, the transaction timer, `last_query_in_tx`); `conn` holds what the
server has for each backend connection: whether it is alive and whose transaction is open on
it. `fast` chooses the fast_forward option. The actions follow the order of tests in the loop:
COM_RESET_CONNECTION, raw commands (`StickyRaw`, `PooledRaw`), statements, then of a text the kill for
age or idleness, blocked statements, hints, fast-forward, and the normal route. A fast_forward rule sends any statement past
the loop's own tests (`RuleFastQuery`), and a BEGIN or COMMIT behind a comment (`hbegin`, `hcommit`) is one
for the classifier and the server, not for the loop. `client` says which transaction the client
has: one the loop follows (`tx`), or a loose one. An answer can be
an error the connection survives, a loss that `is_gone` recognises, or a loss whose text it does
not ("early eof"). Whether a read outside a transaction goes to the replica or to the primary
(rules, GTID and read-your-writes window) is open.

### PgSession

The same for `handle_pg_connection`. The transaction status is what ReadyForQuery of the last
answer said, whichever connection it came from. `is_gone` looks for "broken pipe" in a text that says "Broken
pipe", so a failed write in a transaction leaves the session where it was (`Settled`). A text whose BEGIN hides behind a comment
(`hidden`), a pipeline's BEGIN (`xbegin`), psql meta-commands, COPY FROM STDIN, a lone Sync and a
Flush without Sync are commands of their own; `wait` says who waits for whom in the last three.
A connection goes back to the pool through `put`, which drops it when its status is not idle
(`ConnectionPool` proves this part), and through DEALLOCATE ALL when it served statements.
All clients use one statement name, so that every collision is possible.

### StmtShadow and StatementContract

`StmtShadow` has `stmts` and `next_id` of `MysqlStmtShadow`, the two connections a session can have
for statements, and for each backend connection the ids the server has assigned on it. Lost
connections are replaced by the code's repair: every statement is prepared again, in any order of
the hash map, some are refused, and the connection may be lost again half-way; the connection it
gets is another than the lost one, which is still held (`Another`). `home`, the
connection a backend id belongs to, is an observation; the code keeps no such record.
`StatementContract` is the promise in the client's terms: an open id has a text and a scope
(session, transaction, or loose when neither), using it in its scope runs its text or fails, and
nobody else's id is touched. `ImplementsContract` maps `view` to what the shadow and the servers
hold (refinement by INSTANCE ... WITH).

### RuleEngine and RuntimeConfig

A rule set is compiled once, with full buckets, and appended to `sets`; requests under way go on with the set
they took a reference to. `try_consume_token` is six steps, one per atomic access.
`RuntimeConfig` gives every handler as a sequence of locked steps (`todo`), with other handlers
and requests between them: writing a table, stamping it, reading it back, compiling, swapping,
replacing a pool. Which columns and file sections each reader takes is modelled (a stored rule
loses its rate limit; `[shared]` counts at start-up and when rules are
reloaded from the file, not for an import, a reload of backends or a cluster sync; import does not apply
backends or users). Of a stamp the reading of the clock (`Stamp`) and the plain store (`Bump`) are two
steps, so that an older reading can be stored over a newer one; an export stamps first and then reads its
tables one by one (`Mark`); an import confirms without a stamp (`Reply`); `unsaved` observes the confirmed
changes that the last export lacks, `newest` the latest reading that was stored. `why` observes which of store, file or failed handler last put rules in force.

### Frontend, DashboardLogin, Telemetry and Lifecycle

`Frontend`: a connection's `pc` runs through accept, permit, handshake, user limit, loop and close;
a panic may end it in the loop. `server` is what `main` awaits: the MySQL accept loop and its drain, or, with
that listener disabled, `pending()`, which nothing ends (`TermAlwaysStops`, section 4). A user limit of 0 is
none. `DashboardLogin`: check and count of failed logins are two
steps, time passes and the sweeper runs in between. `Telemetry`: `queries_total` is raised when a query or pipeline starts; at its
end it has recorded no event (fast-forwarded, answered by the proxy, failed on PostgreSQL), one, or one for each
Parse of a pipeline, and events are what the collector counts. Then the collector's path (bounded channel, map, batch, table) and the time series' path (minute rows,
hourly and daily rollups by INSERT OR REPLACE, prune) with statements that fail. `Lifecycle` runs the three in one
process, follows each client's query through them (`Starts`, `Records`, `Ends`; a panic ends it without a
record) and adds the restart, graceful or not, after which each starts from what is on disk.

## 3. Runs that pass

Times are for two TLC workers.

| Run | Instance | Shows |
|---|---|---|
| `Pool` | a PostgreSQL pool with a queue for 1 or a MySQL pool without; 3 slots, 2 databases, limit 2, 4 checkouts, 3 instants; 707 857 states, 2.5 min | `BorrowedAccounted`, `IdleIsClean`, `IdleMatchesBucket`, `GetReturns`, types |
| `Breaker` | 2 clients, 1 checker, threshold 2, recovery 2 | `ErrorsCovered`, `OpeningIsStamped`, `NotStuckOpen` |
| `FailoverSafety` | 2 Galera nodes in 4 conditions, thresholds 2 | `UnfitExcluded`, `NoEarlyFailover`, `CooldownHeld`, types |
| `FailoverLive` | PostgreSQL, 1 replica, operator, router marks | `FailsOver`, `FailsBack` |
| `RouteStable` | PostgreSQL, primary, replica (weight 2), backup, 2 requests; a failover that is on or off; 2 min | `LastResort`, `WeightedShare` |
| `RouteSwitching` | MySQL, two replicas, failovers and elections at any time, pools with queues, 2 requests; 3.5 min | `TotalAccounted`, `RouteReturns` |
| `Router` | 2 requests out of 6 queries, 2 tables, 2 thread ids, cache of 1 entry; 3.5 min | `AnswersAreTrue`, `PrimaryReadsAreFresh`, `NoEntryOutlivesWrite`, `KillsStayOnTarget`, `RequestsEnd`, types |
| `Session` | 2 clients with 11 and 7 kinds of command, 2 connections to the primary, 1 to the replica, fast_forward on and off, fast_forward rules, hidden BEGINs; 264 874 states, 2 min | `TxAtomic`, `OpenTxIsHeld`, `PutHome`, types |
| `PgSession` | 2 clients, one with all 17 kinds of command, 3 connections; 802 472 states, 1.5 min | `TxIsolated`, `OwnStatements` |
| `Statements` | 2 connections, 2 texts, 2 proxy ids, 3 ids per backend connection; 299 609 states, 2 min | `ImplementsContract` |
| `Config` | 2 handlers and 2 requests, 3 files, rows that compile and do not, a clock; 1 788 279 states, 2 min | `StoreInForce`, `UnsavedShown`, `CreditBounded`, types |
| `Lifecycle` | 3 MySQL clients of one user and a PostgreSQL one, 2 logins at a time, 2 hours of 2 minutes a day, with and without the MySQL listener; 1 050 649 states, 2.5 min | `LimitsHold`, `AttemptsBounded`, `CountedOnce`, `RollupExact`, `TermStops` |

Bounds. Three sessions make every race of the pool possible: two that pass the same check
and a third that finds the result; more add nothing a pair cannot do, and the theorems
cover any number for the main invariants. Thresholds of 2 distinguish "first", "at the
threshold" and "beyond"; cooldowns of 1 or 2 ticks give before, at and after. Four or five
checkouts let a connection be got, put, reused, go stale or be lost, and its replacement
meet the same fate. Two replicas
in `RouteSwitching` make the loop over the candidates go round more than once, and candidates change
between its rounds. In `BackendPool` a request starts only while every pool has checkouts
left for it (`HasBudget`), so that the bound never cuts a request short. Two requests
in `QueryRouter` make a fill race with a write, a kill meet another query and two attempts of
one write meet each other; staleness that needs a third request, such as a read that hits
what the first stored, is left to the theorems, which cover any number. A cache of one entry
is always at its limit.

What the runs leave out: `FailoverSafety` has no operator, whose recheck and manual failover break
`UnfitExcluded` and `CooldownHeld` (section 4); in `RouteStable` health flags change during a request and the
failover does not; `WeightedShare` is about a turn of the counter that does not wrap; in `Router` a read that is under way
may store what it found before a write (`WritesInvalidate`, section 4), and `NoEntryOutlivesWrite` is about
the entries that are there when the write invalidates.

In the sessions' modules there is no bound on the number of commands: TLC explores all
sequences. Two clients are enough for what one leaves behind to meet another, and as many
connections as one client can hold plus one that the other finds. The clients' repertoires in `Session` differ because every
client with every command is beyond five minutes; together they hold every command, and each hazard
needs one client that misbehaves and one that finds the result. In `Statements`, ids are counted up
to the bound and a reset starts again; three ids on a connection let it carry a statement left by
an earlier use, so that a stale id can hit a wrong statement. In `Config` and `Lifecycle` a
behaviour starts with one of a few budgets (`MCBudgets`): many configuration operations, many
requests, or some of both; connects and a shutdown, logins, or counts. Each budget lets one group of
tasks interleave fully with restarts and time; the groups share no state but the process.

`Statements` uses a VIEW that leaves out the observation `out`. Every step flips its `turn`, so
that no step can pass as a stuttering step of the contract, and no action reads the rest: states
that differ in `out` alone have the same steps with the same outcomes. SYMMETRY is used only in runs without
liveness, over connections, handlers, requests or texts that nothing tells apart.

Deadlock is checked in the first eight runs and in `Statements`. In `Config` and
`Lifecycle` a behaviour ends when its budget is used up; in `PgSession` clients and servers can wait for each other for ever
(`NeverStuck` below). `Finished` lets a pool behaviour end when the bound on checkouts is used up.

Fairness. A tokio task that can run is run, and a timer fires: weak fairness on the steps of a get, a put
or a routed request that wait for nobody outside the proxy, on the checker's own steps, on the
breaker's recording steps, on the proxy's part of a query, and on the clock. In `Lifecycle`, the accept
loop's `select!` sees the notification, the drain loop wakes up, and time passes. Nothing is
assumed of the backends. No time limit covers a connect with its handshake and init statements (`pool.rs:239`), the
replay of session variables (`router.rs:511`, `581`) or a ping of the checkers (`health.rs:81`, `253`,
`pg_health.rs:215`), so none of these is fair: a silent backend keeps them for ever. The
liveness properties that such a step could block name it as their premise: `GetReturns` and
`RouteReturns` that the request's own connects end (others may hang), `RequestsEnd` that its connects and
replays end, `FailsOver` and `FailsBack` that the checks end (`ChecksEnd`), and `FailsOver` that the router stops failing on the
pool of the fit replica (`RouterQuiet`). Beyond that, `RequestsEnd` lets a statement of a
transaction, a fast-forwarded one and a retry wait for their answer, which has no limit either. Clients owe nothing: they may keep a connection
for ever. Only `NotStuckOpen` assumes that clients keep asking, since an open breaker
notices the end of its recovery time only when somebody asks.

## 4. Where the code does less than one would think

The modules state what comments, documents or plain expectation say of the code and the model refutes.
They have no run of their own; naming one in a configuration of its module shows the behaviour.

| Definition | What happens |
|---|---|
| `LimitHolds` (`ConnectionPool`) | gets that load `borrowed` before any of them connects exceed `max_connections` |
| `QueueIsBounded` | the semaphore holds permits, not waiters: any number waits |
| `TimeoutMeansFull` | a waiter forgets its permit and fails to connect; the next one times out below the limit |
| `BorrowedIsInUse` | connections dropped on error paths stay counted in `borrowed` |
| `IdleIsClean`, claimed of MySQL pools too | a MySQL connection goes back to the pool with its transaction open |
| `IdleMatchesBucket`, claimed of MySQL databases too | a connection that changed its database is reused under the old key |
| `OneProbe` (`CircuitBreaker`) | half-open lets everybody through |
| `OpenBlocks` | between the stores of `state` and `opened_at` an old time is compared |
| `FollowsStateMachine` | a late success closes an open breaker |
| `RecoveryIsConsecutive` (`Failover`) | recovery checks need not be consecutive |
| `FlapIsCounted` | clearing a failover hides the next flap |
| `PromotesFreshest` | a replica with stopped replication is preferred |
| `SilenceFailsOver` | a primary or replica that neither answers nor closes the connection stalls the checker, and no failover comes |
| `ReachesGoodReplica` | a promoted replica that dies is never replaced |
| `CooldownHeld`, `UnfitExcluded` with an operator | a manual failover has no cooldown; a recheck puts a lagging replica back |
| `WeightZeroIsOffline` (`BackendPool`) | weight 0 still gets reads |
| `WritesReachPrimary` | a connection to the old primary is put into the promoted replica's pool and serves writes |
| `IdleMatchesBucket` with elections | connections to an elected primary are put into the configured primary's pool |
| `RetryIsSafe` (`QueryRouter`) | a write whose connection breaks after it was sent is executed twice |
| `WritesInvalidate` | a retried write, one in a transaction or one by a caching hostgroup rule leaves old entries; a read under way stores what it found before the write |
| `NoTxSplit` (`MysqlSession`) | the fast_forward option and a fast_forward rule route BEGIN on a pooled connection, and so does the router for a BEGIN behind a comment; ROLLBACK TO SAVEPOINT ends the transaction for the session only |
| `IdleKillsAreDue` | `last_query_in_tx` survives a killed transaction and can kill the next BEGIN |
| `DeadTxReleased` | a connection lost with "early eof" stays the sticky one |
| `NoTxSplit` (`PgSession`) | a BEGIN sent by a pipeline, or hidden from the test of the text's start, runs on a connection that is not kept |
| `NothingForeign` | a name prepared inside a transaction stays on the pooled connection and is found by another client |
| `NeverStuck` | after COPY FROM STDIN, and after Flush without Sync, proxy, server and client wait for each other |
| `RunsOwn` (`StmtShadow`) | an id used in the other mode, or whose repair was refused, is an id of another connection and can run another text; so is every older id after a PREPARE was retried on a fresh connection, which repairs none of them |
| `NoDebt` (`RuleEngine`) | a refill that overlaps refused requests stores their debt |
| `ChangesShown` (`RuntimeConfig`) | a confirmed change that no export has is reported as exported: an import never bumps, PostgreSQL backends are in no export, an older clock reading is stored over a newer stamp |
| `StoreIsTruth` | after a restart or a reload the file is in force, not the store |
| `WatchedIsServing` | health checkers and failover keep the pool that `reload_pool` replaced |
| `ActiveIsExact` (`Frontend`) | a panic leaks a count, and the drain waits until its deadline |
| `TermAlwaysStops` | without a MySQL listener `main` awaits `pending()` (`main.rs:445`) and SIGTERM, taken by the handler, ends nothing |
| `LoginStaysPossible` | entries of the credential cache are made once, at start-up, and expire |
| `RecordsWhatItCounts` (`Telemetry`) | a pipeline of two Parses is one query and two events; a fast-forwarded statement is a query and no event |
| `PrunedStaysPruned` | the rollup brings back the hour and the day that the cutoff falls into, with a part of their rows |

`QueryRouter` also shows that a retry has no time limit (the exception in `RequestsEnd`) and
that `KILL QUERY` for a query of a replica reaches the primary (the restriction in
`KillsStayOnTarget`). The exceptions named in `OpenTxIsHeld`, `OwnStatements`, `StoreInForce` and `UnsavedShown` are
behaviours the model has, not precautions. `IdleWithinPoolSize` and `ReuseEvictsNothing` of
`ConnectionPool` hold (TLC, the instance of `Pool`) and are kept out of the run for its time.

## 5. Proofs

All theorems hold for every value of the constants that meets the named `ASSUME` of the
module, which TLC evaluates in every run: finite sets of tasks, natural numbers as limits,
`NoConn` and the like outside the sets they are "none" of. The `Spec` of the theorems is the
one TLC checks, without or with its fairness, on which no proof relies.

`SumsProofs`
- `Sums` writes a sum as the number of its units, so that the theorems on finite sets and
  cardinality apply: adding, removing or changing a member (`TotalWithout`, `TotalChanged`), a
  sum over the parts of a set (`TotalOfParts`). Where an induction would be natural, the lemma
  takes the least counterexample of a well-founded order (`FS_StrictSubsetOrderingWellFounded`
  with `WFMin`): `Least` and `TotalOfParts`.

`PoolProofs` (`ConnectionPool`, then `BackendPool`)
- `TypeCorrect`: types, including that whoever uses or returns a connection owns one.
- `BorrowedAccounting`: `BorrowedAccounted` alone is not inductive, since the counter wraps at
  `UsizeMax`. `CheckoutsCover` adds that connections out, connections lost and gets under way
  never exceed the checkouts started, which the bound keeps below `UsizeMax`; `AccountInv` is
  the conjunction with the types. Each action moves one session in or out of `Holders`, and
  `OneMore` and `OneLess` say what this does to the cardinality.
- `IdleConnectionsClean`, `IdleConnectionsFit`: `IdleIsClean` and `IdleMatchesBucket` need that a
  connection in a session's hands still is what its `at` and `key` say (`OwnedMatches`); `IdleInv`.
- `BackupsAreLast`: that a read at a backup was refused by every other replica is only known
  if the request remembers whom it asked at every place before: the strengthening says, for each
  place of `get_replica_for_database`, which replicas have been searched by then.
- `ReadsFollowWeights`: the candidates' slots are intervals that are apart (`SlotsApart`) and cover
  0..total-1 (`SlotsCover`); `Chosen` is the owner of the slot (`ChosenOwns`); and counting up the
  counter modulo the total is a rotation, which takes as many numbers into an interval as it has.
- `CountersBalance`: with failovers and elections no single counter is right, only their sum. The
  invariant is a balance modulo 2^w between all counters and the sessions that hold or lost a
  connection, one lemma per step of get and put, whichever pool they are on.

`HealthProofs` (`CircuitBreaker`, then `Failover`)
- `NoLostTrip`: `ErrorsCovered` with the types is inductive. The failure that brings the counter
  to the threshold joins `Openers` in the same step, and one leaves `Openers` only by setting
  the counter to 0.
- `RecoveryCountsFromLastOpening`: needs `StampIsRecent`: the clock value an opener is about to
  store is not older than the opening it has to cover.
- `TypeCorrect`.
- `UnfitNeverServe`: without the operator, `UnfitExcluded` is inductive: the router only takes
  replicas out.
- `FailoverHeld`: without the operator, `CooldownHeld` follows from an invariant that relates the
  age the code keeps to the age of the last promoting trigger.
- `FailoverIsEarned`: without the operator, `NoEarlyFailover` follows from the link between the
  counter the code keeps and the streak of failed pings, over rounds without a candidate.

`RouterProofs` (`QueryRouter`, then `StmtShadow`)
- `TypeCorrect`.
- `NoStaleEntries` and `ReadsOnPrimaryAreFresh` share one inductive invariant, `IInv`. Neither
  property is inductive: that an entry is younger than every invalidation needs that no
  invalidation is ahead of the primary's data when the entry is stored, so `NothingAhead` says
  this of everything that holds a version; that an invalidation raises the bound only for
  tables whose entries it removes needs that a result has no version for other tables
  (`Scope`). Freshness needs that such a read is executed on the primary and never looks into
  the cache (`Progress`), and that what clients were told is on the primary (`Fresh`). One lemma
  per group of actions; `LeftAlone` deals with the requests a step does not touch.
- `AnswersStayTrue`: what was executed for a request, and what is still loose of it, is within a
  budget of attempts that its place in the route fixes; the executions of a broken connection are
  counted as a set.
- `KillsMissOthers`: an action property. `OwnIds`: connections in use at one backend have different
  thread ids, and no kill that comes from that backend carries one of them.
- `ShadowImplementsContract`: the refinement of `StatementContract`, with the mapping `View`, `Mode`,
  `Broken`. The invariant, `ShadowInv`, is about `home`, the connection that an entry's id belongs to:
  it is `stmt_conn`, `tx_conn` or none, and as long as it is alive the server has the entry's text
  under the id, or nothing, and will not give the id again. Every command ends in `Done`, so
  `DoneKeeps` says once what that leaves, and `Agrees` what a changed map means for the statements
  the command is not about. For the repair, `NewBids` shows that the ids given to the accepted
  statements are new and apart in every order: `NewBid` counts the accepted ones before, and for two
  statements one of these sets is a proper subset of the other. A repair only happens in a broken
  session, the one case in which the contract lets other statements lose their scope.

`MysqlSessionProofs`
- `TypeCorrect`, `ConnectionsAreOwned`, `TransactionsAreAtomic`, `OpenTransactionsAreHeld`, `IdleAtHome`
  from one invariant, `IInv`. Its core is `Ownership`: a connection in a variable of a command loop
  is held, and no other variable of any loop has it. So what a loop does to its connections, and
  to those it takes from a pool, cannot be seen by the others, and one lemma per command of one
  session is enough (`Fits`). `ToldIsTrue` ties what the client was told to the flags of the loop.

`PgSessionProofs`
- `ConnectionsAreOwned`, `TransactionsAreIsolated`, `StatementsAreOwn`, by the same argument. Here
  ownership is an equivalence (no connection is lost either), and a command goes through several
  connections: `Uses` says what it may have in its hands half-way. Statements prepared outside a
  transaction are only ever on the connection in `stmt_conn`, which is deallocated on its way back.

`LifecycleProofs`
- The three parts share no variable but for the clients' queries; a restart is a step of each. `LimitsAreKept`: every client that
  has raised its user's counter is counted in it, and permits free and permits held make up the
  limit. `AttemptsAreBounded`: failures counted, plus requests between check and count.
  `EventsCountedOnce`: the places of an event on its way to the table, together; and the total, which
  starts from the table, against what the process has counted since.
- `RollupsAreExact`: `RollInv` says that the rows of minutes are exact from the cutoff on, that the
  rows of hours and days are within what was recorded, and which of them are exact at which step of
  a pass. `DayOfHours` is the arithmetic: the minutes of a day are the minutes of its hours
  (`NestedBuckets`, from a day being a multiple of an hour), so the sums agree. A bucket that
  begins at or after the cutoff has all its rows; one that begins before may have lost some, which
  keeps it within.

`RuntimeConfigProofs` (`RuntimeConfig` with `RuleEngine`)
- `TypeCorrect`: every handler is at a suffix of its program, and what its locals hold at each
  step is of the right kind.
- `CreditIsBounded`: the tokens of a bucket and the requests that have taken one too many and still
  have to give it back are together at most the rate plus one less than the requests there can be.
- `RulesComeFromStore`: while a handler has still to read or to swap a table, nothing is claimed of it;
  what it has read is the store's unless a write came in between, and then its swap is marked as
  overtaken.
- `ConfirmedChangesShow`: a table with a confirmed change that no export has is stamped not before
  the last export, or an export that is under way will still read it. The readings of the clock that
  handlers carry are part of the invariant: each is either stored already, or not older than
  what it has to cover (`Awaited`, `Stamped`, `Fresh`).

## 6. Only model-checked

Liveness, which is outside TLAPS as used here: `GetReturns`, `NotStuckOpen`, `FailsOver`, `FailsBack`,
`RouteReturns`, `RequestsEnd`, `TermStops`, each under the premises of section 3. What the code does not keep (section 4) is refuted by TLC and
stated in no theorem.

## 7. Plan

Modelling is done but for the gaps of section 8, and every safety property that a run checks has its
theorem. What would be worth adding: theorems under the operator's actions for what `UnfitNeverServe`,
`FailoverHeld` and `FailoverIsEarned` show without them, with the exceptions those actions need.

## 8. Not modelled

SQL classification, fingerprints, the rewriting of texts and the security filters are pure functions of
text: the sessions take their results as kinds of commands. Wire formats, TLS and password hashing are byte
formats: what is kept of the protocol modules is the outcome of a handshake, the ways a request ends and
the transaction status. Of configuration files the sections and the validity are kept, not defaults,
environment variables or encrypted secrets; of the command line nothing. Tracer, regression, heatmap,
N+1 and error stores, metrics and the reading handlers of the dashboard are counters and ring buffers nothing
else reads. Of `pool.rs` the counters that are only exported are left out. `discover_replicas` of the
PostgreSQL checker only counts and logs.

Of what the modelled parts do, these are left out: mirroring; the GTID and read-your-writes tests, which are
a free choice of backend; the replay of a session's SET statements on a fresh connection; long data sent
before a statement's connection is lost; PREPARE as an SQL text; framing of multi-result answers; the counters of a pool that
`reload_pool` replaces while its connections are out; the mode without configured users. The wall clock is
taken not to be set back.
