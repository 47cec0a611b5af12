----------------------------- MODULE Lifecycle -----------------------------
(* One proxy process over its life: the client connections (Frontend), the dashboard's
   sessions (DashboardLogin) and the counts on their way to the disk (Telemetry), which
   run side by side in one runtime, stop together when ProxyServer::run returns or the
   process dies, and start again from what is on the disk. *)
EXTENDS Frontend, DashboardLogin, Telemetry

CONSTANT
  Budgets         \* bounds: how many connections, logins, queries and faults there are,
                  \* how often the process starts again, the minute it starts in; and
                  \* which analytics stores could be opened, which clients are there,
                  \* whether the MySQL listener is enabled

VARIABLES
  query,          \* how far the connection tasks are with a query
  restarts        \* bound: restarts that may still come

(* The clients that are there from the start use the PostgreSQL listener and have permits;
   the clock starts within its bound. *)
ASSUME BudgetsAssumption ==
  \A b \in Budgets :
     b.up \subseteq PgClients /\ Cardinality(b.up) <= MaxConns /\ b.start \in 0..LastMinute
     /\ b.server \in {"accept", "pending"}

vars == <<frontVars, loginVars, telemetryVars, query, restarts>>

Up == server # "stopped"
NoQuery == [c \in Clients |-> "none"]

Init ==
  /\ LoginInit /\ TelemetryInit /\ query = NoQuery
  /\ \E b \in Budgets :
       /\ FrontInit(b.up, b.server)
       /\ arrivals = b.arrivals /\ attempts = b.attempts /\ queries = b.queries /\ faults = b.faults
       /\ restarts = b.restarts /\ signals = b.signals /\ now = b.start /\ analytics = b.analytics

(* A connection with a query leaves the command loop only by a panic, and the query goes
   with the task. *)
FrontStep ==
  /\ FrontNext
  /\ \A c \in Clients : query[c] # "none" => conn'[c].pc # "done"
  /\ query' = [c \in Clients |-> IF conn'[c].pc = "loop" THEN query[c] ELSE "none"]
  /\ UNCHANGED <<loginVars, telemetryVars, restarts>>

LoginStep == Up /\ LoginNext /\ UNCHANGED <<frontVars, telemetryVars, query, restarts>>
TelemetryStep == Up /\ TelemetryNext /\ UNCHANGED <<frontVars, loginVars, query, restarts>>

(* What a query does to the counts while a connection task runs it: it is counted; it
   records an event, a PostgreSQL pipeline one for each Parse; it ends.  A statement that
   is fast-forwarded, that the proxy answers itself or whose PostgreSQL backend fails
   ends without an event. *)
Starts(c) ==
  /\ query[c] = "none" /\ conn[c].pc = "loop"
  /\ CountQuery
  /\ query' = [query EXCEPT ![c] = "running"]

Records(c) ==
  /\ \/ query[c] = "running" /\ UNCHANGED queries
     \/ query[c] = "recording" /\ c \in PgClients /\ queries > 0 /\ queries' = queries - 1
  /\ RecordEvent
  /\ query' = [query EXCEPT ![c] = "recording"]

Ends(c) ==
  /\ \/ query[c] = "running" /\ UNCHANGED telemetryVars
     \/ query[c] = "recording" /\ RecordThroughput
  /\ query' = [query EXCEPT ![c] = "none"]

Query ==
  /\ Up /\ \E c \in Clients : Starts(c) \/ Records(c) \/ Ends(c)
  /\ UNCHANGED <<frontVars, loginVars, restarts>>

(* After the shutdown, or after a crash, at any point. *)
Restart ==
  /\ restarts > 0 /\ restarts' = restarts - 1
  /\ FrontRestart /\ LoginRestart /\ TelemetryRestart /\ query' = NoQuery

Next == FrontStep \/ LoginStep \/ TelemetryStep \/ Query \/ Restart

(* The accept loop's select!, the drain loop's 100 ms sleeps and the clock go on; nothing
   is assumed of the clients, nor of the tasks that serve them. *)
Fairness ==
  /\ WF_vars(StopAccepting /\ UNCHANGED <<loginVars, telemetryVars, query, restarts>>)
  /\ WF_vars(DrainDone /\ UNCHANGED <<loginVars, telemetryVars, query, restarts>>)
  /\ WF_vars(TimePasses /\ UNCHANGED <<loginVars, telemetryVars, query, restarts>>)

Spec == Init /\ [][Next]_vars /\ Fairness
=============================================================================
