------------------------------ MODULE PgSession ------------------------------
(* The command loop of one PostgreSQL client connection (handle_pg_connection in
   proxy/pg_server.rs), the routing of simple queries and of extended-protocol pipelines
   (route_query_inner and route_stmt_pg_shadow_inner in proxy/router.rs), the shadow of
   its prepared statements (PgStmtShadow) and the protocol side of both ends
   (PgClientSession and PgBackendConnection in protocol/postgres/mod.rs), for several
   clients over one pool.

   One action is one client command.  A backend connection carries what the server holds
   for it: the session whose transaction is open, and who prepared the statement of the
   one name that all clients use. *)
EXTENDS Naturals, FiniteSets

CONSTANTS
  Sessions,       \* client connections
  Conns,          \* backend connections that can exist at a time
  Commands,       \* the commands each client uses
  NoConn          \* None of Option<Box<dyn BackendConnection>>

VARIABLES
  sess,           \* the local variables of handle_pg_connection, per client
  conn,           \* the backend connections
  client,         \* observation: how the client opened the transaction it was told it has
  split,          \* observation: the last step ran a statement of such a transaction outside it
  mixed,          \* observation: ... a statement inside another session's transaction
  foreign         \* observation: ... a prepared statement of another session; how it was prepared

vars == <<sess, conn, client, split, mixed, foreign>>

(* Simple queries: "hidden" is a BEGIN that the test of the text's start does not see,
   "savepoint" is ROLLBACK TO SAVEPOINT, "meta" a psql meta-command, "copy" is COPY FROM
   STDIN; "work" is any other.  Pipelines hold one statement; parse, bind and close name
   a prepared statement. *)
Simple == {"begin", "hidden", "commit", "savepoint", "work"}
Pipelines == {"xbegin", "xcommit", "xwork", "parse", "bind", "close"}

ASSUME PgCommandsAssumption ==
  Commands \in [Sessions -> SUBSET (Simple \cup Pipelines
                                    \cup {"meta", "blocked", "copy", "data", "sync", "flush"})]

ASSUME PgConnsAssumption == NoConn \notin Conns /\ "none" \notin Sessions

Unnamed == [by |-> "none", how |-> "plain"]
NotWaiting == [on |-> NoConn, for |-> "none"]
Waiting == [on : Conns \cup {NoConn}, for : {"none", "sync", "copy", "data"}]

Session == [open : BOOLEAN, in_tx : BOOLEAN, tx : Conns \cup {NoConn}, stmt : Conns \cup {NoConn},
            shadow : BOOLEAN, wait : Waiting]

(* known and healthy are the fields of PgBackendConnection: the status of the last
   ReadyForQuery, and that no read has failed. *)
Connection == [at : {"closed", "idle", "held"}, alive : BOOLEAN, tx : Sessions \cup {"none"},
               known : BOOLEAN, healthy : BOOLEAN,
               name : [by : Sessions \cup {"none"}, how : {"plain", "tx"}]]

TypeOK ==
  /\ sess \in [Sessions -> Session]
  /\ conn \in [Conns -> Connection]
  /\ client \in [Sessions -> {"none", "simple", "extended", "hidden", "savepoint", "sync"}]
  /\ mixed \in BOOLEAN

NewSession == [open |-> TRUE, in_tx |-> FALSE, tx |-> NoConn, stmt |-> NoConn,
               shadow |-> FALSE, wait |-> NotWaiting]
NewConn == [at |-> "closed", alive |-> TRUE, tx |-> "none", known |-> FALSE,
            healthy |-> TRUE, name |-> Unnamed]

Init ==
  /\ sess = [s \in Sessions |-> [NewSession EXCEPT !.open = FALSE]]
  /\ conn = [c \in Conns |-> NewConn]
  /\ client = [s \in Sessions |-> "none"]
  /\ split = "none" /\ mixed = FALSE /\ foreign = "none"

Ready(s) == sess[s].open /\ sess[s].wait.for = "none"

-----------------------------------------------------------------------------
(* The pool and the connections. *)

Get(cn) ==
  LET idle == {c \in Conns : cn[c].at = "idle"}
  IN  (IF idle # {} THEN idle ELSE {c \in Conns : cn[c].at = "closed"}) \cup {NoConn}

Drop(cn, c) == IF c = NoConn THEN cn ELSE [cn EXCEPT ![c] = NewConn]

Put_Always(cn, c) == IF c = NoConn THEN cn ELSE [cn EXCEPT ![c].at = "idle"]

(* A connection that is in a transaction or has failed a read is dropped. *)
Put(cn, c) ==
  IF c = NoConn THEN cn
  ELSE IF cn[c].known \/ ~cn[c].healthy THEN Drop(cn, c)
  ELSE [cn EXCEPT ![c].at = "idle"]

(* What becomes of a message: an answer up to ReadyForQuery; a write that fails, which
   leaves the connection healthy; a read that fails with a reset, or with "early eof".
   A connection that dies under a message has died before it: the server's part of both
   is the same. *)
Lost == {"pipe", "reset", "eof"}
Answers(cn, c) == IF cn[c].alive THEN {"ok"} ELSE Lost

Opens == {"begin", "hidden", "xbegin"}
Commits == {"commit", "xcommit"}

(* A connection on which a message was lost: the server's side of it is gone. *)
Broken(x, res) ==
  [at |-> "held", alive |-> FALSE, tx |-> "none", known |-> x.known,
   healthy |-> x.healthy /\ res = "pipe", name |-> Unnamed]

(* A connection on which the server ran k of s: transactions, and the statement of the
   name. *)
Served(x, s, k, how) ==
  LET tx == IF k \in Opens /\ x.tx = "none" THEN s ELSE IF k \in Commits THEN "none" ELSE x.tx
      name == IF k = "parse" /\ x.name = Unnamed THEN [by |-> s, how |-> how]
              ELSE IF k \in {"close", "deallocate"} THEN Unnamed ELSE x.name
  IN  [at |-> "held", alive |-> x.alive, tx |-> tx, known |-> tx # "none",
       healthy |-> x.healthy, name |-> name]

Run(cn, s, k, c, res, how) ==
  [cn EXCEPT ![c] = IF res \in Lost THEN Broken(cn[c], res) ELSE Served(cn[c], s, k, how)]

(* What the client was told, and what ran where. *)
Told(s, k, res, mode) ==
  client' = [client EXCEPT ![s] =
    CASE res # "ok" -> "none"
      [] res = "ok" /\ k \in Opens -> IF @ = "none" THEN mode ELSE @
      [] res = "ok" /\ k \in Commits -> "none"
      [] res = "ok" /\ k = "savepoint" /\ @ # "none" -> "savepoint"
      [] OTHER -> @]

Observe(cn, s, k, c) ==
  /\ split' = IF client[s] # "none" /\ k \notin Opens /\ cn[c].alive /\ cn[c].tx # s
              THEN client[s] ELSE "none"
  /\ mixed' = (cn[c].alive /\ cn[c].tx \notin {"none", s})
  /\ foreign' = IF k = "bind" /\ cn[c].alive /\ cn[c].name.by \notin {"none", s}
                THEN cn[c].name.how ELSE "none"

Unobserved == split' = "none" /\ mixed' = FALSE /\ foreign' = "none"

-----------------------------------------------------------------------------
(* Connecting: the user's SET statements run on some connection, which goes back. *)
Connect(s) ==
  /\ ~sess[s].open
  /\ sess' = [sess EXCEPT ![s] = NewSession]
  /\ \E c \in Get(conn) :
       \/ c = NoConn /\ UNCHANGED conn /\ Unobserved
       \/ /\ c # NoConn
          /\ \E res \in Answers(conn, c) : conn' = Put(Run(conn, s, "set", c, res, "plain"), c)
          /\ Observe(conn, s, "set", c)
  /\ UNCHANGED client

Released_Dirty(cn, s, c) == Put(cn, c)

(* stmt_conn goes back after DEALLOCATE ALL. *)
Released(cn, s, c) ==
  IF c = NoConn THEN cn
  ELSE Put(Run(cn, s, "deallocate", c, IF cn[c].alive THEN "ok" ELSE "reset", "plain"), c)

(* The loop ends: both connections go back. *)
Ended(s, cn, r) ==
  /\ sess' = [sess EXCEPT ![s] = [NewSession EXCEPT !.open = FALSE]]
  /\ conn' = Released(Put(cn, r.tx), s, r.stmt)
  /\ client' = [client EXCEPT ![s] = "none"]

(* The client leaves; a proxy that waits for its Sync notices, one that waits for the
   server does not. *)
Disconnect(s) ==
  /\ sess[s].open /\ sess[s].wait.for \in {"none", "sync"}
  /\ Ended(s, conn, sess[s])
  /\ Unobserved

-----------------------------------------------------------------------------
(* Simple queries. *)

Ends == {"commit", "savepoint"}

Begun_Late(s, k) == sess[s]

(* BEGIN marks the session before it is routed. *)
Begun(s, k) == [sess[s] EXCEPT !.in_tx = @ \/ k = "begin"]

(* After routing.  A text that starts like COMMIT or ROLLBACK ends the transaction for
   the session, whatever came of it; otherwise the status of the answer decides; an error
   that is_gone recognises ends it too, and drops its connection.  It looks for "broken
   pipe" in an error text that says "Broken pipe", so a write that fails is not one. *)
Settled(r, cn, k, res, inTx) ==
  CASE k \in Ends -> [r |-> [r EXCEPT !.in_tx = FALSE, !.tx = NoConn], cn |-> Put(cn, r.tx)]
    [] k \notin Ends /\ res = "ok" /\ inTx -> [r |-> [r EXCEPT !.in_tx = TRUE], cn |-> cn]
    [] k \notin Ends /\ res = "ok" /\ ~inTx ->
         [r |-> [r EXCEPT !.in_tx = FALSE, !.tx = NoConn], cn |-> Put(cn, r.tx)]
    [] k \notin Ends /\ res = "reset" /\ r.in_tx ->
         [r |-> [r EXCEPT !.in_tx = FALSE, !.tx = NoConn], cn |-> Drop(cn, r.tx)]
    [] OTHER -> [r |-> r, cn |-> cn]

Settle(s, r, cn, k, res, inTx) ==
  LET e == Settled(r, cn, k, res, inTx)
  IN  sess' = [sess EXCEPT ![s] = e.r] /\ conn' = e.cn

ModeOf(k) == CASE k = "xbegin" -> "extended" [] k = "hidden" -> "hidden" [] OTHER -> "simple"

(* In a transaction: on the sticky connection, with no retry. *)
StickyQuery(s, k) ==
  /\ Ready(s) /\ Begun(s, k).in_tx
  /\ LET r == Begun(s, k)
     IN  \E c \in IF r.tx # NoConn THEN {r.tx} ELSE Get(conn) :
           \/ /\ c = NoConn
              /\ Settle(s, r, conn, k, "none", FALSE)
              /\ Told(s, k, "none", "simple") /\ Unobserved
           \/ /\ c # NoConn
              /\ \E res \in Answers(conn, c) :
                   LET cn == Run(conn, s, k, c, res, "tx")
                   IN  /\ Settle(s, [r EXCEPT !.tx = c], cn, k, res, cn[c].tx # "none")
                       /\ Told(s, k, res, ModeOf(k)) /\ Observe(conn, s, k, c)

(* No connection, or none that lives: the client gets an error. *)
QueryFails(s, k, cn) ==
  /\ Settle(s, Begun(s, k), cn, k, "none", FALSE)
  /\ Told(s, k, "none", "simple") /\ Unobserved

QueryWorks(s, k, cn, c) ==
  LET ran == Run(cn, s, k, c, "ok", "plain")
  IN  /\ Settle(s, Begun(s, k), Put(ran, c), k, "ok", ran[c].tx # "none")
      /\ Told(s, k, "ok", ModeOf(k)) /\ Observe(cn, s, k, c)

(* Outside: on a pooled connection, and once more on another when that was lost. *)
PooledQuery(s, k) ==
  /\ Ready(s) /\ ~Begun(s, k).in_tx
  /\ \E c \in Get(conn) :
       \/ c = NoConn /\ QueryFails(s, k, conn)
       \/ c # NoConn /\ conn[c].alive /\ QueryWorks(s, k, conn, c)
       \/ /\ c # NoConn /\ ~conn[c].alive
          /\ LET cn == Drop(conn, c)
             IN  \E d \in Get(cn) :
                   \/ d = NoConn /\ QueryFails(s, k, cn)
                   \/ d # NoConn /\ ~cn[d].alive /\ QueryFails(s, k, Drop(cn, d))
                   \/ d # NoConn /\ cn[d].alive /\ QueryWorks(s, k, cn, d)

Query(s, k) == StickyQuery(s, k) \/ PooledQuery(s, k)

(* A psql meta-command becomes a read; the status of its answer is not looked at. *)
MetaCommand(s) ==
  /\ Ready(s)
  /\ LET r == sess[s]
     IN  \E c \in IF r.in_tx /\ r.tx # NoConn THEN {r.tx} ELSE Get(conn) \ {NoConn} :
         \E res \in Answers(conn, c) :
           LET cn == Run(conn, s, "work", c, res, "tx")
           IN  /\ sess' = [sess EXCEPT ![s].tx = IF r.in_tx THEN c ELSE @]
               /\ conn' = IF r.in_tx THEN cn ELSE IF res = "ok" THEN Put(cn, c) ELSE Drop(cn, c)
               /\ Told(s, "work", IF r.in_tx THEN res ELSE "ok", "simple")
               /\ Observe(conn, s, "work", c)

(* A write of a read-only user, a text the injection patterns match or the whitelist does
   not, a rule or a rewrite that refuses: the proxy answers. *)
Blocked(s) ==
  /\ Ready(s)
  /\ UNCHANGED vars

-----------------------------------------------------------------------------
(* Pipelines. *)

(* apply_scan, before routing: a name that is parsed is kept, one that is closed is not. *)
Scanned(s, k) == [sess[s] EXCEPT !.shadow = (@ \/ k = "parse") /\ k # "close"]

(* The session after a pipeline: the status of an answer decides; when no name is left
   and no transaction, stmt_conn is released. *)
PipelineDone(s, r, cn, res, inTx) ==
  LET ended == res = "ok" /\ ~inTx
      a == IF res = "ok" THEN [r EXCEPT !.in_tx = inTx, !.tx = IF inTx THEN @ ELSE NoConn] ELSE r
      c1 == IF ended THEN Put(cn, r.tx) ELSE cn
      free == ~a.shadow /\ ~a.in_tx
  IN  /\ sess' = [sess EXCEPT ![s] = IF free THEN [a EXCEPT !.stmt = NoConn] ELSE a]
      /\ conn' = IF free THEN Released(c1, s, a.stmt) ELSE c1

(* In a transaction: on the sticky connection, like a simple query, but an error leaves
   the session as it is. *)
StickyPipeline(s, k) ==
  /\ Ready(s) /\ sess[s].in_tx
  /\ LET r == Scanned(s, k)
     IN  \E c \in IF r.tx # NoConn THEN {r.tx} ELSE Get(conn) :
           \/ /\ c = NoConn
              /\ PipelineDone(s, r, conn, "none", FALSE)
              /\ Told(s, k, "none", "simple") /\ Unobserved
           \/ /\ c # NoConn
              /\ \E res \in Answers(conn, c) :
                   LET cn == Run(conn, s, k, c, res, "tx")
                   IN  /\ PipelineDone(s, [r EXCEPT !.tx = c], cn, res, cn[c].tx # "none")
                       /\ Told(s, k, res, ModeOf(k)) /\ Observe(conn, s, k, c)

PipelineFails(s, k, cn, stmt) ==
  /\ PipelineDone(s, [Scanned(s, k) EXCEPT !.stmt = stmt], cn, "none", FALSE)
  /\ Told(s, k, "none", "simple") /\ Unobserved

PipelineWorks(s, k, cn, c) ==
  LET ran == Run(cn, s, k, c, "ok", "plain")
  IN  /\ PipelineDone(s, [Scanned(s, k) EXCEPT !.stmt = c], ran, "ok", ran[c].tx # "none")
      /\ Told(s, k, "ok", ModeOf(k)) /\ Observe(cn, s, k, c)

(* The name is prepared again on d, unless this pipeline parses it. *)
Reprepared(s, k, cn, d) ==
  IF Scanned(s, k).shadow /\ k # "parse" THEN Run(cn, s, "parse", d, "ok", "plain") ELSE cn

(* Outside: on stmt_conn.  When that is lost, a fresh connection takes its place and the
   pipeline is sent again. *)
ShadowPipeline(s, k) ==
  /\ Ready(s) /\ ~sess[s].in_tx
  /\ \E c \in IF sess[s].stmt # NoConn THEN {sess[s].stmt} ELSE Get(conn) :
       \/ c = NoConn /\ PipelineFails(s, k, conn, NoConn)
       \/ c # NoConn /\ conn[c].alive /\ PipelineWorks(s, k, conn, c)
       \/ /\ c # NoConn /\ ~conn[c].alive
          /\ LET cn == Run(conn, s, k, c, "reset", "plain")
             IN  \E d \in Get(cn) :
                   \/ d = NoConn /\ PipelineFails(s, k, cn, c)
                   \/ /\ d # NoConn /\ ~conn[d].alive
                      /\ PipelineFails(s, k, Run(Drop(cn, c), s, k, d, "reset", "plain"), d)
                   \/ /\ d # NoConn /\ conn[d].alive
                      /\ PipelineWorks(s, k, Reprepared(s, k, Drop(cn, c), d), d)

Pipeline(s, k) == StickyPipeline(s, k) \/ ShadowPipeline(s, k)

-----------------------------------------------------------------------------
(* Everything else: a lone Sync, and the COPY messages. *)

(* A Sync with no pipeline before it goes to some connection, whose status the session
   takes for its own. *)
LoneSync(s) ==
  /\ Ready(s)
  /\ \E c \in Get(conn) :
       \/ c = NoConn /\ Ended(s, conn, sess[s]) /\ Unobserved
       \/ /\ c # NoConn /\ conn[c].alive
          /\ sess' = [sess EXCEPT ![s].in_tx = conn[c].tx # "none"]
          /\ conn' = Put(Run(conn, s, "sync", c, "ok", "plain"), c)
          /\ client' = [client EXCEPT ![s] = IF @ = "none" THEN "none" ELSE "sync"]
          /\ Unobserved
       \/ /\ c # NoConn /\ ~conn[c].alive
          /\ conn' = Drop(conn, c)
          /\ UNCHANGED <<sess, client>> /\ Unobserved

(* COPY FROM STDIN: the server answers CopyInResponse and waits for data; the proxy waits
   for ReadyForQuery and forwards nothing.  CopyData outside of a COPY, which the server
   ignores, is waited for as well. *)
CopyIn(s, by) ==
  /\ Ready(s)
  /\ \E c \in IF by = "copy" /\ sess[s].in_tx /\ sess[s].tx # NoConn THEN {sess[s].tx}
              ELSE Get(conn) \ {NoConn} :
       /\ conn[c].alive
       /\ conn' = [conn EXCEPT ![c].at = "held"]
       /\ sess' = [sess EXCEPT ![s].wait = [on |-> c, for |-> by],
                               ![s].tx = IF by = "copy" /\ sess[s].in_tx THEN c ELSE @]
       /\ IF by = "copy" THEN Observe(conn, s, by, c) ELSE Unobserved
  /\ UNCHANGED client

(* ... until that connection dies. *)
CopyEnds(s) ==
  /\ sess[s].wait.for \in {"copy", "data"}
  /\ LET c == sess[s].wait.on
         r == [sess[s] EXCEPT !.wait = NotWaiting]
     IN  /\ ~conn[c].alive
         /\ \E res \in {"reset", "eof"} :
              LET cn == Run(conn, s, "copy", c, res, "plain")
              IN  IF sess[s].wait.for = "copy" /\ r.tx = c
                  THEN Settle(s, r, cn, "copy", res, FALSE)
                  ELSE \/ sess' = [sess EXCEPT ![s] = r] /\ conn' = Drop(cn, c)
                       \/ /\ sess[s].wait.for = "copy"
                          /\ \E d \in Get(Drop(cn, c)) \ {NoConn} :
                               /\ sess' = [sess EXCEPT ![s].wait.on = d]
                               /\ conn' = [Drop(cn, c) EXCEPT ![d].at = "held"]
         /\ client' = [client EXCEPT ![s] = IF r.tx = c THEN "none" ELSE @]
         /\ Unobserved

(* A pipeline that ends with Flush: the client waits for its answer, the proxy for Sync. *)
FlushWaits(s) ==
  /\ Ready(s)
  /\ sess' = [sess EXCEPT ![s].wait.for = "sync"]
  /\ UNCHANGED <<conn, client>> /\ Unobserved

(* The server ends a connection: its transaction and its names are gone. *)
ConnectionDies(c) ==
  /\ conn[c].at # "closed" /\ conn[c].alive
  /\ conn' = [conn EXCEPT ![c].alive = FALSE, ![c].tx = "none", ![c].name = Unnamed]
  /\ UNCHANGED <<sess, client>> /\ Unobserved

Next ==
  \/ \E s \in Sessions :
       \/ Connect(s) \/ Disconnect(s)
       \/ \E k \in Simple \cap Commands[s] : Query(s, k)
       \/ "meta" \in Commands[s] /\ MetaCommand(s)
       \/ "blocked" \in Commands[s] /\ Blocked(s)
       \/ \E k \in Pipelines \cap Commands[s] : Pipeline(s, k)
       \/ "sync" \in Commands[s] /\ LoneSync(s)
       \/ \E by \in {"copy", "data"} \cap Commands[s] : CopyIn(s, by)
       \/ CopyEnds(s)
       \/ "flush" \in Commands[s] /\ FlushWaits(s)
  \/ \E c \in Conns : ConnectionDies(c)

Spec == Init /\ [][Next]_vars

-----------------------------------------------------------------------------
(* No statement of a transaction that the client opened with a simple BEGIN runs outside
   it, whatever pipelines, meta-commands, lost connections and COPYs come between; and no
   statement of anybody runs inside another session's transaction, because the pool drops
   a connection whose last status was not idle. *)
TxIsolated == split # "simple" /\ ~mixed

(* A client that binds a name runs the statement of another session only when that was
   prepared inside a transaction: what goes through stmt_conn is deallocated on every way
   back to the pool. *)
OwnStatements == foreign \in {"none", "tx"}

(* Stronger than the code: a client runs its own statements. *)
NothingForeign == foreign = "none"

(* Stronger than the code: transactions opened by a pipeline or behind a comment, rolled
   back to a savepoint or followed by a lone Sync stay whole. *)
NoTxSplit == split = "none"

(* Stronger than the code: nobody waits for what cannot come. *)
NeverStuck == \A s \in Sessions : sess[s].wait.for = "none"
=============================================================================
