---------------------------- MODULE MysqlSession ----------------------------
(* The command loop of one MySQL client connection (handle_connection in
   proxy/server.rs) and the routing functions that take the session's sticky
   connections (route_fast, route_raw, route_sticky_query and the sticky paths of
   route_query_inner and route_stmt_mysql_shadow in proxy/router.rs), for several
   clients that share the pools of a primary and a replica.

   One action is one client command, from read_command to the last flush; what two
   requests do to each other inside the router is in QueryRouter and ConnectionPool.
   A backend connection carries what the server holds for it: whether it is alive
   and whose transaction is open on it.  A MySQL backend connection never reports a
   transaction (MySQLBackendConnection.in_transaction is never set), so the pool
   keeps whatever is put into it. *)
EXTENDS Naturals, FiniteSets

CONSTANTS
  Sessions,       \* client connections
  Primary,        \* backend connections to the primary that can exist at a time
  Replica,        \* backend connections to the replica
  Commands,       \* the commands each client uses; "slow": it may exceed the timeouts
  NoConn          \* None of Option<Box<dyn BackendConnection>>

VARIABLES
  fast,           \* the fast_forward option
  sess,           \* the local variables of handle_connection, per client
  conn,           \* the backend connections: place, server-side state
  client,         \* observation: the transaction the client was told it has
  split           \* observation: transactions a statement of which ran outside them

vars == <<fast, sess, conn, client, split>>

Conns == Primary \cup Replica
Pool(c) == IF c \in Primary THEN "primary" ELSE "replica"

(* What the client sends as COM_QUERY, as far as the session tells statements apart.
   "savepoint" is ROLLBACK TO SAVEPOINT, "setvar" a statement that pins the session,
   "hint1" and "hint0" are reads with a sticky_backend comment.  "hbegin" and "hcommit"
   are a BEGIN and a COMMIT behind a comment: the classifier strips it, the loop looks at
   the first word of the raw text and does not recognise them. *)
Kinds == {"begin", "commit", "hbegin", "hcommit", "savepoint", "read", "write", "setvar",
          "hint1", "hint0"}
Begins == {"begin", "hbegin"}
Ends == {"commit", "hcommit"}
Reads == {"read", "hint1", "hint0"}
StmtKinds == {"prepare", "execute", "close"}

ASSUME CommandsAssumption ==
  Commands \in [Sessions -> SUBSET (Kinds \cup StmtKinds \cup {"reset", "raw", "slow"})]

(* A connection leads to one backend; None is no connection; nobody is not a client. *)
ASSUME ConnectionsAssumption ==
  /\ Primary \cap Replica = {}
  /\ NoConn \notin Primary \cup Replica
  /\ "none" \notin Sessions

(* What becomes of a statement on a connection: an answer of the server, or an I/O
   error whose text names a reset connection, or one that only says "early eof". *)
Answers(c) == IF conn[c].alive THEN {"ok", "gone", "eof"} ELSE {"gone", "eof"}
Lost == {"gone", "eof"}

Session == [open : BOOLEAN, in_tx : BOOLEAN, tx : Primary \cup {NoConn},
            stmt : Primary \cup {NoConn}, stmts : BOOLEAN,
            hint : Conns \cup {NoConn}, hint_idx : {"primary", "replica"}, hinted : BOOLEAN,
            pinned : BOOLEAN, start : {"none", "young", "old"},
            lastq : {"none", "young", "old"}]

(* A connection in no place is closed: the server has rolled back what was open on it.
   `left' says that it was put into a pool with a transaction of its session open. *)
Connection == [at : {"closed", "idle", "held"}, pool : {"primary", "replica"},
               alive : BOOLEAN, tx : Sessions \cup {"none"}, left : BOOLEAN]

(* The transaction a client has: the loop follows it, or it is loose, because its BEGIN
   came under the fast_forward option, by a fast_forward rule or behind a comment, or
   because ROLLBACK TO SAVEPOINT came since. *)
Modes == {"tx", "loose"}

TypeOK ==
  /\ fast \in BOOLEAN
  /\ sess \in [Sessions -> Session]
  /\ conn \in [Conns -> Connection]
  /\ client \in [Sessions -> {"none"} \cup Modes]
  /\ split \subseteq Modes

NewSession == [open |-> TRUE, in_tx |-> FALSE, tx |-> NoConn, stmt |-> NoConn, stmts |-> FALSE,
               hint |-> NoConn, hint_idx |-> "primary", hinted |-> FALSE, pinned |-> FALSE,
               start |-> "none", lastq |-> "none"]

Closed(c) == [at |-> "closed", pool |-> Pool(c), alive |-> TRUE, tx |-> "none", left |-> FALSE]

Init ==
  /\ fast \in BOOLEAN
  /\ sess = [s \in Sessions |-> [NewSession EXCEPT !.open = FALSE]]
  /\ conn = [c \in Conns |-> Closed(c)]
  /\ client = [s \in Sessions |-> "none"]
  /\ split = {}

-----------------------------------------------------------------------------
(* The pools.  A get takes an idle connection, opens one, or fails. *)

Get(target) ==
  LET idle == {c \in target : conn[c].at = "idle" /\ conn[c].pool = Pool(c)}
  IN  (IF idle # {} THEN idle ELSE {c \in target : conn[c].at = "closed"}) \cup {NoConn}

(* The connections a statement outside a transaction may get: a read goes to either. *)
Targets(k) == IF k \in Reads THEN Get(Replica) \cup Get(Primary) ELSE Get(Primary)

(* Put and drop a connection, in the connections cn; NoConn is None. *)
PutInto(cn, c, pool) ==
  IF c = NoConn THEN cn ELSE [cn EXCEPT ![c].at = "idle", ![c].pool = pool]
Put(cn, c) == PutInto(cn, c, "primary")
Drop(cn, c) == IF c = NoConn THEN cn ELSE [cn EXCEPT ![c] = Closed(c)]
Hold(cn, c) == [cn EXCEPT ![c].at = "held"]

(* The connections after statement k of s was sent on c and answered with res. *)
Execute(cn, s, k, c, res) ==
  [cn EXCEPT ![c] =
    [at |-> cn[c].at, pool |-> cn[c].pool,
     alive |-> res = "ok",
     tx |-> IF res # "ok" THEN "none"
            ELSE IF k \in Begins THEN s ELSE IF k \in Ends THEN "none" ELSE cn[c].tx,
     left |-> cn[c].left /\ res = "ok" /\ k \notin Begins \cup Ends]]

(* A transaction that its client has not ended goes back to the pool with c. *)
Leave(cn, s, c) ==
  IF c # NoConn /\ cn[c].alive /\ cn[c].tx = s THEN [cn EXCEPT ![c].left = TRUE] ELSE cn

(* What the client knows of its transaction after k was answered with res; mode is the
   path that ran k. *)
Told(s, k, res, mode) ==
  client' = [client EXCEPT ![s] =
    CASE res # "ok" -> "none"
      [] res = "ok" /\ k \in Begins -> mode
      [] res = "ok" /\ k \in Ends -> "none"
      [] res = "ok" /\ k = "savepoint" /\ @ = "tx" -> "loose"
      [] OTHER -> @]

(* Statement k of s, sent on c, is outside the transaction the client has open. *)
Observe(s, k, c) ==
  split' = IF client[s] # "none" /\ k \notin Begins /\ conn[c].alive /\ conn[c].tx # s
           THEN split \cup {client[s]} ELSE split

-----------------------------------------------------------------------------
(* The session's bookkeeping. *)

Pre_WithoutTx(s, k) ==
  [sess[s] EXCEPT !.start = IF k = "begin" THEN "young" ELSE @,
                  !.pinned = @ \/ k = "setvar"]

(* What the loop does before it routes k: a BEGIN it recognises opens the transaction, an assignment to
   a user variable pins the session. *)
Pre(s, k) ==
  [sess[s] EXCEPT !.in_tx = @ \/ k = "begin",
                  !.start = IF k = "begin" THEN "young" ELSE @,
                  !.pinned = @ \/ k = "setvar"]

(* A BEGIN that it does not recognise opens one it does not know of. *)
Mode(s, k) == IF k = "hbegin" /\ ~sess[s].in_tx THEN "loose" ELSE "tx"

Effective(r) == r.in_tx \/ r.pinned

IdleKilled(r) == r.start # "none" /\ r.lastq = "old"

(* Forget the transaction; lastq only where the code does. *)
NoTx(r) == [r EXCEPT !.in_tx = FALSE, !.start = "none", !.tx = NoConn]

(* After routing: the idle clock, and the cleanup of a transaction
   whose backend died or that COMMIT or ROLLBACK (TO SAVEPOINT too) has ended. *)
Post(r, k, res) ==
  LET timed == IF r.start # "none" THEN [r EXCEPT !.lastq = "young"] ELSE r
      died == res = "gone" /\ r.in_tx
      ended == k \in {"commit", "savepoint"}
  IN  IF died \/ ended THEN [NoTx(timed) EXCEPT !.lastq = "none"] ELSE timed

(* ... and the connections: a dead one is discarded, the sticky one of an ended
   transaction is put back. *)
PostConns(cn, s, r, c, k, res) ==
  CASE res = "gone" /\ r.in_tx -> Drop(cn, c)
    [] ~(res = "gone" /\ r.in_tx) /\ k \in {"commit", "savepoint"} -> Put(Leave(cn, s, c), c)
    [] OTHER -> cn

(* Everything the session holds is put back when its loop ends. *)
Disconnected(cn, s, r) ==
  PutInto(Put(Put(Leave(cn, s, r.tx), r.tx), r.stmt), r.hint, r.hint_idx)

(* The command is done: the loop goes on with r, or ends when res is the last error that
   client_error_limit allows in a row; how many came before is not modelled. *)
Done(s, r, cn, res) ==
  \/ /\ sess' = [sess EXCEPT ![s] = r]
     /\ conn' = cn
  \/ /\ res # "ok"
     /\ sess' = [sess EXCEPT ![s] = [NewSession EXCEPT !.open = FALSE]]
     /\ conn' = Disconnected(cn, s, r)

-----------------------------------------------------------------------------
(* The commands. *)

Connect(s) ==
  /\ ~sess[s].open
  /\ sess' = [sess EXCEPT ![s] = NewSession]
  /\ client' = [client EXCEPT ![s] = "none"]
  /\ UNCHANGED <<fast, conn, split>>

(* COM_QUIT, a closed socket, or a failed write to the client. *)
Disconnect(s) ==
  /\ sess[s].open
  /\ sess' = [sess EXCEPT ![s] = [NewSession EXCEPT !.open = FALSE]]
  /\ conn' = Disconnected(conn, s, sess[s])
  /\ client' = [client EXCEPT ![s] = "none"]
  /\ UNCHANGED <<fast, split>>

(* COM_RESET_CONNECTION. *)
ResetConnection(s) ==
  /\ sess[s].open
  /\ sess' = [sess EXCEPT ![s] = NewSession]
  /\ conn' = Disconnected(conn, s, sess[s])
  /\ client' = [client EXCEPT ![s] = "none"]
  /\ UNCHANGED <<fast, split>>

(* With fast_forward every query goes to the primary; BEGIN is routed with the flag as
   it was before. *)
FastQuery(s, k) ==
  /\ fast /\ sess[s].open
  /\ LET r == [sess[s] EXCEPT !.in_tx = (@ \/ k = "begin") /\ k \notin {"commit", "savepoint"}]
         ends == k \in {"commit", "savepoint"}
         sticky == sess[s].in_tx
     IN  \E c \in IF sticky /\ r.tx # NoConn THEN {r.tx} ELSE Get(Primary) :
           \/ /\ c = NoConn
              /\ sess' = [sess EXCEPT ![s] = r]
              /\ Told(s, k, "fail", "loose")
              /\ UNCHANGED <<fast, conn, split>>
           \/ /\ c # NoConn
              /\ \E res \in Answers(c) :
                   LET cn == Execute(Hold(conn, c), s, k, c, res)
                   IN  /\ sess' = [sess EXCEPT ![s] = [r EXCEPT !.tx = IF sticky /\ ~ends THEN c ELSE NoConn]]
                       /\ conn' = CASE sticky /\ ends -> Put(Leave(cn, s, c), c)
                                    [] sticky /\ ~ends -> cn
                                    [] ~sticky /\ res = "ok" -> Put(Leave(cn, s, c), c)
                                    [] ~sticky /\ res # "ok" -> Drop(cn, c)
                       /\ Told(s, k, res, "loose")
                       /\ Observe(s, k, c)
                       /\ UNCHANGED fast

(* A query rule with fast_forward, outside a transaction: any statement that matches,
   BEGIN too, on a connection of the pool, and the session takes no notice. *)
RuleFastQuery(s, k) ==
  /\ ~fast /\ sess[s].open /\ ~sess[s].in_tx
  /\ \E c \in Get(Primary) \ {NoConn} : \E res \in Answers(c) :
       LET cn == Execute(Hold(conn, c), s, k, c, res)
       IN  /\ conn' = IF res = "ok" THEN Put(Leave(cn, s, c), c) ELSE Drop(cn, c)
           /\ Told(s, k, res, "loose")
           /\ Observe(s, k, c)
  /\ UNCHANGED <<fast, sess>>

KillAged_ToPool(s, k) ==
  /\ ~fast /\ sess[s].open
  /\ LET r == Pre(s, k)
     IN  /\ r.start = "old"
         /\ sess' = [sess EXCEPT ![s] = NoTx(r)]
         /\ conn' = Put(conn, r.tx)
  /\ client' = [client EXCEPT ![s] = "none"]
  /\ UNCHANGED <<fast, split>>

(* max_transaction_time_ms: the transaction is older than allowed. *)
KillAged(s, k) ==
  /\ ~fast /\ sess[s].open
  /\ LET r == Pre(s, k)
     IN  /\ r.start = "old"
         /\ sess' = [sess EXCEPT ![s] = NoTx(r)]
         /\ conn' = Drop(conn, r.tx)
  /\ client' = [client EXCEPT ![s] = "none"]
  /\ UNCHANGED <<fast, split>>

(* max_transaction_idle_ms: no statement in the transaction for longer than allowed. *)
KillIdle(s, k) ==
  /\ ~fast /\ sess[s].open
  /\ LET r == Pre(s, k)
     IN  /\ r.start = "young" /\ IdleKilled(r)
         /\ sess' = [sess EXCEPT ![s] = [NoTx(r) EXCEPT !.lastq = "none"]]
         /\ conn' = Drop(conn, r.tx)
  /\ client' = [client EXCEPT ![s] = "none"]
  /\ UNCHANGED <<fast, split>>

(* No kill is due: the statement goes on to the filters and to the router. *)
Passes(s, k) ==
  /\ ~fast /\ sess[s].open
  /\ Pre(s, k).start # "old" /\ ~IdleKilled(Pre(s, k))

(* The proxy answers by itself: a write of a read-only user, SELECT VERSION(), a query
   the injection filter or the whitelist blocks.  What Pre did stays.  A COMMIT or BEGIN
   that is blocked is an error the client sees. *)
AnsweredByProxy(s, k) ==
  /\ Passes(s, k)
  /\ sess' = [sess EXCEPT ![s] = Pre(s, k)]
  /\ UNCHANGED <<fast, conn, client, split>>

ClearHint_Index(r) == [r EXCEPT !.hint = NoConn, !.hint_idx = NoConn, !.hinted = FALSE]

(* sticky_backend=0: the pinned replica connection goes back. *)
ClearHint(r) == [r EXCEPT !.hint = NoConn, !.hint_idx = "primary", !.hinted = FALSE]

(* The session and the connections with the hint of k applied. *)
Hinted(s, k) ==
  LET r == Pre(s, k)
  IN  IF k = "hint0" /\ r.hinted THEN ClearHint(r) ELSE [r EXCEPT !.hinted = @ \/ k = "hint1"]
HintedConns_ToPrimary(s, k) ==
  LET r == Pre(s, k)
  IN  IF k = "hint0" /\ r.hinted THEN Put(conn, r.hint) ELSE conn
HintedConns(s, k) ==
  LET r == Pre(s, k)
  IN  IF k = "hint0" /\ r.hinted THEN PutInto(conn, r.hint, r.hint_idx) ELSE conn

StickyRead(s, k) == Hinted(s, k).hinted /\ ~Effective(Hinted(s, k)) /\ k \in Reads

(* A read under the hint, on the pinned connection, which is taken from the replica's
   pool, or from the primary's when there is none, the first time.  A lost one is
   dropped with the hint and the read is routed as any other. *)
HintedQuery(s, k) ==
  /\ Passes(s, k) /\ StickyRead(s, k)
  /\ LET r == Hinted(s, k)
     IN  \E c \in IF r.hint # NoConn THEN {r.hint} ELSE Targets(k) :
           \/ /\ c = NoConn
              /\ sess' = [sess EXCEPT ![s] = r]
              /\ UNCHANGED <<conn, client, split>>
           \/ /\ c # NoConn
              /\ Observe(s, k, c)
              /\ \E res \in Answers(c) :
                   LET cn == Execute(Hold(conn, c), s, k, c, res)
                   IN  \/ /\ res = "ok"
                          /\ sess' = [sess EXCEPT ![s] =
                               [r EXCEPT !.hint = c,
                                         !.hint_idx = IF r.hint = NoConn THEN Pool(c) ELSE @]]
                          /\ conn' = cn
                          /\ UNCHANGED client
                       \/ /\ res # "ok"   \* then the normal route, on another connection
                          /\ \E e \in {"ok", "fail"} :
                               /\ Done(s, Post(ClearHint(r), k, e), Drop(cn, c), e)
                               /\ Told(s, k, e, "tx")
  /\ UNCHANGED fast

(* In a transaction, or pinned: the sticky connection, taken first when there is none. *)
StickyQuery(s, k) ==
  /\ Passes(s, k) /\ ~StickyRead(s, k) /\ Effective(Hinted(s, k))
  /\ LET r == Hinted(s, k)
     IN  \E c \in IF r.tx # NoConn THEN {r.tx} ELSE Get(Primary) :
           \/ /\ c = NoConn
              /\ Done(s, Post(r, k, "fail"), HintedConns(s, k), "fail")
              /\ Told(s, k, "fail", "tx")
              /\ UNCHANGED <<fast, split>>
           \/ /\ c # NoConn
              /\ \E res \in Answers(c) :
                   LET held == [r EXCEPT !.tx = c]
                       cn == Execute(Hold(HintedConns(s, k), c), s, k, c, res)
                   IN  /\ Done(s, Post(held, k, res), PostConns(cn, s, held, c, k, res), res)
                       /\ Told(s, k, res, Mode(s, k))
                       /\ Observe(s, k, c)
                       /\ UNCHANGED fast

(* Outside: a connection of the pool for this one statement.  A connection found dead is
   dropped and the statement retried once on another; RouteFails is the error of both. *)
PooledQuery(s, k) ==
  /\ Passes(s, k) /\ ~StickyRead(s, k) /\ ~Effective(Hinted(s, k))
  /\ LET r == Hinted(s, k)
     IN  \/ \E c \in Targets(k) \ {NoConn} :
              /\ conn[c].alive
              /\ Done(s, Post(r, k, "ok"),
                      PutInto(Leave(Execute(HintedConns(s, k), s, k, c, "ok"), s, c), c, Pool(c)),
                      "ok")
              /\ Observe(s, k, c)
              /\ Told(s, k, "ok", Mode(s, k))
         \/ \E c \in Targets(k) :
              /\ Done(s, Post(r, k, "fail"), Drop(HintedConns(s, k), c), "fail")
              /\ Told(s, k, "fail", "tx")
              /\ UNCHANGED split
  /\ UNCHANGED fast

(* COM_INIT_DB and other commands are passed to the primary (route_raw): in a transaction
   on the sticky connection, which is kept whatever comes of it, ... *)
StickyRaw(s) ==
  /\ sess[s].in_tx
  /\ \E c \in IF sess[s].tx # NoConn THEN {sess[s].tx} ELSE Get(Primary) \ {NoConn} :
     \E res \in Answers(c) :
       /\ sess' = [sess EXCEPT ![s].tx = c]
       /\ conn' = Execute(Hold(conn, c), s, "raw", c, res)
       /\ Told(s, "raw", res, "tx")
       /\ Observe(s, "raw", c)

(* ... outside on a pooled one, which goes back if it answered. *)
PooledRaw(s) ==
  /\ ~sess[s].in_tx
  /\ \E c \in Get(Primary) \ {NoConn} : \E res \in Answers(c) :
       LET cn == Execute(Hold(conn, c), s, "raw", c, res)
       IN  /\ conn' = IF res = "ok" THEN Put(cn, c) ELSE Drop(cn, c)
           /\ Told(s, "raw", res, "tx")
           /\ Observe(s, "raw", c)
  /\ UNCHANGED sess

RawCommand(s) ==
  /\ sess[s].open
  /\ StickyRaw(s) \/ PooledRaw(s)
  /\ UNCHANGED fast

(* COM_STMT_*: on the sticky connection of the transaction, or on the one kept for
   prepared statements; either is taken first when there is none. *)
StmtConns(s) ==
  LET slot == IF sess[s].in_tx THEN sess[s].tx ELSE sess[s].stmt
  IN  IF slot # NoConn THEN {slot} ELSE Get(Primary) \ {NoConn}

(* The session with the shadow's statements after k was answered. *)
Counted(s, k) == [sess[s] EXCEPT !.stmts = (@ \/ k = "prepare") /\ k # "close"]

StmtInTx(s, k, c, res) ==
  /\ sess[s].in_tx
  /\ LET r == IF res = "ok" THEN Counted(s, k) ELSE sess[s]
     IN  sess' = [sess EXCEPT ![s] = [r EXCEPT !.tx = c]]
  /\ conn' = Execute(Hold(conn, c), s, k, c, res)
  /\ Told(s, k, res, "tx")
  /\ Observe(s, k, c)

(* The session goes on with r and c as its connection for prepared statements, which goes
   back when no statement is left. *)
KeepStmtConn(s, r, c, cn) ==
  /\ sess' = [sess EXCEPT ![s] = [r EXCEPT !.stmt = IF r.stmts THEN c ELSE NoConn]]
  /\ conn' = IF r.stmts THEN cn ELSE Put(cn, c)

(* Outside: PREPARE and EXECUTE that find the connection lost are retried once on another,
   which replaces it; the lost one stays when there is none to be had, and for CLOSE. *)
StmtOutside(s, k, c, res) ==
  LET cn == Execute(Hold(conn, c), s, k, c, res)
  IN  /\ ~sess[s].in_tx
      /\ \/ /\ res = "ok"
            /\ KeepStmtConn(s, Counted(s, k), c, cn)
            /\ Told(s, k, "ok", "tx")
         \/ /\ res # "ok"
            /\ KeepStmtConn(s, sess[s], c, cn)
            /\ Told(s, k, "fail", "tx")
         \/ /\ res # "ok" /\ k # "close"
            /\ \E d \in Get(Primary) \ {NoConn, c} : \E again \in Answers(d) :
                 /\ KeepStmtConn(s, IF again = "ok" THEN Counted(s, k) ELSE sess[s], d,
                                 Execute(Hold(Drop(cn, c), d), s, k, d, again))
                 /\ Told(s, k, again, "tx")
      /\ UNCHANGED split

StmtCommand(s, k) ==
  /\ sess[s].open
  /\ \E c \in StmtConns(s) : \E res \in Answers(c) :
       StmtInTx(s, k, c, res) \/ StmtOutside(s, k, c, res)
  /\ UNCHANGED fast

-----------------------------------------------------------------------------
(* Time and the backend. *)

(* The transaction grows older than max_transaction_time_ms; its last statement grows
   older than max_transaction_idle_ms. *)
TimePasses(s) ==
  /\ sess[s].open
  /\ \/ /\ sess[s].start = "young"
        /\ sess' = [sess EXCEPT ![s].start = "old"]
     \/ /\ sess[s].lastq = "young"
        /\ sess' = [sess EXCEPT ![s].lastq = "old"]
  /\ UNCHANGED <<fast, conn, client, split>>

(* The server ends a connection: its transaction is rolled back. *)
ConnectionDies(c) ==
  /\ conn[c].at # "closed" /\ conn[c].alive
  /\ conn' = [conn EXCEPT ![c].alive = FALSE, ![c].tx = "none", ![c].left = FALSE]
  /\ UNCHANGED <<fast, sess, client, split>>

Query(s, k) ==
  \/ FastQuery(s, k)
  \/ RuleFastQuery(s, k)
  \/ KillAged(s, k)
  \/ KillIdle(s, k)
  \/ AnsweredByProxy(s, k)
  \/ HintedQuery(s, k)
  \/ StickyQuery(s, k)
  \/ PooledQuery(s, k)

Next ==
  \/ \E s \in Sessions :
       \/ Connect(s) \/ Disconnect(s)
       \/ "reset" \in Commands[s] /\ ResetConnection(s)
       \/ \E k \in Kinds \cap Commands[s] : Query(s, k)
       \/ "raw" \in Commands[s] /\ RawCommand(s)
       \/ \E k \in StmtKinds \cap Commands[s] : StmtCommand(s, k)
       \/ "slow" \in Commands[s] /\ TimePasses(s)
  \/ \E c \in Conns : ConnectionDies(c)

Spec == Init /\ [][Next]_vars

-----------------------------------------------------------------------------
(* No statement of a transaction that the client opened with a BEGIN the loop follows, and
   that it was not told has ended, runs outside that transaction, whatever kills, deaths,
   blocked, hinted, rule-forwarded or unrecognised statements come between, a further
   BEGIN and COMMIT behind comments too.  Not so for a transaction opened under the
   fast_forward option, by a fast_forward rule or behind a comment, nor after ROLLBACK TO
   SAVEPOINT: NoTxSplit, which those break. *)
TxAtomic == "tx" \notin split

(* A transaction open on a backend connection is on the sticky connection of its session,
   unless it was left behind when the connection went back: the client closed or reset its
   connection inside it (or met the error limit), rolled back to a savepoint, or opened it
   under the fast_forward option, by a fast_forward rule or behind a comment.  No other
   path puts a connection with an open transaction into the pool: not a kill, a lost
   backend, a hint taken back, a raw command or a closed prepared statement. *)
OpenTxIsHeld ==
  \A c \in Conns : conn[c].tx # "none" =>
    conn[c].left \/ sess[conn[c].tx].tx = c

(* A connection goes back to the pool of the backend it leads to, the one pinned by a
   sticky_backend hint too. *)
PutHome == \A c \in Conns : conn[c].at = "idle" => conn[c].pool = Pool(c)

(* An idle kill hits a transaction for the age of its own last statement: the BEGIN that
   opens a transaction is not killed. *)
IdleKillsAreDue ==
  [][\A s \in Sessions, k \in Kinds : KillIdle(s, k) => sess[s].start # "none"]_vars

(* After the client was told of an error on a dead sticky connection, the session does
   not keep it: the next BEGIN gets another. *)
DeadTxReleased ==
  \A s \in Sessions : client[s] = "none" /\ sess[s].in_tx /\ sess[s].tx # NoConn =>
    conn[sess[s].tx].alive

(* ... and no transaction is split in any other way: under the fast_forward option, by a
   fast_forward rule, behind a comment or after ROLLBACK TO SAVEPOINT. *)
NoTxSplit == split = {}
=============================================================================
