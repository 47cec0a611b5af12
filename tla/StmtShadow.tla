----------------------------- MODULE StmtShadow -----------------------------
(* Prepared statements of one MySQL client: MysqlStmtShadow (proxy/stmt_shadow.rs) and
   route_stmt_mysql_shadow (proxy/router.rs), called for every COM_STMT_* packet by the
   loop in proxy/server.rs.

   The client is given proxy ids; the shadow knows the id the backend gave for each.
   Backend ids mean something only on the connection that assigned them, and a session
   has up to two connections for statements: stmt_conn, and tx_conn in a transaction.
   The code does not record which of them an entry belongs to; `home` below is that
   missing record, an observation that no action reads. *)
EXTENDS Naturals, FiniteSets

CONSTANTS
  Conns,          \* backend connections that can exist at a time
  Texts,          \* statement texts
  NoConn,         \* None of Option<Box<dyn BackendConnection>>
  MaxId,          \* bound: ids the proxy assigns between two resets
  MaxBid          \* bound: ids one backend connection assigns

VARIABLES
  shadow,         \* MysqlStmtShadow.stmts, by proxy id
  next_id,        \* MysqlStmtShadow.next_id
  in_tx,          \* session.is_in_transaction()
  stmt_conn, tx_conn,
  conn,           \* backend connections: place, whether alive, the server's statements
  refused,        \* texts the server refuses to prepare
  out             \* observation: the last command and what the server ran for it

shadowVars == <<shadow, next_id, in_tx, stmt_conn, tx_conn, conn, refused, out>>

Ids == 1 .. MaxId
Bids == 1 .. MaxBid

ASSUME ShadowAssumption ==
  /\ MaxId \in Nat /\ MaxBid \in Nat /\ MaxId <= MaxBid
  /\ NoConn \notin Conns /\ "none" \notin Texts

NoStmt == [text |-> "none", bid |-> 0, home |-> NoConn]
NewConn == [at |-> "closed", alive |-> TRUE, next |-> 1, stmts |-> [b \in Bids |-> "none"]]
Nothing == [op |-> "none", id |-> 0, ran |-> "none", turn |-> FALSE]

ShadowInit ==
  /\ shadow = [p \in Ids |-> NoStmt] /\ next_id = 1
  /\ in_tx = FALSE /\ stmt_conn = NoConn /\ tx_conn = NoConn
  /\ conn = [c \in Conns |-> NewConn]
  /\ refused = {} /\ out = Nothing

Open(sh) == {p \in Ids : sh[p] # NoStmt}

-----------------------------------------------------------------------------
(* Connections.  With a lost one the server's statements are gone. *)

(* get_primary: an idle connection, else a new one; NoConn when it fails. *)
Get(cn) ==
  LET idle == {c \in Conns : cn[c].at = "idle"}
  IN  (IF idle # {} THEN idle ELSE {c \in Conns : cn[c].at = "closed"}) \cup {NoConn}

Hold(cn, c) == [cn EXCEPT ![c].at = "held"]
Put(cn, c) == IF c = NoConn THEN cn ELSE [cn EXCEPT ![c].at = "idle"]
Lose(cn, c) == [cn EXCEPT ![c] = [NewConn EXCEPT !.at = cn[c].at, !.alive = FALSE]]
Discard(cn, c) == IF c = NoConn THEN cn ELSE [cn EXCEPT ![c] = NewConn]

(* The connection a statement command is for, and those it may use. *)
Slot == IF in_tx THEN tx_conn ELSE stmt_conn
Active == IF Slot # NoConn THEN {Slot} ELSE Get(conn)

(* What a second get_primary gives, while the lost connection c is still held. *)
Another(c) == Get(Hold(conn, c))

(* The entries of connection c are no longer at home anywhere. *)
Forget(sh, c) == [p \in Ids |-> IF sh[p].home = c THEN [sh[p] EXCEPT !.home = NoConn] ELSE sh[p]]

(* The command is done on c.  Outside of transactions the connection is released with the
   last statement. *)
Done(sh, cn, c) ==
  /\ shadow' = sh
  /\ tx_conn' = IF in_tx THEN c ELSE tx_conn
  /\ stmt_conn' = IF in_tx THEN stmt_conn ELSE IF Open(sh) = {} THEN NoConn ELSE c
  /\ conn' = IF ~in_tx /\ Open(sh) = {} THEN Put(cn, c) ELSE cn
  /\ UNCHANGED <<in_tx, refused>>

Reply(op, p, ran) == out' = [op |-> op, id |-> p, ran |-> ran, turn |-> ~out.turn]
Quiet == Reply("none", 0, "none")

(* No connection: the error is passed on before anything is sent. *)
NoBackend(op, p) ==
  /\ NoConn \in Active
  /\ Done(shadow, conn, NoConn) /\ Reply(op, p, "error")
  /\ UNCHANGED next_id

-----------------------------------------------------------------------------
(* COM_STMT_PREPARE. *)

(* The server behind the live connection c answers; cn and sh are the connections and the
   shadow as they are then.  register: a new proxy id for the id that c assigns. *)
Prepared(t, sh, cn, c) ==
  \/ /\ t \in refused
     /\ Done(sh, cn, c) /\ Reply("prepare", 0, "error")
     /\ UNCHANGED next_id
  \/ /\ t \notin refused /\ next_id <= MaxId /\ cn[c].next <= MaxBid
     /\ LET b == cn[c].next
        IN  Done([sh EXCEPT ![next_id] = [text |-> t, bid |-> b, home |-> c]],
                 [cn EXCEPT ![c].next = b + 1, ![c].stmts[b] = t], c)
     /\ Reply("prepare", next_id, t)
     /\ next_id' = next_id + 1

PrepareWorks(t) ==
  \E c \in Active \ {NoConn} :
    /\ conn[c].alive
    /\ Prepared(t, shadow, Hold(conn, c), c)

(* The connection is lost.  In a transaction that is an error; outside, PREPARE alone is
   sent again on another connection, which replaces the lost one. *)
PrepareLost(t) ==
  \E c \in Active \ {NoConn} :
    /\ ~conn[c].alive
    /\ \/ /\ in_tx
          /\ Done(shadow, Hold(conn, c), c) /\ Reply("prepare", 0, "error")
          /\ UNCHANGED next_id
       \/ /\ ~in_tx
          /\ \E d \in Another(c) :
               \/ /\ d = NoConn
                  /\ Done(shadow, Hold(conn, c), c) /\ Reply("prepare", 0, "error")
                  /\ UNCHANGED next_id
               \/ /\ d # NoConn /\ ~conn[d].alive
                  /\ Done(Forget(shadow, c), Hold(Discard(conn, c), d), d)
                  /\ Reply("prepare", 0, "error")
                  /\ UNCHANGED next_id
               \/ /\ d # NoConn /\ conn[d].alive
                  /\ Prepared(t, Forget(shadow, c), Hold(Discard(conn, c), d), d)

-----------------------------------------------------------------------------
(* The commands that carry a statement id. *)

(* An id the shadow does not know is passed through. *)
BackendId(sh, p) == IF p \in Open(sh) THEN sh[p].bid ELSE p

(* What a live server does with statement b on c; a refused text may still run there. *)
Runs(cn, c, b) ==
  LET t == cn[c].stmts[b]
  IN  IF t = "none" THEN {"error"} ELSE {t} \cup (IF t \in refused THEN {"error"} ELSE {})

(* EXECUTE, RESET and FETCH on a live connection. *)
UseWorks(p, op) ==
  /\ \E c \in Active \ {NoConn} :
       /\ conn[c].alive
       /\ Done(shadow, Hold(conn, c), c)
       /\ \E ran \in Runs(conn, c, BackendId(shadow, p)) : Reply(op, p, ran)
  /\ UNCHANGED next_id

(* ... on a lost one, where the error is passed on. *)
UseFails(p, op) ==
  /\ \E c \in Active \ {NoConn} :
       /\ ~conn[c].alive /\ (in_tx \/ op # "execute" \/ NoConn \in Another(c))
       /\ Done(shadow, Hold(conn, c), c) /\ Reply(op, p, "error")
  /\ UNCHANGED next_id

(* SEND_LONG_DATA has no answer; written to a lost connection it may vanish. *)
SendData(p) ==
  /\ \E c \in Active \ {NoConn} :
       /\ Done(shadow, Hold(conn, c), c)
       /\ \/ /\ conn[c].alive
             /\ \E ran \in Runs(conn, c, BackendId(shadow, p)) :
                  Reply("data", p, IF ran = "error" THEN "none" ELSE ran)
          \/ ~conn[c].alive /\ \E ran \in {"none", "error"} : Reply("data", p, ran)
  /\ UNCHANGED next_id

(* CLOSE has none either: only when the write itself fails is the entry kept. *)
Close(p) ==
  /\ \E c \in Active \ {NoConn} :
       LET b == BackendId(shadow, p)
           sh == [shadow EXCEPT ![p] = NoStmt]
       IN  \/ /\ conn[c].alive
              /\ Done(sh, [Hold(conn, c) EXCEPT ![c].stmts[b] = "none"], c)
              /\ Reply("close", p, "none")
           \/ /\ ~conn[c].alive
              /\ Done(sh, Hold(conn, c), c) /\ Reply("close", p, "none")
           \/ /\ ~conn[c].alive
              /\ Done(shadow, Hold(conn, c), c) /\ Reply("close", p, "error")
  /\ UNCHANGED next_id

-----------------------------------------------------------------------------
(* EXECUTE on a lost connection, outside of transactions: every open statement is
   prepared again on another connection and the EXECUTE is retried there. *)

(* The orders in which reprepare_jobs, taken from a hash map, can be sent. *)
Orders == {f \in [Open(shadow) -> 1 .. Cardinality(Open(shadow))] :
             \A p, q \in Open(shadow) : f[p] = f[q] => p = q}

(* Of the jobs that are answered before d is lost, those the server accepts. *)
Accepted(ord, answered) == {p \in Open(shadow) : ord[p] <= answered /\ shadow[p].text \notin refused}

(* The id d assigns to p. *)
NewBid(d, ord, acc, p) == conn[d].next + Cardinality({q \in acc : ord[q] < ord[p]})

Updated_None(d, ord, acc) ==
  [p \in Ids |-> IF p \in acc THEN [shadow[p] EXCEPT !.home = d]
                 ELSE [shadow[p] EXCEPT !.home = NoConn]]

(* update_backend_ids: what was not prepared again keeps the id of the lost connection. *)
Updated(d, ord, acc) ==
  [p \in Ids |-> IF p \in acc THEN [shadow[p] EXCEPT !.bid = NewBid(d, ord, acc, p), !.home = d]
                 ELSE [shadow[p] EXCEPT !.home = NoConn]]

(* The connections, with the accepted statements on d in the lost connection's place. *)
Mended(c, d, ord, acc) ==
  [Hold(Discard(conn, c), d) EXCEPT
     ![d].next = @ + Cardinality(acc),
     ![d].stmts = [b \in Bids |-> IF \E p \in acc : NewBid(d, ord, acc, p) = b
                                  THEN shadow[CHOOSE p \in acc : NewBid(d, ord, acc, p) = b].text
                                  ELSE @[b]]]

RepairOn(p, c, d) ==
  /\ ~conn[c].alive
  /\ conn[d].next + Cardinality(Open(shadow)) <= MaxBid + 1
  /\ \E ord \in Orders, answered \in 0 .. Cardinality(Open(shadow)), alive \in {conn[d].alive, FALSE} :
       LET acc == Accepted(ord, answered)
           sh == Updated(d, ord, acc)
           cn == IF alive THEN Mended(c, d, ord, acc) ELSE Lose(Mended(c, d, ord, acc), d)
       IN  /\ IF conn[d].alive THEN alive => answered = Cardinality(Open(shadow))
                               ELSE answered = 0
           /\ Done(sh, cn, d)
           /\ \E ran \in IF alive THEN Runs(cn, d, BackendId(sh, p)) ELSE {"error"} :
                Reply("execute", p, ran)

ExecuteRepairs(p) ==
  /\ ~in_tx
  /\ \E c \in Active \ {NoConn} : \E d \in Another(c) \ {NoConn} : RepairOn(p, c, d)
  /\ UNCHANGED next_id

-----------------------------------------------------------------------------
(* The rest of the session: transactions, COM_RESET_CONNECTION. *)

(* BEGIN takes the sticky connection, or fails to and leaves the flag set. *)
Begin ==
  /\ ~in_tx /\ in_tx' = TRUE
  /\ \E c \in Get(conn) :
       /\ tx_conn' = c
       /\ conn' = IF c = NoConn THEN conn ELSE Hold(conn, c)
  /\ Quiet
  /\ UNCHANGED <<shadow, next_id, stmt_conn, refused>>

(* COMMIT, ROLLBACK put the connection back; a kill or a recognised loss drops it. *)
End ==
  /\ in_tx /\ in_tx' = FALSE
  /\ tx_conn' = NoConn
  /\ conn' \in {Put(conn, tx_conn), Discard(conn, tx_conn)}
  /\ shadow' = Forget(shadow, tx_conn)
  /\ Quiet
  /\ UNCHANGED <<next_id, stmt_conn, refused>>

(* COM_RESET_CONNECTION; a new client connection starts the same way. *)
ResetConnection ==
  /\ shadow' = [p \in Ids |-> NoStmt] /\ next_id' = 1
  /\ in_tx' = FALSE /\ stmt_conn' = NoConn /\ tx_conn' = NoConn
  /\ conn' = Put(Put(conn, stmt_conn), tx_conn)
  /\ Quiet
  /\ UNCHANGED refused

(* The server: a connection dies, a table is dropped. *)
ConnectionDies(c) ==
  /\ conn[c].at # "closed" /\ conn[c].alive
  /\ conn' = Lose(conn, c)
  /\ Quiet
  /\ UNCHANGED <<shadow, next_id, in_tx, stmt_conn, tx_conn, refused>>

DropTable(t) ==
  /\ refused' = refused \cup {t}
  /\ Quiet
  /\ UNCHANGED <<shadow, next_id, in_tx, stmt_conn, tx_conn, conn>>

ShadowNext ==
  \/ \E t \in Texts : PrepareWorks(t) \/ PrepareLost(t) \/ DropTable(t)
  \/ NoBackend("prepare", 0)
  \/ \E p \in Ids :
       \/ \E op \in {"execute", "fetch"} : UseWorks(p, op) \/ UseFails(p, op) \/ NoBackend(op, p)
       \/ SendData(p) \/ Close(p) \/ ExecuteRepairs(p)
       \/ \E op \in {"data", "close"} : NoBackend(op, p)
  \/ Begin \/ End \/ ResetConnection
  \/ \E c \in Conns : ConnectionDies(c)

ShadowSpec == ShadowInit /\ [][ShadowNext]_shadowVars

-----------------------------------------------------------------------------
(* The promise. *)

ScopeOf(p) ==
  CASE shadow[p] = NoStmt -> "none"
    [] shadow[p] # NoStmt /\ shadow[p].home = NoConn -> "loose"
    [] shadow[p].home # NoConn /\ shadow[p].home = stmt_conn -> "session"
    [] shadow[p].home # NoConn /\ shadow[p].home = tx_conn -> "tx"

View == [p \in Ids |-> [text |-> shadow[p].text, scope |-> ScopeOf(p)]]
Mode == IF in_tx THEN "tx" ELSE "session"
Broken == stmt_conn # NoConn /\ ~conn[stmt_conn].alive

Contract == INSTANCE StatementContract WITH view <- View, mode <- Mode, broken <- Broken

(* The shadow map implements the statement contract (route_stmt_mysql_shadow): an id is
   the client's until it closes it or resets, running it in the scope it was prepared in
   runs its own text or fails, also when the connection was lost and the statements were
   prepared again in any order, and nothing but a lost connection takes a statement out
   of its scope. *)
ImplementsContract == Contract!Spec

(* What the header of stmt_shadow.rs promises ("a stable *proxy-level* `stmt_id` that is
   remapped to the current backend's stmt_id"): whatever the scope, an open id never runs
   another's text. *)
RunsOwn ==
  out.op \in {"execute", "fetch"} /\ out.id \in Open(shadow)
    => out.ran \in {shadow[out.id].text, "error"}
=============================================================================
