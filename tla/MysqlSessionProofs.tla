------------------------- MODULE MysqlSessionProofs -------------------------
(***************************************************************************)
(* Proofs about MysqlSession, for any number of clients with any            *)
(* repertoire, and any number of connections to the primary and the replica. *)
(***************************************************************************)
EXTENDS MysqlSession, TLAPS

-----------------------------------------------------------------------------
(***************************************************************************)
(* The inductive invariant.  What makes the transactions safe is ownership:  *)
(* every connection in a variable of a command loop is held, and no other     *)
(* variable of any loop has it.  So what a loop does to its connections, and *)
(* to the ones it takes from the pools, is invisible to the others.          *)
(***************************************************************************)

(* The connections of a session record. *)
Slots(r) == {r.tx, r.stmt, r.hint} \ {NoConn}

(* A session has a connection in one variable only. *)
OneSlotEach(r) ==
  /\ r.tx # NoConn => r.tx # r.stmt /\ r.tx # r.hint
  /\ r.stmt # NoConn => r.stmt # r.hint

(* What holds of the local variables of one loop: the sticky connection is there only in a
   transaction or when pinned, nothing is pinned under fast_forward, the index beside the
   hinted connection is its backend's, and a loop that has ended has nothing. *)
SessionFit(r) ==
  /\ r \in Session
  /\ OneSlotEach(r)
  /\ r.tx # NoConn => Effective(r)
  /\ fast => ~r.pinned
  /\ r.hint # NoConn => r.hint_idx = Pool(r.hint)
  /\ ~r.open => Slots(r) = {} /\ ~r.in_tx

(* What holds of one connection: it is idle at home only, and a dead one has no transaction. *)
ConnectionFit(c, x) ==
  /\ x \in Connection
  /\ x.at = "idle" => x.pool = Pool(c)
  /\ ~x.alive => x.tx = "none"

Ownership ==
  /\ \A s \in Sessions : \A c \in Slots(sess[s]) : conn[c].at = "held"
  /\ \A s, t \in Sessions : s # t => Slots(sess[s]) \cap Slots(sess[t]) = {}

(* The transaction of a client that was told it has one is on the sticky connection of
   its session, unless that connection died and the client does not know yet. *)
ToldIsTrue ==
  \A s \in Sessions : client[s] = "tx" =>
    /\ ~fast /\ sess[s].in_tx /\ sess[s].tx # NoConn
    /\ conn[sess[s].tx].alive => conn[sess[s].tx].tx = s

IInv ==
  /\ TypeOK
  /\ \A s \in Sessions : SessionFit(sess[s])
  /\ \A c \in Conns : ConnectionFit(c, conn[c])
  /\ Ownership
  /\ OpenTxIsHeld
  /\ ToldIsTrue
  /\ TxAtomic

-----------------------------------------------------------------------------
(***************************************************************************)
(* One command.  Mine(s, c): c is in a variable of session s, or in no        *)
(* variable of any session.  Fits(s, r, cn): the loop of s may go on with     *)
(* the variables r and leave the connections cn.                            *)
(***************************************************************************)
Mine(s, c) == c \in Slots(sess[s]) \/ conn[c].at # "held"

Fits(s, r, cn) ==
  /\ SessionFit(r)
  /\ cn \in [Conns -> Connection]
  /\ \A c \in Conns : ConnectionFit(c, cn[c])
  /\ \A c \in Conns : ~Mine(s, c) => cn[c] = conn[c]
  /\ \A c \in Slots(r) : Mine(s, c) /\ cn[c].at = "held"
  /\ \A c \in Conns : Mine(s, c) /\ cn[c].tx # "none" =>
       cn[c].left \/ (cn[c].tx = s /\ r.tx = c)

(* The variables of a session hold connections. *)
LEMMA SlotsAreConns ==
  ASSUME NEW r \in Session
  PROVE  Slots(r) \subseteq Conns
  BY DEF Slots, Session, Conns

(* A command may leave everything as it is. *)
LEMMA FitsSelf ==
  ASSUME IInv, NEW s \in Sessions
  PROVE  Fits(s, sess[s], conn)
<1>1. /\ SessionFit(sess[s]) /\ conn \in [Conns -> Connection]
      /\ \A c \in Conns : ConnectionFit(c, conn[c])
      /\ \A c \in Slots(sess[s]) : Mine(s, c) /\ conn[c].at = "held"
  BY DEF IInv, TypeOK, Ownership, Mine
<1>2. ASSUME NEW c \in Conns, Mine(s, c), conn[c].tx # "none", ~conn[c].left
      PROVE  conn[c].tx = s /\ sess[s].tx = c
  <2> DEFINE t == conn[c].tx
  <2>1. t \in Sessions /\ sess[t].tx = c
    BY <1>1, <1>2 DEF IInv, OpenTxIsHeld, Connection
  <2>2. c \in Slots(sess[t])
    BY <2>1, ConnectionsAssumption DEF Slots, Conns
  <2>3. t = s
    BY <2>1, <2>2, <1>2 DEF Mine, IInv, Ownership
  <2>4. QED
    BY <2>1, <2>3
<1>3. QED
  BY <1>1, <1>2 DEF Fits

(* The loop goes on with other variables and one changed connection. *)
LEMMA FitsTouch ==
  ASSUME NEW s \in Sessions, NEW r, NEW cn, Fits(s, r, cn),
         NEW q, SessionFit(q), NEW c \in Conns, Mine(s, c),
         NEW cm \in [Conns -> Connection],
         \A d \in Conns : d # c => cm[d] = cn[d],
         ConnectionFit(c, cm[c]),
         Slots(q) \subseteq Slots(r) \cup {c},
         r.tx \in {q.tx, c, NoConn},
         c \in Slots(q) => cm[c].at = "held",
         cm[c].tx # "none" => cm[c].left \/ (cm[c].tx = s /\ q.tx = c)
  PROVE  Fits(s, q, cm)
<1>1. Slots(r) \subseteq Conns /\ Slots(q) \subseteq Conns
  BY SlotsAreConns DEF Fits, SessionFit
<1>2. \A d \in Conns : ConnectionFit(d, cm[d])
  BY DEF Fits
<1>3. \A d \in Conns : ~Mine(s, d) => cm[d] = conn[d]
  BY DEF Fits
<1>4. \A d \in Slots(q) : Mine(s, d) /\ cm[d].at = "held"
  BY <1>1 DEF Fits
<1>5. ASSUME NEW d \in Conns, Mine(s, d), cm[d].tx # "none"
      PROVE  cm[d].left \/ (cm[d].tx = s /\ q.tx = d)
  <2>1. CASE d = c
    BY <2>1, <1>5
  <2>2. CASE d # c
    <3>1. cn[d].left \/ (cn[d].tx = s /\ r.tx = d)
      BY <2>2, <1>5 DEF Fits
    <3>2. r.tx = d => q.tx = d
      BY <2>2, ConnectionsAssumption DEF Conns
    <3>3. QED
      BY <3>1, <3>2, <2>2
  <2>3. QED
    BY <2>1, <2>2
<1>6. QED
  BY <1>2, <1>3, <1>4, <1>5 DEF Fits

(* The loop goes on with other variables and the connections as they are. *)
LEMMA FitsRecord ==
  ASSUME NEW s \in Sessions, NEW r, NEW cn, Fits(s, r, cn),
         NEW q, SessionFit(q), Slots(q) \subseteq Slots(r), r.tx \in {q.tx, NoConn}
  PROVE  Fits(s, q, cn)
<1>1. ASSUME NEW d \in Conns, Mine(s, d), cn[d].tx # "none"
      PROVE  cn[d].left \/ (cn[d].tx = s /\ q.tx = d)
  <2>1. cn[d].left \/ (cn[d].tx = s /\ r.tx = d)
    BY <1>1 DEF Fits
  <2>2. QED
    BY <2>1, ConnectionsAssumption DEF Conns
<1>2. QED
  BY <1>1 DEF Fits

-----------------------------------------------------------------------------
(* What a command of s may do to all the variables. *)
Told_OK(s) ==
  /\ client' \in [Sessions -> {"none"} \cup Modes]
  /\ \A t \in Sessions : t # s => client'[t] = client[t]
  /\ client'[s] = "tx" =>
       /\ ~fast /\ sess'[s].in_tx /\ sess'[s].tx # NoConn
       /\ conn'[sess'[s].tx].alive => conn'[sess'[s].tx].tx = s

CommandOK(s) ==
  /\ fast' = fast
  /\ \E r : sess' = [sess EXCEPT ![s] = r] /\ Fits(s, r, conn')
  /\ Told_OK(s)
  /\ split' \subseteq {"loose"}

(* Such a command keeps the invariant: the other sessions do not notice it. *)
LEMMA CommandKeeps ==
  ASSUME IInv, NEW s \in Sessions, CommandOK(s)
  PROVE  IInv'
<1> PICK r : sess' = [sess EXCEPT ![s] = r] /\ Fits(s, r, conn')
  BY DEF CommandOK
<1>1. sess'[s] = r /\ \A t \in Sessions : t # s => sess'[t] = sess[t]
  BY DEF IInv, TypeOK
<1>2. r \in Session /\ Slots(r) \subseteq Conns
  BY SlotsAreConns DEF Fits, SessionFit
<1>3. TypeOK'
  BY <1>2 DEF IInv, TypeOK, CommandOK, Told_OK, Fits, Modes
<1>4. \A t \in Sessions : SessionFit(sess[t])'
  <2>1. SessionFit(r)
    BY DEF Fits
  <2>2. \A t \in Sessions : SessionFit(sess[t])
    BY DEF IInv
  <2>3. QED
    BY <1>1, <2>1, <2>2 DEF SessionFit, CommandOK
<1>5. \A c \in Conns : ConnectionFit(c, conn[c])'
  BY DEF Fits
<1>6. \A t \in Sessions : t # s => \A c \in Slots(sess[t]) : c \in Conns /\ ~Mine(s, c) /\ conn'[c] = conn[c]
  BY SlotsAreConns DEF IInv, TypeOK, Ownership, Mine, Fits
<1>7. Ownership'
  <2>1. \A t \in Sessions : \A c \in Slots(sess'[t]) : conn'[c].at = "held"
    BY <1>1, <1>6 DEF Fits, IInv, Ownership
  <2>2. ASSUME NEW t \in Sessions, NEW u \in Sessions, t # u
        PROVE  Slots(sess'[t]) \cap Slots(sess'[u]) = {}
    <3>1. CASE t # s /\ u # s
      BY <2>2, <3>1, <1>1 DEF IInv, Ownership
    <3>2. CASE t = s
      BY <2>2, <3>2, <1>1, <1>6 DEF Fits
    <3>3. CASE u = s
      BY <2>2, <3>3, <1>1, <1>6 DEF Fits
    <3>4. QED
      BY <3>1, <3>2, <3>3
  <2>3. QED
    BY <2>1, <2>2 DEF Ownership
<1>8. OpenTxIsHeld'
  <2> SUFFICES ASSUME NEW c \in Conns, conn'[c].tx # "none", ~conn'[c].left
               PROVE  sess'[conn'[c].tx].tx = c
    BY DEF OpenTxIsHeld
  <2>1. CASE Mine(s, c)
    BY <2>1, <1>1 DEF Fits
  <2>2. CASE ~Mine(s, c)
    <3> DEFINE t == conn[c].tx
    <3>1. conn'[c] = conn[c]
      BY <2>2 DEF Fits
    <3>2. t \in Sessions /\ sess[t].tx = c
      BY <3>1 DEF IInv, OpenTxIsHeld, TypeOK, Connection
    <3>3. c \in Slots(sess[t])
      BY <3>2, ConnectionsAssumption DEF Slots, Conns
    <3>4. t # s
      BY <3>3, <2>2 DEF Mine
    <3>5. QED
      BY <3>1, <3>2, <3>4, <1>1
  <2>3. QED
    BY <2>1, <2>2
<1>9. ToldIsTrue'
  <2> SUFFICES ASSUME NEW t \in Sessions, client'[t] = "tx"
               PROVE  /\ ~fast' /\ sess'[t].in_tx /\ sess'[t].tx # NoConn
                      /\ conn'[sess'[t].tx].alive => conn'[sess'[t].tx].tx = t
    BY DEF ToldIsTrue
  <2>1. CASE t = s
    BY <2>1 DEF CommandOK, Told_OK
  <2>2. CASE t # s
    <3>1. client[t] = "tx" /\ sess'[t] = sess[t]
      BY <2>2, <1>1 DEF CommandOK, Told_OK
    <3>2. /\ ~fast /\ sess[t].in_tx /\ sess[t].tx # NoConn
          /\ conn[sess[t].tx].alive => conn[sess[t].tx].tx = t
      BY <3>1 DEF IInv, ToldIsTrue
    <3>3. conn'[sess[t].tx] = conn[sess[t].tx]
      BY <3>2, <2>2, <1>6 DEF Slots
    <3>4. QED
      BY <3>1, <3>2, <3>3 DEF CommandOK
  <2>3. QED
    BY <2>1, <2>2
<1>10. TxAtomic'
  BY DEF TxAtomic, CommandOK
<1>11. QED
  BY <1>3, <1>4, <1>5, <1>7, <1>8, <1>9, <1>10 DEF IInv

-----------------------------------------------------------------------------
(* The operations on the connections, at the connection they are applied to. *)

(* A loop takes a connection: only where it is changes. *)
LEMMA HoldAt ==
  ASSUME NEW cn \in [Conns -> Connection], NEW c \in Conns
  PROVE  /\ Hold(cn, c) \in [Conns -> Connection]
         /\ \A d \in Conns : d # c => Hold(cn, c)[d] = cn[d]
         /\ Hold(cn, c)[c].at = "held" /\ Hold(cn, c)[c].pool = cn[c].pool
         /\ Hold(cn, c)[c].alive = cn[c].alive
         /\ Hold(cn, c)[c].tx = cn[c].tx /\ Hold(cn, c)[c].left = cn[c].left
  BY DEF Hold, Connection

(* A connection goes into a pool: it is idle there, and otherwise as it was. *)
LEMMA PutAt ==
  ASSUME NEW cn \in [Conns -> Connection], NEW c \in Conns, NEW p \in {"primary", "replica"}
  PROVE  /\ PutInto(cn, c, p) \in [Conns -> Connection]
         /\ \A d \in Conns : d # c => PutInto(cn, c, p)[d] = cn[d]
         /\ PutInto(cn, c, p)[c].at = "idle" /\ PutInto(cn, c, p)[c].pool = p
         /\ PutInto(cn, c, p)[c].alive = cn[c].alive
         /\ PutInto(cn, c, p)[c].tx = cn[c].tx /\ PutInto(cn, c, p)[c].left = cn[c].left
  BY ConnectionsAssumption DEF PutInto, Connection, Conns

(* A dropped connection is like one that was never opened. *)
LEMMA DropAt ==
  ASSUME NEW cn \in [Conns -> Connection], NEW c \in Conns
  PROVE  /\ Drop(cn, c) \in [Conns -> Connection]
         /\ \A d \in Conns : d # c => Drop(cn, c)[d] = cn[d]
         /\ Drop(cn, c)[c] = Closed(c)
  BY ConnectionsAssumption DEF Drop, Connection, Conns, Closed, Pool

(* A transaction that is left behind is marked, and nothing else changes. *)
LEMMA LeaveAt ==
  ASSUME NEW cn \in [Conns -> Connection], NEW c \in Conns, NEW s \in Sessions
  PROVE  /\ Leave(cn, s, c) \in [Conns -> Connection]
         /\ \A d \in Conns : d # c => Leave(cn, s, c)[d] = cn[d]
         /\ Leave(cn, s, c)[c].at = cn[c].at
         /\ Leave(cn, s, c)[c].pool = cn[c].pool
         /\ Leave(cn, s, c)[c].alive = cn[c].alive
         /\ Leave(cn, s, c)[c].tx = cn[c].tx
         /\ cn[c].left => Leave(cn, s, c)[c].left
         /\ cn[c].alive /\ cn[c].tx = s => Leave(cn, s, c)[c].left
  BY ConnectionsAssumption DEF Leave, Connection, Conns

(* The server runs a statement, or the connection is lost and the transaction with it. *)
LEMMA ExecuteAt ==
  ASSUME NEW cn \in [Conns -> Connection], NEW c \in Conns, NEW s \in Sessions, NEW k, NEW res
  PROVE  /\ Execute(cn, s, k, c, res) \in [Conns -> Connection]
         /\ \A d \in Conns : d # c => Execute(cn, s, k, c, res)[d] = cn[d]
         /\ Execute(cn, s, k, c, res)[c].at = cn[c].at
         /\ Execute(cn, s, k, c, res)[c].pool = cn[c].pool
         /\ Execute(cn, s, k, c, res)[c].alive <=> res = "ok"
         /\ res # "ok" => Execute(cn, s, k, c, res)[c].tx = "none"
         /\ res = "ok" /\ k \in Begins => Execute(cn, s, k, c, res)[c].tx = s
         /\ res = "ok" /\ k \in Ends => Execute(cn, s, k, c, res)[c].tx = "none"
         /\ res = "ok" /\ k \notin Begins \cup Ends =>
              /\ Execute(cn, s, k, c, res)[c].tx = cn[c].tx
              /\ cn[c].left => Execute(cn, s, k, c, res)[c].left
<1> DEFINE tx == IF res # "ok" THEN "none"
                 ELSE IF k \in Begins THEN s ELSE IF k \in Ends THEN "none" ELSE cn[c].tx
           alive == res = "ok"
           left == cn[c].left /\ res = "ok" /\ k \notin Begins \cup Ends
           x == [at |-> cn[c].at, pool |-> cn[c].pool, alive |-> alive, tx |-> tx, left |-> left]
<1>1. alive \in BOOLEAN /\ left \in BOOLEAN /\ tx \in Sessions \cup {"none"}
  BY DEF Connection
<1>2. Execute(cn, s, k, c, res) = [cn EXCEPT ![c] = x]
  BY DEF Execute
<1>3. x \in Connection
  BY <1>1 DEF Connection
<1> HIDE DEF x
<1>4. /\ Execute(cn, s, k, c, res) \in [Conns -> Connection]
      /\ \A d \in Conns : d # c => Execute(cn, s, k, c, res)[d] = cn[d]
      /\ Execute(cn, s, k, c, res)[c] = x
  BY <1>2, <1>3
<1>5. /\ x.at = cn[c].at /\ x.pool = cn[c].pool
      /\ x.tx = tx /\ x.alive = alive /\ x.left = left
  BY DEF x
<1>6. QED
  BY <1>4, <1>5 DEF Begins, Ends

-----------------------------------------------------------------------------
(* Giving connections back. *)

(* The sticky connection goes into the pool of the primary, its transaction left behind. *)
LEMMA PutBackTx ==
  ASSUME NEW s \in Sessions, NEW r, NEW cn, Fits(s, r, cn), r.tx # NoConn,
         NEW q, SessionFit(q), q.tx = NoConn, q.stmt = r.stmt, q.hint = r.hint
  PROVE  Fits(s, q, Put(Leave(cn, s, r.tx), r.tx))
<1> DEFINE c == r.tx
           lv == Leave(cn, s, c)
           cm == Put(lv, c)
<1>1. /\ c \in Primary /\ c \in Conns /\ Pool(c) = "primary" /\ c \in Slots(r)
      /\ cn \in [Conns -> Connection] /\ Mine(s, c) /\ ConnectionFit(c, cn[c])
      /\ OneSlotEach(r)
  BY DEF Fits, SessionFit, Session, Conns, Pool, Slots
<1>2. /\ lv \in [Conns -> Connection]
      /\ \A d \in Conns : d # c => lv[d] = cn[d]
      /\ lv[c].alive = cn[c].alive /\ lv[c].tx = cn[c].tx
      /\ cn[c].left => lv[c].left
      /\ cn[c].alive /\ cn[c].tx = s => lv[c].left
  BY <1>1, LeaveAt
<1>3. /\ cm \in [Conns -> Connection]
      /\ \A d \in Conns : d # c => cm[d] = lv[d]
      /\ cm[c].at = "idle" /\ cm[c].pool = "primary" /\ cm[c].alive = lv[c].alive
      /\ cm[c].tx = lv[c].tx /\ cm[c].left = lv[c].left
  BY <1>1, <1>2, PutAt DEF Put
<1>4. \A d \in Conns : d # c => cm[d] = cn[d]
  BY <1>2, <1>3
<1>5. ConnectionFit(c, cm[c])
  BY <1>1, <1>2, <1>3 DEF ConnectionFit
<1>6. cm[c].tx # "none" => cm[c].left
  BY <1>1, <1>2, <1>3 DEF Fits, ConnectionFit
<1>7. Slots(q) \subseteq Slots(r) /\ c \notin Slots(q)
  BY <1>1 DEF Slots, OneSlotEach
<1> HIDE DEF cm, lv
<1>8. Fits(s, q, cm)
  BY <1>1, <1>3, <1>4, <1>5, <1>6, <1>7, FitsTouch
<1>9. QED
  BY <1>8 DEF cm, lv

(* Another connection of the session, or one taken from a pool, goes into its pool. *)
LEMMA PutBackOther ==
  ASSUME NEW s \in Sessions, NEW r, NEW cn, Fits(s, r, cn),
         NEW c \in Conns, Mine(s, c), c # r.tx,
         NEW q, SessionFit(q), q.tx = r.tx, Slots(q) \subseteq Slots(r) \ {c}
  PROVE  Fits(s, q, PutInto(cn, c, Pool(c)))
<1> DEFINE cm == PutInto(cn, c, Pool(c))
<1>1. /\ Pool(c) \in {"primary", "replica"}
      /\ cn \in [Conns -> Connection] /\ ConnectionFit(c, cn[c])
  BY DEF Fits, Pool
<1>2. /\ cm \in [Conns -> Connection]
      /\ \A d \in Conns : d # c => cm[d] = cn[d]
      /\ cm[c].at = "idle" /\ cm[c].pool = Pool(c) /\ cm[c].alive = cn[c].alive
      /\ cm[c].tx = cn[c].tx /\ cm[c].left = cn[c].left
  BY <1>1, PutAt
<1> HIDE DEF cm
<1>3. ConnectionFit(c, cm[c])
  BY <1>1, <1>2 DEF ConnectionFit
<1>4. cm[c].tx # "none" => cm[c].left
  BY <1>2 DEF Fits
<1>5. Fits(s, q, cm)
  BY <1>2, <1>3, <1>4, FitsTouch
<1>6. QED
  BY <1>5 DEF cm

(* A closed connection fits. *)
LEMMA ClosedFit ==
  ASSUME NEW c \in Conns
  PROVE  /\ ConnectionFit(c, Closed(c)) /\ Closed(c) \in Connection
         /\ Closed(c).tx = "none" /\ Closed(c).at = "closed"
  BY DEF ConnectionFit, Closed, Connection, Pool

(* A connection of the session, or one taken from a pool, is closed. *)
LEMMA DropFits ==
  ASSUME NEW s \in Sessions, NEW r, NEW cn, Fits(s, r, cn),
         NEW c \in Conns, Mine(s, c),
         NEW q, SessionFit(q), r.tx \in {q.tx, c, NoConn}, Slots(q) \subseteq Slots(r) \ {c}
  PROVE  Fits(s, q, Drop(cn, c))
<1> DEFINE cm == Drop(cn, c)
<1>1. /\ cm \in [Conns -> Connection]
      /\ \A d \in Conns : d # c => cm[d] = cn[d]
      /\ cm[c] = Closed(c)
  BY DropAt DEF Fits
<1> HIDE DEF cm
<1>2. ConnectionFit(c, cm[c]) /\ cm[c].tx = "none"
  BY <1>1, ClosedFit
<1>3. Fits(s, q, cm)
  BY <1>1, <1>2, FitsTouch
<1>4. QED
  BY <1>3 DEF cm

(* The records that the operations leave. *)
LEMMA WithoutTx ==
  ASSUME NEW r, SessionFit(r)
  PROVE  /\ SessionFit([r EXCEPT !.tx = NoConn])
         /\ [r EXCEPT !.tx = NoConn].tx = NoConn
         /\ [r EXCEPT !.tx = NoConn].stmt = r.stmt
         /\ [r EXCEPT !.tx = NoConn].hint = r.hint
         /\ [r EXCEPT !.tx = NoConn].hint_idx = r.hint_idx
  BY DEF SessionFit, Session, OneSlotEach, Effective, Slots

(* A loop may give up its statement connection. *)
LEMMA WithoutStmt ==
  ASSUME NEW r, SessionFit(r)
  PROVE  /\ SessionFit([r EXCEPT !.stmt = NoConn])
         /\ [r EXCEPT !.stmt = NoConn].stmt = NoConn
         /\ [r EXCEPT !.stmt = NoConn].tx = r.tx
         /\ [r EXCEPT !.stmt = NoConn].hint = r.hint
         /\ [r EXCEPT !.stmt = NoConn].hint_idx = r.hint_idx
  BY DEF SessionFit, Session, OneSlotEach, Effective, Slots

(* A new session has no connection. *)
LEMMA NewFits ==
  /\ SessionFit(NewSession) /\ Slots(NewSession) = {} /\ NewSession.tx = NoConn
  /\ SessionFit([NewSession EXCEPT !.open = FALSE])
  /\ Slots([NewSession EXCEPT !.open = FALSE]) = {}
  /\ [NewSession EXCEPT !.open = FALSE].tx = NoConn
  BY DEF NewSession, SessionFit, Session, OneSlotEach, Effective, Slots

(* The end of the loop, and COM_RESET_CONNECTION. *)
LEMMA DisconnectedFits ==
  ASSUME NEW s \in Sessions, NEW r, NEW cn, Fits(s, r, cn),
         NEW r3, SessionFit(r3), Slots(r3) = {}, r3.tx = NoConn
  PROVE  Fits(s, r3, Disconnected(cn, s, r))
<1> DEFINE r1 == [r EXCEPT !.tx = NoConn]
           r2 == [r1 EXCEPT !.stmt = NoConn]
           c1 == Put(Leave(cn, s, r.tx), r.tx)
           c2 == Put(c1, r.stmt)
           c3 == PutInto(c2, r.hint, r.hint_idx)
<1>1. /\ SessionFit(r) /\ r.stmt \in Primary \cup {NoConn} /\ r.hint \in Conns \cup {NoConn}
  BY DEF Fits, SessionFit, Session
<1>2. /\ SessionFit(r1) /\ r1.tx = NoConn /\ r1.stmt = r.stmt /\ r1.hint = r.hint
      /\ r1.hint_idx = r.hint_idx
  BY <1>1, WithoutTx
<1>3. Fits(s, r1, c1)
  <2>1. CASE r.tx # NoConn
    BY <2>1, <1>2, PutBackTx
  <2>2. CASE r.tx = NoConn
    <3>1. c1 = cn
      BY <2>2 DEF Leave, Put, PutInto
    <3>2. Slots(r1) \subseteq Slots(r)
      BY <1>2 DEF Slots
    <3> HIDE DEF c1, r1
    <3>3. QED
      BY <3>1, <3>2, <1>2, <2>2, FitsRecord
  <2>3. QED
    BY <2>1, <2>2
<1> HIDE DEF r1, c1
<1>4. /\ SessionFit(r2) /\ r2.tx = NoConn /\ r2.stmt = NoConn /\ r2.hint = r.hint
      /\ r2.hint_idx = r.hint_idx
  BY <1>2, WithoutStmt
<1>5. Fits(s, r2, c2)
  <2>1. CASE r.stmt # NoConn
    <3>1. /\ r.stmt \in Conns /\ Pool(r.stmt) = "primary" /\ r.stmt \in Slots(r1)
      BY <1>1, <1>2, <2>1 DEF Pool, Conns, Slots
    <3>2. Mine(s, r.stmt)
      BY <3>1, <1>3 DEF Fits
    <3>3. OneSlotEach(r1)
      BY <1>2 DEF SessionFit
    <3>4. Slots(r2) \subseteq Slots(r1) \ {r.stmt}
      BY <1>2, <1>4, <2>1, <3>3 DEF Slots, OneSlotEach
    <3> HIDE DEF r2
    <3>5. Fits(s, r2, PutInto(c1, r.stmt, Pool(r.stmt)))
      BY <1>2, <1>3, <1>4, <2>1, <3>1, <3>2, <3>4, PutBackOther
    <3>6. QED
      BY <3>5, <3>1 DEF Put
  <2>2. CASE r.stmt = NoConn
    <3>1. c2 = c1
      BY <2>2 DEF Put, PutInto
    <3>2. Slots(r2) \subseteq Slots(r1)
      BY <1>2, <1>4 DEF Slots
    <3> HIDE DEF c2, r2
    <3>3. QED
      BY <3>1, <3>2, <1>2, <1>3, <1>4, FitsRecord
  <2>3. QED
    BY <2>1, <2>2
<1> HIDE DEF r2, c2
<1>7. Fits(s, r3, c3)
  <2>1. CASE r.hint # NoConn
    <3>1. /\ r.hint \in Conns /\ Pool(r.hint) = r.hint_idx /\ r.hint \in Slots(r2)
      BY <1>1, <1>4, <2>1 DEF Slots, SessionFit
    <3>2. Mine(s, r.hint)
      BY <3>1, <1>5 DEF Fits
    <3>3. Fits(s, r3, PutInto(c2, r.hint, Pool(r.hint)))
      BY <1>4, <1>5, <2>1, <3>1, <3>2, PutBackOther
    <3>4. QED
      BY <3>3, <3>1
  <2>2. CASE r.hint = NoConn
    <3>1. c3 = c2
      BY <2>2 DEF PutInto
    <3> HIDE DEF c3
    <3>2. QED
      BY <3>1, <1>4, <1>5, FitsRecord
  <2>3. QED
    BY <2>1, <2>2
<1>8. QED
  BY <1>7 DEF c3, c2, c1, Disconnected

-----------------------------------------------------------------------------
(* Statements. *)

(* A connection that was taken from the pool of the primary, or of the replica. *)
LEMMA GetIsMine ==
  ASSUME IInv, NEW s \in Sessions, NEW t \in SUBSET Conns, NEW c \in Get(t), c # NoConn
  PROVE  c \in t /\ c \in Conns /\ Mine(s, c) /\ c \notin Slots(sess[s])
<1>1. c \in t /\ c \in Conns /\ conn[c].at # "held"
  BY DEF Get
<1>2. QED
  BY <1>1 DEF Mine, IInv, Ownership

(* Statement k runs on c, which the session holds from then on or lets go of. *)
LEMMA RunFits ==
  ASSUME NEW s \in Sessions, NEW r, NEW cn, Fits(s, r, cn),
         NEW c \in Conns, Mine(s, c), NEW k, NEW res,
         NEW q, SessionFit(q), Slots(q) \subseteq Slots(r) \cup {c},
         r.tx \in {q.tx, NoConn},
         k \in Begins /\ res = "ok" => q.tx = c
  PROVE  Fits(s, q, Execute(Hold(cn, c), s, k, c, res))
<1> DEFINE h == Hold(cn, c)
           cm == Execute(h, s, k, c, res)
<1>1. /\ cn \in [Conns -> Connection] /\ ConnectionFit(c, cn[c])
      /\ cn[c].tx # "none" => cn[c].left \/ (cn[c].tx = s /\ r.tx = c)
  BY DEF Fits
<1>2. /\ h \in [Conns -> Connection]
      /\ \A d \in Conns : d # c => h[d] = cn[d]
      /\ h[c].at = "held" /\ h[c].tx = cn[c].tx /\ h[c].left = cn[c].left
  BY <1>1, HoldAt
<1> HIDE DEF h
<1>3. /\ cm \in [Conns -> Connection]
      /\ \A d \in Conns : d # c => cm[d] = h[d]
      /\ cm[c].at = h[c].at
      /\ cm[c].alive <=> res = "ok"
      /\ res # "ok" => cm[c].tx = "none"
      /\ res = "ok" /\ k \in Begins => cm[c].tx = s
      /\ res = "ok" /\ k \in Ends => cm[c].tx = "none"
      /\ res = "ok" /\ k \notin Begins \cup Ends =>
           cm[c].tx = h[c].tx /\ (h[c].left => cm[c].left)
  BY <1>2, ExecuteAt
<1> HIDE DEF cm
<1>4. ConnectionFit(c, cm[c])
  BY <1>2, <1>3 DEF ConnectionFit
<1>5. cm[c].tx # "none" => cm[c].left \/ (cm[c].tx = s /\ q.tx = c)
  BY <1>1, <1>2, <1>3, ConnectionsAssumption DEF Conns
<1>6. \A d \in Conns : d # c => cm[d] = cn[d]
  BY <1>2, <1>3
<1>7. Fits(s, q, cm)
  BY <1>2, <1>3, <1>4, <1>5, <1>6, FitsTouch
<1>8. QED
  BY <1>7 DEF cm, h

(* A transaction of the session is marked as left behind. *)
LEMMA LeaveFits ==
  ASSUME NEW s \in Sessions, NEW r, NEW cn, Fits(s, r, cn), NEW c \in Conns, Mine(s, c)
  PROVE  Fits(s, r, Leave(cn, s, c))
<1> DEFINE cm == Leave(cn, s, c)
<1>1. /\ cn \in [Conns -> Connection] /\ ConnectionFit(c, cn[c])
      /\ cn[c].tx # "none" => cn[c].left \/ (cn[c].tx = s /\ r.tx = c)
      /\ c \in Slots(r) => cn[c].at = "held"
      /\ SessionFit(r)
  BY DEF Fits
<1>2. /\ cm \in [Conns -> Connection]
      /\ \A d \in Conns : d # c => cm[d] = cn[d]
      /\ cm[c].at = cn[c].at /\ cm[c].pool = cn[c].pool
      /\ cm[c].alive = cn[c].alive /\ cm[c].tx = cn[c].tx
      /\ cn[c].left => cm[c].left
  BY <1>1, LeaveAt
<1> HIDE DEF cm
<1>3. ConnectionFit(c, cm[c])
  BY <1>1, <1>2 DEF ConnectionFit
<1>4. Fits(s, r, cm)
  BY <1>1, <1>2, <1>3, FitsTouch
<1>5. QED
  BY <1>4 DEF cm

(* A loop takes a connection of a pool for one statement. *)
LEMMA HoldFits ==
  ASSUME NEW s \in Sessions, NEW r, NEW cn, Fits(s, r, cn),
         NEW c \in Conns, Mine(s, c), c \notin Slots(r)
  PROVE  Fits(s, r, Hold(cn, c))
<1> DEFINE h == Hold(cn, c)
<1>1. /\ cn \in [Conns -> Connection] /\ ConnectionFit(c, cn[c])
      /\ cn[c].tx # "none" => cn[c].left \/ (cn[c].tx = s /\ r.tx = c)
      /\ SessionFit(r)
  BY DEF Fits
<1>2. /\ h \in [Conns -> Connection]
      /\ \A d \in Conns : d # c => h[d] = cn[d]
      /\ h[c].at = "held" /\ h[c].alive = cn[c].alive
      /\ h[c].tx = cn[c].tx /\ h[c].left = cn[c].left
  BY <1>1, HoldAt
<1> HIDE DEF h
<1>3. ConnectionFit(c, h[c])
  BY <1>1, <1>2 DEF ConnectionFit
<1>4. Fits(s, r, h)
  BY <1>1, <1>2, <1>3, FitsTouch
<1>5. QED
  BY <1>4 DEF h

(* Statement k runs on c, which the session does not keep, and c goes home: a transaction
   that k opened there is left behind. *)
LEMMA PooledFits ==
  ASSUME NEW s \in Sessions, NEW r, NEW cn, Fits(s, r, cn),
         NEW c \in Conns, Mine(s, c), c \notin Slots(r), NEW k
  PROVE  Fits(s, r, PutInto(Leave(Execute(cn, s, k, c, "ok"), s, c), c, Pool(c)))
<1> DEFINE e == Execute(cn, s, k, c, "ok")
           lv == Leave(e, s, c)
           cm == PutInto(lv, c, Pool(c))
<1>1. /\ cn \in [Conns -> Connection] /\ ConnectionFit(c, cn[c])
      /\ cn[c].tx # "none" => cn[c].left
      /\ SessionFit(r)
  BY ConnectionsAssumption DEF Fits, Slots, Conns
<1>2. e \in [Conns -> Connection]
  BY <1>1, ExecuteAt
<1>3. /\ \A d \in Conns : d # c => e[d] = cn[d]
      /\ e[c].alive
      /\ k \in Begins => e[c].tx = s
      /\ k \in Ends => e[c].tx = "none"
      /\ k \notin Begins \cup Ends => e[c].tx = cn[c].tx /\ (cn[c].left => e[c].left)
  BY <1>1, ExecuteAt
<1> HIDE DEF e
<1>4. /\ lv \in [Conns -> Connection]
      /\ \A d \in Conns : d # c => lv[d] = e[d]
      /\ lv[c].alive = e[c].alive /\ lv[c].tx = e[c].tx
      /\ e[c].left => lv[c].left
      /\ e[c].alive /\ e[c].tx = s => lv[c].left
  BY <1>2, LeaveAt
<1> HIDE DEF lv
<1>5. Pool(c) \in {"primary", "replica"}
  BY DEF Pool
<1>6. /\ cm \in [Conns -> Connection]
      /\ \A d \in Conns : d # c => cm[d] = lv[d]
      /\ cm[c].at = "idle" /\ cm[c].pool = Pool(c) /\ cm[c].alive = lv[c].alive
      /\ cm[c].tx = lv[c].tx /\ cm[c].left = lv[c].left
  BY <1>4, <1>5, PutAt
<1> HIDE DEF cm
<1>7. cm[c].tx # "none" => cm[c].left
  BY <1>1, <1>3, <1>4, <1>6
<1>8. ConnectionFit(c, cm[c])
  BY <1>3, <1>4, <1>6 DEF ConnectionFit
<1>9. \A d \in Conns : d # c => cm[d] = cn[d]
  BY <1>3, <1>4, <1>6
<1>10. Fits(s, r, cm)
  BY <1>1, <1>6, <1>7, <1>8, <1>9, FitsTouch
<1>11. QED
  BY <1>10 DEF cm, lv, e

-----------------------------------------------------------------------------
(* The session's bookkeeping. *)

(* What is noted before routing, BEGIN and the pin, gives and takes no connection. *)
LEMMA PreFit ==
  ASSUME IInv, ~fast, NEW s \in Sessions, sess[s].open, NEW k
  PROVE  /\ SessionFit(Pre(s, k)) /\ Slots(Pre(s, k)) = Slots(sess[s])
         /\ Pre(s, k).tx = sess[s].tx /\ Pre(s, k).stmt = sess[s].stmt
         /\ Pre(s, k).hint = sess[s].hint /\ Pre(s, k).hint_idx = sess[s].hint_idx
         /\ Pre(s, k).open
         /\ Pre(s, k).in_tx <=> (sess[s].in_tx \/ k = "begin")
         /\ Pre(s, k).pinned <=> (sess[s].pinned \/ k = "setvar")
<1> DEFINE r == sess[s]
<1>1. SessionFit(r)
  BY DEF IInv
<1>2. /\ Pre(s, k) \in Session
      /\ Pre(s, k).tx = r.tx /\ Pre(s, k).stmt = r.stmt
      /\ Pre(s, k).hint = r.hint /\ Pre(s, k).hint_idx = r.hint_idx
      /\ Pre(s, k).open
      /\ Pre(s, k).in_tx <=> (r.in_tx \/ k = "begin")
      /\ Pre(s, k).pinned <=> (r.pinned \/ k = "setvar")
  BY <1>1 DEF Pre, SessionFit, Session
<1>3. QED
  BY <1>1, <1>2 DEF SessionFit, OneSlotEach, Effective, Slots

(* A loop may give up its sticky connection with its transaction. *)
LEMMA NoTxFit ==
  ASSUME NEW r, SessionFit(r), r.open
  PROVE  /\ SessionFit(NoTx(r)) /\ NoTx(r).tx = NoConn /\ NoTx(r).stmt = r.stmt
         /\ NoTx(r).hint = r.hint /\ NoTx(r).open
         /\ SessionFit([NoTx(r) EXCEPT !.lastq = "none"])
         /\ [NoTx(r) EXCEPT !.lastq = "none"].tx = NoConn
         /\ [NoTx(r) EXCEPT !.lastq = "none"].stmt = r.stmt
         /\ [NoTx(r) EXCEPT !.lastq = "none"].hint = r.hint
<1>1. /\ NoTx(r) \in Session
      /\ NoTx(r).tx = NoConn /\ NoTx(r).stmt = r.stmt /\ NoTx(r).hint = r.hint
      /\ NoTx(r).hint_idx = r.hint_idx /\ NoTx(r).open /\ NoTx(r).pinned = r.pinned
  BY DEF NoTx, SessionFit, Session
<1> DEFINE q == [NoTx(r) EXCEPT !.lastq = "none"]
<1>2. /\ q \in Session
      /\ q.tx = NoConn /\ q.stmt = r.stmt /\ q.hint = r.hint
      /\ q.hint_idx = r.hint_idx /\ q.open /\ q.pinned = r.pinned
  BY <1>1 DEF Session
<1> HIDE DEF q
<1>3. SessionFit(q) /\ SessionFit(NoTx(r))
  BY <1>1, <1>2 DEF SessionFit, OneSlotEach, Slots
<1>4. QED
  BY <1>1, <1>2, <1>3 DEF q

(* The hint of a statement: sticky_backend=0 gives the pinned connection back. *)
LEMMA HintedFit ==
  ASSUME IInv, ~fast, NEW s \in Sessions, sess[s].open, NEW k
  PROVE  /\ Fits(s, Hinted(s, k), HintedConns(s, k)) /\ Hinted(s, k).open
         /\ Slots(Hinted(s, k)) \subseteq Slots(sess[s])
         /\ Hinted(s, k).tx = sess[s].tx
         /\ Hinted(s, k).in_tx <=> (sess[s].in_tx \/ k = "begin")
         /\ \A c \in Conns : c # sess[s].hint => HintedConns(s, k)[c] = conn[c]
         /\ k # "hint0" => HintedConns(s, k) = conn
         /\ StickyRead(s, k) => k # "hint0"
<1> DEFINE r == Pre(s, k)
           q == Hinted(s, k)
<1>1. /\ SessionFit(r) /\ r.open /\ r.tx = sess[s].tx /\ r.hint = sess[s].hint
      /\ Slots(r) = Slots(sess[s]) /\ (r.in_tx <=> (sess[s].in_tx \/ k = "begin"))
  BY PreFit
<1> HIDE DEF r
<1>2. Fits(s, r, conn)
  <2>1. Fits(s, sess[s], conn)
    BY FitsSelf
  <2>2. QED
    BY <1>1, <2>1, FitsRecord
<1>3. CASE k = "hint0" /\ r.hinted
  <2>1. q = ClearHint(r) /\ HintedConns(s, k) = PutInto(conn, r.hint, r.hint_idx)
    BY <1>3 DEF q, r, Hinted, HintedConns
  <2>2. /\ q \in Session /\ q.tx = r.tx /\ q.stmt = r.stmt /\ q.hint = NoConn /\ q.open
        /\ q.in_tx = r.in_tx /\ q.pinned = r.pinned /\ q.hinted = FALSE
    BY <2>1, <1>1 DEF ClearHint, SessionFit, Session
  <2> HIDE DEF q
  <2>3. SessionFit(q)
    BY <2>2, <1>1 DEF SessionFit, OneSlotEach, Effective, Slots
  <2>4. ~StickyRead(s, k)
    BY <2>2 DEF q, StickyRead
  <2>5. Slots(q) \subseteq Slots(r) \ {r.hint}
    BY <2>2, <1>1, ConnectionsAssumption DEF Slots, SessionFit, OneSlotEach, Session, Conns
  <2>6. CASE r.hint # NoConn
    <3>1. /\ r.hint \in Conns /\ r.hint_idx = Pool(r.hint) /\ r.hint \in Slots(r) /\ r.hint # r.tx
      BY <1>1, <2>6 DEF SessionFit, Session, Slots, OneSlotEach
    <3>2. Mine(s, r.hint)
      BY <3>1, <1>2 DEF Fits
    <3>3. Fits(s, q, PutInto(conn, r.hint, Pool(r.hint)))
      BY <1>2, <2>2, <2>3, <2>5, <3>1, <3>2, PutBackOther
    <3>4. Pool(r.hint) \in {"primary", "replica"}
      BY DEF Pool
    <3>5. \A c \in Conns : c # r.hint => PutInto(conn, r.hint, Pool(r.hint))[c] = conn[c]
      BY <3>1, <3>4, <1>2, PutAt DEF Fits
    <3>6. QED
      BY <3>1, <3>3, <3>5, <1>1, <1>3, <2>1, <2>2, <2>4, <2>5 DEF q
  <2>7. CASE r.hint = NoConn
    <3>1. HintedConns(s, k) = conn
      BY <2>1, <2>7 DEF PutInto
    <3>2. Fits(s, q, conn)
      BY <1>2, <2>2, <2>3, <2>5, FitsRecord
    <3>3. QED
      BY <3>1, <3>2, <1>1, <1>3, <2>2, <2>4, <2>5 DEF q
  <2>8. QED
    BY <2>6, <2>7
<1>4. CASE ~(k = "hint0" /\ r.hinted)
  <2>1. q = [r EXCEPT !.hinted = r.hinted \/ k = "hint1"] /\ HintedConns(s, k) = conn
    BY <1>4 DEF q, r, Hinted, HintedConns
  <2>2. /\ q \in Session /\ q.tx = r.tx /\ q.stmt = r.stmt /\ q.hint = r.hint /\ q.open
        /\ q.hint_idx = r.hint_idx
        /\ q.in_tx = r.in_tx /\ q.pinned = r.pinned /\ (q.hinted <=> (r.hinted \/ k = "hint1"))
    BY <2>1, <1>1 DEF SessionFit, Session
  <2> HIDE DEF q
  <2>3. SessionFit(q) /\ Slots(q) = Slots(r)
    BY <2>2, <1>1 DEF SessionFit, OneSlotEach, Effective, Slots
  <2>4. StickyRead(s, k) => k # "hint0"
    BY <2>2, <1>4 DEF q, StickyRead
  <2>5. Fits(s, q, conn)
    BY <1>2, <2>2, <2>3, FitsRecord
  <2>6. QED
    BY <1>1, <2>1, <2>2, <2>3, <2>4, <2>5 DEF q
<1>5. QED
  BY <1>3, <1>4

(* The end of a statement of the normal path. *)
LEMMA PostRecord ==
  ASSUME NEW r, SessionFit(r), r.open, NEW k, NEW res
  PROVE  /\ SessionFit(Post(r, k, res)) /\ Post(r, k, res).open
         /\ Post(r, k, res).stmt = r.stmt /\ Post(r, k, res).hint = r.hint
         /\ (res = "gone" /\ r.in_tx) \/ k \in {"commit", "savepoint"} =>
              Post(r, k, res).tx = NoConn
         /\ ~((res = "gone" /\ r.in_tx) \/ k \in {"commit", "savepoint"}) =>
              Post(r, k, res).tx = r.tx /\ Post(r, k, res).in_tx = r.in_tx
<1> DEFINE timed == IF r.start # "none" THEN [r EXCEPT !.lastq = "young"] ELSE r
<1>1. /\ timed \in Session /\ timed.tx = r.tx /\ timed.stmt = r.stmt /\ timed.hint = r.hint
      /\ timed.hint_idx = r.hint_idx /\ timed.open /\ timed.in_tx = r.in_tx
      /\ timed.pinned = r.pinned
  BY DEF SessionFit, Session
<1> HIDE DEF timed
<1>2. SessionFit(timed)
  BY <1>1 DEF SessionFit, OneSlotEach, Effective, Slots
<1>3. CASE (res = "gone" /\ r.in_tx) \/ k \in {"commit", "savepoint"}
  <2>1. Post(r, k, res) = [NoTx(timed) EXCEPT !.lastq = "none"]
    BY <1>3 DEF Post, timed
  <2>2. [NoTx(timed) EXCEPT !.lastq = "none"].open
    BY <1>1, <1>2 DEF NoTx, SessionFit, Session
  <2>3. QED
    BY <1>1, <1>2, <1>3, <2>1, <2>2, NoTxFit
<1>4. CASE ~((res = "gone" /\ r.in_tx) \/ k \in {"commit", "savepoint"})
  <2>1. Post(r, k, res) = timed
    BY <1>4 DEF Post, timed
  <2>2. QED
    BY <1>1, <1>2, <1>4, <2>1
<1>5. QED
  BY <1>3, <1>4

(* What follows a statement on the sticky connection: COMMIT, ROLLBACK and an error that
   says the connection is gone give it up. *)
LEMMA PostFits ==
  ASSUME NEW s \in Sessions, NEW r, NEW cn, Fits(s, r, cn), r.open, r.tx # NoConn,
         NEW k, NEW res
  PROVE  Fits(s, Post(r, k, res), PostConns(cn, s, r, r.tx, k, res))
<1> DEFINE q == Post(r, k, res)
           c == r.tx
<1>1. /\ SessionFit(r) /\ c \in Conns /\ c \in Slots(r) /\ Mine(s, c)
  BY DEF Fits, SessionFit, Session, Slots, Conns
<1>2. /\ SessionFit(q) /\ q.stmt = r.stmt /\ q.hint = r.hint
      /\ (res = "gone" /\ r.in_tx) \/ k \in {"commit", "savepoint"} => q.tx = NoConn
      /\ ~((res = "gone" /\ r.in_tx) \/ k \in {"commit", "savepoint"}) => q.tx = r.tx
  BY <1>1, PostRecord
<1> HIDE DEF q
<1>3. CASE res = "gone" /\ r.in_tx
  <2>1. Slots(q) \subseteq Slots(r) \ {c}
    BY <1>1, <1>2, <1>3 DEF Slots, SessionFit, OneSlotEach
  <2>2. Fits(s, q, Drop(cn, c))
    BY <1>1, <1>2, <2>1, DropFits
  <2>3. QED
    BY <1>3, <2>2 DEF PostConns, q
<1>4. CASE ~(res = "gone" /\ r.in_tx) /\ k \in {"commit", "savepoint"}
  <2>1. Fits(s, q, Put(Leave(cn, s, c), c))
    BY <1>2, <1>4, PutBackTx
  <2>2. QED
    BY <1>4, <2>1 DEF PostConns, q
<1>5. CASE ~(res = "gone" /\ r.in_tx) /\ k \notin {"commit", "savepoint"}
  <2>1. Slots(q) = Slots(r)
    BY <1>2, <1>5 DEF Slots
  <2>2. Fits(s, q, cn)
    BY <1>2, <1>5, <2>1, FitsRecord
  <2>3. QED
    BY <1>5, <2>2 DEF PostConns, q
<1>6. QED
  BY <1>3, <1>4, <1>5

(* The loop goes on or ends. *)
LEMMA DoneFits ==
  ASSUME NEW s \in Sessions, NEW r, NEW cn, Fits(s, r, cn), NEW res, Done(s, r, cn, res)
  PROVE  \E q : sess' = [sess EXCEPT ![s] = q] /\ Fits(s, q, conn') /\ (res = "ok" => q = r /\ conn' = cn)
<1>1. CASE sess' = [sess EXCEPT ![s] = r] /\ conn' = cn
  BY <1>1
<1>2. CASE /\ res # "ok" /\ sess' = [sess EXCEPT ![s] = [NewSession EXCEPT !.open = FALSE]]
           /\ conn' = Disconnected(cn, s, r)
  <2> DEFINE q == [NewSession EXCEPT !.open = FALSE]
  <2>1. Fits(s, q, Disconnected(cn, s, r))
    BY DisconnectedFits, NewFits
  <2> HIDE DEF q
  <2>2. sess' = [sess EXCEPT ![s] = q] /\ Fits(s, q, conn') /\ res # "ok"
    BY <1>2, <2>1 DEF q
  <2>3. QED
    BY <2>2
<1>3. QED
  BY <1>1, <1>2 DEF Done

(* What the client is told, and what is seen of a split. *)
LEMMA ToldIs ==
  ASSUME IInv, NEW s \in Sessions, NEW k, NEW res, NEW mode \in Modes,
         Told(s, k, res, mode)
  PROVE  /\ client' \in [Sessions -> {"none"} \cup Modes]
         /\ \A t \in Sessions : t # s => client'[t] = client[t]
         /\ client'[s] = "tx" =>
              /\ res = "ok"
              /\ \/ k \in Begins /\ mode = "tx"
                 \/ client[s] = "tx" /\ k \notin Begins \cup Ends \cup {"savepoint"}
  BY DEF IInv, TypeOK, Told, Modes

(* A statement that runs in its client's transaction, or on a dead connection, splits nothing. *)
LEMMA ObserveIs ==
  ASSUME IInv, NEW s \in Sessions, NEW k, NEW c, Observe(s, k, c),
         client[s] = "tx" => k \in Begins \/ ~conn[c].alive \/ conn[c].tx = s
  PROVE  split' \subseteq {"loose"}
<1>1. split \subseteq {"loose"} /\ client[s] \in {"none", "tx", "loose"}
  BY DEF IInv, TypeOK, TxAtomic, Modes
<1>2. QED
  BY <1>1 DEF Observe

-----------------------------------------------------------------------------
(* The commands. *)

(* A command that leaves the client without a transaction and observes nothing. *)
LEMMA QuietOK ==
  ASSUME IInv, NEW s \in Sessions, NEW r, sess' = [sess EXCEPT ![s] = r], Fits(s, r, conn'),
         client' = [client EXCEPT ![s] = "none"], UNCHANGED <<fast, split>>
  PROVE  CommandOK(s)
<1>1. split' \subseteq {"loose"}
  BY DEF IInv, TypeOK, TxAtomic, Modes
<1>2. Told_OK(s)
  BY DEF Told_OK, IInv, TypeOK
<1>3. QED
  BY <1>1, <1>2 DEF CommandOK

(* Connecting, leaving and COM_RESET_CONNECTION. *)
LEMMA EndsOK ==
  ASSUME IInv, NEW s \in Sessions, Connect(s) \/ Disconnect(s) \/ ResetConnection(s)
  PROVE  CommandOK(s)
<1> DEFINE off == [NewSession EXCEPT !.open = FALSE]
           on == NewSession
<1>1. Fits(s, sess[s], conn) /\ SessionFit(sess[s])
  BY FitsSelf DEF IInv
<1>2. /\ SessionFit(on) /\ Slots(on) = {} /\ on.tx = NoConn
      /\ SessionFit(off) /\ Slots(off) = {} /\ off.tx = NoConn
  BY NewFits
<1> HIDE DEF off, on
<1>3. Fits(s, off, Disconnected(conn, s, sess[s])) /\ Fits(s, on, Disconnected(conn, s, sess[s]))
  BY <1>1, <1>2, DisconnectedFits
<1>5. CASE Connect(s)
  <2>1. sess[s].tx = NoConn
    BY <1>1, <1>5 DEF Connect, SessionFit, Slots
  <2>2. Fits(s, on, conn)
    BY <1>1, <1>2, <2>1, FitsRecord
  <2>3. sess' = [sess EXCEPT ![s] = on] /\ conn' = conn
    BY <1>5 DEF Connect, on
  <2>4. QED
    BY <2>2, <2>3, <1>5, QuietOK DEF Connect
<1>6. CASE Disconnect(s)
  <2>1. sess' = [sess EXCEPT ![s] = off] /\ conn' = Disconnected(conn, s, sess[s])
    BY <1>6 DEF Disconnect, off
  <2>2. QED
    BY <2>1, <1>3, <1>6, QuietOK DEF Disconnect
<1>7. CASE ResetConnection(s)
  <2>1. sess' = [sess EXCEPT ![s] = on] /\ conn' = Disconnected(conn, s, sess[s])
    BY <1>7 DEF ResetConnection, on
  <2>2. QED
    BY <2>1, <1>3, <1>7, QuietOK DEF ResetConnection
<1>8. QED
  BY <1>5, <1>6, <1>7

(* The kills: the sticky connection is dropped with the transaction. *)
LEMMA KillFits ==
  ASSUME IInv, ~fast, NEW s \in Sessions, sess[s].open, NEW k,
         NEW q, SessionFit(q), q.tx = NoConn, q.stmt = Pre(s, k).stmt, q.hint = Pre(s, k).hint
  PROVE  Fits(s, q, Drop(conn, Pre(s, k).tx))
<1> DEFINE r == Pre(s, k)
<1>1. SessionFit(r) /\ Slots(r) = Slots(sess[s]) /\ r.tx = sess[s].tx
  BY PreFit
<1> HIDE DEF r
<1>2. Fits(s, r, conn)
  <2>1. Fits(s, sess[s], conn)
    BY FitsSelf
  <2>2. QED
    BY <1>1, <2>1, FitsRecord
<1>3. Slots(q) \subseteq Slots(r) \ {r.tx} /\ (r.tx # NoConn => r.tx \in Slots(r) /\ r.tx \in Conns)
  BY <1>1 DEF r, Slots, SessionFit, OneSlotEach, Session, Conns
<1>4. CASE r.tx # NoConn
  <2>1. Mine(s, r.tx) /\ r.tx \in Conns
    BY <1>2, <1>3, <1>4 DEF Fits
  <2>2. Fits(s, q, Drop(conn, r.tx))
    BY <1>2, <1>3, <2>1, DropFits
  <2>3. QED
    BY <2>2 DEF r
<1>5. CASE r.tx = NoConn
  <2>1. Drop(conn, r.tx) = conn
    BY <1>5 DEF Drop
  <2>2. Fits(s, q, conn)
    BY <1>2, <1>3, <1>5, FitsRecord
  <2>3. QED
    BY <2>1, <2>2 DEF r
<1>6. QED
  BY <1>4, <1>5

(* A command that finds its transaction too old, or idle for too long. *)
LEMMA KillsOK ==
  ASSUME IInv, NEW s \in Sessions, NEW k, KillAged(s, k) \/ KillIdle(s, k)
  PROVE  CommandOK(s)
<1> DEFINE r == Pre(s, k)
           q == NoTx(r)
           p == [NoTx(r) EXCEPT !.lastq = "none"]
<1>1. ~fast /\ sess[s].open
  BY DEF KillAged, KillIdle
<1>2. SessionFit(r) /\ r.open
  BY <1>1, PreFit
<1> HIDE DEF r
<1>3. /\ SessionFit(q) /\ q.tx = NoConn /\ q.stmt = r.stmt /\ q.hint = r.hint
      /\ SessionFit(p) /\ p.tx = NoConn /\ p.stmt = r.stmt /\ p.hint = r.hint
  BY <1>2, NoTxFit
<1> HIDE DEF q, p
<1>4. Fits(s, q, Drop(conn, r.tx)) /\ Fits(s, p, Drop(conn, r.tx))
  BY <1>1, <1>3, KillFits DEF r
<1>5. CASE KillAged(s, k)
  <2>1. sess' = [sess EXCEPT ![s] = q] /\ conn' = Drop(conn, r.tx)
    BY <1>5 DEF KillAged, q, r
  <2>2. QED
    BY <1>4, <1>5, <2>1, QuietOK DEF KillAged
<1>6. CASE KillIdle(s, k)
  <2>1. sess' = [sess EXCEPT ![s] = p] /\ conn' = Drop(conn, r.tx)
    BY <1>6 DEF KillIdle, p, r
  <2>2. QED
    BY <1>4, <1>6, <2>1, QuietOK DEF KillIdle
<1>7. QED
  BY <1>5, <1>6

(* The proxy answers by itself, and time passes. *)
LEMMA SessionOnlyOK ==
  ASSUME IInv, NEW s \in Sessions, NEW r, SessionFit(r),
         r.tx = sess[s].tx, r.stmt = sess[s].stmt, r.hint = sess[s].hint,
         sess[s].in_tx => r.in_tx,
         sess' = [sess EXCEPT ![s] = r], UNCHANGED <<fast, conn, client, split>>
  PROVE  CommandOK(s)
<1>1. Fits(s, sess[s], conn)
  BY FitsSelf
<1>2. Fits(s, r, conn)
  BY <1>1, FitsRecord DEF Slots
<1>3. Fits(s, r, conn')
  BY <1>2
<1>4. split' \subseteq {"loose"}
  BY DEF IInv, TypeOK, TxAtomic, Modes
<1>5. sess'[s] = r
  BY DEF IInv, TypeOK
<1>6. Told_OK(s)
  BY <1>5 DEF Told_OK, IInv, TypeOK, ToldIsTrue
<1>7. QED
  BY <1>3, <1>4, <1>6 DEF CommandOK

(* A statement that the proxy answers itself. *)
LEMMA AnsweredOK ==
  ASSUME IInv, NEW s \in Sessions, NEW k, AnsweredByProxy(s, k)
  PROVE  CommandOK(s)
<1>1. ~fast /\ sess[s].open /\ sess' = [sess EXCEPT ![s] = Pre(s, k)]
      /\ UNCHANGED <<fast, conn, client, split>>
  BY DEF AnsweredByProxy, Passes
<1>2. /\ SessionFit(Pre(s, k)) /\ Pre(s, k).tx = sess[s].tx /\ Pre(s, k).stmt = sess[s].stmt
      /\ Pre(s, k).hint = sess[s].hint /\ (Pre(s, k).in_tx <=> (sess[s].in_tx \/ k = "begin"))
  BY <1>1, PreFit
<1>3. QED
  BY <1>1, <1>2, SessionOnlyOK

(* The time of a pin passes. *)
LEMMA TimeOK ==
  ASSUME IInv, NEW s \in Sessions, TimePasses(s)
  PROVE  CommandOK(s)
<1>1. SessionFit(sess[s]) /\ sess[s].open
  BY DEF IInv, TimePasses
<1>2. CASE sess' = [sess EXCEPT ![s].start = "old"]
  <2> DEFINE r == [sess[s] EXCEPT !.start = "old"]
  <2>1. /\ r \in Session /\ r.tx = sess[s].tx /\ r.stmt = sess[s].stmt /\ r.hint = sess[s].hint
        /\ r.hint_idx = sess[s].hint_idx /\ r.in_tx = sess[s].in_tx /\ r.pinned = sess[s].pinned
        /\ r.open
    BY <1>1 DEF SessionFit, Session
  <2>2. sess' = [sess EXCEPT ![s] = r]
    BY <1>2
  <2> HIDE DEF r
  <2>3. SessionFit(r)
    BY <1>1, <2>1 DEF SessionFit, OneSlotEach, Effective, Slots
  <2>4. QED
    BY <2>1, <2>2, <2>3, SessionOnlyOK DEF TimePasses
<1>3. CASE sess' = [sess EXCEPT ![s].lastq = "old"]
  <2> DEFINE r == [sess[s] EXCEPT !.lastq = "old"]
  <2>1. /\ r \in Session /\ r.tx = sess[s].tx /\ r.stmt = sess[s].stmt /\ r.hint = sess[s].hint
        /\ r.hint_idx = sess[s].hint_idx /\ r.in_tx = sess[s].in_tx /\ r.pinned = sess[s].pinned
        /\ r.open
    BY <1>1 DEF SessionFit, Session
  <2>2. sess' = [sess EXCEPT ![s] = r]
    BY <1>3
  <2> HIDE DEF r
  <2>3. SessionFit(r)
    BY <1>1, <2>1 DEF SessionFit, OneSlotEach, Effective, Slots
  <2>4. QED
    BY <2>1, <2>2, <2>3, SessionOnlyOK DEF TimePasses
<1>4. QED
  BY <1>2, <1>3 DEF TimePasses

-----------------------------------------------------------------------------
(* The sticky connection, or one taken to become it. *)
LEMMA StickyIsMine ==
  ASSUME IInv, NEW s \in Sessions, NEW c, c # NoConn,
         c = sess[s].tx \/ (sess[s].tx = NoConn /\ c \in Get(Primary))
  PROVE  /\ c \in Primary /\ c \in Conns /\ Pool(c) = "primary" /\ Mine(s, c)
         /\ c # sess[s].stmt /\ c # sess[s].hint /\ sess[s].tx \in {c, NoConn}
<1>1. SessionFit(sess[s])
  BY DEF IInv
<1>2. CASE c = sess[s].tx
  BY <1>1, <1>2 DEF SessionFit, Session, OneSlotEach, Conns, Pool, Mine, Slots
<1>3. CASE sess[s].tx = NoConn /\ c \in Get(Primary)
  <2>1. Primary \in SUBSET Conns
    BY DEF Conns
  <2>2. c \in Primary /\ c \in Conns /\ Mine(s, c) /\ c \notin Slots(sess[s])
    BY <1>3, <2>1, GetIsMine
  <2>3. QED
    BY <1>3, <2>2 DEF Pool, Slots
<1>4. QED
  BY <1>2, <1>3

(* A loop in a transaction takes a sticky connection. *)
LEMMA WithTx ==
  ASSUME NEW r, SessionFit(r), r.open, Effective(r), NEW c \in Primary, c # r.stmt, c # r.hint
  PROVE  /\ SessionFit([r EXCEPT !.tx = c]) /\ [r EXCEPT !.tx = c].tx = c
         /\ [r EXCEPT !.tx = c].stmt = r.stmt /\ [r EXCEPT !.tx = c].hint = r.hint
         /\ [r EXCEPT !.tx = c].open /\ [r EXCEPT !.tx = c].in_tx = r.in_tx
<1> DEFINE q == [r EXCEPT !.tx = c]
<1>1. /\ q \in Session /\ q.tx = c /\ q.stmt = r.stmt /\ q.hint = r.hint /\ q.open
      /\ q.hint_idx = r.hint_idx /\ q.in_tx = r.in_tx /\ q.pinned = r.pinned
  BY DEF SessionFit, Session
<1> HIDE DEF q
<1>2. SessionFit(q)
  BY <1>1 DEF SessionFit, OneSlotEach, Effective, Slots
<1>3. QED
  BY <1>1, <1>2 DEF q

(* A statement was answered. *)
LEMMA StatementOK ==
  ASSUME IInv, NEW s \in Sessions, NEW r, sess' = [sess EXCEPT ![s] = r], Fits(s, r, conn'),
         NEW k, NEW res, NEW mode \in Modes, Told(s, k, res, mode),
         fast' = fast, split' \subseteq {"loose"},
         \/ res # "ok"
         \/ client[s] # "tx" /\ (mode = "loose" \/ k \notin Begins)
         \/ k \in Ends \cup {"savepoint"}
         \/ /\ ~fast /\ r.in_tx /\ r.tx # NoConn
            /\ k \in Begins \/ client[s] = "tx" =>
                 (conn'[r.tx].alive => conn'[r.tx].tx = s)
  PROVE  CommandOK(s)
<1>1. sess'[s] = r
  BY DEF IInv, TypeOK
<1>3. /\ client' \in [Sessions -> {"none"} \cup Modes]
      /\ \A t \in Sessions : t # s => client'[t] = client[t]
      /\ client'[s] = "tx" =>
           /\ res = "ok"
           /\ \/ k \in Begins /\ mode = "tx"
              \/ client[s] = "tx" /\ k \notin Begins \cup Ends \cup {"savepoint"}
  BY ToldIs
<1>4. client'[s] = "tx" => /\ ~fast /\ r.in_tx /\ r.tx # NoConn
                           /\ conn'[r.tx].alive => conn'[r.tx].tx = s
  BY <1>3 DEF Begins, Ends
<1>5. QED
  BY <1>1, <1>3, <1>4 DEF CommandOK, Told_OK

(* A statement failed, or has nothing to do with a transaction. *)
LEMMA FailedOK ==
  ASSUME IInv, NEW s \in Sessions, NEW r, sess' = [sess EXCEPT ![s] = r], Fits(s, r, conn'),
         NEW k, NEW res, res # "ok", NEW mode \in Modes, Told(s, k, res, mode),
         fast' = fast, split' \subseteq {"loose"}
  PROVE  CommandOK(s)
<1>1. /\ client' \in [Sessions -> {"none"} \cup Modes]
      /\ \A t \in Sessions : t # s => client'[t] = client[t]
      /\ client'[s] # "tx"
  BY ToldIs
<1>2. QED
  BY <1>1 DEF CommandOK, Told_OK

(* A statement of a session that its client does not believe in a transaction. *)
LEMMA OutsideOK ==
  ASSUME IInv, NEW s \in Sessions, NEW r, sess' = [sess EXCEPT ![s] = r], Fits(s, r, conn'),
         NEW k, client[s] # "tx", NEW res, NEW mode \in Modes, Told(s, k, res, mode),
         mode = "loose" \/ k \notin Begins,
         fast' = fast, split' \subseteq {"loose"}
  PROVE  CommandOK(s)
  BY StatementOK

(* A step that sends nothing observes nothing. *)
LEMMA SplitSame ==
  ASSUME IInv, split' = split
  PROVE  split' \subseteq {"loose"}
  BY DEF IInv, TypeOK, TxAtomic, Modes

(* A statement under fast_forward. *)
LEMMA FastOK ==
  ASSUME IInv, NEW s \in Sessions, NEW k, FastQuery(s, k)
  PROVE  CommandOK(s)
<1> DEFINE o == sess[s]
           ends == k \in {"commit", "savepoint"}
           r == [o EXCEPT !.in_tx = (o.in_tx \/ k = "begin") /\ k \notin {"commit", "savepoint"}]
<1>1. fast /\ o.open /\ SessionFit(o) /\ client[s] # "tx" /\ Fits(s, o, conn)
  BY FitsSelf DEF FastQuery, IInv, ToldIsTrue
<1>2. o.tx # NoConn => o.in_tx
  BY <1>1 DEF SessionFit, Effective
<1>3. /\ r \in Session /\ r.tx = o.tx /\ r.stmt = o.stmt /\ r.hint = o.hint /\ r.open
      /\ r.hint_idx = o.hint_idx /\ r.pinned = o.pinned
      /\ r.in_tx <=> ((o.in_tx \/ k = "begin") /\ ~ends)
  BY <1>1 DEF SessionFit, Session
<1>4. PICK c \in IF o.in_tx /\ r.tx # NoConn THEN {r.tx} ELSE Get(Primary) :
           \/ /\ c = NoConn
              /\ sess' = [sess EXCEPT ![s] = r]
              /\ Told(s, k, "fail", "loose")
              /\ UNCHANGED <<fast, conn, split>>
           \/ /\ c # NoConn
              /\ \E res \in Answers(c) :
                   LET cn == Execute(Hold(conn, c), s, k, c, res)
                   IN  /\ sess' = [sess EXCEPT ![s] =
                                    [r EXCEPT !.tx = IF o.in_tx /\ ~ends THEN c ELSE NoConn]]
                       /\ conn' = CASE o.in_tx /\ ends -> Put(Leave(cn, s, c), c)
                                    [] o.in_tx /\ ~ends -> cn
                                    [] ~o.in_tx /\ res = "ok" -> Put(Leave(cn, s, c), c)
                                    [] ~o.in_tx /\ res # "ok" -> Drop(cn, c)
                       /\ Told(s, k, res, "loose")
                       /\ Observe(s, k, c)
                       /\ UNCHANGED fast
  BY DEF FastQuery
<1>5. c = o.tx \/ (o.tx = NoConn /\ c \in Get(Primary))
  BY <1>2, <1>3, <1>4
<1> HIDE DEF r
<1>6. CASE c = NoConn
  <2>1. o.tx = NoConn
    BY <1>5, <1>6
  <2>2. SessionFit(r) /\ Slots(r) = Slots(o)
    BY <1>1, <1>3, <2>1 DEF SessionFit, OneSlotEach, Slots
  <2>3. Fits(s, r, conn)
    BY <1>1, <1>3, <2>2, FitsRecord
  <2>4. /\ sess' = [sess EXCEPT ![s] = r] /\ Told(s, k, "fail", "loose")
        /\ conn' = conn /\ fast' = fast /\ split' = split
    BY <1>4, <1>6
  <2>5. split' \subseteq {"loose"}
    BY <2>4, SplitSame
  <2>6. Fits(s, r, conn')
    BY <2>3, <2>4
  <2>7. QED
    BY <1>1, <2>4, <2>5, <2>6, StatementOK DEF Modes
<1>7. CASE c # NoConn
  <2> PICK res \in Answers(c) :
        LET cn == Execute(Hold(conn, c), s, k, c, res)
        IN  /\ sess' = [sess EXCEPT ![s] =
                         [r EXCEPT !.tx = IF o.in_tx /\ ~ends THEN c ELSE NoConn]]
            /\ conn' = CASE o.in_tx /\ ends -> Put(Leave(cn, s, c), c)
                         [] o.in_tx /\ ~ends -> cn
                         [] ~o.in_tx /\ res = "ok" -> Put(Leave(cn, s, c), c)
                         [] ~o.in_tx /\ res # "ok" -> Drop(cn, c)
            /\ Told(s, k, res, "loose")
            /\ Observe(s, k, c)
            /\ UNCHANGED fast
    BY <1>4, <1>7
  <2> DEFINE cn == Execute(Hold(conn, c), s, k, c, res)
             q == [r EXCEPT !.tx = IF o.in_tx /\ ~ends THEN c ELSE NoConn]
  <2>1. /\ c \in Primary /\ c \in Conns /\ Pool(c) = "primary" /\ Mine(s, c)
        /\ c # o.stmt /\ c # o.hint /\ o.tx \in {c, NoConn}
    BY <1>5, <1>7, StickyIsMine
  <2>2. /\ q \in Session /\ q.stmt = o.stmt /\ q.hint = o.hint /\ q.open
        /\ q.hint_idx = o.hint_idx /\ q.pinned = o.pinned /\ q.in_tx = r.in_tx
        /\ q.tx = IF o.in_tx /\ ~ends THEN c ELSE NoConn
    BY <1>3, <2>1 DEF Session
  <2>3. sess' = [sess EXCEPT ![s] = q] /\ Told(s, k, res, "loose") /\ fast' = fast
    OBVIOUS
  <2>4. conn' = CASE o.in_tx /\ ends -> Put(Leave(cn, s, c), c)
                  [] o.in_tx /\ ~ends -> cn
                  [] ~o.in_tx /\ res = "ok" -> Put(Leave(cn, s, c), c)
                  [] ~o.in_tx /\ res # "ok" -> Drop(cn, c)
    OBVIOUS
  <2> HIDE DEF q, cn, o
  <2>5. SessionFit(q) /\ Slots(q) \subseteq Slots(o) \cup {c}
    BY <1>1, <1>3, <2>1, <2>2 DEF SessionFit, OneSlotEach, Effective, Slots
  <2>6. split' \subseteq {"loose"}
    BY <1>1, ObserveIs
  <2>7. Fits(s, q, conn')
    <3>1. CASE o.in_tx /\ ~ends
      <4>1. Fits(s, q, cn)
        BY <1>1, <2>1, <2>2, <2>5, <3>1, RunFits DEF cn
      <4>2. QED
        BY <3>1, <4>1, <2>4
    <3>2. CASE o.in_tx /\ ends
      <4> DEFINE g == [o EXCEPT !.tx = c]
      <4>1. Effective(o)
        BY <3>2 DEF Effective
      <4>2. SessionFit(g) /\ g.tx = c /\ g.stmt = o.stmt /\ g.hint = o.hint
        BY <1>1, <2>1, <4>1, WithTx
      <4> HIDE DEF g
      <4>3. Slots(g) \subseteq Slots(o) \cup {c}
        BY <4>2 DEF Slots
      <4>4. Fits(s, g, cn)
        BY <1>1, <2>1, <4>2, <4>3, RunFits DEF cn
      <4>5. q.tx = NoConn /\ g.tx # NoConn
        BY <2>2, <3>2, <4>2, <1>7
      <4>6. Fits(s, q, Put(Leave(cn, s, c), c))
        BY <2>2, <2>5, <4>2, <4>4, <4>5, PutBackTx
      <4>7. QED
        BY <2>4, <3>2, <4>6
    <3>3. CASE ~o.in_tx
      <4>1. o.tx = NoConn /\ q.tx = NoConn /\ Slots(q) \subseteq Slots(o) /\ c \notin Slots(q)
        BY <1>2, <2>1, <2>2, <3>3 DEF Slots
      <4>2. Fits(s, q, conn)
        BY <1>1, <2>5, <4>1, FitsRecord
      <4>3. CASE res = "ok"
        <5>1. Fits(s, q, Hold(conn, c))
          BY <2>1, <4>1, <4>2, HoldFits
        <5>2. Fits(s, q, PutInto(Leave(Execute(Hold(conn, c), s, k, c, "ok"), s, c), c, Pool(c)))
          BY <2>1, <4>1, <5>1, PooledFits
        <5>3. conn' = Put(Leave(cn, s, c), c)
          BY <2>4, <3>3, <4>3
        <5>4. QED
          BY <5>2, <5>3, <4>3, <2>1 DEF Put, cn
      <4>4. CASE res # "ok"
        <5>1. Slots(q) \subseteq Slots(q) \ {c}
          BY <4>1
        <5>2. Fits(s, q, cn)
          BY <2>1, <2>5, <4>2, <4>4, RunFits DEF cn
        <5>3. Fits(s, q, Drop(cn, c))
          BY <4>1, <5>2, <5>1, <2>1, <2>5, DropFits
        <5>4. QED
          BY <5>3, <2>4, <3>3, <4>4
      <4>5. QED
        BY <4>3, <4>4
    <3>4. QED
      BY <3>1, <3>2, <3>3
  <2>8. QED
    BY <1>1, <2>3, <2>6, <2>7, StatementOK DEF Modes
<1>8. QED
  BY <1>6, <1>7

(* A statement on a connection of the primary's pool, which goes back or is dropped. *)
LEMMA PooledRunFits ==
  ASSUME IInv, NEW s \in Sessions, NEW c \in Get(Primary), c # NoConn, NEW k, NEW res,
         NEW cn, cn = Execute(Hold(conn, c), s, k, c, res)
  PROVE  /\ res = "ok" => Fits(s, sess[s], Put(Leave(cn, s, c), c))
         /\ k \notin Begins => Fits(s, sess[s], Put(cn, c))
         /\ res # "ok" => Fits(s, sess[s], Drop(cn, c))
<1> DEFINE r == sess[s]
<1>1. Primary \in SUBSET Conns
  BY DEF Conns
<1>2. c \in Primary /\ c \in Conns /\ Mine(s, c) /\ c \notin Slots(r) /\ Pool(c) = "primary"
  BY <1>1, GetIsMine DEF Pool
<1>3. Fits(s, r, conn) /\ SessionFit(r)
  BY FitsSelf DEF IInv
<1> HIDE DEF r
<1>4. k \notin Begins \/ res # "ok" => Fits(s, r, cn)
  BY <1>2, <1>3, RunFits
<1>5. Slots(r) \subseteq Slots(r) \ {c} /\ c # r.tx
  BY <1>2 DEF Slots
<1>6. Fits(s, r, cn) => Fits(s, r, PutInto(cn, c, Pool(c))) /\ Fits(s, r, Drop(cn, c))
  BY <1>2, <1>3, <1>5, PutBackOther, DropFits
<1>7. Fits(s, r, Hold(conn, c))
  BY <1>2, <1>3, HoldFits
<1>8. res = "ok" => Fits(s, r, PutInto(Leave(cn, s, c), c, Pool(c)))
  BY <1>2, <1>7, PooledFits
<1>9. QED
  BY <1>2, <1>4, <1>6, <1>8 DEF Put, r

(* A statement that a rule sends straight to a backend. *)
LEMMA RuleFastOK ==
  ASSUME IInv, NEW s \in Sessions, NEW k, RuleFastQuery(s, k)
  PROVE  CommandOK(s)
<1>1. ~fast /\ ~sess[s].in_tx /\ UNCHANGED <<fast, sess>> /\ client[s] # "tx"
  BY DEF RuleFastQuery, IInv, ToldIsTrue
<1>2. PICK c \in Get(Primary) \ {NoConn} : \E res \in Answers(c) :
        LET cn == Execute(Hold(conn, c), s, k, c, res)
        IN  /\ conn' = IF res = "ok" THEN Put(Leave(cn, s, c), c) ELSE Drop(cn, c)
            /\ Told(s, k, res, "loose")
            /\ Observe(s, k, c)
  BY DEF RuleFastQuery
<1>3. PICK res \in Answers(c) :
        LET cn == Execute(Hold(conn, c), s, k, c, res)
        IN  /\ conn' = IF res = "ok" THEN Put(Leave(cn, s, c), c) ELSE Drop(cn, c)
            /\ Told(s, k, res, "loose")
            /\ Observe(s, k, c)
  BY <1>2
<1> DEFINE cn == Execute(Hold(conn, c), s, k, c, res)
<1>4. Fits(s, sess[s], IF res = "ok" THEN Put(Leave(cn, s, c), c) ELSE Drop(cn, c))
  BY <1>1, PooledRunFits
<1>5. Fits(s, sess[s], conn')
  BY <1>3, <1>4
<1>6. sess' = [sess EXCEPT ![s] = sess[s]]
  BY <1>1 DEF IInv, TypeOK
<1>7. split' \subseteq {"loose"}
  BY <1>1, <1>3, ObserveIs
<1>8. Told(s, k, res, "loose")
  BY <1>3
<1>9. QED
  BY <1>1, <1>5, <1>6, <1>7, <1>8, OutsideOK DEF Modes

(* What a statement leaves of the transaction on the sticky connection. *)
LEMMA RanOnTx ==
  ASSUME NEW cn \in [Conns -> Connection], NEW c \in Conns, NEW s \in Sessions, NEW k,
         NEW res, k \notin Ends, k \in Begins \/ (res = "ok" => cn[c].tx = s)
  PROVE  Execute(Hold(cn, c), s, k, c, res)[c].alive =>
           Execute(Hold(cn, c), s, k, c, res)[c].tx = s
<1> DEFINE h == Hold(cn, c)
<1>1. h \in [Conns -> Connection] /\ h[c].tx = cn[c].tx
  BY HoldAt
<1> HIDE DEF h
<1>2. /\ Execute(h, s, k, c, res)[c].alive <=> res = "ok"
      /\ res = "ok" /\ k \in Begins => Execute(h, s, k, c, res)[c].tx = s
      /\ res = "ok" /\ k \notin Begins \cup Ends => Execute(h, s, k, c, res)[c].tx = h[c].tx
  BY <1>1, ExecuteAt
<1>3. QED
  BY <1>1, <1>2 DEF h

(* A command that is forwarded as it is. *)
LEMMA RawOK ==
  ASSUME IInv, NEW s \in Sessions, RawCommand(s)
  PROVE  CommandOK(s)
<1> DEFINE o == sess[s]
<1>0. "raw" \notin Begins \cup Ends /\ "tx" \in Modes
  BY DEF Begins, Ends, Modes
<1>1. o.open /\ SessionFit(o) /\ fast' = fast /\ Fits(s, o, conn) /\ conn \in [Conns -> Connection]
  BY FitsSelf DEF RawCommand, IInv, TypeOK
<1>2. CASE StickyRaw(s)
  <2>1. PICK c \in IF o.tx # NoConn THEN {o.tx} ELSE Get(Primary) \ {NoConn} :
          \E res \in Answers(c) :
            /\ sess' = [sess EXCEPT ![s].tx = c]
            /\ conn' = Execute(Hold(conn, c), s, "raw", c, res)
            /\ Told(s, "raw", res, "tx")
            /\ Observe(s, "raw", c)
    BY <1>2 DEF StickyRaw
  <2>2. PICK res \in Answers(c) :
            /\ sess' = [sess EXCEPT ![s].tx = c]
            /\ conn' = Execute(Hold(conn, c), s, "raw", c, res)
            /\ Told(s, "raw", res, "tx")
            /\ Observe(s, "raw", c)
    BY <2>1
  <2>3. o.in_tx /\ c # NoConn /\ (c = o.tx \/ (o.tx = NoConn /\ c \in Get(Primary)))
    BY <2>1, <1>2 DEF StickyRaw
  <2>4. /\ c \in Primary /\ c \in Conns /\ Mine(s, c)
        /\ c # o.stmt /\ c # o.hint /\ o.tx \in {c, NoConn}
    BY <2>3, StickyIsMine
  <2> DEFINE q == [o EXCEPT !.tx = c]
  <2>5. Effective(o)
    BY <2>3 DEF Effective
  <2>6. sess' = [sess EXCEPT ![s] = q]
    BY <2>2
  <2> HIDE DEF o
  <2>7. SessionFit(q) /\ q.tx = c /\ q.stmt = o.stmt /\ q.hint = o.hint /\ q.in_tx = o.in_tx
    BY <1>1, <2>4, <2>5, WithTx
  <2> HIDE DEF q
  <2>8. Slots(q) \subseteq Slots(o) \cup {c}
    BY <2>7 DEF Slots
  <2>9. Fits(s, q, Execute(Hold(conn, c), s, "raw", c, res))
    BY <1>1, <2>4, <2>7, <2>8, <1>0, RunFits
  <2>10. client[s] = "tx" => ~fast /\ c = o.tx /\ (conn[c].alive => conn[c].tx = s)
    BY <2>3, <2>4 DEF IInv, ToldIsTrue, o
  <2>11. split' \subseteq {"loose"}
    BY <2>2, <2>10, ObserveIs
  <2>12. res = "ok" => conn[c].alive
    BY DEF Answers
  <2>13. client[s] = "tx" => (conn'[c].alive => conn'[c].tx = s)
    BY <1>1, <2>2, <2>4, <2>10, <2>12, <1>0, RanOnTx
  <2>14. CASE client[s] # "tx"
    <3>1. Fits(s, q, conn') /\ Told(s, "raw", res, "tx")
      BY <2>2, <2>9
    <3>2. QED
      BY <1>1, <2>6, <2>11, <2>14, <3>1, <1>0, OutsideOK
  <2>15. CASE client[s] = "tx"
    <3>1. q.tx # NoConn /\ q.in_tx /\ ~fast
      BY <2>3, <2>7, <2>10, <2>15 DEF o
    <3>2. conn'[q.tx].alive => conn'[q.tx].tx = s
      BY <2>13, <2>15, <2>7
    <3>3. Fits(s, q, conn') /\ Told(s, "raw", res, "tx")
      BY <2>2, <2>9
    <3>4. QED
      BY <1>1, <2>6, <2>11, <3>1, <3>2, <3>3, <1>0, StatementOK
  <2>16. QED
    BY <2>14, <2>15
<1>3. CASE PooledRaw(s)
  <2>1. PICK c \in Get(Primary) \ {NoConn} : \E res \in Answers(c) :
          LET cn == Execute(Hold(conn, c), s, "raw", c, res)
          IN  /\ conn' = IF res = "ok" THEN Put(cn, c) ELSE Drop(cn, c)
              /\ Told(s, "raw", res, "tx")
              /\ Observe(s, "raw", c)
    BY <1>3 DEF PooledRaw
  <2>2. PICK res \in Answers(c) :
          LET cn == Execute(Hold(conn, c), s, "raw", c, res)
          IN  /\ conn' = IF res = "ok" THEN Put(cn, c) ELSE Drop(cn, c)
              /\ Told(s, "raw", res, "tx")
              /\ Observe(s, "raw", c)
    BY <2>1
  <2> DEFINE cn == Execute(Hold(conn, c), s, "raw", c, res)
  <2>3. Fits(s, sess[s], IF res = "ok" THEN Put(cn, c) ELSE Drop(cn, c))
    BY <1>0, PooledRunFits
  <2>4. Fits(s, sess[s], conn')
    BY <2>2, <2>3
  <2>5. sess' = [sess EXCEPT ![s] = sess[s]] /\ sess'[s] = sess[s]
    BY <1>3 DEF PooledRaw, IInv, TypeOK
  <2>6. client[s] # "tx"
    BY <1>3 DEF PooledRaw, IInv, ToldIsTrue
  <2>7. split' \subseteq {"loose"}
    BY <2>2, <2>6, ObserveIs
  <2>8. Told(s, "raw", res, "tx")
    BY <2>2
  <2>9. QED
    BY <1>1, <2>4, <2>5, <2>6, <2>7, <2>8, <1>0, OutsideOK
<1>4. QED
  BY <1>2, <1>3 DEF RawCommand

-----------------------------------------------------------------------------
(* The connections a statement may be routed to. *)
LEMMA TargetIsMine ==
  ASSUME IInv, NEW s \in Sessions, NEW k, NEW c \in Targets(k), c # NoConn
  PROVE  c \in Conns /\ Mine(s, c) /\ c \notin Slots(sess[s])
<1>1. Primary \in SUBSET Conns /\ Replica \in SUBSET Conns
  BY DEF Conns
<1>2. c \in Get(Primary) \/ c \in Get(Replica)
  BY DEF Targets
<1>3. QED
  BY <1>1, <1>2, GetIsMine

(* Outside a transaction the end of a statement changes no connection. *)
LEMMA PostOutside ==
  ASSUME NEW s \in Sessions, NEW r, NEW cn, Fits(s, r, cn), r.open, r.tx = NoConn, NEW k, NEW res
  PROVE  Fits(s, Post(r, k, res), cn)
<1> DEFINE q == Post(r, k, res)
<1>1. SessionFit(r)
  BY DEF Fits
<1>2. SessionFit(q) /\ q.stmt = r.stmt /\ q.hint = r.hint /\ q.tx = NoConn
  BY <1>1, PostRecord
<1> HIDE DEF q
<1>3. Slots(q) = Slots(r)
  BY <1>2 DEF Slots
<1>4. Fits(s, q, cn)
  BY <1>2, <1>3, FitsRecord
<1>5. QED
  BY <1>4 DEF q

(* A statement outside of a transaction, on a pooled connection, with its one retry. *)
LEMMA PooledQueryOK ==
  ASSUME IInv, NEW s \in Sessions, NEW k, PooledQuery(s, k)
  PROVE  CommandOK(s)
<1> DEFINE r == Hinted(s, k)
           hc == HintedConns(s, k)
<1>1. ~fast /\ sess[s].open /\ ~Effective(r) /\ fast' = fast
  BY DEF PooledQuery, Passes
<1>2. /\ Fits(s, r, hc) /\ r.open /\ Slots(r) \subseteq Slots(sess[s])
      /\ r.in_tx <=> (sess[s].in_tx \/ k = "begin")
  BY <1>1, HintedFit
<1>3. r.tx = NoConn /\ k # "begin" /\ ~sess[s].in_tx /\ client[s] # "tx"
  BY <1>1, <1>2 DEF Effective, Fits, SessionFit, IInv, ToldIsTrue
<1>7. Mode(s, k) \in Modes /\ (Mode(s, k) = "loose" \/ k \notin Begins)
  BY <1>3 DEF Mode, Modes, Begins
<1>4. CASE \E c \in Targets(k) \ {NoConn} :
              /\ conn[c].alive
              /\ Done(s, Post(r, k, "ok"), PutInto(Leave(Execute(hc, s, k, c, "ok"), s, c), c, Pool(c)), "ok")
              /\ Observe(s, k, c)
              /\ Told(s, k, "ok", Mode(s, k))
  <2>1. PICK c \in Targets(k) \ {NoConn} :
              /\ Done(s, Post(r, k, "ok"), PutInto(Leave(Execute(hc, s, k, c, "ok"), s, c), c, Pool(c)), "ok")
              /\ Observe(s, k, c)
              /\ Told(s, k, "ok", Mode(s, k))
    BY <1>4
  <2> DEFINE cm == PutInto(Leave(Execute(hc, s, k, c, "ok"), s, c), c, Pool(c))
  <2>2. c \in Conns /\ Mine(s, c) /\ c \notin Slots(r)
    BY <1>2, TargetIsMine
  <2> HIDE DEF r, hc
  <2>3. Fits(s, r, cm)
    BY <1>2, <1>3, <2>2, PooledFits
  <2> HIDE DEF cm
  <2>4. Fits(s, Post(r, k, "ok"), cm)
    BY <1>2, <1>3, <2>3, PostOutside
  <2>5. Done(s, Post(r, k, "ok"), cm, "ok")
    BY <2>1 DEF cm
  <2>6. PICK q : sess' = [sess EXCEPT ![s] = q] /\ Fits(s, q, conn')
    BY <2>4, <2>5, DoneFits
  <2>7. split' \subseteq {"loose"}
    BY <2>1, <1>3, ObserveIs
  <2>8. QED
    BY <1>1, <1>3, <1>7, <2>1, <2>6, <2>7, OutsideOK
<1>5. CASE \E c \in Targets(k) :
              /\ Done(s, Post(r, k, "fail"), Drop(hc, c), "fail")
              /\ Told(s, k, "fail", "tx")
              /\ UNCHANGED split
  <2>1. PICK c \in Targets(k) :
              /\ Done(s, Post(r, k, "fail"), Drop(hc, c), "fail")
              /\ Told(s, k, "fail", "tx")
              /\ split' = split
    BY <1>5
  <2> HIDE DEF hc
  <2>2. Fits(s, r, Drop(hc, c))
    <3>1. CASE c = NoConn
      BY <3>1, <1>2 DEF Drop
    <3>2. CASE c # NoConn
      <4>1. c \in Conns /\ Mine(s, c) /\ c \notin Slots(r)
        BY <1>2, <3>2, TargetIsMine
      <4> HIDE DEF r
      <4>2. SessionFit(r) /\ Slots(r) \subseteq Slots(r) \ {c}
        BY <1>2, <4>1 DEF Fits
      <4>3. QED
        BY <1>2, <4>1, <4>2, DropFits
    <3>3. QED
      BY <3>1, <3>2
  <2> HIDE DEF r
  <2>3. Fits(s, Post(r, k, "fail"), Drop(hc, c))
    BY <1>2, <1>3, <2>2, PostOutside
  <2>4. PICK q : sess' = [sess EXCEPT ![s] = q] /\ Fits(s, q, conn')
    BY <2>1, <2>3, DoneFits
  <2>5. split' \subseteq {"loose"}
    BY <2>1, SplitSame
  <2>6. QED
    BY <1>1, <2>1, <2>4, <2>5, FailedOK DEF Modes
<1>6. QED
  BY <1>4, <1>5 DEF PooledQuery

(* A statement in a transaction or of a pinned session, on the sticky connection. *)
LEMMA StickyQueryOK ==
  ASSUME IInv, NEW s \in Sessions, NEW k, StickyQuery(s, k)
  PROVE  CommandOK(s)
<1> DEFINE r == Hinted(s, k)
           hc == HintedConns(s, k)
<1>1. ~fast /\ sess[s].open /\ Effective(r)
  BY DEF StickyQuery, Passes
<1>2. /\ Fits(s, r, hc) /\ r.open /\ Slots(r) \subseteq Slots(sess[s]) /\ r.tx = sess[s].tx
      /\ r.in_tx <=> (sess[s].in_tx \/ k = "begin")
      /\ \A d \in Conns : d # sess[s].hint => hc[d] = conn[d]
  BY <1>1, HintedFit
<1>3. SessionFit(r) /\ hc \in [Conns -> Connection]
  BY <1>2 DEF Fits
<1>4. PICK c \in IF r.tx # NoConn THEN {r.tx} ELSE Get(Primary) :
           \/ /\ c = NoConn
              /\ Done(s, Post(r, k, "fail"), hc, "fail")
              /\ Told(s, k, "fail", "tx")
              /\ UNCHANGED <<fast, split>>
           \/ /\ c # NoConn
              /\ \E res \in Answers(c) :
                   LET held == [r EXCEPT !.tx = c]
                       cn == Execute(Hold(hc, c), s, k, c, res)
                   IN  /\ Done(s, Post(held, k, res), PostConns(cn, s, held, c, k, res), res)
                       /\ Told(s, k, res, Mode(s, k))
                       /\ Observe(s, k, c)
                       /\ UNCHANGED fast
  BY DEF StickyQuery
<1>5. c = sess[s].tx \/ (sess[s].tx = NoConn /\ c \in Get(Primary))
  BY <1>2, <1>4
<1> HIDE DEF r, hc
<1>6. CASE c = NoConn
  <2>1. r.tx = NoConn
    BY <1>2, <1>5, <1>6
  <2>2. Fits(s, Post(r, k, "fail"), hc)
    BY <1>2, <2>1, PostOutside
  <2>3. Done(s, Post(r, k, "fail"), hc, "fail") /\ Told(s, k, "fail", "tx")
        /\ fast' = fast /\ split' = split
    BY <1>4, <1>6
  <2>4. PICK q : sess' = [sess EXCEPT ![s] = q] /\ Fits(s, q, conn')
    BY <2>2, <2>3, DoneFits
  <2>5. split' \subseteq {"loose"}
    BY <2>3, SplitSame
  <2>6. QED
    BY <2>3, <2>4, <2>5, FailedOK DEF Modes
<1>7. CASE c # NoConn
  <2>1. PICK res \in Answers(c) :
                   LET held == [r EXCEPT !.tx = c]
                       cn == Execute(Hold(hc, c), s, k, c, res)
                   IN  /\ Done(s, Post(held, k, res), PostConns(cn, s, held, c, k, res), res)
                       /\ Told(s, k, res, Mode(s, k))
                       /\ Observe(s, k, c)
                       /\ UNCHANGED fast
    BY <1>4, <1>7
  <2> DEFINE held == [r EXCEPT !.tx = c]
             cn == Execute(Hold(hc, c), s, k, c, res)
  <2>2. /\ c \in Primary /\ c \in Conns /\ Mine(s, c)
        /\ c # sess[s].stmt /\ c # sess[s].hint /\ sess[s].tx \in {c, NoConn}
    BY <1>5, <1>7, StickyIsMine
  <2>3. c # r.stmt /\ c # r.hint
    <3>1. c \notin Slots(sess[s]) \ {sess[s].tx}
      BY <2>2 DEF Slots
    <3>2. CASE r.tx = c
      BY <1>3, <1>7, <3>2 DEF SessionFit, OneSlotEach
    <3>3. CASE r.tx # c
      <4>1. c \notin Slots(r)
        BY <1>2, <2>2, <3>1, <3>3
      <4>2. QED
        BY <4>1, <1>7 DEF Slots
    <3>4. QED
      BY <3>2, <3>3
  <2>4. /\ Done(s, Post(held, k, res), PostConns(cn, s, held, c, k, res), res)
        /\ Told(s, k, res, Mode(s, k)) /\ Observe(s, k, c) /\ fast' = fast
    BY <2>1
  <2>5. /\ SessionFit(held) /\ held.tx = c /\ held.stmt = r.stmt /\ held.hint = r.hint
        /\ held.open /\ held.in_tx = r.in_tx
    BY <1>1, <1>2, <1>3, <2>2, <2>3, WithTx
  <2> HIDE DEF held
  <2>6. Slots(held) \subseteq Slots(r) \cup {c} /\ r.tx \in {held.tx, NoConn}
    BY <1>2, <2>2, <2>5 DEF Slots
  <2>7. Fits(s, held, cn)
    BY <1>2, <2>2, <2>5, <2>6, RunFits
  <2> HIDE DEF cn
  <2>8. Fits(s, Post(held, k, res), PostConns(cn, s, held, c, k, res))
    BY <2>5, <2>7, <1>7, PostFits
  <2>9. PICK q : /\ sess' = [sess EXCEPT ![s] = q] /\ Fits(s, q, conn')
                 /\ res = "ok" => /\ q = Post(held, k, res)
                                  /\ conn' = PostConns(cn, s, held, c, k, res)
    BY <2>4, <2>8, DoneFits
  <2>10. client[s] = "tx" => /\ c = sess[s].tx /\ sess[s].in_tx
                             /\ conn[c].alive => conn[c].tx = s
    BY <2>2 DEF IInv, ToldIsTrue
  <2>11. split' \subseteq {"loose"}
    BY <2>4, <2>10, ObserveIs
  <2>0. Mode(s, k) \in {"tx", "loose"} /\ Mode(s, k) \in Modes
    BY DEF Mode, Modes
  <2>12. res = "ok" => conn[c].alive
    BY DEF Answers
  <2>13. hc[c] = conn[c]
    BY <1>2, <2>2
  <2>14. CASE /\ res = "ok" /\ k \notin Ends \cup {"savepoint"}
              /\ (k \in Begins /\ Mode(s, k) = "tx") \/ client[s] = "tx"
    <3>1. r.in_tx
      BY <2>10, <2>14, <1>2 DEF Mode, Begins
    <3>2. q.tx = c /\ q.in_tx
      <4>1. Post(held, k, res).tx = held.tx /\ Post(held, k, res).in_tx = held.in_tx
        BY <2>5, <2>14, PostRecord DEF Ends
      <4>2. q = Post(held, k, res) /\ held.in_tx = r.in_tx /\ held.tx = c
        BY <2>5, <2>9, <2>14
      <4>3. QED
        BY <4>1, <4>2, <3>1
    <3>3. conn' = cn
      BY <2>9, <2>14 DEF PostConns, Ends
    <3>4. cn[c].alive => cn[c].tx = s
      BY <1>3, <2>2, <2>10, <2>12, <2>13, <2>14, RanOnTx DEF cn
    <3>5. conn'[q.tx].alive => conn'[q.tx].tx = s
      BY <3>2, <3>3, <3>4
    <3>6. QED
      BY <1>1, <1>7, <2>0, <2>4, <2>9, <2>11, <3>2, <3>5, StatementOK
  <2>15. CASE ~(/\ res = "ok" /\ k \notin Ends \cup {"savepoint"}
                /\ (k \in Begins /\ Mode(s, k) = "tx") \/ client[s] = "tx")
    BY <1>1, <2>0, <2>4, <2>9, <2>11, <2>15, StatementOK
  <2>16. QED
    BY <2>14, <2>15
<1>8. QED
  BY <1>6, <1>7

(* A loop may give up its hinted connection. *)
LEMMA ClearHintFit ==
  ASSUME NEW r, SessionFit(r), r.open
  PROVE  /\ SessionFit(ClearHint(r)) /\ ClearHint(r).tx = r.tx /\ ClearHint(r).stmt = r.stmt
         /\ ClearHint(r).hint = NoConn /\ ClearHint(r).open
<1> DEFINE q == ClearHint(r)
<1>1. /\ q \in Session /\ q.tx = r.tx /\ q.stmt = r.stmt /\ q.hint = NoConn /\ q.open
      /\ q.in_tx = r.in_tx /\ q.pinned = r.pinned
  BY DEF ClearHint, SessionFit, Session
<1> HIDE DEF q
<1>2. SessionFit(q)
  BY <1>1 DEF SessionFit, OneSlotEach, Effective, Slots
<1>3. QED
  BY <1>1, <1>2 DEF q

(* A statement with a routing hint, on the connection that is kept for hints. *)
LEMMA HintedQueryOK ==
  ASSUME IInv, NEW s \in Sessions, NEW k, HintedQuery(s, k)
  PROVE  CommandOK(s)
<1> DEFINE r == Hinted(s, k)
<1>1. ~fast /\ sess[s].open /\ StickyRead(s, k) /\ ~Effective(r) /\ fast' = fast
  BY DEF HintedQuery, Passes, StickyRead
<1>2. /\ Fits(s, r, conn) /\ r.open /\ Slots(r) \subseteq Slots(sess[s])
      /\ r.in_tx <=> (sess[s].in_tx \/ k = "begin")
  BY <1>1, HintedFit
<1>3. SessionFit(r) /\ r.tx = NoConn /\ k \notin Begins /\ client[s] # "tx"
  BY <1>1, <1>2 DEF Effective, Fits, SessionFit, IInv, ToldIsTrue, StickyRead, Reads, Begins
<1>4. PICK c \in IF r.hint # NoConn THEN {r.hint} ELSE Targets(k) :
           \/ /\ c = NoConn
              /\ sess' = [sess EXCEPT ![s] = r]
              /\ UNCHANGED <<conn, client, split>>
           \/ /\ c # NoConn
              /\ Observe(s, k, c)
              /\ \E res \in Answers(c) :
                   LET cn == Execute(Hold(conn, c), s, k, c, res)
                   IN  \/ /\ res = "ok"
                          /\ sess' = [sess EXCEPT ![s] =
                               [r EXCEPT !.hint = c,
                                         !.hint_idx = IF r.hint = NoConn THEN Pool(c) ELSE r.hint_idx]]
                          /\ conn' = cn
                          /\ UNCHANGED client
                       \/ /\ res # "ok"
                          /\ \E e \in {"ok", "fail"} :
                               /\ Done(s, Post(ClearHint(r), k, e), Drop(cn, c), e)
                               /\ Told(s, k, e, "tx")
  BY DEF HintedQuery
<1>5. CASE c = NoConn
  <2>1. /\ sess' = [sess EXCEPT ![s] = r] /\ conn' = conn /\ client' = client /\ split' = split
    BY <1>4, <1>5
  <2>2. split' \subseteq {"loose"}
    BY <2>1, SplitSame
  <2>3. Told_OK(s)
    BY <1>3, <2>1 DEF Told_OK, IInv, TypeOK
  <2>4. Fits(s, r, conn')
    BY <1>2, <2>1
  <2>5. QED
    BY <1>1, <2>1, <2>2, <2>3, <2>4 DEF CommandOK
<1>6. CASE c # NoConn
  <2>1. PICK res \in Answers(c) :
                   LET cn == Execute(Hold(conn, c), s, k, c, res)
                   IN  \/ /\ res = "ok"
                          /\ sess' = [sess EXCEPT ![s] =
                               [r EXCEPT !.hint = c,
                                         !.hint_idx = IF r.hint = NoConn THEN Pool(c) ELSE r.hint_idx]]
                          /\ conn' = cn
                          /\ UNCHANGED client
                       \/ /\ res # "ok"
                          /\ \E e \in {"ok", "fail"} :
                               /\ Done(s, Post(ClearHint(r), k, e), Drop(cn, c), e)
                               /\ Told(s, k, e, "tx")
    BY <1>4, <1>6
  <2> DEFINE cn == Execute(Hold(conn, c), s, k, c, res)
  <2>2. /\ c \in Conns /\ Mine(s, c) /\ c # r.tx /\ c # r.stmt
        /\ c = r.hint \/ (r.hint = NoConn /\ c \notin Slots(r))
    <3>1. CASE r.hint # NoConn
      <4>1. c = r.hint /\ c \in Conns /\ c \in Slots(r)
        BY <1>3, <1>4, <3>1 DEF Slots, SessionFit, Session
      <4>2. QED
        BY <1>2, <1>3, <1>6, <4>1 DEF Fits, SessionFit, OneSlotEach
    <3>2. CASE r.hint = NoConn
      <4>1. c \in Targets(k)
        BY <1>4, <3>2
      <4>2. c \in Conns /\ Mine(s, c) /\ c \notin Slots(r)
        BY <1>2, <1>6, <4>1, TargetIsMine
      <4>3. QED
        BY <1>3, <1>6, <3>2, <4>2 DEF Slots
    <3>3. QED
      BY <3>1, <3>2
  <2>3. split' \subseteq {"loose"}
    <3>1. Observe(s, k, c)
      BY <1>4, <1>6
    <3>2. QED
      BY <1>3, <3>1, ObserveIs
  <2> HIDE DEF r
  <2>4. CASE /\ sess' = [sess EXCEPT ![s] =
                  [r EXCEPT !.hint = c,
                            !.hint_idx = IF r.hint = NoConn THEN Pool(c) ELSE r.hint_idx]]
             /\ conn' = cn /\ client' = client
    <3> DEFINE i == IF r.hint = NoConn THEN Pool(c) ELSE r.hint_idx
               q == [r EXCEPT !.hint = c, !.hint_idx = i]
    <3>1. i = Pool(c) /\ i \in {"primary", "replica"}
      BY <1>3, <1>6, <2>2 DEF SessionFit, Pool
    <3>2. sess' = [sess EXCEPT ![s] = q]
      BY <2>4
    <3> HIDE DEF i
    <3>3. /\ q \in Session /\ q.tx = NoConn /\ q.stmt = r.stmt /\ q.hint = c /\ q.hint_idx = i
          /\ q.open /\ q.pinned = r.pinned
      BY <1>2, <1>3, <2>2, <3>1 DEF SessionFit, Session
    <3> HIDE DEF q
    <3>4. SessionFit(q) /\ Slots(q) \subseteq Slots(r) \cup {c}
      BY <1>3, <2>2, <3>1, <3>3 DEF SessionFit, OneSlotEach, Slots
    <3>5. Fits(s, q, cn)
      BY <1>2, <1>3, <2>2, <3>3, <3>4, RunFits
    <3>6. Told_OK(s)
      BY <1>3, <2>4 DEF Told_OK, IInv, TypeOK
    <3>7. Fits(s, q, conn')
      BY <2>4, <3>5
    <3>8. QED
      BY <1>1, <2>3, <3>2, <3>6, <3>7 DEF CommandOK
  <2>5. CASE \E e \in {"ok", "fail"} :
               /\ Done(s, Post(ClearHint(r), k, e), Drop(cn, c), e)
               /\ Told(s, k, e, "tx")
    <3>1. PICK e \in {"ok", "fail"} :
               /\ Done(s, Post(ClearHint(r), k, e), Drop(cn, c), e)
               /\ Told(s, k, e, "tx")
      BY <2>5
    <3> DEFINE q == ClearHint(r)
    <3>2. SessionFit(q) /\ q.tx = r.tx /\ q.stmt = r.stmt /\ q.hint = NoConn /\ q.open
      BY <1>2, <1>3, ClearHintFit
    <3> HIDE DEF q
    <3>3. Fits(s, r, cn)
      BY <1>2, <1>3, <2>2, RunFits
    <3> HIDE DEF cn
    <3>4. Slots(q) \subseteq Slots(r) \ {c}
      BY <2>2, <3>2 DEF Slots
    <3>5. Fits(s, q, Drop(cn, c))
      BY <2>2, <3>2, <3>3, <3>4, DropFits
    <3>6. Fits(s, Post(q, k, e), Drop(cn, c))
      BY <1>3, <3>2, <3>5, PostOutside
    <3>7. Done(s, Post(q, k, e), Drop(cn, c), e)
      BY <3>1 DEF q
    <3>8. PICK z : sess' = [sess EXCEPT ![s] = z] /\ Fits(s, z, conn')
      BY <3>6, <3>7, DoneFits
    <3>9. QED
      BY <1>1, <1>3, <2>3, <3>1, <3>8, OutsideOK DEF Modes
  <2>6. QED
    BY <2>1, <2>4, <2>5
<1>7. QED
  BY <1>5, <1>6

-----------------------------------------------------------------------------
(* Prepared statements. *)
LEMMA WithStmt ==
  ASSUME NEW r, SessionFit(r), r.open, NEW v \in Primary \cup {NoConn},
         v # NoConn => v # r.tx /\ v # r.hint
  PROVE  /\ SessionFit([r EXCEPT !.stmt = v]) /\ [r EXCEPT !.stmt = v].stmt = v
         /\ [r EXCEPT !.stmt = v].tx = r.tx /\ [r EXCEPT !.stmt = v].hint = r.hint
<1> DEFINE q == [r EXCEPT !.stmt = v]
<1>1. /\ q \in Session /\ q.tx = r.tx /\ q.stmt = v /\ q.hint = r.hint /\ q.open
      /\ q.hint_idx = r.hint_idx /\ q.in_tx = r.in_tx /\ q.pinned = r.pinned
  BY DEF SessionFit, Session
<1> HIDE DEF q
<1>2. SessionFit(q)
  BY <1>1 DEF SessionFit, OneSlotEach, Effective, Slots
<1>3. QED
  BY <1>1, <1>2 DEF q

(* A statement of the prepared-statement connection, which is then kept or put back. *)
LEMMA KeepOrPut ==
  ASSUME NEW s \in Sessions, NEW r, NEW cn, Fits(s, r, cn), r.open, NEW c \in Primary, Mine(s, c),
         c # r.tx, c # r.hint, cn[c].at = "held", r.stmt \in {c, NoConn}, NEW keep \in BOOLEAN
  PROVE  Fits(s, [r EXCEPT !.stmt = IF keep THEN c ELSE NoConn],
              IF keep THEN cn ELSE Put(cn, c))
<1> DEFINE v == IF keep THEN c ELSE NoConn
           q == [r EXCEPT !.stmt = v]
<1>1. SessionFit(r) /\ c \in Conns /\ Pool(c) = "primary" /\ v \in Primary \cup {NoConn}
      /\ (v # NoConn => v # r.tx /\ v # r.hint)
  BY DEF Fits, Conns, Pool
<1>2. v = (IF keep THEN c ELSE NoConn)
  OBVIOUS
<1> HIDE DEF v
<1>3. SessionFit(q) /\ q.stmt = v /\ q.tx = r.tx /\ q.hint = r.hint
  BY <1>1, WithStmt
<1> HIDE DEF q
<1>4. CASE keep
  <2>1. Slots(q) \subseteq Slots(r) \cup {c}
    BY <1>2, <1>3, <1>4 DEF Slots
  <2>2. cn \in [Conns -> Connection] /\ ConnectionFit(c, cn[c])
        /\ (cn[c].tx # "none" => cn[c].left \/ (cn[c].tx = s /\ q.tx = c))
    BY <1>1, <1>3 DEF Fits
  <2>3. Fits(s, q, cn)
    BY <1>1, <1>3, <2>1, <2>2, FitsTouch
  <2>4. QED
    BY <1>4, <2>3 DEF q, v
<1>5. CASE ~keep
  <2>1. Slots(q) \subseteq Slots(r) \ {c}
    BY <1>2, <1>3, <1>5 DEF Slots
  <2>2. Fits(s, q, PutInto(cn, c, Pool(c)))
    BY <1>1, <1>3, <2>1, PutBackOther
  <2>3. QED
    BY <1>1, <1>5, <2>2 DEF q, v, Put
<1>6. QED
  BY <1>4, <1>5

(* A prepared-statement command in a transaction, on the sticky connection. *)
LEMMA StmtInTxOK ==
  ASSUME IInv, NEW s \in Sessions, NEW k \in StmtKinds, sess[s].open, sess[s].in_tx, fast' = fast,
         NEW o, SessionFit(o), o.open, o.in_tx, o.tx = sess[s].tx, o.stmt = sess[s].stmt,
         o.hint = sess[s].hint,
         NEW c, c # NoConn, c = sess[s].tx \/ (sess[s].tx = NoConn /\ c \in Get(Primary)),
         NEW res \in Answers(c),
         sess' = [sess EXCEPT ![s] = [o EXCEPT !.tx = c]],
         conn' = Execute(Hold(conn, c), s, k, c, res),
         Told(s, k, res, "tx"), Observe(s, k, c)
  PROVE  CommandOK(s)
<1> DEFINE q == [o EXCEPT !.tx = c]
<1>1. /\ c \in Primary /\ c \in Conns /\ Mine(s, c)
      /\ c # o.stmt /\ c # o.hint /\ sess[s].tx \in {c, NoConn}
  BY StickyIsMine
<1>2. Effective(o) /\ Fits(s, sess[s], conn) /\ conn \in [Conns -> Connection]
  BY FitsSelf DEF Effective, IInv, TypeOK
<1>3. SessionFit(q) /\ q.tx = c /\ q.stmt = o.stmt /\ q.hint = o.hint /\ q.in_tx = o.in_tx
  BY <1>1, <1>2, WithTx
<1>4. sess' = [sess EXCEPT ![s] = q]
  OBVIOUS
<1> HIDE DEF q
<1>5. Slots(q) \subseteq Slots(sess[s]) \cup {c}
  BY <1>3 DEF Slots
<1>6. k \notin Begins /\ k \notin Ends /\ "tx" \in Modes
  BY DEF StmtKinds, Begins, Ends, Modes
<1>7. Fits(s, q, conn')
  BY <1>1, <1>2, <1>3, <1>5, <1>6, RunFits
<1>8. client[s] = "tx" => ~fast /\ c = sess[s].tx /\ (conn[c].alive => conn[c].tx = s)
  BY <1>1 DEF IInv, ToldIsTrue
<1>9. split' \subseteq {"loose"}
  BY <1>8, ObserveIs
<1>10. res = "ok" => conn[c].alive
  BY DEF Answers
<1>11. CASE client[s] # "tx"
  BY <1>4, <1>6, <1>7, <1>9, <1>11, OutsideOK
<1>12. CASE client[s] = "tx"
  <2>1. conn'[c].alive => conn'[c].tx = s
    BY <1>1, <1>2, <1>6, <1>8, <1>10, <1>12, RanOnTx
  <2>2. q.in_tx /\ q.tx # NoConn /\ ~fast /\ (conn'[q.tx].alive => conn'[q.tx].tx = s)
    BY <1>3, <1>8, <1>12, <2>1
  <2>3. QED
    BY <1>4, <1>6, <1>7, <1>9, <2>2, StatementOK
<1>13. QED
  BY <1>11, <1>12

(* Only the last connection that was assigned counts. *)
LEMMA StmtTwice ==
  ASSUME NEW r \in Session, NEW a, NEW b
  PROVE  [[r EXCEPT !.stmt = a] EXCEPT !.stmt = b] = [r EXCEPT !.stmt = b]
  BY DEF Session

(* Counting the prepared statements gives and takes no connection. *)
LEMMA CountedFit ==
  ASSUME IInv, NEW s \in Sessions, sess[s].open, NEW k
  PROVE  /\ Counted(s, k) \in Session /\ SessionFit(Counted(s, k)) /\ Counted(s, k).open
         /\ Counted(s, k).in_tx = sess[s].in_tx /\ Counted(s, k).tx = sess[s].tx
         /\ Counted(s, k).stmt = sess[s].stmt /\ Counted(s, k).hint = sess[s].hint
<1> DEFINE o == sess[s]
           r == Counted(s, k)
<1>1. SessionFit(o)
  BY DEF IInv
<1>2. /\ r \in Session /\ r.tx = o.tx /\ r.stmt = o.stmt /\ r.hint = o.hint /\ r.open
      /\ r.hint_idx = o.hint_idx /\ r.pinned = o.pinned /\ r.in_tx = o.in_tx
  BY <1>1 DEF Counted, SessionFit, Session
<1> HIDE DEF r
<1>3. SessionFit(r)
  BY <1>1, <1>2 DEF SessionFit, OneSlotEach, Effective, Slots
<1>4. QED
  BY <1>2, <1>3 DEF r

(* The connection of a prepared-statement command is kept or goes back. *)
LEMMA KeepStmtFits ==
  ASSUME NEW s \in Sessions, NEW r \in Session, r.open, NEW cn, Fits(s, r, cn),
         NEW c \in Primary, Mine(s, c),
         c # r.tx, c # r.hint, cn[c].at = "held", r.stmt \in {c, NoConn},
         KeepStmtConn(s, r, c, cn)
  PROVE  \E q : sess' = [sess EXCEPT ![s] = q] /\ Fits(s, q, conn')
<1> DEFINE q == [r EXCEPT !.stmt = IF r.stmts THEN c ELSE NoConn]
<1>1. r.stmts \in BOOLEAN
  BY DEF Session
<1>2. Fits(s, q, IF r.stmts THEN cn ELSE Put(cn, c))
  BY <1>1, KeepOrPut
<1>3. sess' = [sess EXCEPT ![s] = q] /\ conn' = IF r.stmts THEN cn ELSE Put(cn, c)
  BY DEF KeepStmtConn
<1> HIDE DEF q
<1>4. Fits(s, q, conn')
  BY <1>2, <1>3
<1>5. QED
  BY <1>3, <1>4

(* A lost connection is replaced. *)
LEMMA StmtReplaceFits ==
  ASSUME IInv, NEW s \in Sessions, NEW k, k \notin Begins,
         NEW r \in Session, SessionFit(r), r.open, r.tx = sess[s].tx, r.hint = sess[s].hint,
         Slots(r) \subseteq Slots(sess[s]),
         NEW c \in Primary, Mine(s, c), r.stmt \in {c, NoConn}, c # r.tx, c # r.hint,
         NEW cn, Fits(s, r, cn), NEW d \in Get(Primary), d # NoConn, d # c, NEW again,
         KeepStmtConn(s, r, d, Execute(Hold(Drop(cn, c), d), s, k, d, again))
  PROVE  \E q : sess' = [sess EXCEPT ![s] = q] /\ Fits(s, q, conn')
<1> DEFINE p == [r EXCEPT !.stmt = NoConn]
           dr == Drop(cn, c)
           cd == Execute(Hold(dr, d), s, k, d, again)
           v == IF r.stmts THEN d ELSE NoConn
           q == [r EXCEPT !.stmt = v]
<1>1. Primary \in SUBSET Conns /\ c \in Conns
  BY DEF Conns
<1>2. d \in Primary /\ d \in Conns /\ Mine(s, d) /\ d \notin Slots(r)
  BY <1>1, GetIsMine
<1>3. SessionFit(p) /\ p.stmt = NoConn /\ p.tx = r.tx /\ p.hint = r.hint /\ p.open
  BY WithoutStmt DEF Session
<1>4. q = [p EXCEPT !.stmt = v]
  BY StmtTwice
<1>5. sess' = [sess EXCEPT ![s] = q] /\ conn' = IF r.stmts THEN cd ELSE Put(cd, d)
  BY DEF KeepStmtConn
<1> HIDE DEF p
<1>6. Slots(p) \subseteq Slots(r) \ {c}
  BY <1>3 DEF Slots
<1>7. Fits(s, p, dr)
  BY <1>1, <1>3, <1>6, DropFits
<1> HIDE DEF dr
<1>8. d # p.tx /\ d # p.hint
  BY <1>2, <1>3 DEF Slots
<1>9. Fits(s, p, cd)
  BY <1>2, <1>3, <1>7, RunFits
<1>10. cd[d].at = "held"
  <2>1. Hold(dr, d) \in [Conns -> Connection] /\ Hold(dr, d)[d].at = "held"
    BY <1>2, <1>7, HoldAt DEF Fits
  <2>2. QED
    BY <1>2, <2>1, ExecuteAt
<1>11. r.stmts \in BOOLEAN
  BY DEF Session
<1> HIDE DEF cd
<1>12. Fits(s, [p EXCEPT !.stmt = v], IF r.stmts THEN cd ELSE Put(cd, d))
  BY <1>2, <1>3, <1>8, <1>9, <1>10, <1>11, KeepOrPut
<1> HIDE DEF q
<1>13. Fits(s, q, conn')
  BY <1>4, <1>5, <1>12
<1>14. QED
  BY <1>5, <1>13

(* A prepared-statement command outside of a transaction: answered, failed, or sent again
   on another connection. *)
LEMMA StmtOutsideOK ==
  ASSUME IInv, NEW s \in Sessions, NEW k \in StmtKinds, sess[s].open, fast' = fast,
         NEW c \in StmtConns(s), NEW res \in Answers(c), StmtOutside(s, k, c, res)
  PROVE  CommandOK(s)
<1> DEFINE o == sess[s]
           r == Counted(s, k)
           cn == Execute(Hold(conn, c), s, k, c, res)
<1>1. /\ SessionFit(o) /\ o \in Session /\ Fits(s, o, conn) /\ conn \in [Conns -> Connection]
      /\ ~o.in_tx /\ split' = split
  BY FitsSelf DEF IInv, TypeOK, StmtOutside
<1>2. Primary \in SUBSET Conns
  BY DEF Conns
<1>3. c \in Primary /\ c \in Conns /\ Mine(s, c) /\ c # o.tx /\ c # o.hint /\ o.stmt \in {c, NoConn}
  <2>1. CASE o.stmt # NoConn
    <3>1. c = o.stmt
      BY <1>1, <2>1 DEF StmtConns
    <3>2. QED
      BY <1>1, <2>1, <3>1 DEF SessionFit, Session, OneSlotEach, Conns, Mine, Slots
  <2>2. CASE o.stmt = NoConn
    <3>1. c \in Get(Primary) /\ c # NoConn
      BY <1>1, <2>2 DEF StmtConns
    <3>2. c \in Primary /\ c \in Conns /\ Mine(s, c) /\ c \notin Slots(o)
      BY <1>2, <3>1, GetIsMine
    <3>3. QED
      BY <2>2, <3>1, <3>2 DEF Slots
  <2>3. QED
    BY <2>1, <2>2
<1>4. /\ r \in Session /\ SessionFit(r) /\ r.open /\ r.tx = o.tx /\ r.stmt = o.stmt /\ r.hint = o.hint
  BY CountedFit
<1>5. k \notin Begins /\ client[s] # "tx" /\ "tx" \in Modes
  BY <1>1 DEF StmtKinds, IInv, ToldIsTrue, Begins, Modes
<1> HIDE DEF r
<1>6. Slots(r) = Slots(o)
  BY <1>4 DEF Slots
<1>7. Fits(s, r, conn)
  BY <1>1, <1>4, <1>6, FitsRecord
<1>8. Fits(s, r, cn) /\ Fits(s, o, cn)
  BY <1>1, <1>3, <1>4, <1>5, <1>7, RunFits
<1>9. cn[c].at = "held"
  <2>1. Hold(conn, c) \in [Conns -> Connection] /\ Hold(conn, c)[c].at = "held"
    BY <1>1, <1>3, HoldAt
  <2>2. QED
    BY <1>3, <2>1, ExecuteAt
<1>10. split' \subseteq {"loose"}
  BY <1>1, SplitSame
<1>11. ASSUME NEW q, sess' = [sess EXCEPT ![s] = q], Fits(s, q, conn'),
              NEW ans, Told(s, k, ans, "tx")
       PROVE  CommandOK(s)
  BY <1>5, <1>10, <1>11, OutsideOK
<1>12. \/ KeepStmtConn(s, r, c, cn) /\ Told(s, k, "ok", "tx")
       \/ KeepStmtConn(s, o, c, cn) /\ Told(s, k, "fail", "tx")
       \/ \E d \in Get(Primary) \ {NoConn, c} : \E again \in Answers(d) :
            /\ KeepStmtConn(s, IF again = "ok" THEN r ELSE o, d,
                            Execute(Hold(Drop(cn, c), d), s, k, d, again))
            /\ Told(s, k, again, "tx")
  BY DEF StmtOutside, r
<1> HIDE DEF cn, o
<1>13. CASE KeepStmtConn(s, r, c, cn) /\ Told(s, k, "ok", "tx")
  <2>1. PICK q : sess' = [sess EXCEPT ![s] = q] /\ Fits(s, q, conn')
    BY <1>3, <1>4, <1>8, <1>9, <1>13, KeepStmtFits
  <2>2. QED
    BY <1>11, <1>13, <2>1
<1>14. CASE KeepStmtConn(s, o, c, cn) /\ Told(s, k, "fail", "tx")
  <2>1. o.open
    BY DEF o
  <2>2. PICK q : sess' = [sess EXCEPT ![s] = q] /\ Fits(s, q, conn')
    BY <1>1, <1>3, <1>8, <1>9, <1>14, <2>1, KeepStmtFits
  <2>3. QED
    BY <1>11, <1>14, <2>2
<1>15. CASE \E d \in Get(Primary) \ {NoConn, c} : \E again \in Answers(d) :
              /\ KeepStmtConn(s, IF again = "ok" THEN r ELSE o, d,
                              Execute(Hold(Drop(cn, c), d), s, k, d, again))
              /\ Told(s, k, again, "tx")
  <2>1. PICK d \in Get(Primary) \ {NoConn, c} : \E again \in Answers(d) :
              /\ KeepStmtConn(s, IF again = "ok" THEN r ELSE o, d,
                              Execute(Hold(Drop(cn, c), d), s, k, d, again))
              /\ Told(s, k, again, "tx")
    BY <1>15
  <2>2. PICK again \in Answers(d) :
              /\ KeepStmtConn(s, IF again = "ok" THEN r ELSE o, d,
                              Execute(Hold(Drop(cn, c), d), s, k, d, again))
              /\ Told(s, k, again, "tx")
    BY <2>1
  <2> DEFINE z == IF again = "ok" THEN r ELSE o
  <2>3. /\ z \in Session /\ SessionFit(z) /\ z.open /\ z.tx = sess[s].tx /\ z.hint = sess[s].hint
        /\ z.stmt \in {c, NoConn} /\ c # z.tx /\ c # z.hint /\ Slots(z) \subseteq Slots(sess[s])
        /\ Fits(s, z, cn)
    BY <1>1, <1>3, <1>4, <1>6, <1>8 DEF o
  <2>4. KeepStmtConn(s, z, d, Execute(Hold(Drop(cn, c), d), s, k, d, again))
    BY <2>2
  <2> HIDE DEF z
  <2>5. PICK q : sess' = [sess EXCEPT ![s] = q] /\ Fits(s, q, conn')
    BY <1>3, <1>5, <2>3, <2>4, StmtReplaceFits
  <2>6. QED
    BY <1>11, <2>2, <2>5
<1>16. QED
  BY <1>12, <1>13, <1>14, <1>15

(* A prepared-statement command. *)
LEMMA StmtOK ==
  ASSUME IInv, NEW s \in Sessions, NEW k \in StmtKinds, StmtCommand(s, k)
  PROVE  CommandOK(s)
<1>1. sess[s].open /\ fast' = fast /\ SessionFit(sess[s])
  BY DEF StmtCommand, IInv
<1>2. PICK c \in StmtConns(s) : \E res \in Answers(c) :
        StmtInTx(s, k, c, res) \/ StmtOutside(s, k, c, res)
  BY DEF StmtCommand
<1>3. PICK res \in Answers(c) : StmtInTx(s, k, c, res) \/ StmtOutside(s, k, c, res)
  BY <1>2
<1>4. CASE StmtInTx(s, k, c, res)
  <2> DEFINE z == IF res = "ok" THEN Counted(s, k) ELSE sess[s]
  <2>1. sess[s].in_tx
    BY <1>4 DEF StmtInTx
  <2>2. c # NoConn /\ (c = sess[s].tx \/ (sess[s].tx = NoConn /\ c \in Get(Primary)))
    BY <2>1 DEF StmtConns
  <2>3. /\ SessionFit(z) /\ z.open /\ z.tx = sess[s].tx /\ z.stmt = sess[s].stmt
        /\ z.hint = sess[s].hint /\ z.in_tx
    BY <1>1, <2>1, CountedFit
  <2>4. /\ sess' = [sess EXCEPT ![s] = [z EXCEPT !.tx = c]]
        /\ conn' = Execute(Hold(conn, c), s, k, c, res)
        /\ Told(s, k, res, "tx") /\ Observe(s, k, c)
    BY <1>4 DEF StmtInTx
  <2> HIDE DEF z
  <2>5. QED
    BY <1>1, <2>1, <2>2, <2>3, <2>4, StmtInTxOK
<1>5. CASE StmtOutside(s, k, c, res)
  BY <1>1, <1>5, StmtOutsideOK
<1>6. QED
  BY <1>3, <1>4, <1>5

-----------------------------------------------------------------------------
(* A connection dies, idle or in somebody's hands. *)
LEMMA DiesKeeps ==
  ASSUME IInv, NEW c \in Conns, ConnectionDies(c)
  PROVE  IInv'
<1>1. UNCHANGED <<fast, sess, client, split>> /\ conn \in [Conns -> Connection]
  BY DEF ConnectionDies, IInv, TypeOK
<1>2. /\ conn' \in [Conns -> Connection]
      /\ \A d \in Conns : d # c => conn'[d] = conn[d]
      /\ conn'[c].at = conn[c].at /\ conn'[c].pool = conn[c].pool
      /\ ~conn'[c].alive /\ conn'[c].tx = "none"
  BY <1>1 DEF ConnectionDies, Connection
<1>3. TypeOK'
  BY <1>1, <1>2 DEF IInv, TypeOK
<1>4. \A t \in Sessions : SessionFit(sess[t])'
  BY <1>1 DEF IInv, SessionFit
<1>5. \A d \in Conns : ConnectionFit(d, conn[d])'
  BY <1>1, <1>2 DEF IInv, ConnectionFit
<1>6. \A s \in Sessions : Slots(sess[s]) \subseteq Conns
  BY SlotsAreConns DEF IInv, TypeOK
<1>7. Ownership'
  <2>1. \A d \in Conns : conn'[d].at = conn[d].at
    BY <1>2
  <2>2. QED
    BY <1>1, <1>6, <2>1 DEF IInv, Ownership
<1>8. OpenTxIsHeld'
  BY <1>1, <1>2 DEF IInv, OpenTxIsHeld
<1>9. ToldIsTrue'
  <2>1. \A d \in Conns : conn'[d].alive => conn'[d] = conn[d]
    BY <1>2
  <2>2. \A s \in Sessions : sess[s].tx # NoConn => sess[s].tx \in Conns
    BY DEF IInv, TypeOK, Session, Conns
  <2>3. QED
    BY <1>1, <2>1, <2>2 DEF IInv, ToldIsTrue
<1>10. TxAtomic'
  BY <1>1 DEF IInv, TxAtomic
<1>11. QED
  BY <1>3, <1>4, <1>5, <1>7, <1>8, <1>9, <1>10 DEF IInv

-----------------------------------------------------------------------------
(* No connection is open and no client is there at the start. *)
LEMMA InitKeeps == Init => IInv
<1> SUFFICES ASSUME Init PROVE IInv
  OBVIOUS
<1> DEFINE off == [NewSession EXCEPT !.open = FALSE]
<1>1. /\ SessionFit(off) /\ Slots(off) = {} /\ off.tx = NoConn
  BY NewFits
<1> HIDE DEF off
<1>2. \A s \in Sessions : sess[s] = off
  BY DEF Init, off
<1>3. \A c \in Conns : conn[c] = Closed(c)
  BY DEF Init
<1>4. TypeOK
  <2>1. \A c \in Conns : Closed(c) \in Connection
    BY ClosedFit
  <2>2. sess = [s \in Sessions |-> off]
    BY DEF Init, off
  <2>3. QED
    BY <1>1, <2>1, <2>2 DEF Init, TypeOK, SessionFit
<1>5. \A c \in Conns : ConnectionFit(c, conn[c]) /\ conn[c].tx = "none"
  BY <1>3, ClosedFit
<1>6. Ownership
  BY <1>1, <1>2 DEF Ownership
<1>7. OpenTxIsHeld
  BY <1>5 DEF OpenTxIsHeld
<1>8. ToldIsTrue /\ TxAtomic
  BY DEF Init, ToldIsTrue, TxAtomic
<1>9. QED
  BY <1>1, <1>2, <1>4, <1>5, <1>6, <1>7, <1>8 DEF IInv

(* Every command of every client, and every death of a connection. *)
LEMMA NextKeeps == IInv /\ [Next]_vars => IInv'
<1> SUFFICES ASSUME IInv, [Next]_vars PROVE IInv'
  OBVIOUS
<1>1. ASSUME NEW s \in Sessions, Connect(s) \/ Disconnect(s) \/ ResetConnection(s)
      PROVE  IInv'
  BY <1>1, EndsOK, CommandKeeps
<1>2. ASSUME NEW s \in Sessions, NEW k \in Kinds, Query(s, k)
      PROVE  IInv'
  <2>1. CommandOK(s)
    BY <1>2, FastOK, RuleFastOK, KillsOK, AnsweredOK, HintedQueryOK, StickyQueryOK,
       PooledQueryOK DEF Query
  <2>2. QED
    BY <2>1, CommandKeeps
<1>3. ASSUME NEW s \in Sessions, RawCommand(s) \/ TimePasses(s)
      PROVE  IInv'
  BY <1>3, RawOK, TimeOK, CommandKeeps
<1>4. ASSUME NEW s \in Sessions, NEW k \in StmtKinds, StmtCommand(s, k)
      PROVE  IInv'
  BY <1>4, StmtOK, CommandKeeps
<1>5. ASSUME NEW c \in Conns, ConnectionDies(c)
      PROVE  IInv'
  BY <1>5, DiesKeeps
<1>6. CASE UNCHANGED vars
  BY <1>6 DEF vars, IInv, TypeOK, SessionFit, ConnectionFit, Ownership, OpenTxIsHeld,
              ToldIsTrue, TxAtomic
<1>7. QED
  BY <1>1, <1>2, <1>3, <1>4, <1>5, <1>6 DEF Next

(***************************************************************************)
(* The loops and the backend connections keep their types: a session's        *)
(* sticky and statement connections always lead to the primary.              *)
(***************************************************************************)
THEOREM TypeCorrect == Spec => []TypeOK
<1>1. IInv => TypeOK
  BY DEF IInv
<1>2. QED
  BY <1>1, InitKeeps, NextKeeps, PTL DEF Spec

(***************************************************************************)
(* handle_connection never lets two variables of its clients' loops have the *)
(* same backend connection, and a connection in a loop is never idle.         *)
(***************************************************************************)
THEOREM ConnectionsAreOwned == Spec => []Ownership
<1>1. IInv => Ownership
  BY DEF IInv
<1>2. QED
  BY <1>1, InitKeeps, NextKeeps, PTL DEF Spec

(***************************************************************************)
(* No statement of a transaction that the client was told it has runs outside *)
(* it, whatever kills, deaths, blocked, hinted or prepared statements and     *)
(* other clients come between.                                              *)
(***************************************************************************)
THEOREM TransactionsAreAtomic == Spec => []TxAtomic
<1>1. IInv => TxAtomic
  BY DEF IInv
<1>2. QED
  BY <1>1, InitKeeps, NextKeeps, PTL DEF Spec

(***************************************************************************)
(* A connection with an open transaction is the sticky one of the session     *)
(* whose transaction it is, unless its client left the transaction behind.    *)
(***************************************************************************)
THEOREM OpenTransactionsAreHeld == Spec => []OpenTxIsHeld
<1>1. IInv => OpenTxIsHeld
  BY DEF IInv
<1>2. QED
  BY <1>1, InitKeeps, NextKeeps, PTL DEF Spec

(***************************************************************************)
(* Every idle connection is in the pool of the backend it leads to.           *)
(***************************************************************************)
THEOREM IdleAtHome == Spec => []PutHome
<1>1. IInv => PutHome
  BY DEF IInv, ConnectionFit, PutHome
<1>2. QED
  BY <1>1, InitKeeps, NextKeeps, PTL DEF Spec
=============================================================================
