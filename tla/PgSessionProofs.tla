--------------------------- MODULE PgSessionProofs ---------------------------
(***************************************************************************)
(* Proofs about PgSession, for any number of clients with any commands, and   *)
(* any number of backend connections.                                       *)
(***************************************************************************)
EXTENDS PgSession, TLAPS

-----------------------------------------------------------------------------
(***************************************************************************)
(* The inductive invariant.                                                 *)
(***************************************************************************)

(* The connections of a session record. *)
Slots(r) == {r.tx, r.stmt, r.wait.on} \ {NoConn}

(* What holds of the local variables of one loop: a connection is in one of them only,
   but a COPY may be waited for on the sticky one; the loop waits on a connection exactly
   when it waits for the server; and a loop that has ended has nothing. *)
SessionFit(r) ==
  /\ r \in Session
  /\ r.stmt # NoConn => r.stmt # r.tx /\ r.stmt # r.wait.on
  /\ r.wait.on # NoConn <=> r.wait.for \in {"copy", "data"}
  /\ r.wait.for = "data" => r.wait.on # r.tx
  /\ ~r.open => Slots(r) = {} /\ ~r.in_tx /\ r.wait.for = "none"

(* A statement that was prepared on a statement connection. *)
Plain(x) == x.name.by # "none" /\ x.name.how = "plain"

(* What holds of one connection: the status of the last ReadyForQuery is the server's
   while the connection lives, a dead one has no transaction and no names, and one that
   nobody holds has no transaction. *)
ConnectionFit(x) ==
  /\ x \in Connection
  /\ x.alive => (x.known <=> x.tx # "none")
  /\ ~x.alive => x.tx = "none" /\ x.name = Unnamed
  /\ x.at # "held" => x.tx = "none"

(* The connections that are held are exactly the ones in the loops' variables, and no two
   loops have the same one. *)
Ownership ==
  /\ \A c \in Conns : conn[c].at = "held" <=> \E s \in Sessions : c \in Slots(sess[s])
  /\ \A s, t \in Sessions : s # t => Slots(sess[s]) \cap Slots(sess[t]) = {}

(* An open transaction is on a connection of the session it belongs to. *)
OpenTxIsHeld ==
  \A c \in Conns : conn[c].tx # "none" => c \in Slots(sess[conn[c].tx])

(* A statement that was prepared outside a transaction is on the statement connection of
   the session that prepared it. *)
PlainIsHeld ==
  \A c \in Conns : Plain(conn[c]) => sess[conn[c].name.by].stmt = c

(* The transaction of a client that opened it with a simple BEGIN is on the sticky
   connection of its session, unless that connection died and the client does not know yet. *)
ToldIsTrue ==
  \A s \in Sessions : client[s] = "simple" =>
    /\ sess[s].in_tx /\ sess[s].tx # NoConn
    /\ conn[sess[s].tx].alive => conn[sess[s].tx].tx = s

IInv ==
  /\ TypeOK
  /\ \A s \in Sessions : SessionFit(sess[s])
  /\ \A c \in Conns : ConnectionFit(conn[c])
  /\ Ownership
  /\ OpenTxIsHeld
  /\ PlainIsHeld
  /\ ToldIsTrue
  /\ TxIsolated
  /\ OwnStatements

-----------------------------------------------------------------------------
(***************************************************************************)
(* One command.  Mine(s, c): c is in a variable of session s, or in no        *)
(* variable of any session.  Uses(s, A, p, cn): what s has done so far made   *)
(* the connections cn; s has the connections A in its hands, and only p may   *)
(* have a statement that was prepared outside a transaction.                 *)
(***************************************************************************)
Mine(s, c) == c \in Slots(sess[s]) \/ conn[c].at # "held"

Uses(s, A, p, cn) ==
  /\ A \subseteq Conns
  /\ cn \in [Conns -> Connection]
  /\ \A c \in Conns : ConnectionFit(cn[c])
  /\ \A c \in Conns : ~Mine(s, c) => cn[c] = conn[c]
  /\ \A c \in A : Mine(s, c) /\ cn[c].at = "held"
  /\ \A c \in Conns : Mine(s, c) /\ c \notin A => cn[c].at # "held" /\ ~Plain(cn[c])
  /\ \A c \in A : cn[c].tx \in {"none", s}
  /\ \A c \in A : Plain(cn[c]) => cn[c].name.by = s /\ c = p

(* The variables of a session hold connections. *)
LEMMA SlotsAreConns ==
  ASSUME NEW r \in Session
  PROVE  Slots(r) \subseteq Conns
  BY DEF Slots, Session, Waiting

(* Before a command a session has the connections of its variables in its hands. *)
LEMMA UsesSelf ==
  ASSUME IInv, NEW s \in Sessions
  PROVE  Uses(s, Slots(sess[s]), sess[s].stmt, conn)
<1> DEFINE A == Slots(sess[s])
<1>1. /\ A \subseteq Conns /\ conn \in [Conns -> Connection]
      /\ \A c \in Conns : ConnectionFit(conn[c])
  BY SlotsAreConns DEF IInv, TypeOK
<1>2. \A c \in A : Mine(s, c) /\ conn[c].at = "held"
  BY <1>1 DEF IInv, Ownership, Mine
<1>3. ASSUME NEW c \in A, conn[c].tx # "none"
      PROVE  conn[c].tx = s
  <2>1. conn[c].tx \in Sessions /\ c \in Slots(sess[conn[c].tx])
    BY <1>1, <1>3 DEF IInv, OpenTxIsHeld, Connection
  <2>2. QED
    BY <1>3, <2>1 DEF IInv, Ownership
<1>4. ASSUME NEW c \in Conns, Plain(conn[c])
      PROVE  /\ conn[c].name.by \in Sessions /\ sess[conn[c].name.by].stmt = c
             /\ c \in Slots(sess[conn[c].name.by])
  <2>1. conn[c].name.by \in Sessions /\ sess[conn[c].name.by].stmt = c
    BY <1>1, <1>4 DEF IInv, PlainIsHeld, Connection, Plain
  <2>2. QED
    BY <2>1, PgConnsAssumption DEF Slots
<1>5. \A c \in A : Plain(conn[c]) => conn[c].name.by = s /\ c = sess[s].stmt
  BY <1>1, <1>4 DEF IInv, Ownership
<1>6. \A c \in Conns : Mine(s, c) /\ c \notin A => conn[c].at # "held" /\ ~Plain(conn[c])
  BY <1>4 DEF Mine, IInv, Ownership
<1>7. QED
  BY <1>1, <1>2, <1>3, <1>5, <1>6 DEF Uses

(* One connection changes. *)
LEMMA UsesTouch ==
  ASSUME NEW s \in Sessions, NEW A, NEW p, NEW cn, Uses(s, A, p, cn),
         NEW c \in Conns, Mine(s, c), NEW B, B \subseteq Conns, B \ {c} = A \ {c},
         NEW cm \in [Conns -> Connection],
         \A d \in Conns : d # c => cm[d] = cn[d],
         ConnectionFit(cm[c]),
         c \in B => /\ cm[c].at = "held" /\ cm[c].tx \in {"none", s}
                    /\ Plain(cm[c]) => cm[c].name.by = s /\ c = p,
         c \notin B => cm[c].at # "held" /\ ~Plain(cm[c])
  PROVE  Uses(s, B, p, cm)
<1>1. \A d \in Conns : ConnectionFit(cm[d])
  BY DEF Uses
<1>2. \A d \in Conns : ~Mine(s, d) => cm[d] = conn[d]
  BY DEF Uses
<1>3. \A d \in B : /\ Mine(s, d) /\ cm[d].at = "held" /\ cm[d].tx \in {"none", s}
                   /\ Plain(cm[d]) => cm[d].name.by = s /\ d = p
  BY DEF Uses
<1>4. \A d \in Conns : Mine(s, d) /\ d \notin B => cm[d].at # "held" /\ ~Plain(cm[d])
  BY DEF Uses
<1>5. QED
  BY <1>1, <1>2, <1>3, <1>4 DEF Uses

(* Another connection becomes the statement connection, once the last one is given up. *)
LEMMA UsesOther ==
  ASSUME NEW s \in Sessions, NEW A, NEW p, NEW cn, Uses(s, A, p, cn), NEW q,
         p \notin A \/ p = q
  PROVE  Uses(s, A, q, cn)
  BY DEF Uses

(* The connection that a session has not, and that the pool gives it. *)
LEMMA GetIsMine ==
  ASSUME NEW s \in Sessions, NEW A, NEW p, NEW cn, Uses(s, A, p, cn),
         NEW c \in Get(cn), c # NoConn
  PROVE  c \in Conns /\ c \notin A /\ Mine(s, c) /\ cn[c].at # "held" /\ cn[c].tx = "none"
         /\ ~Plain(cn[c])
<1>1. c \in Conns /\ cn[c].at \in {"idle", "closed"}
  BY DEF Get
<1>2. cn[c].tx = "none" /\ Mine(s, c) /\ c \notin A
  BY <1>1 DEF Uses, ConnectionFit, Mine
<1>3. QED
  BY <1>1, <1>2 DEF Uses

-----------------------------------------------------------------------------
(* The operations on the connections. *)

(* What a message that is lost leaves. *)
LEMMA BrokenIs ==
  ASSUME NEW x \in Connection, NEW res
  PROVE  /\ Broken(x, res) \in Connection /\ ConnectionFit(Broken(x, res))
         /\ Broken(x, res).at = "held" /\ Broken(x, res).tx = "none"
         /\ ~Broken(x, res).alive /\ ~Plain(Broken(x, res))
  BY DEF Broken, Connection, ConnectionFit, Plain, Unnamed

(* What a message that is answered leaves. *)
LEMMA ServedIs ==
  ASSUME NEW x \in Connection, x.alive, NEW s \in Sessions, NEW k, NEW how \in {"plain", "tx"}
  PROVE  /\ Served(x, s, k, how) \in Connection /\ ConnectionFit(Served(x, s, k, how))
         /\ Served(x, s, k, how).at = "held" /\ Served(x, s, k, how).alive
         /\ x.tx \in {"none", s} => Served(x, s, k, how).tx \in {"none", s}
         /\ k \in Opens /\ x.tx \in {"none", s} => Served(x, s, k, how).tx = s
         /\ k \notin Opens \cup Commits => Served(x, s, k, how).tx = x.tx
         /\ Plain(Served(x, s, k, how)) =>
              \/ Plain(x) /\ Served(x, s, k, how).name = x.name
              \/ k = "parse" /\ how = "plain" /\ Served(x, s, k, how).name.by = s
         /\ k = "deallocate" => ~Plain(Served(x, s, k, how))
<1> DEFINE tx == IF k \in Opens /\ x.tx = "none" THEN s ELSE IF k \in Commits THEN "none" ELSE x.tx
           name == IF k = "parse" /\ x.name = Unnamed THEN [by |-> s, how |-> how]
                   ELSE IF k \in {"close", "deallocate"} THEN Unnamed ELSE x.name
           kn == tx # "none"
           y == [at |-> "held", alive |-> x.alive, tx |-> tx, known |-> kn,
                 healthy |-> x.healthy, name |-> name]
<1>1. y = Served(x, s, k, how)
  BY DEF Served
<1>2. tx \in Sessions \cup {"none"} /\ kn \in BOOLEAN
  BY DEF Connection
<1>3. name \in [by : Sessions \cup {"none"}, how : {"plain", "tx"}]
  BY DEF Connection, Unnamed
<1>4. /\ x.tx \in {"none", s} => tx \in {"none", s}
      /\ k \in Opens /\ x.tx \in {"none", s} => tx = s
      /\ k \notin Opens \cup Commits => tx = x.tx
  BY PgConnsAssumption DEF Opens, Commits
<1>5. /\ name.by # "none" /\ name.how = "plain" =>
           \/ Plain(x) /\ name = x.name
           \/ k = "parse" /\ how = "plain" /\ name.by = s
      /\ k = "deallocate" => name.by = "none"
  BY DEF Plain, Unnamed
<1> HIDE DEF tx, name, kn
<1>6. /\ y \in Connection /\ y.at = "held" /\ y.alive /\ y.tx = tx /\ y.name = name /\ y.known = kn
  BY <1>2, <1>3 DEF Connection
<1> HIDE DEF y
<1>7. ConnectionFit(y)
  BY <1>6 DEF ConnectionFit, kn
<1>8. QED
  BY <1>1, <1>4, <1>5, <1>6, <1>7 DEF Plain

(* A session sends a message on a connection of its own or of the pool. *)
LEMMA UsesRun ==
  ASSUME NEW s \in Sessions, NEW A, NEW p, NEW cn, Uses(s, A, p, cn),
         NEW c \in Conns, Mine(s, c), NEW k, NEW res, NEW how \in {"plain", "tx"},
         res \in Lost \/ cn[c].alive,
         k = "parse" /\ how = "plain" => c = p
  PROVE  /\ Uses(s, A \cup {c}, p, Run(cn, s, k, c, res, how))
         /\ res \in Lost => Run(cn, s, k, c, res, how)[c].tx = "none"
         /\ Run(cn, s, k, c, res, how)[c].alive <=> res \notin Lost
         /\ res \notin Lost /\ k \in Opens => Run(cn, s, k, c, res, how)[c].tx = s
         /\ res \notin Lost /\ k \notin Opens \cup Commits =>
              Run(cn, s, k, c, res, how)[c].tx = cn[c].tx
         /\ k = "deallocate" => ~Plain(Run(cn, s, k, c, res, how)[c])
<1> DEFINE y == IF res \in Lost THEN Broken(cn[c], res) ELSE Served(cn[c], s, k, how)
           cm == Run(cn, s, k, c, res, how)
           B == A \cup {c}
<1>1. /\ cn \in [Conns -> Connection] /\ A \subseteq Conns
      /\ cn[c] \in Connection /\ ConnectionFit(cn[c])
      /\ cn[c].tx \in {"none", s} /\ (Plain(cn[c]) => cn[c].name.by = s /\ c = p)
  BY DEF Uses, ConnectionFit
<1>2. /\ y \in Connection /\ ConnectionFit(y) /\ y.at = "held" /\ y.tx \in {"none", s}
      /\ Plain(y) => y.name.by = s /\ c = p
      /\ res \in Lost => y.tx = "none"
      /\ y.alive <=> res \notin Lost
      /\ res \notin Lost /\ k \in Opens => y.tx = s
      /\ res \notin Lost /\ k \notin Opens \cup Commits => y.tx = cn[c].tx
      /\ k = "deallocate" => ~Plain(y)
  <2>1. CASE res \in Lost
    BY <1>1, <2>1, BrokenIs
  <2>2. CASE res \notin Lost
    BY <1>1, <2>2, ServedIs
  <2>3. QED
    BY <2>1, <2>2
<1>3. cm = [cn EXCEPT ![c] = y]
  BY DEF Run
<1> HIDE DEF y, cm
<1>4. cm \in [Conns -> Connection] /\ cm[c] = y /\ \A d \in Conns : d # c => cm[d] = cn[d]
  BY <1>1, <1>2, <1>3
<1>5. B \subseteq Conns /\ B \ {c} = A \ {c} /\ c \in B
  BY <1>1
<1> HIDE DEF B
<1>6. Uses(s, B, p, cm)
  BY <1>2, <1>4, <1>5, UsesTouch
<1>7. QED
  BY <1>2, <1>4, <1>6 DEF cm, B

(* A connection that was never opened. *)
LEMMA NewConnIs ==
  /\ NewConn \in Connection /\ ConnectionFit(NewConn)
  /\ NewConn.at # "held" /\ ~Plain(NewConn)
<1>1. Unnamed \in [by : Sessions \cup {"none"}, how : {"plain", "tx"}]
  BY DEF Unnamed
<1>2. NewConn \in Connection
  BY <1>1 DEF NewConn, Connection
<1>3. /\ NewConn.at = "closed" /\ NewConn.alive = TRUE /\ NewConn.tx = "none"
      /\ NewConn.known = FALSE /\ NewConn.name = Unnamed
  BY DEF NewConn
<1>4. QED
  BY <1>2, <1>3 DEF ConnectionFit, Plain, Unnamed

(* A connection is closed. *)
LEMMA UsesDrop ==
  ASSUME NEW s \in Sessions, NEW A, NEW p, NEW cn, Uses(s, A, p, cn),
         NEW c \in Conns \cup {NoConn}, c \in A \/ c = NoConn \/ Mine(s, c)
  PROVE  Uses(s, A \ {c}, p, Drop(cn, c))
<1>1. A \subseteq Conns /\ cn \in [Conns -> Connection]
  BY DEF Uses
<1>2. CASE c = NoConn
  <2>1. A \ {c} = A /\ Drop(cn, c) = cn
    BY <1>1, <1>2, PgConnsAssumption DEF Drop
  <2>2. QED
    BY <2>1
<1>3. CASE c # NoConn
  <2> DEFINE B == A \ {c}
             cm == Drop(cn, c)
  <2>1. c \in Conns /\ Mine(s, c)
    BY <1>1, <1>3 DEF Uses
  <2>2. /\ cm \in [Conns -> Connection] /\ cm[c] = NewConn
        /\ \A d \in Conns : d # c => cm[d] = cn[d]
    BY <1>1, <1>3, <2>1, NewConnIs DEF Drop
  <2>3. B \subseteq Conns /\ B \ {c} = A \ {c} /\ c \notin B
    BY <1>1
  <2> HIDE DEF B, cm
  <2>4. Uses(s, B, p, cm)
    BY <2>1, <2>2, <2>3, NewConnIs, UsesTouch
  <2>5. QED
    BY <2>4 DEF B, cm
<1>4. QED
  BY <1>2, <1>3

(* A connection without such a statement goes back to the pool, which closes it when a
   transaction is open on it. *)
LEMMA UsesPut ==
  ASSUME NEW s \in Sessions, NEW A, NEW p, NEW cn, Uses(s, A, p, cn), NEW c \in A \cup {NoConn},
         c \in A => ~Plain(cn[c])
  PROVE  Uses(s, A \ {c}, p, Put(cn, c))
<1>1. A \subseteq Conns /\ cn \in [Conns -> Connection]
  BY DEF Uses
<1>2. CASE c = NoConn
  <2>1. A \ {c} = A /\ Put(cn, c) = cn
    BY <1>1, <1>2, PgConnsAssumption DEF Put
  <2>2. QED
    BY <2>1
<1>3. CASE c # NoConn /\ (cn[c].known \/ ~cn[c].healthy)
  <2>1. Put(cn, c) = Drop(cn, c) /\ c \in Conns
    BY <1>1, <1>3 DEF Put
  <2>2. QED
    BY <2>1, UsesDrop
<1>4. CASE c # NoConn /\ ~cn[c].known /\ cn[c].healthy
  <2> DEFINE B == A \ {c}
             cm == Put(cn, c)
  <2>1. c \in A /\ c \in Conns /\ Mine(s, c) /\ ConnectionFit(cn[c])
    BY <1>1, <1>4 DEF Uses
  <2>2. cm = [cn EXCEPT ![c].at = "idle"]
    BY <1>4 DEF Put
  <2>3. /\ cm \in [Conns -> Connection]
        /\ \A d \in Conns : d # c => cm[d] = cn[d]
        /\ cm[c].at = "idle" /\ cm[c].alive = cn[c].alive /\ cm[c].tx = cn[c].tx
        /\ cm[c].known = cn[c].known /\ cm[c].name = cn[c].name
    BY <1>1, <2>1, <2>2 DEF Connection
  <2>4. B \subseteq Conns /\ B \ {c} = A \ {c} /\ c \notin B
    BY <1>1
  <2> HIDE DEF B, cm
  <2>5. ConnectionFit(cm[c]) /\ ~Plain(cm[c])
    BY <1>4, <2>1, <2>3 DEF ConnectionFit, Plain
  <2>6. Uses(s, B, p, cm)
    BY <2>1, <2>3, <2>4, <2>5, UsesTouch
  <2>7. QED
    BY <2>6 DEF B, cm
<1>5. QED
  BY <1>2, <1>3, <1>4

(* A statement connection goes back to the pool without its statement. *)
LEMMA UsesReleased ==
  ASSUME NEW s \in Sessions, NEW A, NEW p, NEW cn, Uses(s, A, p, cn), NEW c \in A \cup {NoConn}
  PROVE  Uses(s, A \ {c}, p, Released(cn, s, c))
<1>1. A \subseteq Conns /\ cn \in [Conns -> Connection]
  BY DEF Uses
<1>2. CASE c = NoConn
  <2>1. A \ {c} = A /\ Released(cn, s, c) = cn
    BY <1>1, <1>2, PgConnsAssumption DEF Released
  <2>2. QED
    BY <2>1
<1>3. CASE c # NoConn
  <2> DEFINE res == IF cn[c].alive THEN "ok" ELSE "reset"
             cm == Run(cn, s, "deallocate", c, res, "plain")
  <2>1. c \in A /\ c \in Conns /\ Mine(s, c)
    BY <1>1, <1>3 DEF Uses
  <2>2. res \in Lost \/ cn[c].alive
    BY DEF Lost
  <2>3. Released(cn, s, c) = Put(cm, c)
    BY <1>3 DEF Released
  <2> HIDE DEF res
  <2>4. Uses(s, A \cup {c}, p, cm) /\ ~Plain(cm[c])
    BY <2>1, <2>2, UsesRun
  <2>5. A \cup {c} = A
    BY <2>1
  <2> HIDE DEF cm
  <2>6. Uses(s, A, p, cm)
    BY <2>4, <2>5
  <2>7. QED
    BY <2>1, <2>3, <2>4, <2>6, UsesPut
<1>4. QED
  BY <1>2, <1>3

-----------------------------------------------------------------------------
(* What a command of s may do to all the variables. *)
ClientOK(s) ==
  /\ client' \in [Sessions -> {"none", "simple", "extended", "hidden", "savepoint", "sync"}]
  /\ \A t \in Sessions : t # s => client'[t] = client[t]
  /\ client'[s] = "simple" =>
       /\ sess'[s].in_tx /\ sess'[s].tx # NoConn
       /\ conn'[sess'[s].tx].alive => conn'[sess'[s].tx].tx = s

SessOK(s) ==
  \E r : sess' = [sess EXCEPT ![s] = r] /\ SessionFit(r) /\ Uses(s, Slots(r), r.stmt, conn')

RanOK == split' # "simple" /\ mixed' = FALSE /\ foreign' \in {"none", "tx"}

CommandOK(s) == SessOK(s) /\ ClientOK(s) /\ RanOK

(* Such a command keeps the invariant: the other sessions do not notice it. *)
LEMMA CommandKeeps ==
  ASSUME IInv, NEW s \in Sessions, CommandOK(s)
  PROVE  IInv'
<1> PICK r : sess' = [sess EXCEPT ![s] = r] /\ SessionFit(r) /\ Uses(s, Slots(r), r.stmt, conn')
  BY DEF CommandOK, SessOK
<1>1. sess'[s] = r /\ \A t \in Sessions : t # s => sess'[t] = sess[t]
  BY DEF IInv, TypeOK
<1>2. r \in Session /\ Slots(r) \subseteq Conns
  BY SlotsAreConns DEF SessionFit
<1>3. TypeOK'
  BY <1>2 DEF IInv, TypeOK, CommandOK, ClientOK, RanOK, Uses
<1>4. \A t \in Sessions : SessionFit(sess[t])'
  BY <1>1 DEF IInv
<1>5. \A c \in Conns : ConnectionFit(conn[c])'
  BY DEF Uses
<1>6. \A t \in Sessions : t # s => \A c \in Slots(sess[t]) : c \in Conns /\ ~Mine(s, c) /\ conn'[c] = conn[c]
  <2> SUFFICES ASSUME NEW t \in Sessions, t # s, NEW c \in Slots(sess[t])
               PROVE  c \in Conns /\ ~Mine(s, c) /\ conn'[c] = conn[c]
    OBVIOUS
  <2>1. c \in Conns
    BY SlotsAreConns DEF IInv, TypeOK
  <2>2. ~Mine(s, c)
    BY <2>1 DEF Mine, IInv, Ownership
  <2>3. QED
    BY <2>1, <2>2 DEF Uses
<1>7. Ownership'
  <2>1. ASSUME NEW c \in Conns
        PROVE  conn'[c].at = "held" <=> \E t \in Sessions : c \in Slots(sess'[t])
    <3>1. CASE Mine(s, c)
      <4>1. conn'[c].at = "held" <=> c \in Slots(r)
        BY <3>1, <2>1 DEF Uses
      <4>2. \A t \in Sessions : t # s => c \notin Slots(sess'[t])
        BY <3>1, <1>1, <1>6
      <4>3. QED
        BY <4>1, <4>2, <1>1
    <3>2. CASE ~Mine(s, c)
      <4>1. conn'[c] = conn[c] /\ c \notin Slots(r) /\ c \notin Slots(sess[s])
        BY <3>2, <2>1 DEF Uses, Mine
      <4>2. conn[c].at = "held" <=> \E t \in Sessions : c \in Slots(sess[t])
        BY <2>1 DEF IInv, Ownership
      <4>3. QED
        BY <4>1, <4>2, <1>1
    <3>3. QED
      BY <3>1, <3>2
  <2>2. ASSUME NEW t \in Sessions, NEW u \in Sessions, t # u
        PROVE  Slots(sess'[t]) \cap Slots(sess'[u]) = {}
    <3>1. CASE t # s /\ u # s
      BY <2>2, <3>1, <1>1 DEF IInv, Ownership
    <3>2. CASE t = s
      BY <2>2, <3>2, <1>1, <1>6 DEF Uses
    <3>3. CASE u = s
      BY <2>2, <3>3, <1>1, <1>6 DEF Uses
    <3>4. QED
      BY <3>1, <3>2, <3>3
  <2>3. QED
    BY <2>1, <2>2 DEF Ownership
<1>8. OpenTxIsHeld'
  <2> SUFFICES ASSUME NEW c \in Conns, conn'[c].tx # "none"
               PROVE  c \in Slots(sess'[conn'[c].tx])
    BY DEF OpenTxIsHeld
  <2>1. CASE c \in Slots(r)
    BY <2>1, <1>1 DEF Uses
  <2>2. CASE c \notin Slots(r)
    <3>1. conn'[c].at = "held"
      BY DEF Uses, ConnectionFit
    <3>2. ~Mine(s, c) /\ conn'[c] = conn[c]
      BY <2>2, <3>1 DEF Uses
    <3>3. conn[c].tx \in Sessions /\ c \in Slots(sess[conn[c].tx])
      BY <3>2 DEF IInv, TypeOK, OpenTxIsHeld, Connection
    <3>4. QED
      BY <3>2, <3>3, <1>1 DEF Mine
  <2>3. QED
    BY <2>1, <2>2
<1>9. PlainIsHeld'
  <2> SUFFICES ASSUME NEW c \in Conns, Plain(conn'[c])
               PROVE  sess'[conn'[c].name.by].stmt = c
    BY DEF PlainIsHeld, Plain
  <2>1. CASE c \in Slots(r)
    BY <2>1, <1>1 DEF Uses
  <2>2. CASE c \notin Slots(r)
    <3>1. ~Mine(s, c) /\ conn'[c] = conn[c]
      BY <2>2 DEF Uses
    <3> DEFINE t == conn[c].name.by
    <3>2. t \in Sessions /\ sess[t].stmt = c
      BY <3>1 DEF IInv, TypeOK, PlainIsHeld, Connection, Plain
    <3>3. c \in Slots(sess[t])
      BY <3>2, PgConnsAssumption DEF Slots
    <3>4. QED
      BY <3>1, <3>2, <3>3, <1>1 DEF Mine
  <2>3. QED
    BY <2>1, <2>2
<1>10. ToldIsTrue'
  <2> SUFFICES ASSUME NEW t \in Sessions, client'[t] = "simple"
               PROVE  /\ sess'[t].in_tx /\ sess'[t].tx # NoConn
                      /\ conn'[sess'[t].tx].alive => conn'[sess'[t].tx].tx = t
    BY DEF ToldIsTrue
  <2>1. CASE t = s
    BY <2>1 DEF CommandOK, ClientOK
  <2>2. CASE t # s
    <3>1. client[t] = "simple" /\ sess'[t] = sess[t]
      BY <2>2, <1>1 DEF CommandOK, ClientOK
    <3>2. /\ sess[t].in_tx /\ sess[t].tx # NoConn
          /\ conn[sess[t].tx].alive => conn[sess[t].tx].tx = t
      BY <3>1 DEF IInv, ToldIsTrue
    <3>3. conn'[sess[t].tx] = conn[sess[t].tx]
      BY <3>2, <2>2, <1>6 DEF Slots
    <3>4. QED
      BY <3>1, <3>2, <3>3
  <2>3. QED
    BY <2>1, <2>2
<1>11. TxIsolated' /\ OwnStatements'
  BY DEF TxIsolated, OwnStatements, CommandOK, RanOK
<1>12. QED
  BY <1>3, <1>4, <1>5, <1>7, <1>8, <1>9, <1>10, <1>11 DEF IInv

-----------------------------------------------------------------------------
(* Parts of commands. *)

(* How a message on a connection can end. *)
LEMMA AnswersIs ==
  ASSUME NEW cn, NEW c, NEW res \in Answers(cn, c)
  PROVE  /\ res \in Lost \/ cn[c].alive
         /\ res = "ok" <=> cn[c].alive
         /\ res = "ok" <=> res \notin Lost
  BY DEF Answers, Lost

(* A message on a connection of the pool, which goes back. *)
LEMMA UsesOnce ==
  ASSUME NEW s \in Sessions, NEW A, NEW p \in A \cup {NoConn}, NEW cn, Uses(s, A, p, cn),
         NEW c \in Get(cn), c # NoConn, NEW k, k # "parse", NEW res, NEW how \in {"plain", "tx"},
         res \in Lost \/ cn[c].alive
  PROVE  /\ Uses(s, A, p, Put(Run(cn, s, k, c, res, how), c))
         /\ Uses(s, A, p, Drop(Run(cn, s, k, c, res, how), c))
<1> DEFINE cm == Run(cn, s, k, c, res, how)
           B == A \cup {c}
<1>1. c \in Conns /\ Mine(s, c) /\ c \notin A
  BY GetIsMine
<1>2. Uses(s, B, p, cm)
  BY <1>1, UsesRun
<1>3. B \ {c} = A /\ c \in B /\ c # p
  BY <1>1
<1> HIDE DEF B, cm
<1>4. ~Plain(cm[c])
  BY <1>2, <1>3 DEF Uses
<1>5. Uses(s, B \ {c}, p, Put(cm, c))
  BY <1>2, <1>3, <1>4, UsesPut
<1>6. Uses(s, B \ {c}, p, Drop(cm, c))
  BY <1>1, <1>2, UsesDrop
<1>7. QED
  BY <1>3, <1>5, <1>6 DEF cm

(* A statement on a connection that is the session's or the pool's is in no other
   session's transaction, and binds no statement that another session prepared outside
   one. *)
LEMMA ObserveOK ==
  ASSUME NEW s \in Sessions, NEW A, NEW p, NEW cn, Uses(s, A, p, cn),
         NEW c \in Conns, Mine(s, c), NEW k, Observe(cn, s, k, c),
         client[s] = "simple" => k \in Opens \/ ~cn[c].alive \/ cn[c].tx = s
  PROVE  RanOK
<1>1. ConnectionFit(cn[c]) /\ cn[c].tx \in {"none", s} /\ (Plain(cn[c]) => cn[c].name.by = s)
  BY DEF Uses, ConnectionFit
<1>2. cn[c].name.how \in {"plain", "tx"}
  BY <1>1 DEF ConnectionFit, Connection
<1>3. split' # "simple"
  BY DEF Observe
<1>4. mixed' = FALSE
  BY <1>1 DEF Observe
<1>5. foreign' \in {"none", "tx"}
  BY <1>1, <1>2 DEF Observe, Plain
<1>6. QED
  BY <1>3, <1>4, <1>5 DEF RanOK

(* A step that runs nothing. *)
LEMMA UnobservedOK ==
  ASSUME Unobserved
  PROVE  RanOK
  BY DEF Unobserved, RanOK

(* A client believes in a transaction of a simple BEGIN after one that is answered, and
   after an answered statement in one that does not end it. *)
LEMMA ToldIs ==
  ASSUME IInv, NEW s \in Sessions, NEW k, NEW res,
         NEW mode \in {"simple", "extended", "hidden"}, Told(s, k, res, mode)
  PROVE  /\ client' \in [Sessions -> {"none", "simple", "extended", "hidden", "savepoint", "sync"}]
         /\ \A t \in Sessions : t # s => client'[t] = client[t]
         /\ client'[s] = "simple" =>
              /\ res = "ok"
              /\ \/ client[s] = "none" /\ k \in Opens /\ mode = "simple"
                 \/ client[s] = "simple" /\ k \notin Commits \cup {"savepoint"}
<1> DEFINE Told6 == {"none", "simple", "extended", "hidden", "savepoint", "sync"}
           v == CASE res # "ok" -> "none"
                  [] res = "ok" /\ k \in Opens -> IF client[s] = "none" THEN mode ELSE client[s]
                  [] res = "ok" /\ k \in Commits -> "none"
                  [] res = "ok" /\ k = "savepoint" /\ client[s] # "none" -> "savepoint"
                  [] OTHER -> client[s]
<1>1. client \in [Sessions -> Told6]
  BY DEF IInv, TypeOK
<1>2. client' = [client EXCEPT ![s] = v]
  BY DEF Told
<1>3. v \in Told6
  BY <1>1
<1>4. v = "simple" => /\ res = "ok"
                      /\ \/ client[s] = "none" /\ k \in Opens /\ mode = "simple"
                         \/ client[s] = "simple" /\ k \notin Commits \cup {"savepoint"}
  BY <1>1 DEF Opens, Commits
<1> HIDE DEF v
<1>5. QED
  BY <1>1, <1>2, <1>3, <1>4

(* Whoever gets an error, or is not told of a BEGIN, does not begin to believe. *)
LEMMA ToldOutside ==
  ASSUME IInv, NEW s \in Sessions, NEW k, NEW res,
         NEW mode \in {"simple", "extended", "hidden"}, Told(s, k, res, mode),
         res # "ok" \/ (client[s] # "simple" /\ (k \in Opens => mode # "simple"))
  PROVE  ClientOK(s)
<1>1. /\ client' \in [Sessions -> {"none", "simple", "extended", "hidden", "savepoint", "sync"}]
      /\ \A t \in Sessions : t # s => client'[t] = client[t]
      /\ client'[s] # "simple"
  BY ToldIs
<1>2. QED
  BY <1>1 DEF ClientOK

(* Whoever begins or goes on to believe is right when the transaction is open on the
   session's sticky connection. *)
LEMMA ToldInside ==
  ASSUME IInv, NEW s \in Sessions, NEW k, NEW res,
         NEW mode \in {"simple", "extended", "hidden"}, Told(s, k, res, mode), NEW c,
         /\ res = "ok"
         /\ \/ client[s] = "none" /\ k \in Opens /\ mode = "simple"
            \/ client[s] = "simple" /\ k \notin Commits \cup {"savepoint"}
         => sess'[s].in_tx /\ sess'[s].tx = c /\ c # NoConn /\ conn'[c].tx = s
  PROVE  ClientOK(s)
<1>1. /\ client' \in [Sessions -> {"none", "simple", "extended", "hidden", "savepoint", "sync"}]
      /\ \A t \in Sessions : t # s => client'[t] = client[t]
      /\ client'[s] = "simple" =>
              /\ res = "ok"
              /\ \/ client[s] = "none" /\ k \in Opens /\ mode = "simple"
                 \/ client[s] = "simple" /\ k \notin Commits \cup {"savepoint"}
  BY ToldIs
<1>2. QED
  BY <1>1 DEF ClientOK

(* Of a ready session. *)
LEMMA ReadyIs ==
  ASSUME IInv, NEW s \in Sessions, Ready(s)
  PROVE  /\ sess[s] \in Session /\ SessionFit(sess[s]) /\ sess[s].open
         /\ sess[s].wait.for = "none" /\ sess[s].wait.on = NoConn
         /\ Slots(sess[s]) = {sess[s].tx, sess[s].stmt} \ {NoConn}
         /\ conn \in [Conns -> Connection]
         /\ sess[s].tx \in Conns \cup {NoConn} /\ sess[s].stmt \in Conns \cup {NoConn}
         /\ Uses(s, Slots(sess[s]), sess[s].stmt, conn)
         /\ client[s] = "simple" =>
              /\ sess[s].in_tx /\ sess[s].tx # NoConn
              /\ conn[sess[s].tx].alive => conn[sess[s].tx].tx = s
<1>1. /\ SessionFit(sess[s]) /\ sess[s] \in Session /\ sess[s].open
      /\ sess[s].wait.for = "none" /\ conn \in [Conns -> Connection]
  BY DEF Ready, IInv, TypeOK
<1>2. sess[s].wait.on = NoConn
  BY <1>1 DEF SessionFit
<1>3. Slots(sess[s]) = {sess[s].tx, sess[s].stmt} \ {NoConn}
  BY <1>2 DEF Slots
<1>4. sess[s].tx \in Conns \cup {NoConn} /\ sess[s].stmt \in Conns \cup {NoConn}
  BY <1>1 DEF Session
<1>5. client[s] = "simple" =>
              /\ sess[s].in_tx /\ sess[s].tx # NoConn
              /\ conn[sess[s].tx].alive => conn[sess[s].tx].tx = s
  BY DEF IInv, ToldIsTrue
<1>6. QED
  BY <1>1, <1>2, <1>3, <1>4, <1>5, UsesSelf

(* A loop that waits for its client. *)
Rest(r) ==
  /\ r \in Session /\ r.open /\ r.wait = NotWaiting
  /\ r.stmt # NoConn => r.stmt # r.tx

(* Such a loop fits, and has at most two connections. *)
LEMMA RestFits ==
  ASSUME NEW r, Rest(r)
  PROVE  SessionFit(r) /\ Slots(r) = {r.tx, r.stmt} \ {NoConn} /\ Slots(r) \subseteq Conns
<1>1. r.wait.on = NoConn /\ r.wait.for = "none"
  BY DEF Rest, NotWaiting
<1>2. SessionFit(r)
  BY <1>1 DEF Rest, SessionFit
<1>3. QED
  BY <1>1, <1>2, SlotsAreConns DEF Rest, Slots

(* A ready session waits for its client. *)
LEMMA ReadyRests ==
  ASSUME IInv, NEW s \in Sessions, Ready(s)
  PROVE  Rest(sess[s])
<1>1. /\ sess[s] \in Session /\ SessionFit(sess[s]) /\ sess[s].open
      /\ sess[s].wait.for = "none" /\ sess[s].wait.on = NoConn
  BY ReadyIs
<1>2. sess[s].wait = NotWaiting
  BY <1>1 DEF Session, Waiting, NotWaiting
<1>3. QED
  BY <1>1, <1>2 DEF Rest, SessionFit

(* The sticky connection is not the one with such a statement. *)
LEMMA TxNotPlain ==
  ASSUME NEW s \in Sessions, NEW r, Rest(r), NEW cn, Uses(s, Slots(r), r.stmt, cn), r.tx # NoConn
  PROVE  r.tx \in Slots(r) /\ ~Plain(cn[r.tx])
<1>1. r.tx \in Slots(r) /\ r.tx # r.stmt
  BY RestFits DEF Rest
<1>2. QED
  BY <1>1 DEF Uses

(* The session gives up its sticky connection. *)
LEMMA GiveUpTx ==
  ASSUME NEW s \in Sessions, NEW r, Rest(r), NEW cn, Uses(s, Slots(r), r.stmt, cn),
         NEW q, Rest(q), q.tx = NoConn, q.stmt = r.stmt
  PROVE  /\ Uses(s, Slots(q), q.stmt, Put(cn, r.tx))
         /\ Uses(s, Slots(q), q.stmt, Drop(cn, r.tx))
<1>1. /\ Slots(r) = {r.tx, r.stmt} \ {NoConn} /\ Slots(q) = {q.tx, q.stmt} \ {NoConn}
      /\ Slots(r) \subseteq Conns
  BY RestFits
<1>2. Slots(q) = Slots(r) \ {r.tx}
  BY <1>1 DEF Rest
<1>3. r.tx \in Slots(r) \cup {NoConn} /\ r.tx \in Conns \cup {NoConn}
  BY <1>1 DEF Rest, Session
<1>4. r.tx \in Slots(r) => ~Plain(cn[r.tx])
  BY <1>1, TxNotPlain
<1>5. Uses(s, Slots(r) \ {r.tx}, r.stmt, Put(cn, r.tx))
  BY <1>3, <1>4, UsesPut
<1>6. Uses(s, Slots(r) \ {r.tx}, r.stmt, Drop(cn, r.tx))
  BY <1>3, UsesDrop
<1>7. QED
  BY <1>2, <1>5, <1>6

(* What the answer to a simple query does to the session. *)
LEMMA SettleOK ==
  ASSUME IInv, NEW s \in Sessions, NEW r, Rest(r), NEW cn, Uses(s, Slots(r), r.stmt, cn),
         NEW k, NEW res, NEW inTx \in BOOLEAN, Settle(s, r, cn, k, res, inTx)
  PROVE  /\ SessOK(s)
         /\ k \notin Ends /\ res = "ok" /\ inTx =>
              sess'[s].in_tx /\ sess'[s].tx = r.tx /\ conn' = cn
<1> DEFINE e == Settled(r, cn, k, res, inTx)
           q == [r EXCEPT !.in_tx = FALSE, !.tx = NoConn]
           p == [r EXCEPT !.in_tx = TRUE]
<1>1. sess' = [sess EXCEPT ![s] = e.r] /\ conn' = e.cn
  BY DEF Settle
<1>2. \/ e = [r |-> q, cn |-> Put(cn, r.tx)]
      \/ e = [r |-> q, cn |-> Drop(cn, r.tx)]
      \/ e = [r |-> p, cn |-> cn]
      \/ e = [r |-> r, cn |-> cn]
  BY DEF Settled
<1>3. k \notin Ends /\ res = "ok" /\ inTx => e = [r |-> p, cn |-> cn]
  BY DEF Settled
<1> HIDE DEF e
<1>4. /\ q \in Session /\ q.open = r.open /\ q.wait = r.wait /\ q.stmt = r.stmt /\ q.tx = NoConn
      /\ p \in Session /\ p.open = r.open /\ p.wait = r.wait /\ p.stmt = r.stmt /\ p.tx = r.tx /\ p.in_tx
  BY DEF Rest, Session
<1> HIDE DEF q, p
<1>5. Rest(q) /\ Rest(p)
  BY <1>4 DEF Rest
<1>6. /\ Uses(s, Slots(q), q.stmt, Put(cn, r.tx))
      /\ Uses(s, Slots(q), q.stmt, Drop(cn, r.tx))
  BY <1>4, <1>5, GiveUpTx
<1>7. Slots(p) = Slots(r)
  BY <1>4 DEF Slots
<1>8. Uses(s, Slots(p), p.stmt, cn)
  BY <1>4, <1>7
<1>9. SessOK(s)
  <2>1. SessionFit(q) /\ SessionFit(p) /\ SessionFit(r)
    BY <1>5, RestFits
  <2>2. CASE e = [r |-> q, cn |-> Put(cn, r.tx)] \/ e = [r |-> q, cn |-> Drop(cn, r.tx)]
    <3>1. e.r = q /\ e.cn \in {Put(cn, r.tx), Drop(cn, r.tx)}
      BY <2>2
    <3>2. QED
      BY <1>1, <1>6, <2>1, <3>1 DEF SessOK
  <2>3. CASE e = [r |-> p, cn |-> cn]
    <3>1. e.r = p /\ e.cn = cn
      BY <2>3
    <3>2. QED
      BY <1>1, <1>8, <2>1, <3>1 DEF SessOK
  <2>4. CASE e = [r |-> r, cn |-> cn]
    <3>1. e.r = r /\ e.cn = cn
      BY <2>4
    <3>2. QED
      BY <1>1, <2>1, <3>1 DEF SessOK
  <2>5. QED
    BY <1>2, <2>2, <2>3, <2>4
<1>10. ASSUME k \notin Ends, res = "ok", inTx
       PROVE  sess'[s].in_tx /\ sess'[s].tx = r.tx /\ conn' = cn
  <2>1. e.r = p /\ e.cn = cn
    BY <1>3, <1>10
  <2>2. sess'[s] = p
    BY <1>1, <2>1 DEF IInv, TypeOK
  <2>3. QED
    BY <1>1, <1>4, <2>1, <2>2
<1>11. QED
  BY <1>9, <1>10

(* The session with a sticky connection of its own or of the pool. *)
LEMMA TakeTx ==
  ASSUME NEW s \in Sessions, NEW r, Rest(r), NEW cn, Uses(s, Slots(r), r.stmt, cn),
         NEW c \in (IF r.tx # NoConn THEN {r.tx} ELSE Get(cn)), c # NoConn,
         NEW q \in Session, q.open, q.wait = NotWaiting, q.tx = c, q.stmt = r.stmt
  PROVE  c \in Conns /\ Mine(s, c) /\ Rest(q) /\ Slots(q) = Slots(r) \cup {c}
<1>1. Slots(r) = {r.tx, r.stmt} \ {NoConn} /\ Slots(r) \subseteq Conns
  BY RestFits
<1>2. c \in Conns /\ Mine(s, c) /\ (r.tx = NoConn => c \notin Slots(r)) /\ (r.tx # NoConn => c = r.tx)
  <2>1. CASE r.tx # NoConn
    BY <1>1, <2>1 DEF Uses
  <2>2. CASE r.tx = NoConn
    BY <2>2, GetIsMine
  <2>3. QED
    BY <2>1, <2>2
<1>3. r.stmt # NoConn => r.stmt # c
  BY <1>1, <1>2 DEF Rest
<1>4. Rest(q)
  BY <1>3 DEF Rest
<1>5. Slots(q) = {q.tx, q.stmt} \ {NoConn}
  BY <1>4, RestFits
<1>6. QED
  BY <1>1, <1>2, <1>4, <1>5

-----------------------------------------------------------------------------
(* Connecting and leaving. *)

(* A new session, and one that has ended. *)
LEMMA NewIs ==
  /\ Rest(NewSession) /\ NewSession.tx = NoConn /\ NewSession.stmt = NoConn
  /\ SessionFit([NewSession EXCEPT !.open = FALSE])
  /\ Slots([NewSession EXCEPT !.open = FALSE]) = {}
  /\ [NewSession EXCEPT !.open = FALSE].stmt = NoConn
  /\ ~[NewSession EXCEPT !.open = FALSE].in_tx
<1> DEFINE q == [NewSession EXCEPT !.open = FALSE]
<1>1. NotWaiting \in Waiting
  BY DEF NotWaiting, Waiting
<1>2. /\ NewSession \in Session /\ NewSession.open /\ NewSession.wait = NotWaiting
      /\ NewSession.tx = NoConn /\ NewSession.stmt = NoConn
  BY <1>1 DEF NewSession, Session
<1>3. /\ q \in Session /\ q.wait = NotWaiting /\ q.tx = NoConn /\ q.stmt = NoConn
      /\ ~q.in_tx /\ ~q.open
  BY <1>1 DEF NewSession, Session
<1> HIDE DEF q
<1>4. q.wait.on = NoConn /\ q.wait.for = "none"
  BY <1>3 DEF NotWaiting
<1>5. Slots(q) = {}
  BY <1>3, <1>4 DEF Slots
<1>6. SessionFit(q)
  BY <1>3, <1>4, <1>5 DEF SessionFit
<1>7. QED
  BY <1>2, <1>3, <1>5, <1>6 DEF q, Rest

(* The statements of the user run on a connection of the pool. *)
LEMMA ConnectOK ==
  ASSUME IInv, NEW s \in Sessions, Connect(s)
  PROVE  CommandOK(s)
<1> DEFINE o == sess[s]
<1>1. /\ ~o.open /\ sess' = [sess EXCEPT ![s] = NewSession] /\ client' = client
  BY DEF Connect
<1>2. o \in Session /\ Slots(o) = {} /\ ~o.in_tx
  BY <1>1 DEF IInv, TypeOK, SessionFit
<1>3. Uses(s, {}, NoConn, conn)
  <2>1. Uses(s, {}, o.stmt, conn)
    BY <1>2, UsesSelf
  <2>2. QED
    BY <2>1, UsesOther
<1>4. /\ SessionFit(NewSession) /\ Slots(NewSession) = {} /\ NewSession.stmt = NoConn
  BY NewIs, RestFits
<1>5. ClientOK(s)
  <2>1. client[s] # "simple"
    BY <1>2 DEF IInv, ToldIsTrue
  <2>2. QED
    BY <1>1, <2>1 DEF ClientOK, IInv, TypeOK
<1>6. PICK c \in Get(conn) :
        \/ c = NoConn /\ UNCHANGED conn /\ Unobserved
        \/ /\ c # NoConn
           /\ \E res \in Answers(conn, c) : conn' = Put(Run(conn, s, "set", c, res, "plain"), c)
           /\ Observe(conn, s, "set", c)
  BY DEF Connect
<1>7. CASE c = NoConn /\ UNCHANGED conn /\ Unobserved
  <2>1. RanOK
    BY <1>7, UnobservedOK
  <2>2. SessOK(s)
    BY <1>1, <1>3, <1>4, <1>7 DEF SessOK
  <2>3. QED
    BY <1>5, <2>1, <2>2 DEF CommandOK
<1>8. CASE /\ c # NoConn
           /\ \E res \in Answers(conn, c) : conn' = Put(Run(conn, s, "set", c, res, "plain"), c)
           /\ Observe(conn, s, "set", c)
  <2>1. PICK res \in Answers(conn, c) : conn' = Put(Run(conn, s, "set", c, res, "plain"), c)
    BY <1>8
  <2>2. res \in Lost \/ conn[c].alive
    BY AnswersIs
  <2>3. Uses(s, {}, NoConn, conn')
    BY <1>3, <1>8, <2>1, <2>2, UsesOnce
  <2>4. c \in Conns /\ Mine(s, c)
    BY <1>3, <1>8, GetIsMine
  <2>5. client[s] # "simple"
    BY <1>2 DEF IInv, ToldIsTrue
  <2>6. RanOK
    BY <1>3, <1>8, <2>4, <2>5, ObserveOK
  <2>7. SessOK(s)
    BY <1>1, <1>4, <2>3 DEF SessOK
  <2>8. QED
    BY <1>5, <2>6, <2>7 DEF CommandOK
<1>9. QED
  BY <1>6, <1>7, <1>8

(* The loop ends. *)
LEMMA EndedOK ==
  ASSUME IInv, NEW s \in Sessions, sess[s].open, sess[s].wait.for \in {"none", "sync"},
         Ended(s, conn, sess[s]), Unobserved
  PROVE  CommandOK(s)
<1> DEFINE o == sess[s]
           q == [NewSession EXCEPT !.open = FALSE]
           A == Slots(o)
           cm == Put(conn, o.tx)
<1>1. /\ sess' = [sess EXCEPT ![s] = q] /\ conn' = Released(cm, s, o.stmt)
      /\ client' = [client EXCEPT ![s] = "none"]
  BY DEF Ended
<1>2. SessionFit(o) /\ o \in Session /\ Uses(s, A, o.stmt, conn)
  BY UsesSelf DEF IInv, TypeOK
<1>3. A = {o.tx, o.stmt} \ {NoConn} /\ (o.stmt # NoConn => o.stmt # o.tx)
  BY <1>2 DEF SessionFit, Slots
<1> HIDE DEF A, cm
<1>4. o.tx \in A \cup {NoConn} /\ (o.tx \in A => ~Plain(conn[o.tx]))
  BY <1>2, <1>3 DEF Uses
<1>5. Uses(s, A \ {o.tx}, o.stmt, cm)
  BY <1>2, <1>4, UsesPut DEF cm
<1>6. o.stmt \in (A \ {o.tx}) \cup {NoConn}
  BY <1>3
<1>7. Uses(s, (A \ {o.tx}) \ {o.stmt}, o.stmt, Released(cm, s, o.stmt))
  BY <1>5, <1>6, UsesReleased
<1>8. (A \ {o.tx}) \ {o.stmt} = {}
  BY <1>3
<1>9. Uses(s, {}, NoConn, conn')
  <2>1. Uses(s, {}, o.stmt, conn')
    BY <1>1, <1>7, <1>8
  <2>2. QED
    BY <2>1, UsesOther
<1>10. SessOK(s)
  <2>1. SessionFit(q) /\ Slots(q) = {} /\ q.stmt = NoConn
    BY NewIs
  <2> HIDE DEF q
  <2>2. QED
    BY <1>1, <1>9, <2>1 DEF SessOK
<1>11. ClientOK(s)
  <2>1. client'[s] = "none"
    BY <1>1 DEF IInv, TypeOK
  <2>2. QED
    BY <1>1, <2>1 DEF ClientOK, IInv, TypeOK
<1>12. QED
  BY <1>10, <1>11, UnobservedOK DEF CommandOK

-----------------------------------------------------------------------------
(* Simple queries. *)

(* BEGIN marks the session. *)
LEMMA BegunIs ==
  ASSUME NEW s \in Sessions, Rest(sess[s]), NEW k
  PROVE  /\ Rest(Begun(s, k)) /\ Begun(s, k).tx = sess[s].tx /\ Begun(s, k).stmt = sess[s].stmt
         /\ Slots(Begun(s, k)) = Slots(sess[s])
         /\ Begun(s, k).in_tx <=> (sess[s].in_tx \/ k = "begin")
<1> DEFINE o == sess[s]
           r == Begun(s, k)
<1>1. /\ r \in Session /\ r.open = o.open /\ r.wait = o.wait /\ r.tx = o.tx /\ r.stmt = o.stmt
      /\ r.in_tx <=> (o.in_tx \/ k = "begin")
  BY DEF Begun, Rest, Session
<1> HIDE DEF r
<1>2. Rest(r)
  BY <1>1 DEF Rest
<1>3. Slots(r) = Slots(o)
  BY <1>1 DEF Slots
<1>4. QED
  BY <1>1, <1>2, <1>3 DEF r

(* A query in a transaction. *)
LEMMA StickyQueryOK ==
  ASSUME IInv, NEW s \in Sessions, NEW k \in Simple, StickyQuery(s, k)
  PROVE  CommandOK(s)
<1> DEFINE o == sess[s]
           r == Begun(s, k)
<1>1. Ready(s) /\ r.in_tx
  BY DEF StickyQuery
<1>2. /\ Rest(o) /\ Uses(s, Slots(o), o.stmt, conn) /\ conn \in [Conns -> Connection]
      /\ client[s] = "simple" => /\ o.in_tx /\ o.tx # NoConn
                                 /\ conn[o.tx].alive => conn[o.tx].tx = s
  BY <1>1, ReadyIs, ReadyRests
<1>3. /\ Rest(r) /\ r.tx = o.tx /\ r.stmt = o.stmt /\ Slots(r) = Slots(o)
  BY <1>2, BegunIs
<1>4. Uses(s, Slots(r), r.stmt, conn)
  BY <1>2, <1>3
<1>5. PICK c \in IF r.tx # NoConn THEN {r.tx} ELSE Get(conn) :
        \/ /\ c = NoConn
           /\ Settle(s, r, conn, k, "none", FALSE)
           /\ Told(s, k, "none", "simple") /\ Unobserved
        \/ /\ c # NoConn
           /\ \E res \in Answers(conn, c) :
                /\ Settle(s, [r EXCEPT !.tx = c], Run(conn, s, k, c, res, "tx"), k, res,
                          Run(conn, s, k, c, res, "tx")[c].tx # "none")
                /\ Told(s, k, res, ModeOf(k)) /\ Observe(conn, s, k, c)
  BY DEF StickyQuery
<1>6. ModeOf(k) \in {"simple", "extended", "hidden"} /\ (k \in Simple /\ ModeOf(k) = "simple" /\ k \in Opens => k = "begin")
  BY DEF ModeOf, Simple, Opens
<1> HIDE DEF r
<1>7. CASE /\ c = NoConn
           /\ Settle(s, r, conn, k, "none", FALSE)
           /\ Told(s, k, "none", "simple") /\ Unobserved
  <2>1. SessOK(s)
    BY <1>3, <1>4, <1>7, SettleOK
  <2>2. ClientOK(s)
    BY <1>7, ToldOutside
  <2>3. QED
    BY <1>7, <2>1, <2>2, UnobservedOK DEF CommandOK
<1>8. CASE /\ c # NoConn
           /\ \E res \in Answers(conn, c) :
                /\ Settle(s, [r EXCEPT !.tx = c], Run(conn, s, k, c, res, "tx"), k, res,
                          Run(conn, s, k, c, res, "tx")[c].tx # "none")
                /\ Told(s, k, res, ModeOf(k)) /\ Observe(conn, s, k, c)
  <2>1. PICK res \in Answers(conn, c) :
                /\ Settle(s, [r EXCEPT !.tx = c], Run(conn, s, k, c, res, "tx"), k, res,
                          Run(conn, s, k, c, res, "tx")[c].tx # "none")
                /\ Told(s, k, res, ModeOf(k)) /\ Observe(conn, s, k, c)
    BY <1>8
  <2> DEFINE q == [r EXCEPT !.tx = c]
             cm == Run(conn, s, k, c, res, "tx")
             inTx == cm[c].tx # "none"
  <2>2. (res \in Lost \/ conn[c].alive) /\ (res = "ok" <=> conn[c].alive) /\ (res = "ok" <=> res \notin Lost)
    BY AnswersIs
  <2>3. c \in Conns
    <3>1. CASE r.tx # NoConn
      BY <1>3, <3>1 DEF Rest, Session
    <3>2. CASE r.tx = NoConn
      BY <1>4, <1>8, <3>2, GetIsMine
    <3>3. QED
      BY <3>1, <3>2
  <2>4. q \in Session /\ q.open /\ q.wait = NotWaiting /\ q.tx = c /\ q.stmt = r.stmt
    BY <1>3, <2>3 DEF Rest, Session
  <2>5. Settle(s, q, cm, k, res, inTx) /\ Told(s, k, res, ModeOf(k)) /\ Observe(conn, s, k, c)
    BY <2>1
  <2> HIDE DEF q
  <2>6. Mine(s, c) /\ Rest(q) /\ Slots(q) = Slots(r) \cup {c}
    BY <1>3, <1>4, <1>8, <2>4, TakeTx
  <2>7. /\ Uses(s, Slots(r) \cup {c}, r.stmt, cm)
        /\ res \notin Lost /\ k \in Opens => cm[c].tx = s
        /\ res \notin Lost /\ k \notin Opens \cup Commits => cm[c].tx = conn[c].tx
    BY <1>4, <2>2, <2>3, <2>6, UsesRun
  <2>8. inTx \in BOOLEAN /\ (cm[c].tx = s => inTx)
    BY PgConnsAssumption
  <2> HIDE DEF cm, inTx
  <2>9. Uses(s, Slots(q), q.stmt, cm)
    BY <2>4, <2>6, <2>7
  <2>10. /\ SessOK(s)
         /\ k \notin Ends /\ res = "ok" /\ inTx =>
              sess'[s].in_tx /\ sess'[s].tx = q.tx /\ conn' = cm
    BY <2>5, <2>6, <2>8, <2>9, SettleOK
  <2>11. client[s] = "simple" => c = o.tx /\ (conn[c].alive => conn[c].tx = s)
    BY <1>2, <1>3
  <2>12. ASSUME res = "ok",
                \/ client[s] = "none" /\ k \in Opens /\ ModeOf(k) = "simple"
                \/ client[s] = "simple" /\ k \notin Commits \cup {"savepoint"}
         PROVE  sess'[s].in_tx /\ sess'[s].tx = c /\ c # NoConn /\ conn'[c].tx = s
    <3>1. cm[c].tx = s
      BY <2>2, <2>7, <2>11, <2>12
    <3>2. k \notin Ends
      BY <1>6, <2>12 DEF Ends, Commits
    <3>3. QED
      BY <1>8, <2>4, <2>8, <2>10, <2>12, <3>1, <3>2
  <2>13. ClientOK(s)
    BY <1>6, <2>5, <2>12, ToldInside
  <2>14. RanOK
    BY <1>4, <2>3, <2>5, <2>6, <2>11, ObserveOK
  <2>15. QED
    BY <2>10, <2>13, <2>14 DEF CommandOK
<1>9. QED
  BY <1>5, <1>7, <1>8

(* A query outside of a transaction that fails. *)
LEMMA QueryFailsOK ==
  ASSUME IInv, NEW s \in Sessions, NEW k, Rest(sess[s]), NEW cn,
         Uses(s, Slots(sess[s]), sess[s].stmt, cn), QueryFails(s, k, cn)
  PROVE  CommandOK(s)
<1> DEFINE r == Begun(s, k)
<1>1. Settle(s, r, cn, k, "none", FALSE) /\ Told(s, k, "none", "simple") /\ Unobserved
  BY DEF QueryFails
<1>2. Rest(r) /\ r.stmt = sess[s].stmt /\ Slots(r) = Slots(sess[s])
  BY BegunIs
<1> HIDE DEF r
<1>3. SessOK(s)
  BY <1>1, <1>2, SettleOK
<1>4. ClientOK(s)
  BY <1>1, ToldOutside
<1>5. QED
  BY <1>1, <1>3, <1>4, UnobservedOK DEF CommandOK

(* A query outside of a transaction that is answered. *)
LEMMA QueryWorksOK ==
  ASSUME IInv, NEW s \in Sessions, NEW k \in Simple, k # "begin", Rest(sess[s]), NEW cn,
         Uses(s, Slots(sess[s]), sess[s].stmt, cn), client[s] # "simple",
         NEW c \in Get(cn), c # NoConn, cn[c].alive, QueryWorks(s, k, cn, c)
  PROVE  CommandOK(s)
<1> DEFINE o == sess[s]
           r == Begun(s, k)
           ran == Run(cn, s, k, c, "ok", "plain")
           cm == Put(ran, c)
           inTx == ran[c].tx # "none"
<1>1. Settle(s, r, cm, k, "ok", inTx) /\ Told(s, k, "ok", ModeOf(k)) /\ Observe(cn, s, k, c)
  BY DEF QueryWorks
<1>2. Rest(r) /\ r.stmt = o.stmt /\ Slots(r) = Slots(o)
  BY BegunIs
<1>3. o.stmt \in Slots(o) \cup {NoConn} /\ k # "parse" /\ inTx \in BOOLEAN
  BY RestFits DEF Simple
<1>4. Uses(s, Slots(o), o.stmt, cm)
  BY <1>3, UsesOnce
<1>5. c \in Conns /\ Mine(s, c)
  BY GetIsMine
<1> HIDE DEF r, cm, inTx, ran
<1>6. SessOK(s)
  BY <1>1, <1>2, <1>3, <1>4, SettleOK
<1>7. ModeOf(k) \in {"simple", "extended", "hidden"} /\ (k \in Opens => ModeOf(k) # "simple")
  BY DEF ModeOf, Simple, Opens
<1>8. ClientOK(s)
  BY <1>1, <1>7, ToldOutside
<1>9. RanOK
  BY <1>1, <1>5, ObserveOK
<1>10. QED
  BY <1>6, <1>8, <1>9 DEF CommandOK

(* A query outside of a transaction, with its one retry. *)
LEMMA PooledQueryOK ==
  ASSUME IInv, NEW s \in Sessions, NEW k \in Simple, PooledQuery(s, k)
  PROVE  CommandOK(s)
<1> DEFINE o == sess[s]
           A == Slots(o)
<1>1. Ready(s) /\ ~Begun(s, k).in_tx
  BY DEF PooledQuery
<1>2. /\ Rest(o) /\ Uses(s, A, o.stmt, conn) /\ conn \in [Conns -> Connection]
      /\ client[s] = "simple" => o.in_tx
  BY <1>1, ReadyIs, ReadyRests
<1>3. client[s] # "simple" /\ k # "begin"
  BY <1>1, <1>2, BegunIs
<1>4. PICK c \in Get(conn) :
       \/ c = NoConn /\ QueryFails(s, k, conn)
       \/ c # NoConn /\ conn[c].alive /\ QueryWorks(s, k, conn, c)
       \/ /\ c # NoConn /\ ~conn[c].alive
          /\ \E d \in Get(Drop(conn, c)) :
               \/ d = NoConn /\ QueryFails(s, k, Drop(conn, c))
               \/ d # NoConn /\ ~Drop(conn, c)[d].alive /\ QueryFails(s, k, Drop(Drop(conn, c), d))
               \/ d # NoConn /\ Drop(conn, c)[d].alive /\ QueryWorks(s, k, Drop(conn, c), d)
  BY DEF PooledQuery
<1>5. CASE c = NoConn /\ QueryFails(s, k, conn)
  BY <1>2, <1>5, QueryFailsOK
<1>6. CASE c # NoConn /\ conn[c].alive /\ QueryWorks(s, k, conn, c)
  BY <1>2, <1>3, <1>6, QueryWorksOK
<1>7. CASE /\ c # NoConn /\ ~conn[c].alive
           /\ \E d \in Get(Drop(conn, c)) :
               \/ d = NoConn /\ QueryFails(s, k, Drop(conn, c))
               \/ d # NoConn /\ ~Drop(conn, c)[d].alive /\ QueryFails(s, k, Drop(Drop(conn, c), d))
               \/ d # NoConn /\ Drop(conn, c)[d].alive /\ QueryWorks(s, k, Drop(conn, c), d)
  <2> DEFINE cn == Drop(conn, c)
  <2>1. c \in Conns /\ Mine(s, c) /\ c \notin A
    BY <1>2, <1>7, GetIsMine
  <2>2. Uses(s, A, o.stmt, cn)
    <3>1. A \ {c} = A
      BY <2>1
    <3>2. Uses(s, A \ {c}, o.stmt, cn)
      BY <1>2, <2>1, UsesDrop
    <3>3. QED
      BY <3>1, <3>2
  <2>3. PICK d \in Get(cn) :
               \/ d = NoConn /\ QueryFails(s, k, cn)
               \/ d # NoConn /\ ~cn[d].alive /\ QueryFails(s, k, Drop(cn, d))
               \/ d # NoConn /\ cn[d].alive /\ QueryWorks(s, k, cn, d)
    BY <1>7
  <2> HIDE DEF cn
  <2>4. CASE d = NoConn /\ QueryFails(s, k, cn)
    BY <1>2, <2>2, <2>4, QueryFailsOK
  <2>5. CASE d # NoConn /\ ~cn[d].alive /\ QueryFails(s, k, Drop(cn, d))
    <3>1. d \in Conns /\ Mine(s, d) /\ A \ {d} = A
      BY <2>2, <2>5, GetIsMine
    <3>2. Uses(s, A \ {d}, o.stmt, Drop(cn, d))
      BY <2>2, <3>1, UsesDrop
    <3>3. Uses(s, A, o.stmt, Drop(cn, d))
      BY <3>1, <3>2
    <3>4. QED
      BY <1>2, <2>5, <3>3, QueryFailsOK
  <2>6. CASE d # NoConn /\ cn[d].alive /\ QueryWorks(s, k, cn, d)
    BY <1>2, <1>3, <2>2, <2>6, QueryWorksOK
  <2>7. QED
    BY <2>3, <2>4, <2>5, <2>6
<1>8. QED
  BY <1>4, <1>5, <1>6, <1>7

(* A meta-command, in a transaction and outside. *)
LEMMA MetaOK ==
  ASSUME IInv, NEW s \in Sessions, MetaCommand(s)
  PROVE  CommandOK(s)
<1> DEFINE o == sess[s]
           A == Slots(o)
<1>1. Ready(s)
  BY DEF MetaCommand
<1>2. /\ Rest(o) /\ Uses(s, A, o.stmt, conn) /\ conn \in [Conns -> Connection]
      /\ client[s] = "simple" => /\ o.in_tx /\ o.tx # NoConn
                                 /\ conn[o.tx].alive => conn[o.tx].tx = s
  BY <1>1, ReadyIs, ReadyRests
<1>3. PICK c \in IF o.in_tx /\ o.tx # NoConn THEN {o.tx} ELSE Get(conn) \ {NoConn} :
      \E res \in Answers(conn, c) :
        /\ sess' = [sess EXCEPT ![s].tx = IF o.in_tx THEN c ELSE @]
        /\ conn' = IF o.in_tx THEN Run(conn, s, "work", c, res, "tx")
                   ELSE IF res = "ok" THEN Put(Run(conn, s, "work", c, res, "tx"), c)
                   ELSE Drop(Run(conn, s, "work", c, res, "tx"), c)
        /\ Told(s, "work", IF o.in_tx THEN res ELSE "ok", "simple")
        /\ Observe(conn, s, "work", c)
  BY DEF MetaCommand
<1>4. PICK res \in Answers(conn, c) :
        /\ sess' = [sess EXCEPT ![s].tx = IF o.in_tx THEN c ELSE @]
        /\ conn' = IF o.in_tx THEN Run(conn, s, "work", c, res, "tx")
                   ELSE IF res = "ok" THEN Put(Run(conn, s, "work", c, res, "tx"), c)
                   ELSE Drop(Run(conn, s, "work", c, res, "tx"), c)
        /\ Told(s, "work", IF o.in_tx THEN res ELSE "ok", "simple")
        /\ Observe(conn, s, "work", c)
  BY <1>3
<1> DEFINE q == [o EXCEPT !.tx = IF o.in_tx THEN c ELSE o.tx]
           cm == Run(conn, s, "work", c, res, "tx")
<1>5. sess' = [sess EXCEPT ![s] = q]
  BY <1>4
<1>6. (res \in Lost \/ conn[c].alive) /\ (res = "ok" <=> conn[c].alive) /\ (res = "ok" <=> res \notin Lost)
  BY AnswersIs
<1>7. c # NoConn /\ "work" \notin Opens \cup Commits
  BY <1>3 DEF Opens, Commits
<1>8. c \in Conns /\ Mine(s, c)
  <2>1. CASE o.in_tx /\ o.tx # NoConn
    <3>1. c \in A
      BY <1>2, <1>3, <2>1, RestFits
    <3>2. QED
      BY <1>2, <3>1 DEF Uses
  <2>2. CASE ~(o.in_tx /\ o.tx # NoConn)
    <3>1. c \in Get(conn)
      BY <1>3, <2>2
    <3>2. QED
      BY <1>2, <1>7, <3>1, GetIsMine
  <2>3. QED
    BY <2>1, <2>2
<1>9. client[s] = "simple" => c = o.tx /\ (conn[c].alive => conn[c].tx = s)
  BY <1>2, <1>3
<1>10. RanOK
  BY <1>2, <1>4, <1>8, <1>9, ObserveOK
<1>11. CASE o.in_tx
  <2>1. q \in Session /\ q.open /\ q.wait = NotWaiting /\ q.tx = c /\ q.stmt = o.stmt /\ q.in_tx
    BY <1>2, <1>8, <1>11 DEF Rest, Session
  <2> HIDE DEF q
  <2>2. c \in IF o.tx # NoConn THEN {o.tx} ELSE Get(conn)
    BY <1>3, <1>11
  <2>3. Rest(q) /\ Slots(q) = A \cup {c}
    BY <1>2, <1>7, <2>1, <2>2, TakeTx
  <2>4. /\ Uses(s, A \cup {c}, o.stmt, cm)
        /\ res \notin Lost => cm[c].tx = conn[c].tx
    BY <1>2, <1>6, <1>7, <1>8, UsesRun
  <2>5. conn' = cm
    BY <1>4, <1>11
  <2> HIDE DEF cm
  <2>6. SessOK(s)
    <3>1. SessionFit(q)
      BY <2>3, RestFits
    <3>2. Uses(s, Slots(q), q.stmt, conn')
      BY <2>1, <2>3, <2>4, <2>5
    <3>3. QED
      BY <1>5, <3>1, <3>2 DEF SessOK
  <2>7. sess'[s] = q
    BY <1>5 DEF IInv, TypeOK
  <2>8. Told(s, "work", res, "simple")
    BY <1>4, <1>11
  <2>9. ASSUME res = "ok", client[s] = "simple"
        PROVE  sess'[s].in_tx /\ sess'[s].tx = c /\ c # NoConn /\ conn'[c].tx = s
    BY <1>6, <1>7, <1>9, <2>1, <2>4, <2>5, <2>7, <2>9
  <2>10. ClientOK(s)
    BY <1>7, <2>8, <2>9, ToldInside
  <2>11. QED
    BY <1>10, <2>6, <2>10 DEF CommandOK
<1>12. CASE ~o.in_tx
  <2>1. q = o
    BY <1>2, <1>12 DEF Rest, Session
  <2>2. c \in Get(conn) /\ o.stmt \in A \cup {NoConn}
    BY <1>2, <1>3, <1>12, RestFits
  <2>3. Uses(s, A, o.stmt, Put(cm, c)) /\ Uses(s, A, o.stmt, Drop(cm, c))
    BY <1>2, <1>6, <1>7, <2>2, UsesOnce
  <2>4. conn' \in {Put(cm, c), Drop(cm, c)}
    BY <1>4, <1>12
  <2> HIDE DEF cm, q
  <2>5. SessOK(s)
    <3>1. SessionFit(o)
      BY <1>2, RestFits
    <3>2. QED
      BY <1>5, <2>1, <2>3, <2>4, <3>1 DEF SessOK
  <2>6. Told(s, "work", "ok", "simple") /\ client[s] # "simple"
    BY <1>2, <1>4, <1>12
  <2>7. ClientOK(s)
    BY <1>7, <2>6, ToldOutside
  <2>8. QED
    BY <1>10, <2>5, <2>7 DEF CommandOK
<1>13. QED
  BY <1>11, <1>12, <1>2 DEF Rest, Session

-----------------------------------------------------------------------------
(* Pipelines. *)

(* What the shadow notes gives and takes no connection. *)
LEMMA ScannedIs ==
  ASSUME NEW s \in Sessions, Rest(sess[s]), NEW k
  PROVE  /\ Rest(Scanned(s, k)) /\ Scanned(s, k).tx = sess[s].tx
         /\ Scanned(s, k).stmt = sess[s].stmt /\ Slots(Scanned(s, k)) = Slots(sess[s])
<1> DEFINE o == sess[s]
           r == Scanned(s, k)
<1>1. /\ r \in Session /\ r.open = o.open /\ r.wait = o.wait /\ r.tx = o.tx /\ r.stmt = o.stmt
  BY DEF Scanned, Rest, Session
<1> HIDE DEF r
<1>2. Rest(r)
  BY <1>1 DEF Rest
<1>3. Slots(r) = Slots(o)
  BY <1>1 DEF Slots
<1>4. QED
  BY <1>1, <1>2, <1>3 DEF r

(* The session after a pipeline. *)
LEMMA PipelineDoneOK ==
  ASSUME IInv, NEW s \in Sessions, NEW r, Rest(r), NEW cn, Uses(s, Slots(r), r.stmt, cn),
         NEW res, NEW inTx \in BOOLEAN, PipelineDone(s, r, cn, res, inTx)
  PROVE  /\ SessOK(s)
         /\ res = "ok" /\ inTx => sess'[s].in_tx /\ sess'[s].tx = r.tx /\ conn' = cn
<1> DEFINE a == IF res = "ok" THEN [r EXCEPT !.in_tx = inTx, !.tx = IF inTx THEN r.tx ELSE NoConn]
                ELSE r
           c1 == IF res = "ok" /\ ~inTx THEN Put(cn, r.tx) ELSE cn
           free == ~a.shadow /\ ~a.in_tx
           b == [a EXCEPT !.stmt = NoConn]
<1>1. /\ sess' = [sess EXCEPT ![s] = IF free THEN b ELSE a]
      /\ conn' = IF free THEN Released(c1, s, a.stmt) ELSE c1
  BY DEF PipelineDone
<1>2. /\ a \in Session /\ a.open /\ a.wait = NotWaiting /\ a.stmt = r.stmt
      /\ res = "ok" /\ ~inTx => a.tx = NoConn
      /\ ~(res = "ok" /\ ~inTx) => a.tx = r.tx
      /\ res = "ok" /\ inTx => a.in_tx
  BY DEF Rest, Session
<1> HIDE DEF a
<1>3. /\ b \in Session /\ b.open /\ b.wait = NotWaiting /\ b.stmt = NoConn /\ b.tx = a.tx
  BY <1>2 DEF Session
<1> HIDE DEF b
<1>4. Rest(a) /\ Rest(b)
  BY <1>2, <1>3, PgConnsAssumption DEF Rest
<1>5. Uses(s, Slots(a), a.stmt, c1)
  <2>1. CASE res = "ok" /\ ~inTx
    BY <1>2, <1>4, <2>1, GiveUpTx
  <2>2. CASE ~(res = "ok" /\ ~inTx)
    <3>1. Slots(a) = Slots(r)
      BY <1>2, <1>4, <2>2, RestFits
    <3>2. QED
      BY <1>2, <2>2, <3>1
  <2>3. QED
    BY <2>1, <2>2
<1> HIDE DEF c1
<1>6. Uses(s, Slots(b), b.stmt, Released(c1, s, a.stmt))
  <2>1. a.stmt \in Slots(a) \cup {NoConn} /\ Slots(b) = Slots(a) \ {a.stmt}
    BY <1>3, <1>4, RestFits DEF Rest
  <2>2. Uses(s, Slots(a) \ {a.stmt}, a.stmt, Released(c1, s, a.stmt))
    BY <1>5, <2>1, UsesReleased
  <2>3. Uses(s, Slots(b), a.stmt, Released(c1, s, a.stmt)) /\ a.stmt \notin Slots(b)
    BY <2>1, <2>2
  <2>4. QED
    BY <2>3, UsesOther
<1>7. SessOK(s)
  <2>1. SessionFit(a) /\ SessionFit(b)
    BY <1>4, RestFits
  <2>2. CASE free
    <3>1. sess' = [sess EXCEPT ![s] = b] /\ conn' = Released(c1, s, a.stmt)
      BY <1>1, <2>2
    <3>2. QED
      BY <1>6, <2>1, <3>1 DEF SessOK
  <2>3. CASE ~free
    <3>1. sess' = [sess EXCEPT ![s] = a] /\ conn' = c1
      BY <1>1, <2>3
    <3>2. QED
      BY <1>5, <2>1, <3>1 DEF SessOK
  <2>4. QED
    BY <2>2, <2>3
<1>8. ASSUME res = "ok", inTx
      PROVE  sess'[s].in_tx /\ sess'[s].tx = r.tx /\ conn' = cn
  <2>1. ~free /\ c1 = cn /\ a.tx = r.tx /\ a.in_tx
    BY <1>2, <1>8 DEF c1
  <2>2. sess'[s] = a /\ conn' = cn
    BY <1>1, <2>1 DEF IInv, TypeOK
  <2>3. QED
    BY <2>1, <2>2
<1>9. QED
  BY <1>7, <1>8

(* A pipeline in a transaction. *)
LEMMA StickyPipelineOK ==
  ASSUME IInv, NEW s \in Sessions, NEW k \in Pipelines, StickyPipeline(s, k)
  PROVE  CommandOK(s)
<1> DEFINE o == sess[s]
           r == Scanned(s, k)
<1>1. Ready(s) /\ o.in_tx
  BY DEF StickyPipeline
<1>2. /\ Rest(o) /\ Uses(s, Slots(o), o.stmt, conn) /\ conn \in [Conns -> Connection]
      /\ client[s] = "simple" => /\ o.in_tx /\ o.tx # NoConn
                                 /\ conn[o.tx].alive => conn[o.tx].tx = s
  BY <1>1, ReadyIs, ReadyRests
<1>3. /\ Rest(r) /\ r.tx = o.tx /\ r.stmt = o.stmt /\ Slots(r) = Slots(o)
  BY <1>2, ScannedIs
<1>4. Uses(s, Slots(r), r.stmt, conn)
  BY <1>2, <1>3
<1>5. PICK c \in IF r.tx # NoConn THEN {r.tx} ELSE Get(conn) :
        \/ /\ c = NoConn
           /\ PipelineDone(s, r, conn, "none", FALSE)
           /\ Told(s, k, "none", "simple") /\ Unobserved
        \/ /\ c # NoConn
           /\ \E res \in Answers(conn, c) :
                /\ PipelineDone(s, [r EXCEPT !.tx = c], Run(conn, s, k, c, res, "tx"), res,
                                Run(conn, s, k, c, res, "tx")[c].tx # "none")
                /\ Told(s, k, res, ModeOf(k)) /\ Observe(conn, s, k, c)
  BY DEF StickyPipeline
<1>6. /\ ModeOf(k) \in {"simple", "extended", "hidden"} /\ k # "savepoint"
      /\ k \in Opens => ModeOf(k) # "simple"
  BY DEF ModeOf, Pipelines, Opens
<1> HIDE DEF r
<1>7. CASE /\ c = NoConn
           /\ PipelineDone(s, r, conn, "none", FALSE)
           /\ Told(s, k, "none", "simple") /\ Unobserved
  <2>1. SessOK(s)
    BY <1>3, <1>4, <1>7, PipelineDoneOK
  <2>2. ClientOK(s)
    BY <1>7, ToldOutside
  <2>3. QED
    BY <1>7, <2>1, <2>2, UnobservedOK DEF CommandOK
<1>8. CASE /\ c # NoConn
           /\ \E res \in Answers(conn, c) :
                /\ PipelineDone(s, [r EXCEPT !.tx = c], Run(conn, s, k, c, res, "tx"), res,
                                Run(conn, s, k, c, res, "tx")[c].tx # "none")
                /\ Told(s, k, res, ModeOf(k)) /\ Observe(conn, s, k, c)
  <2>1. PICK res \in Answers(conn, c) :
                /\ PipelineDone(s, [r EXCEPT !.tx = c], Run(conn, s, k, c, res, "tx"), res,
                                Run(conn, s, k, c, res, "tx")[c].tx # "none")
                /\ Told(s, k, res, ModeOf(k)) /\ Observe(conn, s, k, c)
    BY <1>8
  <2> DEFINE q == [r EXCEPT !.tx = c]
             cm == Run(conn, s, k, c, res, "tx")
             inTx == cm[c].tx # "none"
  <2>2. (res \in Lost \/ conn[c].alive) /\ (res = "ok" <=> conn[c].alive) /\ (res = "ok" <=> res \notin Lost)
    BY AnswersIs
  <2>3. c \in Conns
    <3>1. CASE r.tx # NoConn
      BY <1>3, <3>1 DEF Rest, Session
    <3>2. CASE r.tx = NoConn
      BY <1>4, <1>8, <3>2, GetIsMine
    <3>3. QED
      BY <3>1, <3>2
  <2>4. q \in Session /\ q.open /\ q.wait = NotWaiting /\ q.tx = c /\ q.stmt = r.stmt
    BY <1>3, <2>3 DEF Rest, Session
  <2>5. PipelineDone(s, q, cm, res, inTx) /\ Told(s, k, res, ModeOf(k)) /\ Observe(conn, s, k, c)
    BY <2>1
  <2> HIDE DEF q
  <2>6. Mine(s, c) /\ Rest(q) /\ Slots(q) = Slots(r) \cup {c}
    BY <1>3, <1>4, <1>8, <2>4, TakeTx
  <2>7. /\ Uses(s, Slots(r) \cup {c}, r.stmt, cm)
        /\ res \notin Lost /\ k \in Opens => cm[c].tx = s
        /\ res \notin Lost /\ k \notin Opens \cup Commits => cm[c].tx = conn[c].tx
    BY <1>4, <2>2, <2>3, <2>6, UsesRun
  <2>8. inTx \in BOOLEAN /\ (cm[c].tx = s => inTx)
    BY PgConnsAssumption
  <2> HIDE DEF cm, inTx
  <2>9. Uses(s, Slots(q), q.stmt, cm)
    BY <2>4, <2>6, <2>7
  <2>10. /\ SessOK(s)
         /\ res = "ok" /\ inTx => sess'[s].in_tx /\ sess'[s].tx = q.tx /\ conn' = cm
    BY <2>5, <2>6, <2>8, <2>9, PipelineDoneOK
  <2>11. client[s] = "simple" => c = o.tx /\ (conn[c].alive => conn[c].tx = s)
    BY <1>2, <1>3
  <2>12. ASSUME res = "ok",
                \/ client[s] = "none" /\ k \in Opens /\ ModeOf(k) = "simple"
                \/ client[s] = "simple" /\ k \notin Commits \cup {"savepoint"}
         PROVE  sess'[s].in_tx /\ sess'[s].tx = c /\ c # NoConn /\ conn'[c].tx = s
    <3>1. cm[c].tx = s
      BY <1>6, <2>2, <2>7, <2>11, <2>12
    <3>2. QED
      BY <1>8, <2>4, <2>8, <2>10, <2>12, <3>1
  <2>13. ClientOK(s)
    BY <1>6, <2>5, <2>12, ToldInside
  <2>14. RanOK
    BY <1>4, <2>3, <2>5, <2>6, <2>11, ObserveOK
  <2>15. QED
    BY <2>10, <2>13, <2>14 DEF CommandOK
<1>9. QED
  BY <1>5, <1>7, <1>8

(* The session with another statement connection. *)
LEMMA TakeStmt ==
  ASSUME NEW s \in Sessions, Rest(sess[s]), NEW k, NEW c \in Conns \cup {NoConn},
         c # NoConn => c # sess[s].tx
  PROVE  /\ Rest([Scanned(s, k) EXCEPT !.stmt = c])
         /\ [Scanned(s, k) EXCEPT !.stmt = c].stmt = c
         /\ Slots([Scanned(s, k) EXCEPT !.stmt = c]) = {sess[s].tx, c} \ {NoConn}
<1> DEFINE r == Scanned(s, k)
           q == [r EXCEPT !.stmt = c]
<1>1. Rest(r) /\ r.tx = sess[s].tx
  BY ScannedIs
<1> HIDE DEF r
<1>2. q \in Session /\ q.open /\ q.wait = NotWaiting /\ q.stmt = c /\ q.tx = r.tx
  BY <1>1 DEF Rest, Session
<1> HIDE DEF q
<1>3. Rest(q)
  BY <1>1, <1>2 DEF Rest
<1>4. Slots(q) = {sess[s].tx, c} \ {NoConn}
  BY <1>1, <1>2, <1>3, RestFits
<1>5. QED
  BY <1>2, <1>3, <1>4 DEF q, r

(* A pipeline outside of a transaction that fails. *)
LEMMA PipelineFailsOK ==
  ASSUME IInv, NEW s \in Sessions, NEW k, Rest(sess[s]), NEW cn, NEW c \in Conns \cup {NoConn},
         c # NoConn => c # sess[s].tx,
         Uses(s, {sess[s].tx, c} \ {NoConn}, c, cn), PipelineFails(s, k, cn, c)
  PROVE  CommandOK(s)
<1> DEFINE q == [Scanned(s, k) EXCEPT !.stmt = c]
<1>1. PipelineDone(s, q, cn, "none", FALSE) /\ Told(s, k, "none", "simple") /\ Unobserved
  BY DEF PipelineFails
<1>2. Rest(q) /\ q.stmt = c /\ Slots(q) = {sess[s].tx, c} \ {NoConn}
  BY TakeStmt
<1> HIDE DEF q
<1>3. SessOK(s)
  BY <1>1, <1>2, PipelineDoneOK
<1>4. ClientOK(s)
  BY <1>1, ToldOutside
<1>5. QED
  BY <1>1, <1>3, <1>4, UnobservedOK DEF CommandOK

(* A pipeline outside of a transaction that is answered. *)
LEMMA PipelineWorksOK ==
  ASSUME IInv, NEW s \in Sessions, NEW k \in Pipelines, Rest(sess[s]), NEW cn, NEW c \in Conns,
         c # NoConn, c # sess[s].tx, client[s] # "simple", Mine(s, c), cn[c].alive,
         NEW A, A \cup {c} = {sess[s].tx, c} \ {NoConn},
         Uses(s, A, c, cn), PipelineWorks(s, k, cn, c)
  PROVE  CommandOK(s)
<1> DEFINE q == [Scanned(s, k) EXCEPT !.stmt = c]
           ran == Run(cn, s, k, c, "ok", "plain")
           inTx == ran[c].tx # "none"
<1>1. PipelineDone(s, q, ran, "ok", inTx) /\ Told(s, k, "ok", ModeOf(k)) /\ Observe(cn, s, k, c)
  BY DEF PipelineWorks
<1>2. Rest(q) /\ q.stmt = c /\ Slots(q) = {sess[s].tx, c} \ {NoConn}
  BY TakeStmt
<1>3. inTx \in BOOLEAN
  OBVIOUS
<1>4. Uses(s, A \cup {c}, c, ran)
  BY UsesRun
<1> HIDE DEF q, ran, inTx
<1>5. Uses(s, Slots(q), q.stmt, ran)
  BY <1>2, <1>4
<1>6. SessOK(s)
  BY <1>1, <1>2, <1>3, <1>5, PipelineDoneOK
<1>7. ModeOf(k) \in {"simple", "extended", "hidden"} /\ (k \in Opens => ModeOf(k) # "simple")
  BY DEF ModeOf, Pipelines, Opens
<1>8. ClientOK(s)
  BY <1>1, <1>7, ToldOutside
<1>9. RanOK
  BY <1>1, ObserveOK
<1>10. QED
  BY <1>6, <1>8, <1>9 DEF CommandOK

(* A pipeline outside of a transaction: on the statement connection, and once more on
   another when that was lost. *)
LEMMA ShadowPipelineOK ==
  ASSUME IInv, NEW s \in Sessions, NEW k \in Pipelines, ShadowPipeline(s, k)
  PROVE  CommandOK(s)
<1> DEFINE o == sess[s]
           A == Slots(o)
<1>1. Ready(s) /\ ~o.in_tx
  BY DEF ShadowPipeline
<1>2. /\ Rest(o) /\ Uses(s, A, o.stmt, conn) /\ conn \in [Conns -> Connection]
      /\ client[s] # "simple" /\ A = {o.tx, o.stmt} \ {NoConn} /\ A \subseteq Conns
  BY <1>1, ReadyIs, ReadyRests, RestFits
<1>3. PICK c \in IF o.stmt # NoConn THEN {o.stmt} ELSE Get(conn) :
       \/ c = NoConn /\ PipelineFails(s, k, conn, NoConn)
       \/ c # NoConn /\ conn[c].alive /\ PipelineWorks(s, k, conn, c)
       \/ /\ c # NoConn /\ ~conn[c].alive
          /\ \E d \in Get(Run(conn, s, k, c, "reset", "plain")) :
               \/ d = NoConn /\ PipelineFails(s, k, Run(conn, s, k, c, "reset", "plain"), c)
               \/ /\ d # NoConn /\ ~conn[d].alive
                  /\ PipelineFails(s, k, Run(Drop(Run(conn, s, k, c, "reset", "plain"), c), s, k, d,
                                             "reset", "plain"), d)
               \/ /\ d # NoConn /\ conn[d].alive
                  /\ PipelineWorks(s, k, Reprepared(s, k, Drop(Run(conn, s, k, c, "reset", "plain"), c), d), d)
  BY DEF ShadowPipeline
<1>4. CASE c = NoConn
  <2>1. o.stmt = NoConn /\ PipelineFails(s, k, conn, NoConn)
    BY <1>3, <1>4
  <2>2. Uses(s, {o.tx, NoConn} \ {NoConn}, NoConn, conn)
    BY <1>2, <2>1
  <2>3. QED
    BY <1>2, <2>1, <2>2, PipelineFailsOK
<1>5. CASE c # NoConn
  <2>1. c \in Conns /\ Mine(s, c) /\ c # o.tx /\ o.stmt \in {c, NoConn}
    <3>1. CASE o.stmt # NoConn
      <4>1. c = o.stmt /\ c \in A
        BY <1>2, <1>3, <3>1
      <4>2. QED
        BY <1>2, <1>5, <4>1 DEF Uses, Rest
    <3>2. CASE o.stmt = NoConn
      <4>1. c \in Conns /\ Mine(s, c) /\ c \notin A
        BY <1>2, <1>3, <1>5, <3>2, GetIsMine
      <4>2. QED
        BY <1>2, <1>5, <3>2, <4>1
    <3>3. QED
      BY <3>1, <3>2
  <2>2. Uses(s, A, c, conn)
    <3>1. o.stmt \notin A \/ o.stmt = c
      BY <1>2, <2>1
    <3>2. QED
      BY <1>2, <3>1, UsesOther
  <2>3. A \cup {c} = {o.tx, c} \ {NoConn}
    BY <1>2, <1>5, <2>1
  <2>4. CASE conn[c].alive
    <3>1. PipelineWorks(s, k, conn, c)
      BY <1>3, <1>5, <2>4
    <3>2. QED
      BY <1>2, <1>5, <2>1, <2>2, <2>3, <2>4, <3>1, PipelineWorksOK
  <2>5. CASE ~conn[c].alive
    <3> DEFINE cn == Run(conn, s, k, c, "reset", "plain")
               cd == Drop(cn, c)
               B == A \cup {c}
               D == B \ {c}
    <3>1. PICK d \in Get(cn) :
               \/ d = NoConn /\ PipelineFails(s, k, cn, c)
               \/ /\ d # NoConn /\ ~conn[d].alive
                  /\ PipelineFails(s, k, Run(cd, s, k, d, "reset", "plain"), d)
               \/ /\ d # NoConn /\ conn[d].alive
                  /\ PipelineWorks(s, k, Reprepared(s, k, cd, d), d)
      BY <1>3, <1>5, <2>5
    <3>2. Uses(s, B, c, cn)
      BY <2>1, <2>2, UsesRun DEF Lost
    <3>3. CASE d = NoConn
      <4>1. PipelineFails(s, k, cn, c)
        BY <3>1, <3>3
      <4> HIDE DEF cn
      <4>2. Uses(s, {o.tx, c} \ {NoConn}, c, cn)
        BY <2>3, <3>2
      <4>3. QED
        BY <1>2, <2>1, <4>1, <4>2, PipelineFailsOK
    <3>4. CASE d # NoConn
      <4>1. d \in Conns /\ Mine(s, d) /\ d \notin B
        BY <3>2, <3>4, GetIsMine
      <4>2. d # c /\ d # o.tx
        BY <1>2, <3>4, <4>1
      <4>3. cd[d] = conn[d]
        <5>1. cn \in [Conns -> Connection]
          BY <3>2 DEF Uses
        <5>2. cn[d] = conn[d]
          BY <1>2, <4>1, <4>2 DEF Run
        <5> HIDE DEF cn
        <5>3. QED
          BY <1>5, <4>1, <4>2, <5>1, <5>2 DEF Drop
      <4>4. Uses(s, D, c, cd)
        BY <2>1, <3>2, UsesDrop
      <4>5. Uses(s, D, d, cd)
        BY <4>4, UsesOther
      <4>6. D \cup {d} = {o.tx, d} \ {NoConn}
        BY <2>1, <2>3, <1>2, <3>4
      <4>7. CASE ~conn[d].alive
        <5>1. PipelineFails(s, k, Run(cd, s, k, d, "reset", "plain"), d)
          BY <3>1, <3>4, <4>7
        <5> HIDE DEF cd, D
        <5>2. Uses(s, D \cup {d}, d, Run(cd, s, k, d, "reset", "plain"))
          BY <4>1, <4>5, UsesRun DEF Lost
        <5>3. Uses(s, {o.tx, d} \ {NoConn}, d, Run(cd, s, k, d, "reset", "plain"))
          BY <4>6, <5>2
        <5>4. QED
          BY <1>2, <4>1, <4>2, <5>1, <5>3, PipelineFailsOK
      <4>8. CASE conn[d].alive
        <5> DEFINE cx == Reprepared(s, k, cd, d)
        <5>1. PipelineWorks(s, k, cx, d)
          BY <3>1, <3>4, <4>8
        <5>2. cx \in {cd, Run(cd, s, "parse", d, "ok", "plain")}
          BY DEF Reprepared
        <5> HIDE DEF cd, D, cx
        <5>3. CASE cx = cd
          BY <1>2, <3>4, <4>1, <4>2, <4>3, <4>5, <4>6, <4>8, <5>1, <5>3, PipelineWorksOK
        <5>4. CASE cx = Run(cd, s, "parse", d, "ok", "plain")
          <6> DEFINE E == D \cup {d}
          <6>1. Uses(s, E, d, cx) /\ cx[d].alive
            <7>1. "ok" \notin Lost /\ cd[d].alive
              BY <4>3, <4>8 DEF Lost
            <7>2. /\ Uses(s, D \cup {d}, d, Run(cd, s, "parse", d, "ok", "plain"))
                  /\ Run(cd, s, "parse", d, "ok", "plain")[d].alive
              BY <4>1, <4>5, <7>1, UsesRun
            <7>3. QED
              BY <5>4, <7>2
          <6>2. E \cup {d} = {o.tx, d} \ {NoConn}
            BY <4>6
          <6> HIDE DEF E
          <6>3. QED
            BY <1>2, <3>4, <4>1, <4>2, <5>1, <6>1, <6>2, PipelineWorksOK
        <5>5. QED
          BY <5>2, <5>3, <5>4
      <4>9. QED
        BY <4>7, <4>8
    <3>5. QED
      BY <3>3, <3>4
  <2>6. QED
    BY <2>4, <2>5
<1>6. QED
  BY <1>4, <1>5

-----------------------------------------------------------------------------
(* Sync, COPY and Flush. *)

(* A Sync without a pipeline. *)
LEMMA LoneSyncOK ==
  ASSUME IInv, NEW s \in Sessions, LoneSync(s)
  PROVE  CommandOK(s)
<1> DEFINE o == sess[s]
           A == Slots(o)
<1>1. Ready(s)
  BY DEF LoneSync
<1>2. /\ Rest(o) /\ Uses(s, A, o.stmt, conn) /\ conn \in [Conns -> Connection]
      /\ client[s] = "simple" => /\ o.in_tx /\ o.tx # NoConn
                                 /\ conn[o.tx].alive => conn[o.tx].tx = s
      /\ o.open /\ o.wait.for = "none" /\ o.tx \in Conns \cup {NoConn}
  BY <1>1, ReadyIs, ReadyRests
<1>3. PICK c \in Get(conn) :
       \/ c = NoConn /\ Ended(s, conn, sess[s]) /\ Unobserved
       \/ /\ c # NoConn /\ conn[c].alive
          /\ sess' = [sess EXCEPT ![s].in_tx = conn[c].tx # "none"]
          /\ conn' = Put(Run(conn, s, "sync", c, "ok", "plain"), c)
          /\ client' = [client EXCEPT ![s] = IF @ = "none" THEN "none" ELSE "sync"]
          /\ Unobserved
       \/ /\ c # NoConn /\ ~conn[c].alive
          /\ conn' = Drop(conn, c)
          /\ UNCHANGED <<sess, client>> /\ Unobserved
  BY DEF LoneSync
<1>4. CASE c = NoConn /\ Ended(s, conn, sess[s]) /\ Unobserved
  BY <1>2, <1>4, EndedOK
<1>5. CASE /\ c # NoConn /\ conn[c].alive
           /\ sess' = [sess EXCEPT ![s].in_tx = conn[c].tx # "none"]
           /\ conn' = Put(Run(conn, s, "sync", c, "ok", "plain"), c)
           /\ client' = [client EXCEPT ![s] = IF @ = "none" THEN "none" ELSE "sync"]
           /\ Unobserved
  <2> DEFINE v == conn[c].tx # "none"
             q == [o EXCEPT !.in_tx = v]
  <2>1. sess' = [sess EXCEPT ![s] = q] /\ v \in BOOLEAN
    BY <1>5
  <2> HIDE DEF v
  <2>2. q \in Session /\ q.open = o.open /\ q.wait = o.wait /\ q.tx = o.tx /\ q.stmt = o.stmt
    BY <1>2, <2>1 DEF Rest, Session
  <2> HIDE DEF q
  <2>3. Rest(q) /\ Slots(q) = A
    BY <1>2, <2>2 DEF Rest, Slots
  <2>4. o.stmt \in A \cup {NoConn}
    BY <1>2, RestFits
  <2>5. Uses(s, A, o.stmt, conn')
    BY <1>2, <1>5, <2>4, UsesOnce
  <2>6. SessOK(s)
    <3>1. SessionFit(q)
      BY <2>3, RestFits
    <3>2. QED
      BY <2>1, <2>2, <2>3, <2>5, <3>1 DEF SessOK
  <2>7. ClientOK(s)
    <3>1. client'[s] # "simple"
      BY <1>5 DEF IInv, TypeOK
    <3>2. QED
      BY <1>5, <3>1 DEF ClientOK, IInv, TypeOK
  <2>8. QED
    BY <1>5, <2>6, <2>7, UnobservedOK DEF CommandOK
<1>6. CASE /\ c # NoConn /\ ~conn[c].alive
           /\ conn' = Drop(conn, c)
           /\ UNCHANGED <<sess, client>> /\ Unobserved
  <2>1. c \in Conns /\ Mine(s, c) /\ c \notin A /\ A \ {c} = A
    BY <1>2, <1>6, GetIsMine
  <2>2. Uses(s, A \ {c}, o.stmt, conn')
    BY <1>2, <1>6, <2>1, UsesDrop
  <2>3. SessOK(s)
    <3>1. sess' = [sess EXCEPT ![s] = o]
      BY <1>6 DEF IInv, TypeOK
    <3>2. SessionFit(o)
      BY <1>2, RestFits
    <3>3. QED
      BY <2>1, <2>2, <3>1, <3>2 DEF SessOK
  <2>4. ClientOK(s)
    <3>1. o.tx # NoConn => o.tx # c
      BY <1>2, <2>1, RestFits
    <3>2. o.tx # NoConn => conn'[o.tx] = conn[o.tx]
      BY <1>2, <1>6, <2>1, <3>1 DEF Drop
    <3>3. QED
      BY <1>2, <1>6, <3>2 DEF ClientOK, IInv, TypeOK
  <2>5. QED
    BY <1>6, <2>3, <2>4, UnobservedOK DEF CommandOK
<1>7. QED
  BY <1>3, <1>4, <1>5, <1>6

(* A connection is taken for a message that is not answered. *)
LEMMA UsesHold ==
  ASSUME NEW s \in Sessions, NEW A, NEW p, NEW cn, Uses(s, A, p, cn), NEW c \in Conns, Mine(s, c)
  PROVE  Uses(s, A \cup {c}, p, [cn EXCEPT ![c].at = "held"])
<1> DEFINE cm == [cn EXCEPT ![c].at = "held"]
           B == A \cup {c}
<1>1. /\ cn \in [Conns -> Connection] /\ A \subseteq Conns
      /\ ConnectionFit(cn[c]) /\ cn[c].tx \in {"none", s}
      /\ Plain(cn[c]) => cn[c].name.by = s /\ c = p
  BY DEF Uses, ConnectionFit
<1>2. /\ cm \in [Conns -> Connection]
      /\ \A d \in Conns : d # c => cm[d] = cn[d]
      /\ cm[c].at = "held" /\ cm[c].alive = cn[c].alive /\ cm[c].tx = cn[c].tx
      /\ cm[c].known = cn[c].known /\ cm[c].name = cn[c].name
  BY <1>1 DEF Connection
<1>3. B \subseteq Conns /\ B \ {c} = A \ {c} /\ c \in B
  BY <1>1
<1> HIDE DEF cm, B
<1>4. ConnectionFit(cm[c]) /\ (Plain(cm[c]) => cm[c].name.by = s /\ c = p)
  BY <1>1, <1>2 DEF ConnectionFit, Plain
<1>5. Uses(s, B, p, cm)
  BY <1>1, <1>2, <1>3, <1>4, UsesTouch
<1>6. QED
  BY <1>5 DEF cm, B

(* A session begins to wait for the server. *)
LEMMA CopyInOK ==
  ASSUME IInv, NEW s \in Sessions, NEW by \in {"copy", "data"}, CopyIn(s, by)
  PROVE  CommandOK(s)
<1> DEFINE o == sess[s]
           A == Slots(o)
<1>1. Ready(s) /\ client' = client
  BY DEF CopyIn
<1>2. /\ Rest(o) /\ Uses(s, A, o.stmt, conn) /\ conn \in [Conns -> Connection]
      /\ client[s] = "simple" => /\ o.in_tx /\ o.tx # NoConn
                                 /\ conn[o.tx].alive => conn[o.tx].tx = s
      /\ A = {o.tx, o.stmt} \ {NoConn} /\ A \subseteq Conns
  BY <1>1, ReadyIs, ReadyRests, RestFits
<1>3. PICK c \in IF by = "copy" /\ o.in_tx /\ o.tx # NoConn THEN {o.tx} ELSE Get(conn) \ {NoConn} :
       /\ conn[c].alive
       /\ conn' = [conn EXCEPT ![c].at = "held"]
       /\ sess' = [sess EXCEPT ![s].wait = [on |-> c, for |-> by],
                               ![s].tx = IF by = "copy" /\ o.in_tx THEN c ELSE @]
       /\ IF by = "copy" THEN Observe(conn, s, by, c) ELSE Unobserved
  BY DEF CopyIn
<1>4. c # NoConn /\ c \in Conns /\ Mine(s, c)
      /\ (c \in A => by = "copy" /\ o.in_tx /\ c = o.tx)
      /\ (by = "copy" /\ o.in_tx => o.tx \in {c, NoConn})
  <2>1. CASE by = "copy" /\ o.in_tx /\ o.tx # NoConn
    <3>1. c = o.tx /\ c \in A
      BY <1>2, <1>3, <2>1
    <3>2. QED
      BY <1>2, <2>1, <3>1 DEF Uses
  <2>2. CASE ~(by = "copy" /\ o.in_tx /\ o.tx # NoConn)
    <3>1. c \in Get(conn) /\ c # NoConn
      BY <1>3, <2>2
    <3>2. QED
      BY <1>2, <2>2, <3>1, GetIsMine
  <2>3. QED
    BY <2>1, <2>2
<1> DEFINE w == [on |-> c, for |-> by]
           t == IF by = "copy" /\ o.in_tx THEN c ELSE o.tx
           q == [o EXCEPT !.wait = w, !.tx = t]
<1>5. sess' = [sess EXCEPT ![s] = q]
  BY <1>3 DEF IInv, TypeOK, Session
<1>6. w \in Waiting /\ w.on = c /\ w.for = by
  BY <1>4 DEF Waiting
<1>7. t \in Conns \cup {NoConn}
  BY <1>2, <1>4 DEF Rest, Session
<1>8. /\ c # NoConn => (o.stmt # NoConn => o.stmt # c)
      /\ by = "data" => c # t
      /\ o.stmt # NoConn => o.stmt # t
      /\ {t, o.stmt, c} \ {NoConn} = A \cup {c}
  BY <1>2, <1>4 DEF Rest
<1> HIDE DEF w, t
<1>9. /\ q \in Session /\ q.open /\ q.wait = w /\ q.tx = t /\ q.stmt = o.stmt /\ q.in_tx = o.in_tx
  BY <1>2, <1>6, <1>7 DEF Rest, Session
<1> HIDE DEF q
<1>10. SessionFit(q)
  BY <1>4, <1>6, <1>8, <1>9 DEF SessionFit
<1>11. Slots(q) = A \cup {c}
  BY <1>6, <1>8, <1>9 DEF Slots
<1>12. Uses(s, A \cup {c}, o.stmt, conn')
  BY <1>2, <1>3, <1>4, UsesHold
<1>13. SessOK(s)
  BY <1>5, <1>9, <1>10, <1>11, <1>12 DEF SessOK
<1>14. ClientOK(s)
  <2>1. sess'[s] = q
    BY <1>5 DEF IInv, TypeOK
  <2>2. o.tx # NoConn => t = o.tx
    BY <1>4 DEF t
  <2>3. \A d \in Conns : conn'[d].alive = conn[d].alive /\ conn'[d].tx = conn[d].tx
    BY <1>2, <1>3 DEF Connection
  <2>4. o.tx # NoConn => o.tx \in Conns
    BY <1>2 DEF Rest, Session
  <2>5. client'[s] = "simple" =>
       /\ sess'[s].in_tx /\ sess'[s].tx # NoConn
       /\ conn'[sess'[s].tx].alive => conn'[sess'[s].tx].tx = s
    BY <1>1, <1>2, <1>9, <2>1, <2>2, <2>3, <2>4
  <2>6. QED
    BY <1>1, <2>5 DEF ClientOK, IInv, TypeOK
<1>15. RanOK
  <2>1. CASE by = "copy"
    <3>1. Observe(conn, s, by, c)
      BY <1>3, <2>1
    <3>2. client[s] = "simple" => (conn[c].alive => conn[c].tx = s)
      BY <1>2, <1>3, <2>1
    <3>3. QED
      BY <1>2, <1>4, <3>1, <3>2, ObserveOK
  <2>2. CASE by = "data"
    BY <1>3, <2>2, UnobservedOK
  <2>3. QED
    BY <2>1, <2>2
<1>16. QED
  BY <1>13, <1>14, <1>15 DEF CommandOK

(* What a session drops and takes leaves its other connections alone. *)
LEMMA RunDropSame ==
  ASSUME NEW cn \in [Conns -> Connection], NEW s, NEW k, NEW res, NEW c \in Conns, NEW how,
         NEW d \in Conns, d # c
  PROVE  Drop(Run(cn, s, k, c, res, how), c)[d] = cn[d]
<1> DEFINE cm == Run(cn, s, k, c, res, how)
           y == IF res \in Lost THEN Broken(cn[c], res) ELSE Served(cn[c], s, k, how)
<1>1. cm = [cn EXCEPT ![c] = y]
  BY DEF Run
<1> HIDE DEF y
<1>2. DOMAIN cm = Conns /\ cm[d] = cn[d]
  BY <1>1
<1> HIDE DEF cm
<1>3. Drop(cm, c)[d] = cm[d]
  BY <1>2 DEF Drop
<1>4. QED
  BY <1>2, <1>3 DEF cm

(* The connection that a session waits on dies: the answer is an error, or the query is
   sent again on another connection. *)
LEMMA CopyEndsOK ==
  ASSUME IInv, NEW s \in Sessions, CopyEnds(s)
  PROVE  CommandOK(s)
<1> DEFINE o == sess[s]
           A == Slots(o)
           c == o.wait.on
           r == [o EXCEPT !.wait = NotWaiting]
<1>1. /\ o.wait.for \in {"copy", "data"} /\ Unobserved
      /\ client' = [client EXCEPT ![s] = IF r.tx = c THEN "none" ELSE @]
  BY DEF CopyEnds
<1>2. PICK res \in {"reset", "eof"} :
        IF o.wait.for = "copy" /\ r.tx = c
        THEN Settle(s, r, Run(conn, s, "copy", c, res, "plain"), "copy", res, FALSE)
        ELSE \/ sess' = [sess EXCEPT ![s] = r] /\ conn' = Drop(Run(conn, s, "copy", c, res, "plain"), c)
             \/ /\ o.wait.for = "copy"
                /\ \E d \in Get(Drop(Run(conn, s, "copy", c, res, "plain"), c)) \ {NoConn} :
                     /\ sess' = [sess EXCEPT ![s].wait.on = d]
                     /\ conn' = [Drop(Run(conn, s, "copy", c, res, "plain"), c) EXCEPT ![d].at = "held"]
  BY DEF CopyEnds
<1>3. /\ SessionFit(o) /\ o \in Session /\ Uses(s, A, o.stmt, conn)
      /\ conn \in [Conns -> Connection] /\ sess \in [Sessions -> Session]
      /\ client \in [Sessions -> {"none", "simple", "extended", "hidden", "savepoint", "sync"}]
      /\ client[s] = "simple" => /\ o.in_tx /\ o.tx # NoConn
                                 /\ conn[o.tx].alive => conn[o.tx].tx = s
  BY UsesSelf DEF IInv, TypeOK, ToldIsTrue
<1>4. /\ o.open /\ c # NoConn /\ c \in A /\ c \in Conns /\ Mine(s, c)
      /\ o.stmt # NoConn => o.stmt # o.tx /\ o.stmt # c
      /\ o.wait.for = "data" => c # o.tx
      /\ A = {o.tx, o.stmt, c} \ {NoConn}
      /\ o.tx \in Conns \cup {NoConn}
  <2>1. o.open /\ c # NoConn
    BY <1>1, <1>3 DEF SessionFit
  <2>2. A = {o.tx, o.stmt, c} \ {NoConn}
    BY DEF Slots
  <2>3. c \in A /\ c \in Conns /\ Mine(s, c)
    BY <1>3, <2>1, <2>2 DEF Uses
  <2>4. QED
    BY <1>3, <2>1, <2>2, <2>3 DEF SessionFit, Session
<1>5. /\ r \in Session /\ r.open = o.open /\ r.wait = NotWaiting /\ r.tx = o.tx
      /\ r.stmt = o.stmt /\ r.in_tx = o.in_tx
  BY <1>3 DEF Session, NotWaiting, Waiting
<1> HIDE DEF r
<1>6. Rest(r)
  BY <1>4, <1>5 DEF Rest
<1> DEFINE cn == Run(conn, s, "copy", c, res, "plain")
           cd == Drop(cn, c)
<1>7. Uses(s, A, o.stmt, cn)
  <2>1. res \in Lost
    BY DEF Lost
  <2>2. Uses(s, A \cup {c}, o.stmt, cn)
    BY <1>3, <1>4, <2>1, UsesRun
  <2>3. A \cup {c} = A
    BY <1>4
  <2>4. QED
    BY <2>2, <2>3
<1>8. RanOK
  BY <1>1, UnobservedOK
<1>9. CASE o.wait.for = "copy" /\ r.tx = c
  <2>1. Settle(s, r, cn, "copy", res, FALSE)
    BY <1>2, <1>9
  <2>2. Slots(r) = A
    BY <1>4, <1>5, <1>6, <1>9, RestFits
  <2> HIDE DEF cn
  <2>3. SessOK(s)
    BY <1>5, <1>6, <1>7, <2>1, <2>2, SettleOK
  <2>4. ClientOK(s)
    <3>1. client' = [client EXCEPT ![s] = "none"]
      BY <1>1, <1>9
    <3>2. QED
      BY <1>3, <3>1 DEF ClientOK
  <2>5. QED
    BY <1>8, <2>3, <2>4 DEF CommandOK
<1>10. CASE ~(o.wait.for = "copy" /\ r.tx = c)
  <2>1. c # o.tx
    BY <1>1, <1>4, <1>5, <1>10
  <2>2. client' = client
    BY <1>1, <1>3, <1>5, <2>1
  <2>3. Slots(r) = A \ {c}
    BY <1>4, <1>5, <1>6, <2>1, RestFits
  <2>4. Uses(s, Slots(r), r.stmt, cd)
    <3>1. Uses(s, A \ {c}, o.stmt, cd)
      BY <1>4, <1>7, UsesDrop
    <3>2. QED
      BY <1>5, <2>3, <3>1
  <2>5. o.tx # NoConn => cd[o.tx] = conn[o.tx]
    BY <1>3, <1>4, <2>1, RunDropSame
  <2>6. \/ sess' = [sess EXCEPT ![s] = r] /\ conn' = cd
        \/ /\ o.wait.for = "copy"
           /\ \E d \in Get(cd) \ {NoConn} :
                     /\ sess' = [sess EXCEPT ![s].wait.on = d]
                     /\ conn' = [cd EXCEPT ![d].at = "held"]
    BY <1>2, <1>10
  <2> HIDE DEF cd
  <2>7. CASE sess' = [sess EXCEPT ![s] = r] /\ conn' = cd
    <3>1. SessOK(s)
      BY <1>6, <2>4, <2>7, RestFits DEF SessOK
    <3>2. sess'[s] = r
      BY <1>3, <2>7
    <3>3. ClientOK(s)
      BY <1>3, <1>5, <2>2, <2>5, <2>7, <3>2 DEF ClientOK
    <3>4. QED
      BY <1>8, <3>1, <3>3 DEF CommandOK
  <2>8. CASE /\ o.wait.for = "copy"
             /\ \E d \in Get(cd) \ {NoConn} :
                     /\ sess' = [sess EXCEPT ![s].wait.on = d]
                     /\ conn' = [cd EXCEPT ![d].at = "held"]
    <3>1. PICK d \in Get(cd) \ {NoConn} :
                     /\ sess' = [sess EXCEPT ![s].wait.on = d]
                     /\ conn' = [cd EXCEPT ![d].at = "held"]
      BY <2>8
    <3>2. d \in Conns /\ d # NoConn /\ Mine(s, d) /\ d \notin Slots(r)
      BY <2>4, <3>1, GetIsMine
    <3> DEFINE w == [on |-> d, for |-> "copy"]
               q == [o EXCEPT !.wait = w]
    <3>3. w \in Waiting /\ w.on = d /\ w.for = "copy"
      BY <3>2 DEF Waiting
    <3>4. sess' = [sess EXCEPT ![s] = q]
      <4>1. [o.wait EXCEPT !.on = d] = w
        BY <1>3, <2>8 DEF Session, Waiting
      <4>2. QED
        BY <1>3, <3>1, <4>1 DEF Session
    <3> HIDE DEF w
    <3>5. /\ q \in Session /\ q.open = o.open /\ q.wait = w /\ q.tx = o.tx /\ q.stmt = o.stmt
          /\ q.in_tx = o.in_tx
      BY <1>3, <3>3 DEF Session
    <3> HIDE DEF q
    <3>6. Slots(r) = {o.tx, o.stmt} \ {NoConn}
      BY <1>5, <1>6, RestFits
    <3>7. SessionFit(q)
      BY <1>4, <3>2, <3>3, <3>5, <3>6 DEF SessionFit
    <3>8. Slots(q) = Slots(r) \cup {d}
      BY <3>2, <3>3, <3>5, <3>6 DEF Slots
    <3>9. Uses(s, Slots(q), q.stmt, conn')
      <4>1. Uses(s, Slots(r) \cup {d}, r.stmt, [cd EXCEPT ![d].at = "held"])
        BY <2>4, <3>2, UsesHold
      <4>2. QED
        BY <1>5, <3>1, <3>5, <3>8, <4>1
    <3>10. SessOK(s)
      BY <3>4, <3>7, <3>9 DEF SessOK
    <3>11. sess'[s] = q
      BY <1>3, <3>4
    <3>12. o.tx # NoConn => conn'[o.tx] = conn[o.tx]
      <4>1. o.tx # NoConn => o.tx # d
        BY <3>2, <3>6
      <4>2. cd \in [Conns -> Connection]
        BY <2>4 DEF Uses
      <4>3. QED
        BY <1>4, <2>5, <3>1, <3>2, <4>1, <4>2
    <3>13. ClientOK(s)
      BY <1>3, <2>2, <3>5, <3>11, <3>12 DEF ClientOK
    <3>14. QED
      BY <1>8, <3>10, <3>13 DEF CommandOK
  <2>9. QED
    BY <2>6, <2>7, <2>8
<1>11. QED
  BY <1>9, <1>10

(* A session begins to wait for a Sync. *)
LEMMA FlushOK ==
  ASSUME IInv, NEW s \in Sessions, FlushWaits(s)
  PROVE  CommandOK(s)
<1> DEFINE o == sess[s]
           w == [on |-> NoConn, for |-> "sync"]
           q == [o EXCEPT !.wait = w]
<1>1. /\ Ready(s) /\ sess' = [sess EXCEPT ![s].wait.for = "sync"]
      /\ conn' = conn /\ client' = client /\ Unobserved
  BY DEF FlushWaits
<1>2. /\ Rest(o) /\ Uses(s, Slots(o), o.stmt, conn) /\ SessionFit(o)
      /\ client[s] = "simple" => /\ o.in_tx /\ o.tx # NoConn
                                 /\ conn[o.tx].alive => conn[o.tx].tx = s
  BY <1>1, ReadyIs, ReadyRests
<1>3. w \in Waiting /\ w.on = NoConn /\ w.for = "sync"
  BY DEF Waiting
<1>4. sess' = [sess EXCEPT ![s] = q]
  <2>1. [o.wait EXCEPT !.for = "sync"] = w
    BY <1>2 DEF Rest, NotWaiting
  <2>2. QED
    BY <1>1, <2>1 DEF IInv, TypeOK, Session
<1> HIDE DEF w
<1>5. /\ q \in Session /\ q.open = o.open /\ q.wait = w /\ q.tx = o.tx /\ q.stmt = o.stmt
      /\ q.in_tx = o.in_tx
  BY <1>2, <1>3 DEF Rest, Session
<1> HIDE DEF q
<1>6. Slots(q) = Slots(o)
  <2>1. o.wait.on = NoConn
    BY <1>2 DEF Rest, NotWaiting
  <2>2. QED
    BY <1>3, <1>5, <2>1 DEF Slots
<1>7. SessionFit(q)
  BY <1>2, <1>3, <1>5 DEF SessionFit, Rest
<1>8. SessOK(s)
  BY <1>1, <1>2, <1>4, <1>5, <1>6, <1>7 DEF SessOK
<1>9. ClientOK(s)
  <2>1. sess'[s] = q
    BY <1>4 DEF IInv, TypeOK
  <2>2. QED
    BY <1>1, <1>2, <1>5, <2>1 DEF ClientOK, IInv, TypeOK
<1>10. QED
  BY <1>1, <1>8, <1>9, UnobservedOK DEF CommandOK

-----------------------------------------------------------------------------
(* A connection dies, idle or in somebody's hands. *)
LEMMA DiesKeeps ==
  ASSUME IInv, NEW c \in Conns, ConnectionDies(c)
  PROVE  IInv'
<1>1. UNCHANGED <<sess, client>> /\ Unobserved /\ conn \in [Conns -> Connection]
  BY DEF ConnectionDies, IInv, TypeOK
<1>2. /\ conn' \in [Conns -> Connection]
      /\ \A d \in Conns : d # c => conn'[d] = conn[d]
      /\ conn'[c].at = conn[c].at /\ conn'[c].tx = "none"
      /\ ~conn'[c].alive /\ conn'[c].name = Unnamed
  <2>1. Unnamed \in [by : Sessions \cup {"none"}, how : {"plain", "tx"}]
    BY DEF Unnamed
  <2>2. conn' = [conn EXCEPT ![c].alive = FALSE, ![c].tx = "none", ![c].name = Unnamed]
    BY DEF ConnectionDies
  <2> DEFINE y == [conn[c] EXCEPT !.alive = FALSE, !.tx = "none", !.name = Unnamed]
  <2>3. conn' = [conn EXCEPT ![c] = y]
    BY <1>1, <2>2 DEF Connection
  <2>4. /\ y \in Connection /\ y.at = conn[c].at /\ y.tx = "none" /\ ~y.alive /\ y.name = Unnamed
    BY <1>1, <2>1 DEF Connection
  <2> HIDE DEF y
  <2>5. QED
    BY <1>1, <2>3, <2>4
<1>3. ~Plain(conn'[c])
  BY <1>2 DEF Plain, Unnamed
<1>4. TypeOK' /\ TxIsolated' /\ OwnStatements'
  BY <1>1, <1>2 DEF IInv, TypeOK, TxIsolated, OwnStatements, Unobserved
<1>5. \A t \in Sessions : SessionFit(sess[t])'
  BY <1>1 DEF IInv
<1>6. \A d \in Conns : ConnectionFit(conn[d])'
  BY <1>2 DEF IInv, ConnectionFit
<1>7. Ownership'
  <2>1. \A d \in Conns : conn'[d].at = conn[d].at
    BY <1>2
  <2>2. QED
    BY <1>1, <2>1 DEF IInv, Ownership
<1>8. OpenTxIsHeld'
  BY <1>1, <1>2 DEF IInv, OpenTxIsHeld
<1>9. PlainIsHeld'
  BY <1>1, <1>2, <1>3 DEF IInv, PlainIsHeld, Plain
<1>10. ToldIsTrue'
  <2>1. \A d \in Conns : conn'[d].alive => conn'[d] = conn[d]
    BY <1>2
  <2>2. \A s \in Sessions : sess[s].tx # NoConn => sess[s].tx \in Conns
    BY DEF IInv, TypeOK, Session
  <2>3. QED
    BY <1>1, <2>1, <2>2 DEF IInv, ToldIsTrue
<1>11. QED
  BY <1>4, <1>5, <1>6, <1>7, <1>8, <1>9, <1>10 DEF IInv

-----------------------------------------------------------------------------
(* No connection is open and no client is there at the start. *)
LEMMA InitKeeps == Init => IInv
<1> SUFFICES ASSUME Init PROVE IInv
  OBVIOUS
<1> DEFINE off == [NewSession EXCEPT !.open = FALSE]
<1>1. SessionFit(off) /\ Slots(off) = {}
  BY NewIs
<1> HIDE DEF off
<1>2. sess = [s \in Sessions |-> off] /\ conn = [c \in Conns |-> NewConn]
  BY DEF Init, off
<1>3. NewConn.tx = "none"
  BY DEF NewConn
<1>4. TypeOK
  BY <1>1, <1>2, NewConnIs DEF Init, TypeOK, SessionFit
<1>5. /\ \A s \in Sessions : SessionFit(sess[s])
      /\ \A c \in Conns : ConnectionFit(conn[c])
  BY <1>1, <1>2, NewConnIs
<1>6. Ownership
  BY <1>1, <1>2, NewConnIs DEF Ownership
<1>7. OpenTxIsHeld /\ PlainIsHeld
  BY <1>2, <1>3, NewConnIs DEF OpenTxIsHeld, PlainIsHeld
<1>8. ToldIsTrue /\ TxIsolated /\ OwnStatements
  BY DEF Init, ToldIsTrue, TxIsolated, OwnStatements
<1>9. QED
  BY <1>4, <1>5, <1>6, <1>7, <1>8 DEF IInv

(* Every command of every client, and every death of a connection. *)
LEMMA NextKeeps == IInv /\ [Next]_vars => IInv'
<1> SUFFICES ASSUME IInv, [Next]_vars PROVE IInv'
  OBVIOUS
<1>1. CASE UNCHANGED vars
  BY <1>1 DEF vars, IInv, TypeOK, SessionFit, ConnectionFit, Ownership, OpenTxIsHeld,
              PlainIsHeld, ToldIsTrue, TxIsolated, OwnStatements
<1>2. ASSUME NEW s \in Sessions, Connect(s) \/ Disconnect(s)
      PROVE  IInv'
  <2>1. CommandOK(s)
    BY <1>2, ConnectOK, EndedOK DEF Disconnect
  <2>2. QED
    BY <2>1, CommandKeeps
<1>3. ASSUME NEW s \in Sessions, NEW k \in Simple, Query(s, k)
      PROVE  IInv'
  BY <1>3, StickyQueryOK, PooledQueryOK, CommandKeeps DEF Query
<1>4. ASSUME NEW s \in Sessions, MetaCommand(s) \/ LoneSync(s) \/ CopyEnds(s) \/ FlushWaits(s)
      PROVE  IInv'
  BY <1>4, MetaOK, LoneSyncOK, CopyEndsOK, FlushOK, CommandKeeps
<1>5. ASSUME NEW s \in Sessions, Blocked(s)
      PROVE  IInv'
  BY <1>1, <1>5 DEF Blocked
<1>6. ASSUME NEW s \in Sessions, NEW k \in Pipelines, Pipeline(s, k)
      PROVE  IInv'
  BY <1>6, StickyPipelineOK, ShadowPipelineOK, CommandKeeps DEF Pipeline
<1>7. ASSUME NEW s \in Sessions, NEW by \in {"copy", "data"}, CopyIn(s, by)
      PROVE  IInv'
  BY <1>7, CopyInOK, CommandKeeps
<1>8. ASSUME NEW c \in Conns, ConnectionDies(c)
      PROVE  IInv'
  BY <1>8, DiesKeeps
<1>9. QED
  BY <1>1, <1>2, <1>3, <1>4, <1>5, <1>6, <1>7, <1>8 DEF Next

(***************************************************************************)
(* handle_pg_connection loses no backend connection: the ones that are        *)
(* neither idle nor closed are exactly those in its clients' variables, and   *)
(* no two clients have the same one.                                        *)
(***************************************************************************)
THEOREM ConnectionsAreOwned == Spec => []Ownership
<1>1. IInv => Ownership
  BY DEF IInv
<1>2. QED
  BY <1>1, InitKeeps, NextKeeps, PTL DEF Spec

(***************************************************************************)
(* No statement of a transaction that a simple BEGIN opened runs outside it,  *)
(* and no statement of anybody runs inside another session's transaction.     *)
(***************************************************************************)
THEOREM TransactionsAreIsolated == Spec => []TxIsolated
<1>1. IInv => TxIsolated
  BY DEF IInv
<1>2. QED
  BY <1>1, InitKeeps, NextKeeps, PTL DEF Spec

(***************************************************************************)
(* A client that binds a name never runs a statement that another session     *)
(* prepared outside a transaction.                                          *)
(***************************************************************************)
THEOREM StatementsAreOwn == Spec => []OwnStatements
<1>1. IInv => OwnStatements
  BY DEF IInv
<1>2. QED
  BY <1>1, InitKeeps, NextKeeps, PTL DEF Spec
=============================================================================
