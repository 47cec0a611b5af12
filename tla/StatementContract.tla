------------------------- MODULE StatementContract -------------------------
(* What the proxy promises a MySQL client about prepared statements, over changing
   backend connections: an id it was given is its own until it closes it, and using the
   id runs the statement it was given for, or fails.

   The promise has a scope: a statement prepared outside of transactions holds outside of
   them, one prepared in a transaction holds until that ends, because each has its own
   backend connection.  Only while the connection is broken may a statement other than
   the one that is used lose its scope. *)
CONSTANTS
  Ids,            \* the ids the client can be given
  Texts           \* statement texts

VARIABLES
  view,           \* the client's open ids: text and scope, or Closed
  mode,           \* "session", or "tx" in a transaction
  broken,         \* the connection for statements outside of transactions is lost
  refused,        \* texts the server does not accept
  out             \* the outcome of the last command; turn tells it from the one before

cvars == <<view, mode, broken, refused, out>>

Closed == [text |-> "none", scope |-> "none"]
Open == {p \in Ids : view[p] # Closed}
Nothing == [op |-> "none", id |-> 0, ran |-> "none", turn |-> FALSE]

(* The outcome of a command, and of a step that is none. *)
Outcome(op, p, ran) == out' = [op |-> op, id |-> p, ran |-> ran, turn |-> ~out.turn]
Quiet == Outcome("none", 0, "none")

Init ==
  /\ view = [p \in Ids |-> Closed]
  /\ mode = "session" /\ broken = FALSE /\ refused = {} /\ out = Nothing

(* Statements outside S keep their text; they keep their scope too, unless they had none
   or the connection is broken. *)
Others(S) ==
  \A q \in Open \ S :
    /\ view'[q].text = view[q].text
    /\ view'[q].scope = view[q].scope \/ view[q].scope = "loose" \/ broken

StaysClosed(S) == \A q \in Ids \ (Open \cup S) : view'[q] = Closed

Prepare ==
  \/ \E p \in Ids \ Open, t \in Texts :
       /\ Outcome("prepare", p, t)
       /\ view'[p] = [text |-> t, scope |-> mode]
       /\ Others({}) /\ StaysClosed({p})
  \/ /\ Outcome("prepare", 0, "error")
     /\ Others({}) /\ StaysClosed({})

(* EXECUTE, FETCH, RESET and SEND_LONG_DATA. *)
Use ==
  \E p \in Ids, op \in {"execute", "fetch", "data"}, ran \in Texts \cup {"error", "none"} :
    /\ Outcome(op, p, ran)
    /\ view[p].scope = mode /\ view[p].text \notin refused
         => ran \in {view[p].text, "error"} \/ (ran = "none" /\ op = "data")
    /\ Others({}) /\ StaysClosed({})

Close ==
  \E p \in Ids :
    /\ \/ Outcome("close", p, "none") /\ view'[p] = Closed
       \/ Outcome("close", p, "error") /\ view'[p] = view[p]
    /\ Others({p}) /\ StaysClosed({p})

(* What was prepared in a transaction ends with it. *)
Switch ==
  /\ Quiet
  /\ mode' \in {"session", "tx"}
  /\ view' = [p \in Ids |-> IF view[p].scope = "tx" THEN [view[p] EXCEPT !.scope = "loose"] ELSE view[p]]

Reset ==
  /\ Quiet
  /\ view' = [p \in Ids |-> Closed] /\ mode' = "session"

(* Backend connections die, tables are dropped. *)
Environment == Quiet /\ view' = view /\ mode' = mode

(* Only the environment makes the server refuse texts; a connection may be broken at any time, and mended. *)
Next ==
  \/ (Prepare \/ Use \/ Close) /\ mode' = mode /\ refused' = refused
  \/ (Switch \/ Reset) /\ refused' = refused
  \/ Environment /\ refused \subseteq refused'

Spec == Init /\ [][Next]_cvars
=============================================================================
