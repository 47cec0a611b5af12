---------------------------- MODULE QueryRouter ----------------------------
(***************************************************************************)
(* Routing of queries in src/proxy/router.rs (route_query_inner,             *)
(* execute_timed, route_fast) with the result cache of proxy/cache.rs, for   *)
(* MySQL.  Each request is a task of its own; a step ends where it awaits.   *)
(* Which backend serves as primary, and the pools, are in BackendPool: here  *)
(* a connection is had or not, and fresh ones and pooled ones look alike.    *)
(*                                                                         *)
(* A read is known by the set of tables it names, which is its cache key     *)
(* too.  The content of a table is its version, the number of writes         *)
(* executed on it; the replica follows the primary.  A write that a rule     *)
(* sends to a replica, and the replica executes, changes the replica's copy  *)
(* alone, which no version tells.                                           *)
(***************************************************************************)
EXTENDS Integers, FiniteSets

CONSTANTS
  Requests,     \* queries of all clients
  Tables,
  Queries,      \* the queries, and where the rules and the classifier send them
  Tids,         \* thread ids of backend connections
  MaxEntries,   \* max_entries of the cache
  Ttl,          \* ttl of the cache, in clock ticks
  MaxQueryTime  \* max_query_time_ms; 0 is no limit

(* dest: "direct" is a statement in a transaction, or fast-forwarded, and a     *)
(* write there takes effect at once (it may be the COMMIT); "group0" and        *)
(* "group1" are hostgroups of the primary and of a replica; the others are      *)
(* effective_replica.  A rule may send a write to a replica too.  cached:       *)
(* cache_ttl_secs > 0, or no rule forbids it; every read here is one that       *)
(* is_cacheable accepts.                                                       *)
Query == [kind : {"read", "write"}, tables : SUBSET Tables \ {{}}, cached : BOOLEAN,
          dest : {"direct", "group0", "group1", "replica", "primary"}]

ASSUME RouterAssumption ==
  /\ Queries \subseteq Query /\ Queries # {}
  /\ Tids # {}
  /\ MaxEntries \in Nat \ {0}
  /\ Ttl \in Nat \ {0}
  /\ MaxQueryTime \in Nat

VARIABLES
  data,      \* the tables on the primary
  copy,      \* the tables on the replica
  cache,     \* for each read, its entry
  pc,        \* where a request is
  query,     \* what it asks
  job,       \* what became of it on the backend
  loose,     \* executions whose connection was dropped
  kills,     \* KILL QUERY under way
  runs,      \* history: how often a request was executed
  answer,    \* history: what its client was told
  told,      \* history: versions of writes whose clients were told of success
  cleared,   \* history: versions of writes that have invalidated the cache
  since      \* history: told when the request began

backends == <<data, copy>>
tasks == <<loose, kills>>
history == <<runs, answer, told, cleared, since>>
vars == <<backends, cache, pc, query, job, tasks, history>>

Versions == [Tables -> Nat]
Zero == [t \in Tables |-> 0]

(* version: what the read returned; put: the tables when it was stored. *)
Entry == [there : BOOLEAN, age : 0..Ttl, version : Versions, put : Versions]
NoEntry == [there |-> FALSE, age |-> 0, version |-> Zero, put |-> Zero]

Job == [on : {"primary", "replica"}, tid : Tids, version : Versions,
        state : {"none", "pending", "done", "error"}]

PCs == {"new", "lookup", "connect", "sent", "reconnect", "resent", "filling",
        "invalidating", "over"}

Goto(i, l) == pc' = [pc EXCEPT ![i] = l]

(* The tables a query names, as it finds them. *)
Part(v, q) == [t \in Tables |-> IF t \in q.tables THEN v[t] ELSE 0]

Later(v, w) == [t \in Tables |-> IF v[t] < w[t] THEN w[t] ELSE v[t]]

(* The response goes to the client. *)
Tell(i, a) ==
  /\ Goto(i, "over")
  /\ answer' = [answer EXCEPT ![i] = a]
  /\ told' = IF a = "ok" /\ query[i].kind = "write" THEN Later(told, job[i].version) ELSE told

-----------------------------------------------------------------------------
(* Up to the connection. *)

(* if effective_replica && cache_allowed && is_cacheable, or the same of a       *)
(* hostgroup rule.                                                             *)
LooksUp(q) == q.cached /\ q.kind = "read" /\ q.dest \in {"replica", "group0", "group1"}

Submit(i, q) ==
  /\ pc[i] = "new"
  /\ query' = [query EXCEPT ![i] = q]
  /\ since' = [since EXCEPT ![i] = Part(told, q)]
  /\ Goto(i, IF LooksUp(q) THEN "lookup" ELSE "connect")
  /\ UNCHANGED <<backends, cache, job, tasks, runs, answer, told, cleared>>

(* Blocked by the rewriter, over the rate limit, or no connection to be had. *)
Refused(i) ==
  /\ pc[i] \in {"lookup", "connect"}
  /\ Tell(i, "refused")
  /\ UNCHANGED <<backends, cache, query, job, tasks, runs, cleared, since>>

(* QueryCache::get: expires_at > now. *)
Hit(i) ==
  LET e == cache[query[i].tables] IN
  /\ pc[i] = "lookup"
  /\ e.there /\ e.age < Ttl
  /\ job' = [job EXCEPT ![i].version = e.version]
  /\ Tell(i, "ok")
  /\ UNCHANGED <<backends, cache, query, tasks, runs, cleared, since>>

(* No entry, or one that has expired and is removed. *)
Miss(i) ==
  LET k == query[i].tables IN
  /\ pc[i] = "lookup"
  /\ cache[k].there => cache[k].age >= Ttl
  /\ cache' = [cache EXCEPT ![k] = NoEntry]
  /\ Goto(i, "connect")
  /\ UNCHANGED <<backends, query, job, tasks, history>>

-----------------------------------------------------------------------------
(* On the backend. *)

(* A read meant for a replica falls back to the primary. *)
Targets_Classified(q) == IF q.kind = "read" THEN {"replica", "primary"} ELSE {"primary"}
Targets(q) ==
  IF q.dest \in {"replica", "group1"} THEN {"replica", "primary"} ELSE {"primary"}

(* A server gives every connection another id, and a connection whose query was  *)
(* given up is dropped, not pooled: its id does not come back.                  *)
FreshTids_Pooled(b) ==
  Tids \ {job[i].tid : i \in {r \in Requests : pc[r] \in {"sent", "resent"} /\ job[r].on = b}}
FreshTids(b) ==
  Tids \ ({job[i].tid : i \in {r \in Requests : pc[r] \in {"sent", "resent"} /\ job[r].on = b}}
          \cup {l.tid : l \in {x \in loose : x.on = b}}
          \cup {k.tid : k \in {x \in kills : x.from = b}})

(* get_*_for_database returns a connection, the session's variables are set on    *)
(* it (replay_session_vars), and the query is sent.  Neither has a time limit: a   *)
(* silent backend keeps the request in "connect" or "reconnect".                  *)
Send(i, b, t) ==
  /\ pc[i] \in {"connect", "reconnect"}
  /\ b \in Targets(query[i])
  /\ t \in FreshTids(b)
  /\ job' = [job EXCEPT ![i] = [on |-> b, tid |-> t, version |-> Zero, state |-> "pending"]]
  /\ Goto(i, IF pc[i] = "connect" THEN "sent" ELSE "resent")
  /\ UNCHANGED <<backends, cache, query, tasks, history>>

(* The primary's tables after q has been executed there. *)
Executed(q) ==
  [t \in Tables |-> IF q.kind = "write" /\ t \in q.tables THEN data[t] + 1 ELSE data[t]]

(* The backend executes the query of a request ... *)
Execute(i) ==
  LET q == query[i]
      found == IF job[i].on = "primary" THEN Executed(q) ELSE copy
  IN
  /\ pc[i] \in {"sent", "resent"}
  /\ job[i].state = "pending"
  /\ data' = IF job[i].on = "primary" THEN Executed(q) ELSE data
  /\ job' = [job EXCEPT ![i].state = "done", ![i].version = Part(found, q)]
  /\ runs' = [runs EXCEPT ![i] = @ + 1]
  /\ UNCHANGED <<copy, cache, pc, query, tasks, answer, told, cleared, since>>

(* ... or answers with an error packet. *)
Fail(i) ==
  /\ pc[i] \in {"sent", "resent"}
  /\ job[i].state = "pending"
  /\ job' = [job EXCEPT ![i].state = "error"]
  /\ UNCHANGED <<backends, cache, pc, query, tasks, history>>

(* The same without anybody waiting. *)
ExecuteLoose(l) ==
  /\ l \in loose
  /\ loose' = loose \ {l}
  /\ \/ /\ data' = IF l.on = "primary" THEN Executed(query[l.id]) ELSE data
        /\ runs' = [runs EXCEPT ![l.id] = @ + 1]
     \/ UNCHANGED <<data, runs>>
  /\ UNCHANGED <<copy, cache, pc, query, job, kills, answer, told, cleared, since>>

Replicate ==
  /\ copy # data
  /\ copy' = data
  /\ UNCHANGED <<data, cache, pc, query, job, tasks, history>>

-----------------------------------------------------------------------------
(* The response. *)

(* Who fills the cache, and who invalidates it.  A retry does neither, and a      *)
(* hostgroup rule with a cache_ttl never invalidates.  Such a rule, and one that  *)
(* sends to a replica, also stores the response of a write, under the write's own  *)
(* text where no lookup finds it: left out.                                      *)
Fills(q) == q.cached /\ q.kind = "read" /\ q.dest \in {"replica", "group0", "group1"}
Clears(q) == q.dest = "primary" \/ (q.dest = "group0" /\ ~q.cached)

Receive(i) ==
  LET q == query[i]
      ok == job[i].state = "done"
  IN
  /\ pc[i] \in {"sent", "resent"}
  /\ job[i].state \in {"done", "error"}
  /\ \/ /\ pc[i] = "sent" /\ ok /\ Fills(q)
        /\ Goto(i, "filling")
        /\ UNCHANGED <<answer, told>>
     \/ /\ pc[i] = "sent" /\ ok /\ Clears(q)
        /\ Goto(i, "invalidating")
        /\ UNCHANGED <<answer, told>>
     \/ /\ pc[i] = "resent" \/ ~ok \/ ~(Fills(q) \/ Clears(q))
        /\ Tell(i, IF ok THEN "ok" ELSE "error")
  /\ UNCHANGED <<backends, cache, query, job, tasks, runs, cleared, since>>

(* The entry for a response; it expires a ttl from now. *)
NewEntry_Longer(i) ==
  [there |-> TRUE, age |-> -1, version |-> job[i].version, put |-> Part(data, query[i])]
NewEntry(i) ==
  [there |-> TRUE, age |-> 0, version |-> job[i].version, put |-> Part(data, query[i])]

(* QueryCache::put.  At capacity one entry goes, also when the key is there;      *)
(* which one was used least recently is left open.                              *)
CachePut(i) ==
  LET k == query[i].tables
      present == {r \in DOMAIN cache : cache[r].there}
  IN
  /\ pc[i] = "filling"
  /\ \/ /\ Cardinality(present) < MaxEntries
        /\ cache' = [cache EXCEPT ![k] = NewEntry(i)]
     \/ /\ Cardinality(present) >= MaxEntries
        /\ \E victim \in present :
             cache' = [cache EXCEPT ![victim] = NoEntry, ![k] = NewEntry(i)]
  /\ Tell(i, "ok")
  /\ UNCHANGED <<backends, query, job, tasks, runs, cleared, since>>

(* QueryCache::invalidate_tables: entries that name one of the tables go. *)
Touches_All(k, q) == k = q.tables
Touches(k, q) == k \cap q.tables # {}

Invalidate(i) ==
  LET q == query[i] IN
  /\ pc[i] = "invalidating"
  /\ cache' = [k \in DOMAIN cache |-> IF Touches(k, q) THEN NoEntry ELSE cache[k]]
  /\ cleared' = IF q.kind = "write" THEN Later(cleared, job[i].version) ELSE cleared
  /\ Tell(i, "ok")
  /\ UNCHANGED <<backends, query, job, tasks, runs, since>>

-----------------------------------------------------------------------------
(* When it goes wrong. *)

(* The connection is dropped; what was sent on it may still be executed. *)
Drop(i) ==
  loose' = IF job[i].state = "pending"
             THEN loose \cup {[id |-> i, on |-> job[i].on, tid |-> job[i].tid]}
             ELSE loose

Retries_InTransaction(i) == pc[i] = "sent"
Retries(i) == pc[i] = "sent" /\ query[i].dest \in {"replica", "primary"}

(* The connection breaks.  is_connection_lost and outside a transaction: one       *)
(* more attempt; otherwise, or when the text of the error is another one, an       *)
(* error for the client.                                                         *)
Lost(i) ==
  /\ pc[i] \in {"sent", "resent"}
  /\ Drop(i)
  /\ \/ /\ Retries(i)
        /\ Goto(i, "reconnect")
        /\ UNCHANGED <<answer, told>>
     \/ Tell(i, "lost")
  /\ UNCHANGED <<backends, cache, query, job, kills, runs, cleared, since>>

(* No connection for the second attempt. *)
RetryRefused(i) ==
  /\ pc[i] = "reconnect"
  /\ Tell(i, "lost")
  /\ UNCHANGED <<backends, cache, query, job, tasks, runs, cleared, since>>

(* Only the first attempt is timed, and not a statement of a transaction. *)
Timed_NotHostgroups(i) == pc[i] = "sent" /\ query[i].dest \in {"replica", "primary"}
Timed(i) == pc[i] = "sent" /\ query[i].dest # "direct"

(* execute_timed: drop the connection, and a task of its own kills the query. *)
TimeOut(i) ==
  /\ MaxQueryTime > 0
  /\ Timed(i)
  /\ Drop(i)
  /\ kills' = kills \cup {[tid |-> job[i].tid, from |-> job[i].on]}
  /\ Tell(i, "timeout")
  /\ UNCHANGED <<backends, cache, query, job, runs, cleared, since>>

Kill(k) ==
  /\ k \in kills
  /\ kills' = kills \ {k}
  /\ UNCHANGED <<backends, cache, pc, query, history>>

(* KILL QUERY is executed on the configured primary, whoever has that id there;    *)
(* a query it interrupts ends with an error packet.                               *)
KillArrives(k) ==
  LET hit(i) == /\ pc[i] \in {"sent", "resent"} /\ job[i].state = "pending"
                /\ job[i].on = "primary" /\ job[i].tid = k.tid
  IN
  /\ Kill(k)
  /\ loose' = {l \in loose : ~(l.on = "primary" /\ l.tid = k.tid)}
  /\ job' = [i \in Requests |-> IF hit(i) THEN [job[i] EXCEPT !.state = "error"] ELSE job[i]]

(* No connection for it, or it is refused. *)
KillFails(k) == Kill(k) /\ UNCHANGED <<loose, job>>

-----------------------------------------------------------------------------
Tick ==
  /\ \E k \in DOMAIN cache : cache[k].there /\ cache[k].age < Ttl
  /\ cache' = [k \in DOMAIN cache |->
                 IF cache[k].there /\ cache[k].age < Ttl
                   THEN [cache[k] EXCEPT !.age = @ + 1] ELSE cache[k]]
  /\ UNCHANGED <<backends, pc, query, job, tasks, history>>

Init ==
  /\ data = Zero
  /\ copy = Zero
  /\ cache = [k \in {q.tables : q \in Queries} |-> NoEntry]
  /\ pc = [i \in Requests |-> "new"]
  /\ query = [i \in Requests |-> CHOOSE q \in Queries : TRUE]
  /\ job = [i \in Requests |-> [on |-> "primary", tid |-> CHOOSE t \in Tids : TRUE,
                                version |-> Zero, state |-> "none"]]
  /\ loose = {}
  /\ kills = {}
  /\ runs = [i \in Requests |-> 0]
  /\ answer = [i \in Requests |-> "none"]
  /\ told = Zero
  /\ cleared = Zero
  /\ since = [i \in Requests |-> Zero]

(* What the proxy does for a request under way ... *)
ProxyStep(i) ==
  \/ Refused(i)
  \/ Hit(i)
  \/ Miss(i)
  \/ \E b \in {"primary", "replica"}, t \in Tids : Send(i, b, t)
  \/ Receive(i)
  \/ CachePut(i)
  \/ Invalidate(i)
  \/ RetryRefused(i)
  \/ TimeOut(i)

(* ... and what the backend and the network do to it. *)
BackendStep(i) ==
  \/ Execute(i)
  \/ Fail(i)
  \/ Lost(i)

Next ==
  \/ \E i \in Requests : (\E q \in Queries : Submit(i, q)) \/ ProxyStep(i) \/ BackendStep(i)
  \/ \E l \in loose : ExecuteLoose(l)
  \/ \E k \in kills : KillArrives(k) \/ KillFails(k)
  \/ Replicate
  \/ Tick
  \/ (\A i \in Requests : pc[i] = "over") /\ UNCHANGED vars

(* ... without a backend's help. *)
RunsOn(i) ==
  \/ Hit(i)
  \/ Miss(i)
  \/ Receive(i)
  \/ CachePut(i)
  \/ Invalidate(i)
  \/ TimeOut(i)

(* The runtime runs every task that can go on, and its timers; nothing is assumed of  *)
(* the backends, neither that they answer nor that a connection to them comes about.  *)
Fairness == \A i \in Requests : WF_vars(RunsOn(i))

Spec == Init /\ [][Next]_vars
LiveSpec == Spec /\ Fairness

-----------------------------------------------------------------------------
(* Types. *)
TypeOK ==
  /\ data \in Versions
  /\ copy \in Versions
  /\ cache \in [{q.tables : q \in Queries} -> Entry]
  /\ pc \in [Requests -> PCs]
  /\ query \in [Requests -> Queries]
  /\ job \in [Requests -> Job]
  /\ loose \subseteq [id : Requests, on : {"primary", "replica"}, tid : Tids]
  /\ kills \subseteq [tid : Tids, from : {"primary", "replica"}]
  /\ runs \in [Requests -> Nat]
  /\ answer \in [Requests -> {"none", "ok", "error", "refused", "lost", "timeout"}]
  /\ told \in Versions /\ cleared \in Versions
  /\ since \in [Requests -> Versions]

(* The attempts of a request: the one that is out, and those given up. *)
Attempts(i) ==
  runs[i] + Cardinality({l \in loose : l.id = i})
    + (IF pc[i] \in {"sent", "resent"} /\ job[i].state = "pending" THEN 1 ELSE 0)

(* Whatever breaks and is retried, killed or executed late: a write is not         *)
(* reported done that was not executed; what was refused never is; a statement of  *)
(* a transaction or of a hostgroup has one attempt and any other at most two.      *)
AnswersAreTrue ==
  \A i \in Requests :
     /\ answer[i] = "ok" /\ query[i].kind = "write" => runs[i] >= 1
     /\ answer[i] = "refused" => Attempts(i) = 0
     /\ Attempts(i) <= IF query[i].dest \in {"replica", "primary"} THEN 2 ELSE 1

(* A read that is sent to the primary, by a rule or for read-your-own-writes, has     *)
(* every write on the primary that any client was told of before the read began,      *)
(* whatever the cache and the replica hold (the snapshot a transaction may have taken  *)
(* is not modelled).                                                                  *)
PrimaryReadsAreFresh ==
  \A i \in Requests :
     answer[i] = "ok" /\ query[i].kind = "read" /\ query[i].dest \in {"primary", "direct"}
       => \A t \in Tables : since[i][t] <= job[i].version[t]

(* A write leaves no entry of its tables behind that was stored before it was         *)
(* executed, also when reads are filling the cache meanwhile: once it has              *)
(* invalidated them, every entry was stored later.                                   *)
NoEntryOutlivesWrite ==
  \A k \in DOMAIN cache : cache[k].there => \A t \in k : cleared[t] <= cache[k].put[t]

(* KILL QUERY for a query that ran on the primary never interrupts another one,          *)
(* however late it comes: its connection has not been put back.                        *)
KillsStayOnTarget ==
  [][\A k \in kills : KillArrives(k) /\ k.from = "primary" => job' = job]_vars

(* With a limit on query times a request ends that is not kept for ever by an          *)
(* untimed connect or replay of session variables, whatever it was doing and also      *)
(* when the backend falls silent on its query; only a statement of a transaction, a    *)
(* fast-forwarded one and a retry, which no limit covers either, may wait for it.      *)
RequestsEnd ==
  \A i \in Requests :
     []<>(pc[i] \notin {"connect", "reconnect"}) =>
       ((pc[i] \notin {"new", "over"}) ~>
          \/ pc[i] = "over"
          \/ /\ job[i].state = "pending"
             /\ pc[i] = "resent" \/ (pc[i] = "sent" /\ query[i].dest = "direct"))

-----------------------------------------------------------------------------
(* What comments say and the code does not do. *)

(* router.rs, is_connection_lost: "These errors are safe to retry on a fresh           *)
(* connection because no data was written yet (the original connection was dead        *)
(* before we sent anything)".                                                        *)
RetryIsSafe == \A i \in Requests : query[i].kind = "write" => runs[i] <= 1

(* cache.rs: "any write to a table drops all cache entries that touched that table".     *)
(* Not after a retry, in a transaction, under fast-forward, a rule that sends to a      *)
(* replica or a hostgroup rule with cache_ttl; and a read that was under way stores what it found before the write.     *)
WritesInvalidate ==
  \A k \in DOMAIN cache : cache[k].there => \A t \in k : told[t] <= cache[k].version[t]
=============================================================================
