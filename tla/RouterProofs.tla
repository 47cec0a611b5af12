---------------------------- MODULE RouterProofs ----------------------------
(***************************************************************************)
(* Proofs about QueryRouter and StmtShadow, both of src/proxy/router.rs:     *)
(* first the queries and the cache, for any requests, queries, tables, cache *)
(* size and ttl; then the prepared statements, which implement their          *)
(* contract for any ids, texts and connections.                              *)
(***************************************************************************)
EXTENDS QueryRouter, StmtShadow, FiniteSetTheorems, TLAPS

(* The operators on versions return versions. *)
LEMMA VersionTypes ==
  ASSUME NEW v \in Versions, NEW w \in Versions, NEW q \in Query
  PROVE  Zero \in Versions /\ Part(v, q) \in Versions /\ Later(v, w) \in Versions
  BY DEF Versions, Zero, Part, Later

(* And so does the execution of a query. *)
LEMMA ExecutedType ==
  ASSUME data \in Versions, NEW q \in Query
  PROVE  Executed(q) \in Versions
  BY DEF Versions, Executed

(* A known query is a query. *)
LEMMA KnownQuery == ASSUME NEW q \in Queries PROVE q \in Query
  BY RouterAssumption

-----------------------------------------------------------------------------
Keys == {q.tables : q \in Queries}
Answer == {"none", "ok", "error", "refused", "lost", "timeout"}
Execution == [id : Requests, on : {"primary", "replica"}, tid : Tids]

(* The types in groups that few actions share. *)
BackendOK == data \in Versions /\ copy \in Versions
CacheOK == cache \in [Keys -> Entry]
PcOK == pc \in [Requests -> PCs]
JobOK == query \in [Requests -> Queries] /\ job \in [Requests -> Job]
TaskOK == loose \subseteq Execution /\ kills \subseteq [tid : Tids, from : {"primary", "replica"}]
ToldOK == answer \in [Requests -> Answer] /\ told \in Versions
HistoryOK ==
  /\ runs \in [Requests -> Nat]
  /\ cleared \in Versions
  /\ since \in [Requests -> Versions]

(* The groups are the type invariant, before and after a step. *)
LEMMA TypeParts ==
  /\ TypeOK <=> BackendOK /\ CacheOK /\ PcOK /\ JobOK /\ TaskOK /\ ToldOK /\ HistoryOK
  /\ TypeOK' <=> /\ BackendOK' /\ CacheOK' /\ PcOK' /\ JobOK'
                 /\ TaskOK' /\ ToldOK' /\ HistoryOK'
  BY DEF TypeOK, BackendOK, CacheOK, PcOK, JobOK, TaskOK, ToldOK, HistoryOK, Keys, Answer, Execution

(* A group whose variables do not change keeps its types. *)
LEMMA PartsUnchanged ==
  /\ BackendOK /\ UNCHANGED <<data, copy>> => BackendOK'
  /\ CacheOK /\ UNCHANGED cache => CacheOK'
  /\ PcOK /\ UNCHANGED pc => PcOK'
  /\ JobOK /\ UNCHANGED <<query, job>> => JobOK'
  /\ TaskOK /\ UNCHANGED <<loose, kills>> => TaskOK'
  /\ ToldOK /\ UNCHANGED <<answer, told>> => ToldOK'
  /\ HistoryOK /\ UNCHANGED <<runs, cleared, since>> => HistoryOK'
  BY DEF BackendOK, CacheOK, PcOK, JobOK, TaskOK, ToldOK, HistoryOK

(* Answering a client keeps the types. *)
LEMMA TellType ==
  ASSUME PcOK, JobOK, ToldOK, NEW i \in Requests, NEW a \in Answer, Tell(i, a)
  PROVE  PcOK' /\ ToldOK'
<1>1. job[i].version \in Versions
  BY DEF JobOK, Job
<1>2. told \in Versions /\ Later(told, job[i].version) \in Versions
  BY <1>1 DEF ToldOK, Versions, Later
<1> QED
  BY <1>2 DEF PcOK, ToldOK, Tell, Goto, PCs, Answer

(* Dropping a connection keeps the types. *)
LEMMA DropType ==
  ASSUME JobOK, TaskOK, NEW i \in Requests, Drop(i)
  PROVE  loose' \subseteq Execution
<1>1. [id |-> i, on |-> job[i].on, tid |-> job[i].tid] \in Execution
  BY DEF JobOK, Job, Execution
<1> QED
  BY <1>1 DEF TaskOK, Drop

(* Every step keeps the types. *)
LEMMA TypeStep == TypeOK /\ [Next]_vars => TypeOK'
<1> SUFFICES ASSUME BackendOK, CacheOK, PcOK, JobOK, TaskOK, ToldOK, HistoryOK, [Next]_vars
             PROVE  TypeOK'
  BY TypeParts
<1>q. \A i \in Requests : query[i] \in Query /\ query[i].tables \in Keys /\ job[i] \in Job
  BY KnownQuery DEF JobOK, Keys
<1>z. Zero \in Versions /\ NoEntry \in Entry
  BY RouterAssumption DEF Zero, Versions, NoEntry, Entry
<1>1. ASSUME NEW i \in Requests, NEW q \in Queries, Submit(i, q)
      PROVE  TypeOK'
  <2>1. Part(told, q) \in Versions
    BY VersionTypes, KnownQuery DEF ToldOK
  <2>2. PcOK' /\ JobOK' /\ HistoryOK'
    BY <1>1, <2>1 DEF Submit, Goto, PcOK, PCs, JobOK, HistoryOK
  <2> QED
    BY <1>1, <2>2, TypeParts, PartsUnchanged DEF Submit, backends, tasks, history
<1>2. ASSUME NEW i \in Requests, Hit(i)
      PROVE  TypeOK'
  <2>1. cache[query[i].tables].version \in Versions
    BY <1>q DEF CacheOK, Entry
  <2>2. JobOK'
    BY <1>2, <2>1, <1>q DEF Hit, JobOK, Job
  <2>3. JobOK' /\ PcOK' /\ ToldOK'
    BY <1>2, <2>2, TellType DEF Hit, Answer
  <2> QED
    BY <1>2, <2>3, TypeParts, PartsUnchanged DEF Hit, backends, tasks, history
<1>3. ASSUME NEW i \in Requests, Miss(i)
      PROVE  TypeOK'
  <2>1. CacheOK' /\ PcOK'
    BY <1>3, <1>z DEF Miss, Goto, CacheOK, PcOK, PCs
  <2> QED
    BY <1>3, <2>1, TypeParts, PartsUnchanged DEF Miss, backends, tasks, history
<1>4. ASSUME NEW i \in Requests, NEW b \in {"primary", "replica"}, NEW t \in Tids, Send(i, b, t)
      PROVE  TypeOK'
  <2>1. JobOK' /\ PcOK'
    BY <1>4, <1>z DEF Send, Goto, JobOK, Job, PcOK, PCs
  <2> QED
    BY <1>4, <2>1, TypeParts, PartsUnchanged DEF Send, backends, tasks, history
<1>5. ASSUME NEW i \in Requests, Receive(i)
      PROVE  TypeOK'
  <2>1. ASSUME \E a \in {"ok", "error"} : Tell(i, a)
        PROVE  PcOK' /\ ToldOK'
    BY <2>1, TellType DEF Answer
  <2>2. ASSUME Goto(i, "filling") \/ Goto(i, "invalidating"), UNCHANGED <<answer, told>>
        PROVE  PcOK' /\ ToldOK'
    BY <2>2 DEF Goto, PcOK, PCs, ToldOK
  <2>3. PcOK' /\ ToldOK'
    BY <1>5, <2>1, <2>2 DEF Receive
  <2> QED
    BY <1>5, <2>3, TypeParts, PartsUnchanged DEF Receive, backends, tasks, history
<1>6. ASSUME NEW i \in Requests, CachePut(i)
      PROVE  TypeOK'
  <2>1. NewEntry(i) \in Entry
    BY <1>q, VersionTypes, RouterAssumption DEF NewEntry, Entry, Job, BackendOK
  <2>2. CacheOK'
    BY <1>6, <2>1, <1>z DEF CachePut, CacheOK
  <2>3. CacheOK' /\ PcOK' /\ ToldOK'
    BY <1>6, <2>2, TellType DEF CachePut, Answer
  <2> QED
    BY <1>6, <2>3, TypeParts, PartsUnchanged DEF CachePut, backends, tasks, history
<1>7. ASSUME NEW i \in Requests, Invalidate(i)
      PROVE  TypeOK'
  <2>1. Later(cleared, job[i].version) \in Versions
    BY <1>q, VersionTypes DEF HistoryOK, Job
  <2>2. HistoryOK' /\ CacheOK'
    BY <1>7, <2>1, <1>z DEF Invalidate, HistoryOK, CacheOK
  <2>3. CacheOK' /\ PcOK' /\ ToldOK' /\ HistoryOK'
    BY <1>7, <2>2, TellType DEF Invalidate, Answer
  <2> QED
    BY <1>7, <2>3, TypeParts, PartsUnchanged DEF Invalidate, backends, tasks, history
<1>8. ASSUME NEW i \in Requests, Execute(i)
      PROVE  TypeOK'
  <2>1. Executed(query[i]) \in Versions
    BY <1>q, ExecutedType DEF BackendOK
  <2>2. /\ Part(Executed(query[i]), query[i]) \in Versions
        /\ Part(copy, query[i]) \in Versions
    BY <1>q, <2>1, VersionTypes DEF BackendOK
  <2>3. BackendOK' /\ HistoryOK'
    BY <1>8, <2>1 DEF Execute, BackendOK, HistoryOK
  <2>4. BackendOK' /\ JobOK' /\ HistoryOK'
    BY <1>8, <2>2, <2>3, <1>q DEF Execute, JobOK, Job
  <2> QED
    BY <1>8, <2>4, TypeParts, PartsUnchanged DEF Execute, backends, tasks, history
<1>9. ASSUME NEW i \in Requests, Fail(i)
      PROVE  TypeOK'
  <2>1. JobOK'
    BY <1>9, <1>q DEF Fail, JobOK, Job
  <2> QED
    BY <1>9, <2>1, TypeParts, PartsUnchanged DEF Fail, backends, tasks, history
<1>10. ASSUME NEW i \in Requests, Lost(i)
       PROVE  TypeOK'
  <2>1. TaskOK'
    BY <1>10, DropType DEF Lost, TaskOK
  <2>2. ASSUME Tell(i, "lost")
        PROVE  PcOK' /\ ToldOK'
    BY <2>2, TellType DEF Answer
  <2>3. ASSUME Goto(i, "reconnect"), UNCHANGED <<answer, told>>
        PROVE  PcOK' /\ ToldOK'
    BY <2>3 DEF Goto, PcOK, PCs, ToldOK
  <2>4. TaskOK' /\ PcOK' /\ ToldOK'
    BY <1>10, <2>1, <2>2, <2>3 DEF Lost
  <2> QED
    BY <1>10, <2>4, TypeParts, PartsUnchanged DEF Lost, backends, tasks, history
<1>11. ASSUME NEW i \in Requests, TimeOut(i)
       PROVE  TypeOK'
  <2>1. [tid |-> job[i].tid, from |-> job[i].on] \in [tid : Tids, from : {"primary", "replica"}]
    BY <1>q DEF Job
  <2>2. TaskOK'
    BY <1>11, <2>1, DropType DEF TimeOut, TaskOK
  <2>3. TaskOK' /\ PcOK' /\ ToldOK'
    BY <1>11, <2>2, TellType DEF TimeOut, Answer
  <2> QED
    BY <1>11, <2>3, TypeParts, PartsUnchanged DEF TimeOut, backends, tasks, history
<1>12. ASSUME NEW i \in Requests, Refused(i) \/ RetryRefused(i)
       PROVE  TypeOK'
  <2>1. PcOK' /\ ToldOK'
    BY <1>12, TellType DEF Refused, RetryRefused, Answer
  <2> QED
    BY <1>12, <2>1, TypeParts, PartsUnchanged DEF Refused, RetryRefused, backends, tasks, history
<1>13. ASSUME NEW l \in loose, ExecuteLoose(l)
       PROVE  TypeOK'
  <2>1. l.id \in Requests
    BY DEF TaskOK, Execution
  <2>2. Executed(query[l.id]) \in Versions
    BY <1>q, <2>1, ExecutedType DEF BackendOK
  <2>3. BackendOK' /\ TaskOK' /\ HistoryOK'
    BY <1>13, <2>1, <2>2 DEF ExecuteLoose, BackendOK, TaskOK, HistoryOK
  <2> QED
    BY <1>13, <2>3, TypeParts, PartsUnchanged DEF ExecuteLoose, backends, tasks, history
<1>14. ASSUME NEW k \in kills, KillArrives(k)
       PROVE  TypeOK'
  <2>1. TaskOK'
    BY <1>14 DEF KillArrives, Kill, TaskOK
  <2>2. \A i \in Requests : [job[i] EXCEPT !.state = "error"] \in Job
    BY <1>q DEF Job
  <2>3. TaskOK' /\ JobOK'
    BY <1>14, <2>1, <2>2, <1>q DEF KillArrives, Kill, JobOK
  <2> QED
    BY <1>14, <2>3, TypeParts, PartsUnchanged DEF KillArrives, Kill, backends, tasks, history
<1>15. ASSUME NEW k \in kills, KillFails(k)
       PROVE  TypeOK'
  <2>1. TaskOK'
    BY <1>15 DEF KillFails, Kill, TaskOK
  <2> QED
    BY <1>15, <2>1, TypeParts, PartsUnchanged DEF KillFails, Kill, backends, tasks, history
<1>16. ASSUME Tick
       PROVE  TypeOK'
  <2>1. \A k \in Keys : cache[k] \in Entry
    BY DEF CacheOK
  <2>2. \A e \in Entry : e.age < Ttl => [e EXCEPT !.age = @ + 1] \in Entry
    BY RouterAssumption DEF Entry
  <2>3. CacheOK'
    BY <1>16, <2>1, <2>2 DEF Tick, CacheOK
  <2> QED
    BY <1>16, <2>3, TypeParts, PartsUnchanged DEF Tick, backends, tasks, history
<1>17. ASSUME Replicate
       PROVE  TypeOK'
  <2>1. BackendOK'
    BY <1>17 DEF Replicate, BackendOK
  <2> QED
    BY <1>17, <2>1, TypeParts, PartsUnchanged DEF Replicate, backends, tasks, history
<1>18. CASE UNCHANGED vars
  BY <1>18, TypeParts, PartsUnchanged DEF vars, backends, tasks, history
<1>19. ASSUME NEW i \in Requests, ProxyStep(i)
       PROVE  TypeOK'
  BY <1>19, <1>2, <1>3, <1>4, <1>5, <1>6, <1>7, <1>11, <1>12 DEF ProxyStep
<1>20. ASSUME NEW i \in Requests, BackendStep(i)
       PROVE  TypeOK'
  BY <1>20, <1>8, <1>9, <1>10 DEF BackendStep
<1> QED
  BY <1>1, <1>13, <1>14, <1>15, <1>16, <1>17, <1>18, <1>19, <1>20 DEF Next

(* The types hold at the start. *)
LEMMA InitTypes == Init => TypeOK
<1> SUFFICES ASSUME Init PROVE TypeOK
  OBVIOUS
<1>1. Zero \in Versions /\ NoEntry \in Entry
  BY RouterAssumption DEF Zero, Versions, NoEntry, Entry
<1>2. (CHOOSE q \in Queries : TRUE) \in Queries /\ (CHOOSE t \in Tids : TRUE) \in Tids
  BY RouterAssumption
<1>3. BackendOK /\ CacheOK /\ TaskOK
  BY <1>1 DEF Init, BackendOK, CacheOK, TaskOK, Keys, Execution
<1>4. PcOK /\ JobOK
  BY <1>1, <1>2 DEF Init, PcOK, JobOK, PCs, Job
<1>5. ToldOK /\ HistoryOK
  BY <1>1 DEF Init, ToldOK, HistoryOK, Answer
<1> QED
  BY <1>3, <1>4, <1>5, TypeParts

(* The router, the cache and the backends keep their types. *)
THEOREM TypeCorrect == Spec => []TypeOK
  BY InitTypes, TypeStep, PTL DEF Spec

-----------------------------------------------------------------------------
(* The primary has seen everything: no result, entry or promise is ahead of it. *)
NothingAhead ==
  \A t \in Tables :
     /\ copy[t] <= data[t] /\ told[t] <= data[t] /\ cleared[t] <= data[t]
     /\ \A i \in Requests : job[i].version[t] <= data[t]
     /\ \A k \in Keys : cache[k].version[t] <= data[t]

OnPrimary(q) == q.dest \in {"primary", "direct"}
HasResult == {"sent", "resent", "filling", "invalidating"}

(* What is known of one request: where its result is from and how old it can be. *)
Progress(i) ==
  /\ answer[i] # "none" => pc[i] = "over"
  /\ pc[i] = "lookup" => LooksUp(query[i])
  /\ pc[i] = "filling" => Fills(query[i])
  /\ pc[i] \in {"filling", "invalidating"} => job[i].state = "done"
  /\ OnPrimary(query[i]) /\ pc[i] \in {"sent", "resent"} => job[i].on = "primary"
Scope(i) ==
  /\ pc[i] \in HasResult => \A t \in Tables \ query[i].tables : job[i].version[t] = 0
  /\ pc[i] # "new" => \A t \in Tables \ query[i].tables : since[i][t] = 0
Fresh(i) ==
  /\ \A t \in Tables : since[i][t] <= told[t]
  /\ (\/ pc[i] \in HasResult /\ job[i].state = "done"
      \/ answer[i] = "ok")
     /\ OnPrimary(query[i]) /\ query[i].kind = "read"
       => \A t \in Tables : since[i][t] <= job[i].version[t]
RequestOK(i) == Progress(i) /\ Scope(i) /\ Fresh(i)

(* The inductive invariant. *)
IInv == TypeOK /\ NothingAhead /\ (\A i \in Requests : RequestOK(i)) /\ NoEntryOutlivesWrite

(* Types in the form the provers use them. *)
LEMMA Shapes ==
  ASSUME TypeOK
  PROVE  /\ \A t \in Tables : data[t] \in Nat /\ copy[t] \in Nat /\ told[t] \in Nat /\ cleared[t] \in Nat
         /\ \A i \in Requests : /\ query[i] \in Query /\ query[i].tables \in Keys
                                /\ job[i] \in Job /\ job[i].version \in Versions
                                /\ \A t \in Tables : job[i].version[t] \in Nat /\ since[i][t] \in Nat
         /\ \A k \in Keys : /\ cache[k] \in Entry /\ k \subseteq Tables
                            /\ \A t \in Tables : /\ cache[k].version[t] \in Nat
                                                 /\ cache[k].put[t] \in Nat
<1>1. BackendOK /\ CacheOK /\ JobOK /\ ToldOK /\ HistoryOK
  BY TypeParts
<1>2. \A q \in Queries : q \in Query /\ q.tables \subseteq Tables
  BY KnownQuery DEF Query
<1>3. \A i \in Requests : query[i] \in Queries /\ job[i] \in Job /\ since[i] \in Versions
  BY <1>1 DEF JobOK, HistoryOK
<1>4. \A k \in Keys : cache[k] \in Entry /\ k \subseteq Tables
  BY <1>1, <1>2 DEF CacheOK, Keys
<1>5. \A v \in Versions, t \in Tables : v[t] \in Nat
  BY DEF Versions
<1>6. \A j \in Job : j.version \in Versions
  BY DEF Job
<1>7. \A e \in Entry : e.version \in Versions /\ e.put \in Versions
  BY DEF Entry
<1> QED
  BY <1>1, <1>2, <1>3, <1>4, <1>5, <1>6, <1>7 DEF BackendOK, ToldOK, HistoryOK, Keys

(* Clients are told more and more, and nothing that is not on the primary. *)
LEMMA TellGrows ==
  ASSUME TypeOK, NothingAhead, NEW i \in Requests, NEW a, Tell(i, a)
  PROVE  \A t \in Tables : told[t] <= told'[t] /\ told'[t] <= data[t]
<1>1. \A t \in Tables : job[i].version[t] <= data[t] /\ told[t] <= data[t]
  BY DEF NothingAhead
<1> QED
  BY <1>1, Shapes DEF Tell, Later

(* A request that a step leaves alone stays as it was. *)
LEMMA LeftAlone ==
  ASSUME TypeOK, TypeOK', NEW j \in Requests, RequestOK(j),
         pc'[j] = pc[j], query'[j] = query[j], job'[j] = job[j],
         answer'[j] = answer[j], since'[j] = since[j],
         \A t \in Tables : told[t] <= told'[t]
  PROVE  RequestOK(j)'
<1>1. Progress(j)' /\ Scope(j)'
  BY DEF RequestOK, Progress, Scope, LooksUp, Fills, OnPrimary
<1>2. \A t \in Tables : since[j][t] <= told'[t]
  <2> TAKE t \in Tables
  <2>1. since[j][t] \in Nat /\ told[t] \in Nat
    BY Shapes
  <2>2. told'[t] \in Nat
    BY DEF TypeOK, Versions
  <2> QED
    BY <2>1, <2>2 DEF RequestOK, Fresh
<1> QED
  BY <1>1, <1>2 DEF RequestOK, Fresh, OnPrimary

(* A step of one request leaves the others alone. *)
LEMMA OthersAlone ==
  ASSUME TypeOK, TypeOK', \A j \in Requests : RequestOK(j), NEW i \in Requests,
         \A j \in Requests \ {i} :
            /\ pc'[j] = pc[j] /\ query'[j] = query[j] /\ job'[j] = job[j]
            /\ answer'[j] = answer[j] /\ since'[j] = since[j],
         \A t \in Tables : told[t] <= told'[t],
         RequestOK(i)'
  PROVE  \A j \in Requests : RequestOK(j)'
  BY LeftAlone

(* Before the backend: the start of a request, a hit and a miss. *)
LEMMA LookupStep ==
  ASSUME IInv, TypeOK', NEW i \in Requests,
         (\E q \in Queries : Submit(i, q)) \/ Hit(i) \/ Miss(i)
  PROVE  IInv'
<1> USE DEF IInv
<1>1. ASSUME NEW q \in Queries, Submit(i, q)
      PROVE  IInv'
  <2>1. NothingAhead' /\ NoEntryOutlivesWrite'
    BY <1>1 DEF Submit, NothingAhead, NoEntryOutlivesWrite, backends, tasks
  <2>2. /\ pc[i] = "new" /\ pc'[i] = IF LooksUp(q) THEN "lookup" ELSE "connect"
        /\ query'[i] = q /\ since'[i] = Part(told, q)
        /\ answer'[i] = answer[i] /\ told' = told
    BY <1>1 DEF Submit, Goto, TypeOK
  <2>3. /\ \A t \in Tables : since'[i][t] <= told'[t]
        /\ \A t \in Tables \ query'[i].tables : since'[i][t] = 0
    BY <2>2, Shapes DEF Part
  <2>4. answer[i] = "none"
    BY <2>2 DEF RequestOK, Progress
  <2>5. RequestOK(i)'
    <3>1. /\ pc'[i] = "lookup" => LooksUp(query'[i])
          /\ pc'[i] \in {"lookup", "connect"}
      BY <2>2
    <3>2. Progress(i)'
      BY <2>2, <2>4, <3>1 DEF Progress, LooksUp
    <3>3. pc'[i] \notin HasResult /\ answer'[i] # "ok"
      BY <2>2, <2>4, <3>1 DEF HasResult
    <3>4. Scope(i)'
      BY <2>2, <2>3, <3>1 DEF Scope, HasResult
    <3>5. Fresh(i)'
      BY <2>2, <2>3, <3>1, <3>3 DEF Fresh, HasResult
    <3> QED
      BY <3>2, <3>4, <3>5 DEF RequestOK
  <2>6. \A j \in Requests \ {i} :
           /\ pc'[j] = pc[j] /\ query'[j] = query[j] /\ job'[j] = job[j]
           /\ answer'[j] = answer[j] /\ since'[j] = since[j]
    BY <1>1 DEF Submit, Goto, TypeOK
  <2>7. \A t \in Tables : told[t] <= told'[t]
    BY <2>2, Shapes
  <2> QED
    BY <2>1, <2>5, <2>6, <2>7, OthersAlone
<1>2. ASSUME Hit(i)
      PROVE  IInv'
  <2>1. query[i].tables \in Keys /\ job' = [job EXCEPT ![i].version = cache[query[i].tables].version]
    BY <1>2, Shapes DEF Hit
  <2>2. /\ pc[i] = "lookup" /\ pc'[i] = "over" /\ query' = query /\ since' = since
        /\ answer'[i] = "ok" /\ UNCHANGED <<data, copy, cache, cleared>>
    BY <1>2 DEF Hit, Tell, Goto, TypeOK, backends
  <2>3. \A t \in Tables : told[t] <= told'[t] /\ told'[t] <= data[t]
    BY <1>2, TellGrows DEF Hit
  <2>4. \A j \in Requests : job'[j].version = IF j = i THEN cache[query[i].tables].version
                                                     ELSE job[j].version
    BY <2>1, Shapes DEF TypeOK, Job
  <2>5. NothingAhead'
    BY <2>1, <2>2, <2>3, <2>4 DEF NothingAhead
  <2>6. NoEntryOutlivesWrite'
    BY <2>2 DEF NoEntryOutlivesWrite
  <2>7. ~OnPrimary(query[i])
    BY <2>2 DEF RequestOK, Progress, LooksUp, OnPrimary
  <2>8. \A t \in Tables : since[i][t] <= told'[t]
    <3> TAKE t \in Tables
    <3>1. since[i][t] \in Nat /\ told[t] \in Nat /\ told'[t] \in Nat
      BY Shapes DEF TypeOK, Versions
    <3> QED
      BY <3>1, <2>3 DEF RequestOK, Fresh
  <2>9. RequestOK(i)'
    BY <2>2, <2>7, <2>8 DEF RequestOK, Progress, Scope, Fresh, HasResult, OnPrimary
  <2>10. \A j \in Requests \ {i} :
           /\ pc'[j] = pc[j] /\ query'[j] = query[j] /\ job'[j] = job[j]
           /\ answer'[j] = answer[j] /\ since'[j] = since[j]
    BY <1>2, <2>1 DEF Hit, Tell, Goto, TypeOK
  <2> QED
    BY <2>3, <2>5, <2>6, <2>9, <2>10, OthersAlone
<1>3. ASSUME Miss(i)
      PROVE  IInv'
  <2>1. /\ pc[i] = "lookup" /\ pc'[i] = "connect"
        /\ UNCHANGED <<data, copy, query, job, answer, told, cleared, since>>
    BY <1>3 DEF Miss, Goto, TypeOK, backends, history
  <2>2. \A k \in Keys : cache'[k] = cache[k] \/ cache'[k] = NoEntry
    BY <1>3 DEF Miss, TypeOK, Keys
  <2>3. NoEntry.there = FALSE /\ \A t \in Tables : NoEntry.version[t] = 0
    BY DEF NoEntry, Zero
  <2>4. NothingAhead'
    <3>1. \A t \in Tables, k \in Keys : cache'[k].version[t] <= data[t]
      BY <2>2, <2>3, Shapes DEF NothingAhead
    <3> QED
      BY <2>1, <3>1 DEF NothingAhead
  <2>5. NoEntryOutlivesWrite'
    <3>1. DOMAIN cache' = Keys /\ DOMAIN cache = Keys
      BY DEF TypeOK, Keys
    <3> QED
      BY <2>1, <2>2, <2>3, <3>1 DEF NoEntryOutlivesWrite
  <2>6. RequestOK(i)'
    BY <2>1 DEF RequestOK, Progress, Scope, Fresh, HasResult, OnPrimary
  <2>7. \A j \in Requests \ {i} : pc'[j] = pc[j]
    BY <1>3 DEF Miss, Goto, TypeOK
  <2>8. \A t \in Tables : told[t] <= told'[t]
    BY <2>1, Shapes
  <2> QED
    BY <2>1, <2>4, <2>5, <2>6, <2>7, <2>8, OthersAlone
<1> QED
  BY <1>1, <1>2, <1>3

(* A connection is had and the query sent. *)
LEMMA SendStep ==
  ASSUME IInv, TypeOK', NEW i \in Requests, NEW b \in {"primary", "replica"}, NEW u \in Tids,
         Send(i, b, u)
  PROVE  IInv'
<1> USE DEF IInv
<1>1. /\ pc[i] \in {"connect", "reconnect"} /\ pc'[i] \in {"sent", "resent"}
      /\ UNCHANGED <<data, copy, cache, query, answer, told, cleared, since>>
  BY DEF Send, Goto, TypeOK, backends, history
<1>2. \A j \in Requests : job'[j] = IF j = i THEN [on |-> b, tid |-> u, version |-> Zero,
                                                  state |-> "pending"]
                                             ELSE job[j]
  BY DEF Send, TypeOK
<1>3. \A t \in Tables : job'[i].version[t] = 0
  BY <1>2 DEF Zero
<1>4. NothingAhead'
  <2>1. \A t \in Tables, j \in Requests : job'[j].version[t] <= data[t]
    BY <1>2, <1>3, Shapes DEF NothingAhead
  <2> QED
    BY <1>1, <2>1 DEF NothingAhead
<1>5. NoEntryOutlivesWrite'
  BY <1>1 DEF NoEntryOutlivesWrite
<1>6. OnPrimary(query[i]) => job'[i].on = "primary"
  BY <1>2 DEF Send, Targets, OnPrimary
<1>7. answer[i] = "none" /\ job'[i].state = "pending"
  BY <1>1, <1>2 DEF RequestOK, Progress
<1>8. Progress(i)'
  BY <1>1, <1>6, <1>7 DEF Progress, OnPrimary
<1>9. Scope(i)'
  BY <1>1, <1>3 DEF RequestOK, Scope, HasResult
<1>10. Fresh(i)'
  BY <1>1, <1>7 DEF RequestOK, Fresh, HasResult
<1>11. \A j \in Requests \ {i} : pc'[j] = pc[j]
  BY DEF Send, Goto, TypeOK
<1>12. \A t \in Tables : told[t] <= told'[t]
  BY <1>1, Shapes
<1>13. \A j \in Requests : RequestOK(j)'
  BY <1>1, <1>2, <1>8, <1>9, <1>10, <1>11, <1>12, OthersAlone DEF RequestOK
<1> QED
  BY <1>4, <1>5, <1>13

(* The data of the primary only grows. *)
LEMMA ExecutedGrows ==
  ASSUME TypeOK, NEW q \in Query
  PROVE  \A t \in Tables : Executed(q)[t] \in Nat /\ data[t] <= Executed(q)[t]
  BY Shapes DEF Executed

(* With growing data nothing gets ahead that was not. *)
LEMMA NothingGetsAhead ==
  ASSUME TypeOK, NothingAhead, NEW d \in Versions, \A t \in Tables : data[t] <= d[t]
  PROVE  \A t \in Tables :
            /\ copy[t] <= d[t] /\ told[t] <= d[t] /\ cleared[t] <= d[t]
            /\ \A i \in Requests : job[i].version[t] <= d[t]
            /\ \A k \in Keys : cache[k].version[t] <= d[t]
<1> TAKE t \in Tables
<1>1. data[t] \in Nat /\ d[t] \in Nat /\ data[t] <= d[t]
  BY Shapes DEF Versions
<1>2. copy[t] <= d[t] /\ told[t] <= d[t] /\ cleared[t] <= d[t]
  BY <1>1, Shapes DEF NothingAhead
<1>3. \A i \in Requests : job[i].version[t] <= d[t]
  BY <1>1, Shapes DEF NothingAhead
<1>4. \A k \in Keys : cache[k].version[t] <= d[t]
  BY <1>1, Shapes DEF NothingAhead
<1> QED
  BY <1>2, <1>3, <1>4

(* The backend executes a query. *)
LEMMA ExecuteStep ==
  ASSUME IInv, TypeOK', NEW i \in Requests, Execute(i)
  PROVE  IInv'
<1> USE DEF IInv
<1> DEFINE q == query[i]
           found == IF job[i].on = "primary" THEN Executed(q) ELSE copy
<1>0. q \in Query /\ data' \in Versions
  BY Shapes DEF TypeOK
<1>1. /\ pc[i] \in {"sent", "resent"}
      /\ UNCHANGED <<copy, cache, pc, query, answer, told, cleared, since>>
  BY DEF Execute
<1>2. /\ data' = IF job[i].on = "primary" THEN Executed(q) ELSE data
      /\ job' = [job EXCEPT ![i].state = "done", ![i].version = Part(found, q)]
  BY DEF Execute
<1>3. \A t \in Tables : data[t] <= data'[t]
  BY <1>0, <1>2, Shapes, ExecutedGrows
<1>4. \A t \in Tables : found[t] \in Nat /\ found[t] <= data'[t]
  <2>1. CASE job[i].on = "primary"
    BY <1>0, <1>2, <2>1, ExecutedGrows
  <2>2. CASE job[i].on # "primary"
    BY <1>2, <2>2, Shapes DEF NothingAhead
  <2> QED
    BY <2>1, <2>2
<1>5. /\ job'[i].version = Part(found, q) /\ job'[i].on = job[i].on
      /\ \A j \in Requests \ {i} : job'[j] = job[j]
  BY <1>2 DEF TypeOK, Job
<1>6. \A t \in Tables : job'[i].version[t] = IF t \in q.tables THEN found[t] ELSE 0
  BY <1>5 DEF Part
<1>7. NothingAhead'
  <2>1. \A t \in Tables :
            /\ copy[t] <= data'[t] /\ told[t] <= data'[t] /\ cleared[t] <= data'[t]
            /\ \A j \in Requests : job[j].version[t] <= data'[t]
            /\ \A k \in Keys : cache[k].version[t] <= data'[t]
    BY <1>0, <1>3, NothingGetsAhead
  <2>2. \A t \in Tables : job'[i].version[t] <= data'[t]
    BY <1>0, <1>4, <1>6 DEF Versions
  <2> QED
    BY <1>1, <1>5, <2>1, <2>2 DEF NothingAhead
<1>8. NoEntryOutlivesWrite'
  BY <1>1 DEF NoEntryOutlivesWrite
<1>9. answer[i] = "none" /\ (OnPrimary(q) => job[i].on = "primary")
  BY <1>1 DEF RequestOK, Progress
<1>10. Progress(i)'
  BY <1>1, <1>5, <1>9 DEF Progress, OnPrimary
<1>11. Scope(i)'
  BY <1>1, <1>6 DEF RequestOK, Scope, HasResult
<1>12. Fresh(i)'
  <2>1. \A t \in Tables : since[i][t] <= told[t] /\ told[t] <= data[t]
    BY DEF RequestOK, Fresh, NothingAhead
  <2>2. \A t \in Tables \ q.tables : since[i][t] = 0
    BY <1>1 DEF RequestOK, Scope
  <2>3. ASSUME OnPrimary(q), NEW t \in Tables
        PROVE  since[i][t] <= job'[i].version[t]
    <3>1. found[t] = data'[t] /\ data'[t] \in Nat
      BY <1>0, <1>2, <1>9, <2>3 DEF Versions
    <3>2. since[i][t] <= found[t]
      BY <3>1, <2>1, <1>3, Shapes
    <3> QED
      BY <1>6, <2>2, <3>2
  <2> QED
    BY <1>1, <2>1, <2>3 DEF Fresh, OnPrimary
<1>13. \A t \in Tables : told[t] <= told'[t]
  BY <1>1, Shapes
<1>14. \A j \in Requests : RequestOK(j)'
  BY <1>1, <1>5, <1>10, <1>11, <1>12, <1>13, OthersAlone DEF RequestOK
<1> QED
  BY <1>7, <1>8, <1>14

(* A request that is answered has a result that is fresh, if it needs to be. *)
LEMMA Answered ==
  ASSUME TypeOK, TypeOK', NothingAhead, \A j \in Requests : RequestOK(j),
         NEW i \in Requests, NEW a \in Answer, Tell(i, a),
         pc[i] # "new", UNCHANGED <<query, job, since>>,
         a = "ok" => pc[i] \in HasResult /\ job[i].state = "done"
  PROVE  /\ \A j \in Requests : RequestOK(j)'
         /\ \A t \in Tables : told[t] <= told'[t] /\ told'[t] <= data[t]
<1>1. \A t \in Tables : told[t] <= told'[t] /\ told'[t] <= data[t]
  BY TellGrows
<1>2. pc'[i] = "over" /\ answer'[i] = a
  BY DEF Tell, Goto, TypeOK
<1>3. \A j \in Requests \ {i} : pc'[j] = pc[j] /\ answer'[j] = answer[j]
  BY DEF Tell, Goto, TypeOK
<1>4. Progress(i)' /\ Scope(i)'
  BY <1>2 DEF RequestOK, Progress, Scope, HasResult
<1>5. Fresh(i)'
  <2>1. \A t \in Tables : since[i][t] <= told'[t]
    <3> TAKE t \in Tables
    <3>1. since[i][t] \in Nat /\ told[t] \in Nat /\ told'[t] \in Nat
      BY Shapes DEF TypeOK, Versions
    <3> QED
      BY <3>1, <1>1 DEF RequestOK, Fresh
  <2> QED
    BY <1>2, <2>1 DEF RequestOK, Fresh, HasResult, OnPrimary
<1> QED
  BY <1>1, <1>3, <1>4, <1>5, OthersAlone DEF RequestOK

(* Steps that end a request without touching the data, the cache or other requests. *)
LEMMA EndStep ==
  ASSUME IInv, TypeOK', NEW i \in Requests,
         Refused(i) \/ RetryRefused(i) \/ TimeOut(i) \/ Lost(i) \/ Receive(i)
  PROVE  IInv'
<1> USE DEF IInv
<1>1. /\ UNCHANGED <<data, copy, cache, query, job, cleared, since>>
      /\ pc[i] # "new"
  BY DEF Refused, RetryRefused, TimeOut, Timed, Lost, Receive, backends, tasks
<1>2. NoEntryOutlivesWrite'
  BY <1>1 DEF NoEntryOutlivesWrite
<1>3. ASSUME NEW a \in Answer, Tell(i, a), a = "ok" => pc[i] \in HasResult /\ job[i].state = "done"
      PROVE  IInv'
  <2>1. /\ \A j \in Requests : RequestOK(j)'
        /\ \A t \in Tables : told'[t] <= data[t]
    BY <1>1, <1>3, Answered
  <2>2. NothingAhead'
    BY <1>1, <2>1 DEF NothingAhead
  <2> QED
    BY <1>2, <2>1, <2>2
<1>4. ASSUME NEW l \in {"filling", "invalidating", "reconnect"}, Goto(i, l),
             UNCHANGED <<answer, told>>, pc[i] \in {"sent", "resent"},
             l # "reconnect" => job[i].state = "done",
             l = "filling" => Fills(query[i])
      PROVE  IInv'
  <2>1. NothingAhead'
    BY <1>1, <1>4 DEF NothingAhead
  <2>2. pc'[i] = l /\ \A j \in Requests \ {i} : pc'[j] = pc[j]
    BY <1>4 DEF Goto, TypeOK
  <2>3. answer[i] = "none"
    BY <1>4 DEF RequestOK, Progress
  <2>4. Progress(i)'
    BY <1>1, <1>4, <2>2, <2>3 DEF Progress, Fills
  <2>5. Scope(i)'
    BY <1>1, <1>4, <2>2 DEF RequestOK, Scope, HasResult
  <2>6. Fresh(i)'
    BY <1>1, <1>4, <2>2, <2>3 DEF RequestOK, Fresh, HasResult, OnPrimary
  <2>7. \A t \in Tables : told[t] <= told'[t]
    BY <1>4, Shapes
  <2>8. \A j \in Requests : RequestOK(j)'
    BY <1>1, <1>4, <2>2, <2>4, <2>5, <2>6, <2>7, OthersAlone DEF RequestOK
  <2> QED
    BY <1>2, <2>1, <2>8
<1>5. CASE Refused(i) \/ RetryRefused(i) \/ TimeOut(i)
  <2>1. \E a \in {"refused", "lost", "timeout"} : Tell(i, a)
    BY <1>5 DEF Refused, RetryRefused, TimeOut
  <2> QED
    BY <1>3, <2>1 DEF Answer
<1>6. CASE Lost(i)
  <2>1. \/ Tell(i, "lost")
        \/ Goto(i, "reconnect") /\ UNCHANGED <<answer, told>> /\ pc[i] \in {"sent", "resent"}
    BY <1>6 DEF Lost
  <2> QED
    BY <1>3, <1>4, <2>1 DEF Answer
<1>7. CASE Receive(i)
  <2>1. pc[i] \in {"sent", "resent"} /\ pc[i] \in HasResult
    BY <1>7 DEF Receive, HasResult
  <2>2. \/ Tell(i, "ok") /\ job[i].state = "done"
        \/ Tell(i, "error")
        \/ /\ \/ Goto(i, "filling") /\ Fills(query[i])
              \/ Goto(i, "invalidating")
           /\ job[i].state = "done" /\ UNCHANGED <<answer, told>>
    BY <1>7 DEF Receive
  <2> QED
    BY <1>3, <1>4, <2>1, <2>2 DEF Answer
<1> QED
  BY <1>5, <1>6, <1>7

(* A read stores its result: the entry is as young as every invalidation so far. *)
LEMMA PutStep ==
  ASSUME IInv, TypeOK', NEW i \in Requests, CachePut(i)
  PROVE  IInv'
<1> USE DEF IInv
<1> DEFINE key == query[i].tables
<1>1. /\ UNCHANGED <<data, copy, query, job, cleared, since>>
      /\ pc[i] = "filling" /\ Tell(i, "ok")
  BY DEF CachePut, backends, tasks
<1>2. pc[i] \in HasResult /\ job[i].state = "done"
  BY <1>1 DEF RequestOK, Progress, HasResult
<1>3. /\ \A j \in Requests : RequestOK(j)'
      /\ \A t \in Tables : told'[t] <= data[t]
  BY <1>1, <1>2, Answered DEF Answer
<1>4. DOMAIN cache = Keys /\ DOMAIN cache' = Keys /\ key \in Keys /\ key \subseteq Tables
  BY Shapes DEF TypeOK, Keys
<1>5. \A k \in Keys : \/ cache'[k] = cache[k]
                      \/ cache'[k] = NoEntry
                      \/ k = key /\ cache'[k] = NewEntry(i)
  <2>1. CASE cache' = [cache EXCEPT ![key] = NewEntry(i)]
    BY <1>4, <2>1
  <2>2. CASE \E victim \in DOMAIN cache :
               cache' = [cache EXCEPT ![victim] = NoEntry, ![key] = NewEntry(i)]
    BY <1>4, <2>2
  <2> QED
    BY <2>1, <2>2 DEF CachePut
<1>6. NoEntry.there = FALSE /\ \A t \in Tables : NoEntry.version[t] = 0
  BY DEF NoEntry, Zero
<1>7. \A t \in Tables : /\ NewEntry(i).version[t] <= data[t]
                        /\ t \in key => NewEntry(i).put[t] = data[t]
  <2>1. \A t \in Tables : t \in key => Part(data, query[i])[t] = data[t]
    BY DEF Part
  <2>2. NewEntry(i).version = job[i].version /\ NewEntry(i).put = Part(data, query[i])
    BY DEF NewEntry
  <2> QED
    BY <2>1, <2>2 DEF NothingAhead
<1>8. NothingAhead'
  <2>1. ASSUME NEW t \in Tables, NEW k \in Keys
        PROVE  cache'[k].version[t] <= data[t]
    <3>1. cache[k].version[t] <= data[t] /\ 0 <= data[t]
      BY Shapes DEF NothingAhead
    <3> QED
      BY <1>5, <1>6, <1>7, <3>1
  <2> QED
    BY <1>1, <1>3, <2>1 DEF NothingAhead
<1>9. NoEntryOutlivesWrite'
  <2> SUFFICES ASSUME NEW k \in Keys, cache'[k].there, NEW t \in k
               PROVE  cleared[t] <= cache'[k].put[t]
    BY <1>1, <1>4 DEF NoEntryOutlivesWrite
  <2>1. CASE cache'[k] = cache[k]
    BY <1>4, <2>1 DEF NoEntryOutlivesWrite
  <2>2. CASE k = key /\ cache'[k] = NewEntry(i)
    <3>1. t \in Tables /\ t \in key
      BY <1>4, <2>2
    <3>2. cache'[k].put[t] = data[t]
      BY <1>7, <2>2, <3>1
    <3> QED
      BY <3>1, <3>2 DEF NothingAhead
  <2> QED
    BY <1>5, <1>6, <2>1, <2>2
<1> QED
  BY <1>3, <1>8, <1>9

(* A write clears every entry of its tables and raises the bound for those only. *)
LEMMA InvalidateStep ==
  ASSUME IInv, TypeOK', NEW i \in Requests, Invalidate(i)
  PROVE  IInv'
<1> USE DEF IInv
<1> DEFINE q == query[i]
<1>1. /\ UNCHANGED <<data, copy, query, job, since>>
      /\ pc[i] = "invalidating" /\ Tell(i, "ok")
  BY DEF Invalidate, backends, tasks
<1>2. pc[i] \in HasResult /\ job[i].state = "done"
  BY <1>1 DEF RequestOK, Progress, HasResult
<1>3. /\ \A j \in Requests : RequestOK(j)'
      /\ \A t \in Tables : told'[t] <= data[t]
  BY <1>1, <1>2, Answered DEF Answer
<1>4. DOMAIN cache = Keys /\ DOMAIN cache' = Keys
  BY DEF TypeOK, Keys
<1>5. \A k \in Keys : cache'[k] = IF Touches(k, q) THEN NoEntry ELSE cache[k]
  BY <1>4 DEF Invalidate
<1>6. NoEntry.there = FALSE /\ \A t \in Tables : NoEntry.version[t] = 0
  BY DEF NoEntry, Zero
<1>7. \A t \in Tables \ q.tables : job[i].version[t] = 0
  BY <1>2 DEF RequestOK, Scope
<1>8. \A t \in Tables : /\ cleared'[t] <= data[t]
                        /\ t \notin q.tables => cleared'[t] = cleared[t]
  <2>1. \A t \in Tables : job[i].version[t] <= data[t] /\ cleared[t] <= data[t]
    BY DEF NothingAhead
  <2>2. CASE cleared' = cleared
    BY <2>1, <2>2
  <2>3. CASE cleared' = Later(cleared, job[i].version)
    BY <1>7, <2>1, <2>3, Shapes DEF Later
  <2> QED
    BY <2>2, <2>3 DEF Invalidate
<1>9. NothingAhead'
  <2>1. ASSUME NEW t \in Tables, NEW k \in Keys
        PROVE  cache'[k].version[t] <= data[t]
    <3>1. cache[k].version[t] <= data[t] /\ 0 <= data[t]
      BY Shapes DEF NothingAhead
    <3> QED
      BY <1>5, <1>6, <3>1
  <2>2. \A t \in Tables : /\ copy[t] <= data[t] /\ told'[t] <= data[t] /\ cleared'[t] <= data[t]
                          /\ \A j \in Requests : job[j].version[t] <= data[t]
    BY <1>3, <1>8 DEF NothingAhead
  <2> QED
    BY <1>1, <2>1, <2>2 DEF NothingAhead
<1>10. NoEntryOutlivesWrite'
  <2> SUFFICES ASSUME NEW k \in Keys, cache'[k].there, NEW t \in k
               PROVE  cleared'[t] <= cache'[k].put[t]
    BY <1>4 DEF NoEntryOutlivesWrite
  <2>1. ~Touches(k, q) /\ cache'[k] = cache[k]
    BY <1>5, <1>6
  <2>2. t \notin q.tables /\ t \in Tables
    BY <2>1, Shapes DEF Touches
  <2>3. cleared[t] <= cache[k].put[t]
    BY <1>4, <2>1 DEF NoEntryOutlivesWrite
  <2>4. cleared'[t] = cleared[t]
    BY <1>8, <2>2
  <2> QED
    BY <2>1, <2>3, <2>4
<1> QED
  BY <1>3, <1>9, <1>10

(* What backends, the network and time do without the request knowing. *)
LEMMA OutsideStep ==
  ASSUME IInv, TypeOK',
         \/ \E l \in loose : ExecuteLoose(l)
         \/ \E k \in kills : KillArrives(k) \/ KillFails(k)
         \/ \E i \in Requests : Fail(i)
         \/ Replicate
         \/ Tick
         \/ UNCHANGED vars
  PROVE  IInv'
<1> USE DEF IInv
<1>1. UNCHANGED <<pc, query, answer, told, cleared, since>>
  <2>1. CASE \E l \in loose : ExecuteLoose(l)
    BY <2>1 DEF ExecuteLoose
  <2>2. CASE \E k \in kills : KillArrives(k) \/ KillFails(k)
    BY <2>2 DEF KillArrives, KillFails, Kill, history
  <2>3. CASE \E i \in Requests : Fail(i)
    BY <2>3 DEF Fail, history
  <2>4. CASE Replicate \/ Tick \/ UNCHANGED vars
    BY <2>4 DEF Replicate, Tick, vars, history
  <2> QED
    BY <2>1, <2>2, <2>3, <2>4
<1>2. \A t \in Tables : told[t] <= told'[t]
  BY <1>1, Shapes
<1>3. CASE \E l \in loose : ExecuteLoose(l)
  <2> PICK l \in loose : ExecuteLoose(l)
    BY <1>3
  <2>1. query[l.id] \in Query /\ data' \in Versions
    <3>1. l.id \in Requests
      BY DEF TypeOK
    <3> QED
      BY <3>1, Shapes DEF TypeOK
  <2>2. UNCHANGED <<copy, cache, job>>
    BY DEF ExecuteLoose
  <2>3. \A t \in Tables : data[t] <= data'[t]
    BY <2>1, ExecutedGrows, Shapes DEF ExecuteLoose
  <2>4. NothingAhead'
    BY <1>1, <2>1, <2>2, <2>3, NothingGetsAhead DEF NothingAhead
  <2> QED
    BY <1>1, <1>2, <2>2, <2>4, LeftAlone DEF NoEntryOutlivesWrite
<1>4. CASE (\E k \in kills : KillArrives(k)) \/ (\E i \in Requests : Fail(i))
  <2>1. UNCHANGED <<data, copy, cache>>
    <3>1. CASE \E k \in kills : KillArrives(k)
      BY <3>1 DEF KillArrives, Kill, backends
    <3>2. CASE \E i \in Requests : Fail(i)
      BY <3>2 DEF Fail, backends
    <3> QED
      BY <1>4, <3>1, <3>2
  <2>2. \A j \in Requests :
           \/ job'[j] = job[j]
           \/ /\ pc[j] \in {"sent", "resent"} /\ job[j].state = "pending"
              /\ job'[j] = [job[j] EXCEPT !.state = "error"]
    BY <1>4 DEF KillArrives, Fail, TypeOK
  <2>3. \A j \in Requests : job'[j].version = job[j].version /\ job'[j].on = job[j].on
    BY <2>2, Shapes DEF Job
  <2>4. NothingAhead'
    BY <1>1, <2>1, <2>3 DEF NothingAhead
  <2>5. ASSUME NEW j \in Requests
        PROVE  RequestOK(j)'
    <3>1. CASE job'[j] = job[j]
      BY <1>1, <1>2, <3>1, LeftAlone
    <3>2. CASE pc[j] \in {"sent", "resent"} /\ job'[j].state = "error"
      <4>1. Progress(j)'
        BY <1>1, <2>3, <3>2 DEF RequestOK, Progress, LooksUp, Fills, OnPrimary
      <4>2. Scope(j)'
        BY <1>1, <2>3 DEF RequestOK, Scope, HasResult
      <4>3. answer[j] = "none"
        BY <3>2 DEF RequestOK, Progress
      <4>4. Fresh(j)'
        BY <1>1, <3>2, <4>3 DEF RequestOK, Fresh, HasResult
      <4> QED
        BY <4>1, <4>2, <4>4 DEF RequestOK
    <3>3. [job[j] EXCEPT !.state = "error"].state = "error"
      BY Shapes DEF Job
    <3> QED
      BY <2>2, <3>1, <3>2, <3>3
  <2> QED
    BY <1>1, <2>1, <2>4, <2>5 DEF NoEntryOutlivesWrite
<1>5. CASE (\E k \in kills : KillFails(k)) \/ UNCHANGED vars
  <2>1. UNCHANGED <<data, copy, cache, job>>
    BY <1>5 DEF KillFails, Kill, vars, backends
  <2> QED
    BY <1>1, <1>2, <2>1, LeftAlone DEF NothingAhead, NoEntryOutlivesWrite
<1>6. CASE Replicate
  <2>1. copy' = data /\ UNCHANGED <<data, cache, job>>
    BY <1>6 DEF Replicate
  <2>2. NothingAhead'
    BY <1>1, <2>1, Shapes DEF NothingAhead
  <2> QED
    BY <1>1, <1>2, <2>1, <2>2, LeftAlone DEF NoEntryOutlivesWrite
<1>7. CASE Tick
  <2>1. UNCHANGED <<data, copy, job>>
    BY <1>7 DEF Tick, backends
  <2>2. DOMAIN cache = Keys /\ DOMAIN cache' = Keys
    BY DEF TypeOK, Keys
  <2>3. \A k \in Keys : /\ cache'[k].there = cache[k].there
                        /\ cache'[k].version = cache[k].version
                        /\ cache'[k].put = cache[k].put
    <3>1. \A e \in Entry : LET f == [e EXCEPT !.age = @ + 1] IN
             f.there = e.there /\ f.version = e.version /\ f.put = e.put
      BY DEF Entry
    <3> QED
      BY <1>7, <2>2, <3>1, Shapes DEF Tick
  <2>4. NothingAhead'
    BY <1>1, <2>1, <2>3 DEF NothingAhead
  <2>5. NoEntryOutlivesWrite'
    BY <1>1, <2>2, <2>3 DEF NoEntryOutlivesWrite
  <2> QED
    BY <1>1, <1>2, <2>1, <2>4, <2>5, LeftAlone
<1> QED
  BY <1>3, <1>4, <1>5, <1>6, <1>7

-----------------------------------------------------------------------------
(* The invariant holds at the start. *)
LEMMA Start == Init /\ TypeOK => IInv
<1> SUFFICES ASSUME Init, TypeOK PROVE IInv
  OBVIOUS
<1>1. \A t \in Tables : Zero[t] = 0
  BY DEF Zero
<1>2. \A k \in Keys : cache[k].there = FALSE /\ cache[k].version = Zero
  BY DEF Init, NoEntry, Keys
<1>3. \A i \in Requests : /\ pc[i] = "new" /\ answer[i] = "none"
                         /\ job[i].version = Zero /\ since[i] = Zero
  BY DEF Init
<1>4. data = Zero /\ copy = Zero /\ told = Zero /\ cleared = Zero
  BY DEF Init
<1>5. NothingAhead
  BY <1>1, <1>2, <1>3, <1>4 DEF NothingAhead
<1>6. NoEntryOutlivesWrite
  BY <1>2 DEF NoEntryOutlivesWrite, Init, Keys
<1>7. \A i \in Requests : RequestOK(i)
  BY <1>1, <1>3, <1>4 DEF RequestOK, Progress, Scope, Fresh, HasResult
<1> QED
  BY <1>5, <1>6, <1>7 DEF IInv

(* Every step keeps it. *)
LEMMA Inductive == IInv /\ [Next]_vars => IInv'
<1> SUFFICES ASSUME IInv, [Next]_vars PROVE IInv'
  OBVIOUS
<1>1. TypeOK'
  BY TypeStep DEF IInv
<1>2. ASSUME NEW i \in Requests, ProxyStep(i)
      PROVE  IInv'
  BY <1>1, <1>2, LookupStep, SendStep, EndStep, PutStep, InvalidateStep DEF ProxyStep
<1>3. ASSUME NEW i \in Requests, BackendStep(i)
      PROVE  IInv'
  BY <1>1, <1>3, ExecuteStep, EndStep, OutsideStep DEF BackendStep
<1>4. ASSUME NEW i \in Requests, NEW q \in Queries, Submit(i, q)
      PROVE  IInv'
  BY <1>1, <1>4, LookupStep
<1> QED
  BY <1>1, <1>2, <1>3, <1>4, OutsideStep DEF Next

(* It is an invariant. *)
LEMMA Invariance == Spec => []IInv
<1>1. Init => IInv
  BY InitTypes, Start
<1> QED
  BY <1>1, Inductive, PTL DEF Spec

(* However reads that fill the cache, writes, retries and late executions interleave,     *)
(* no entry survives invalidate_tables that was stored before the write was executed.    *)
THEOREM NoStaleEntries == Spec => []NoEntryOutlivesWrite
<1>1. IInv => NoEntryOutlivesWrite
  BY DEF IInv
<1> QED
  BY <1>1, Invariance, PTL

(* A read that route_query_inner or route_fast sends to the primary has every write that   *)
(* a client was told of before the read began.                                           *)
THEOREM ReadsOnPrimaryAreFresh == Spec => []PrimaryReadsAreFresh
<1>1. IInv => PrimaryReadsAreFresh
  BY DEF IInv, RequestOK, Fresh, OnPrimary, PrimaryReadsAreFresh
<1> QED
  BY <1>1, Invariance, PTL

-----------------------------------------------------------------------------
(* How often a request is executed. *)

(* The executions of a request that nobody waits for. *)
Given(i) == {l \in loose : l.id = i}

Waiting(p, s) == IF p \in {"sent", "resent"} /\ s = "pending" THEN 1 ELSE 0
Retried(q) == q.dest \in {"replica", "primary"}

(* The attempts a request may have made when it has come to p. *)
Budget(p, q) ==
  IF p \in {"new", "lookup", "connect"} THEN 0
  ELSE IF p \in {"sent", "reconnect"} THEN 1
  ELSE IF Retried(q) THEN 2 ELSE 1

(* A request at p with query q, answer a and a job in state s that was executed r times  *)
(* and of which n executions are given up.                                             *)
Counts(p, s, a, q, r, n) ==
  /\ a # "none" => p = "over"
  /\ a = "ok" /\ q.kind = "write" => r >= 1
  /\ a = "refused" => r + n = 0
  /\ s = "done" /\ p \in HasResult => r >= 1
  /\ p \in {"reconnect", "resent"} => Retried(q)
  /\ r + n + Waiting(p, s) <= Budget(p, q)

Counted(i) ==
  /\ IsFiniteSet(Given(i))
  /\ Counts(pc[i], job[i].state, answer[i], query[i], runs[i], Cardinality(Given(i)))

(* Fewer executions given up, and a job that fails, are no more attempts. *)
LEMMA FewerAttempts ==
  ASSUME NEW p, NEW s, NEW s1, NEW a, NEW q, NEW r \in Nat, NEW n \in Nat, NEW m \in Nat,
         m <= n, s1 = s \/ s1 = "error", Counts(p, s, a, q, r, n)
  PROVE  Counts(p, s1, a, q, r, m)
  BY DEF Counts, Waiting, Budget

(* What the executions given up may become without a request noticing. *)
LEMMA FewerGiven ==
  ASSUME NEW j \in Requests, IsFiniteSet(Given(j)), Given(j)' \subseteq Given(j)
  PROVE  /\ IsFiniteSet(Given(j)') /\ Cardinality(Given(j)') \in Nat
         /\ Cardinality(Given(j)) \in Nat /\ Cardinality(Given(j)') <= Cardinality(Given(j))
<1>1. PICK S : S = Given(j)
  OBVIOUS
<1>2. PICK T : T = Given(j)'
  OBVIOUS
<1>3. IsFiniteSet(S) /\ T \in SUBSET S
  BY <1>1, <1>2
<1>4. IsFiniteSet(T) /\ Cardinality(T) <= Cardinality(S)
  BY <1>3, FS_Subset
<1>5. Cardinality(T) \in Nat /\ Cardinality(S) \in Nat
  BY <1>3, <1>4, FS_CardinalityType
<1> QED
  BY <1>1, <1>2, <1>4, <1>5

(* A request whose counters a step leaves alone, or whose execution it stops. *)
LEMMA CountKept ==
  ASSUME TypeOK, NEW j \in Requests, Counted(j), Given(j)' \subseteq Given(j),
         pc'[j] = pc[j], query'[j] = query[j], answer'[j] = answer[j], runs'[j] = runs[j],
         job'[j].state = job[j].state \/ job'[j].state = "error"
  PROVE  Counted(j)'
<1>1. runs[j] \in Nat
  BY DEF TypeOK
<1>2. /\ IsFiniteSet(Given(j)') /\ Cardinality(Given(j)') \in Nat
      /\ Cardinality(Given(j)) \in Nat /\ Cardinality(Given(j)') <= Cardinality(Given(j))
  BY FewerGiven DEF Counted
<1>3. Counts(pc[j], job'[j].state, answer[j], query[j], runs[j], Cardinality(Given(j)'))
  BY <1>1, <1>2, FewerAttempts DEF Counted
<1> QED
  BY <1>2, <1>3 DEF Counted

(* A step of request i that neither adds nor ends an execution that was given up: the     *)
(* others are as they were, and i is if its numbers fit.                                *)
LEMMA OwnStep ==
  ASSUME TypeOK, TypeOK', \A j \in Requests : Counted(j), NEW i \in Requests, loose' = loose,
         \A j \in Requests \ {i} :
            /\ pc'[j] = pc[j] /\ query'[j] = query[j] /\ job'[j].state = job[j].state
            /\ answer'[j] = answer[j] /\ runs'[j] = runs[j],
         \A n \in Nat : Counts(pc[i], job[i].state, answer[i], query[i], runs[i], n)
                   => Counts(pc'[i], job'[i].state, answer'[i], query'[i], runs'[i], n)
  PROVE  \A j \in Requests : Counted(j)'
<1> TAKE j \in Requests
<1>1. Given(j)' = Given(j)
  BY DEF Given
<1>2. CASE j # i
  BY <1>1, <1>2, CountKept
<1>3. CASE j = i
  <2>1. Cardinality(Given(i)) \in Nat
    BY FewerGiven, <1>1, <1>3 DEF Counted
  <2> QED
    BY <1>1, <1>3, <2>1 DEF Counted
<1> QED
  BY <1>2, <1>3

(* Before the backend. *)
LEMMA CountLookup ==
  ASSUME TypeOK, TypeOK', IInv, \A j \in Requests : Counted(j), NEW i \in Requests,
         (\E q \in Queries : Submit(i, q)) \/ Refused(i) \/ Hit(i) \/ Miss(i)
  PROVE  \A j \in Requests : Counted(j)'
<1>1. /\ pc \in [Requests -> PCs] /\ query \in [Requests -> Queries]
      /\ answer \in [Requests -> Answer] /\ runs \in [Requests -> Nat]
      /\ job \in [Requests -> Job]
  BY DEF TypeOK, Answer
<1>2. Progress(i)
  BY DEF IInv, RequestOK
<1>3. CASE \E q \in Queries : Submit(i, q)
  <2>1. PICK q \in Queries : Submit(i, q)
    BY <1>3
  <2>2. \A n \in Nat : Counts(pc[i], job[i].state, answer[i], query[i], runs[i], n)
                   => Counts(pc'[i], job'[i].state, answer'[i], query'[i], runs'[i], n)
    BY <1>1, <2>1 DEF Submit, Goto, Counts, Waiting, Budget, HasResult, tasks
  <2> QED
    BY <1>1, <2>1, <2>2, OwnStep DEF Submit, Goto, tasks
<1>4. CASE Refused(i)
  <2>2. \A n \in Nat : Counts(pc[i], job[i].state, answer[i], query[i], runs[i], n)
                   => Counts(pc'[i], job'[i].state, answer'[i], query'[i], runs'[i], n)
    BY <1>1, <1>4 DEF Refused, Tell, Goto, Counts, Waiting, Budget, HasResult
  <2> QED
    BY <1>1, <1>4, <2>2, OwnStep DEF Refused, Tell, Goto, tasks
<1>5. CASE Hit(i)
  <2>1. \A j \in Requests : job'[j].state = job[j].state
    BY <1>1, <1>5 DEF Hit, Job
  <2>2. query[i].kind = "read"
    BY <1>2, <1>5 DEF Hit, Progress, LooksUp
  <2>3. \A n \in Nat : Counts(pc[i], job[i].state, answer[i], query[i], runs[i], n)
                   => Counts(pc'[i], job'[i].state, answer'[i], query'[i], runs'[i], n)
    BY <1>1, <1>5, <2>1, <2>2 DEF Hit, Tell, Goto, Counts, Waiting, Budget, HasResult
  <2> QED
    BY <1>1, <1>5, <2>1, <2>3, OwnStep DEF Hit, Tell, Goto, tasks
<1>6. CASE Miss(i)
  <2>2. \A n \in Nat : Counts(pc[i], job[i].state, answer[i], query[i], runs[i], n)
                   => Counts(pc'[i], job'[i].state, answer'[i], query'[i], runs'[i], n)
    BY <1>1, <1>6 DEF Miss, Goto, Counts, Waiting, Budget, HasResult, history
  <2> QED
    BY <1>1, <1>6, <2>2, OwnStep DEF Miss, Goto, tasks, history
<1> QED
  BY <1>3, <1>4, <1>5, <1>6

(* A query is sent. *)
LEMMA CountSend ==
  ASSUME TypeOK, TypeOK', \A j \in Requests : Counted(j), NEW i \in Requests,
         NEW b \in {"primary", "replica"}, NEW t \in Tids, Send(i, b, t)
  PROVE  \A j \in Requests : Counted(j)'
<1>1. /\ pc \in [Requests -> PCs] /\ query \in [Requests -> Queries]
      /\ answer \in [Requests -> Answer] /\ runs \in [Requests -> Nat]
      /\ job \in [Requests -> Job]
  BY DEF TypeOK, Answer
<1>2. /\ job'[i].state = "pending"
      /\ \A j \in Requests \ {i} : job'[j] = job[j]
  BY <1>1 DEF Send
<1>3. \A n \in Nat : Counts(pc[i], job[i].state, answer[i], query[i], runs[i], n)
                   => Counts(pc'[i], job'[i].state, answer'[i], query'[i], runs'[i], n)
  BY <1>1, <1>2 DEF Send, Goto, Counts, Waiting, Budget, HasResult, history
<1> QED
  BY <1>1, <1>2, <1>3, OwnStep DEF Send, Goto, tasks, history

(* The backend answers. *)
LEMMA CountExecute ==
  ASSUME TypeOK, TypeOK', \A j \in Requests : Counted(j), NEW i \in Requests,
         Execute(i) \/ Fail(i)
  PROVE  \A j \in Requests : Counted(j)'
<1>1. /\ pc \in [Requests -> PCs] /\ query \in [Requests -> Queries]
      /\ answer \in [Requests -> Answer] /\ runs \in [Requests -> Nat]
      /\ job \in [Requests -> Job]
  BY DEF TypeOK, Answer
<1>2. CASE Execute(i)
  <2>1. /\ job'[i].state = "done" /\ runs'[i] = runs[i] + 1
        /\ \A j \in Requests \ {i} : job'[j] = job[j] /\ runs'[j] = runs[j]
    BY <1>1, <1>2 DEF Execute, Job
  <2>2. \A n \in Nat : Counts(pc[i], job[i].state, answer[i], query[i], runs[i], n)
                   => Counts(pc'[i], job'[i].state, answer'[i], query'[i], runs'[i], n)
    BY <1>1, <1>2, <2>1 DEF Execute, Counts, Waiting, Budget, HasResult
  <2> QED
    BY <1>1, <1>2, <2>1, <2>2, OwnStep DEF Execute, tasks
<1>3. CASE Fail(i)
  <2>1. /\ job'[i].state = "error"
        /\ \A j \in Requests \ {i} : job'[j] = job[j]
    BY <1>1, <1>3 DEF Fail, Job
  <2>2. \A n \in Nat : Counts(pc[i], job[i].state, answer[i], query[i], runs[i], n)
                   => Counts(pc'[i], job'[i].state, answer'[i], query'[i], runs'[i], n)
    BY <1>1, <1>3, <2>1 DEF Fail, Counts, Waiting, Budget, HasResult, history
  <2> QED
    BY <1>1, <1>3, <2>1, <2>2, OwnStep DEF Fail, tasks, history
<1> QED
  BY <1>2, <1>3

(* The proxy takes the answer, and fills or clears the cache. *)
LEMMA CountEnd ==
  ASSUME TypeOK, TypeOK', IInv, \A j \in Requests : Counted(j), NEW i \in Requests,
         Receive(i) \/ CachePut(i) \/ Invalidate(i) \/ RetryRefused(i)
  PROVE  \A j \in Requests : Counted(j)'
<1>1. /\ pc \in [Requests -> PCs] /\ query \in [Requests -> Queries]
      /\ answer \in [Requests -> Answer] /\ runs \in [Requests -> Nat]
      /\ job \in [Requests -> Job]
  BY DEF TypeOK, Answer
<1>2. Progress(i)
  BY DEF IInv, RequestOK
<1>3. /\ UNCHANGED <<query, job, loose, runs>>
      /\ \A j \in Requests \ {i} : pc'[j] = pc[j] /\ answer'[j] = answer[j]
  BY <1>1 DEF Receive, CachePut, Invalidate, RetryRefused, Tell, Goto, tasks
<1>4. \/ /\ pc[i] = "sent" /\ job[i].state = "done" /\ answer'[i] = answer[i]
         /\ pc'[i] \in {"filling", "invalidating"}
      \/ /\ pc[i] \in HasResult /\ job[i].state = "done"
         /\ pc'[i] = "over" /\ answer'[i] = "ok"
      \/ /\ pc[i] \in {"sent", "resent", "reconnect"}
         /\ pc'[i] = "over" /\ answer'[i] \in {"error", "lost"}
  <2>1. CASE Receive(i)
    BY <1>1, <2>1 DEF Receive, Tell, Goto, HasResult
  <2>2. CASE CachePut(i)
    BY <1>1, <1>2, <2>2 DEF CachePut, Tell, Goto, HasResult, Progress
  <2>3. CASE Invalidate(i)
    BY <1>1, <1>2, <2>3 DEF Invalidate, Tell, Goto, HasResult, Progress
  <2>4. CASE RetryRefused(i)
    BY <1>1, <2>4 DEF RetryRefused, Tell, Goto
  <2> QED
    BY <2>1, <2>2, <2>3, <2>4
<1>5. \A n \in Nat : Counts(pc[i], job[i].state, answer[i], query[i], runs[i], n)
                   => Counts(pc'[i], job[i].state, answer'[i], query[i], runs[i], n)
  BY <1>1, <1>4 DEF Counts, Waiting, Budget, HasResult
<1> QED
  BY <1>3, <1>5, OwnStep

(* The connection of a request is dropped: what it waited for is given up, and of the      *)
(* other requests nothing changes.                                                       *)
LEMMA GiveUp ==
  ASSUME TypeOK, NEW i \in Requests, \A j \in Requests : Counted(j), Drop(i)
  PROVE  /\ \A j \in Requests \ {i} : Given(j)' \subseteq Given(j)
         /\ IsFiniteSet(Given(i)') /\ Cardinality(Given(i)') \in Nat
         /\ Cardinality(Given(i)) \in Nat
         /\ Cardinality(Given(i)') <=
              Cardinality(Given(i)) + (IF job[i].state = "pending" THEN 1 ELSE 0)
<1> DEFINE x == [id |-> i, on |-> job[i].on, tid |-> job[i].tid]
<1>1. x.id = i
  OBVIOUS
<1> HIDE DEF x
<1>2. loose' = IF job[i].state = "pending" THEN loose \cup {x} ELSE loose
  BY DEF Drop, x
<1>3. \A j \in Requests \ {i} : Given(j)' \subseteq Given(j)
  BY <1>1, <1>2 DEF Given
<1>4. PICK S : S = Given(i)
  OBVIOUS
<1>5. IsFiniteSet(S) /\ Cardinality(S) \in Nat
  BY <1>4, FS_CardinalityType DEF Counted
<1>6. CASE job[i].state = "pending"
  <2>1. Given(i)' = S \cup {x}
    BY <1>1, <1>2, <1>4, <1>6 DEF Given
  <2>2. IsFiniteSet(S \cup {x}) /\ Cardinality(S \cup {x}) <= Cardinality(S) + 1
    BY <1>5, FS_AddElement
  <2>3. Cardinality(S \cup {x}) \in Nat
    BY <2>2, FS_CardinalityType
  <2> QED
    BY <1>3, <1>4, <1>5, <1>6, <2>1, <2>2, <2>3
<1>7. CASE job[i].state # "pending"
  <2>1. Given(i)' = S
    BY <1>2, <1>4, <1>7 DEF Given
  <2> QED
    BY <1>3, <1>4, <1>5, <1>7, <2>1
<1> QED
  BY <1>6, <1>7

(* The connection breaks, or the time is up. *)
LEMMA CountDrop ==
  ASSUME TypeOK, TypeOK', \A j \in Requests : Counted(j), NEW i \in Requests,
         Lost(i) \/ TimeOut(i)
  PROVE  \A j \in Requests : Counted(j)'
<1>1. /\ pc \in [Requests -> PCs] /\ query \in [Requests -> Queries]
      /\ answer \in [Requests -> Answer] /\ runs \in [Requests -> Nat]
      /\ job \in [Requests -> Job]
  BY DEF TypeOK, Answer
<1>2. Drop(i) /\ UNCHANGED <<query, job, runs>>
  BY DEF Lost, TimeOut
<1>3. \A j \in Requests \ {i} : pc'[j] = pc[j] /\ answer'[j] = answer[j]
  BY <1>1 DEF Lost, TimeOut, Tell, Goto
<1>4. /\ pc[i] \in {"sent", "resent"}
      /\ \/ pc'[i] = "reconnect" /\ pc[i] = "sent" /\ Retried(query[i]) /\ answer'[i] = answer[i]
         \/ pc'[i] = "over" /\ answer'[i] \in {"lost", "timeout"}
  BY <1>1 DEF Lost, TimeOut, Tell, Goto, Timed, Retries, Retried
<1>5. /\ \A j \in Requests \ {i} : Given(j)' \subseteq Given(j)
      /\ IsFiniteSet(Given(i)') /\ Cardinality(Given(i)') \in Nat
      /\ Cardinality(Given(i)) \in Nat
      /\ Cardinality(Given(i)') <=
           Cardinality(Given(i)) + (IF job[i].state = "pending" THEN 1 ELSE 0)
  BY <1>2, GiveUp
<1>6. \A n \in Nat, m \in Nat :
        /\ Counts(pc[i], job[i].state, answer[i], query[i], runs[i], n)
        /\ m <= n + (IF job[i].state = "pending" THEN 1 ELSE 0)
        => Counts(pc'[i], job[i].state, answer'[i], query[i], runs[i], m)
  BY <1>1, <1>4 DEF Counts, Waiting, Budget, HasResult
<1>7. Counted(i)'
  BY <1>2, <1>5, <1>6 DEF Counted
<1>8. \A j \in Requests \ {i} : Counted(j)'
  BY <1>2, <1>3, <1>5, CountKept
<1> QED
  BY <1>7, <1>8

(* What was given up is executed, or never will be. *)
LEMMA CountLoose ==
  ASSUME TypeOK, TypeOK', \A j \in Requests : Counted(j), NEW l \in loose, ExecuteLoose(l)
  PROVE  \A j \in Requests : Counted(j)'
<1>1. PICK i : i = l.id
  OBVIOUS
<1>2. i \in Requests /\ runs \in [Requests -> Nat]
  BY <1>1 DEF TypeOK
<1>3. /\ loose' = loose \ {l} /\ UNCHANGED <<pc, query, job, answer>>
      /\ \A j \in Requests \ {i} : runs'[j] = runs[j]
      /\ runs'[i] = runs[i] + 1 \/ runs'[i] = runs[i]
  BY <1>1, <1>2 DEF ExecuteLoose
<1>4. \A j \in Requests : Given(j)' \subseteq Given(j)
  BY <1>3 DEF Given
<1>5. \A j \in Requests \ {i} : Counted(j)'
  BY <1>3, <1>4, CountKept
<1>6. Counted(i)'
  <2>1. PICK S : S = Given(i)
    OBVIOUS
  <2>2. IsFiniteSet(S) /\ Cardinality(S) \in Nat /\ l \in S
    BY <1>1, <1>2, <2>1, FS_CardinalityType DEF Counted, Given
  <2>3. Given(i)' = S \ {l}
    BY <1>3, <2>1 DEF Given
  <2>4. IsFiniteSet(S \ {l}) /\ Cardinality(S \ {l}) = Cardinality(S) - 1
    BY <2>2, FS_RemoveElement
  <2>5. Cardinality(S \ {l}) \in Nat
    BY <2>4, FS_CardinalityType
  <2>6. \A n \in Nat, m \in Nat :
          /\ Counts(pc[i], job[i].state, answer[i], query[i], runs[i], n)
          /\ m = n - 1 /\ n > 0
          => Counts(pc[i], job[i].state, answer[i], query[i], runs'[i], m)
    BY <1>2, <1>3 DEF Counts, Waiting, Budget
  <2> QED
    BY <1>2, <1>3, <2>1, <2>2, <2>3, <2>4, <2>5, <2>6 DEF Counted
<1> QED
  BY <1>5, <1>6

(* Kills, replication and time. *)
LEMMA CountOutside ==
  ASSUME TypeOK, TypeOK', \A j \in Requests : Counted(j),
         \/ \E k \in kills : KillArrives(k) \/ KillFails(k)
         \/ Replicate \/ Tick \/ UNCHANGED vars
  PROVE  \A j \in Requests : Counted(j)'
<1>1. UNCHANGED <<pc, query, answer, runs>> /\ loose' \subseteq loose
  BY DEF KillArrives, KillFails, Kill, Replicate, Tick, vars, tasks, history
<1>2. \A j \in Requests : Given(j)' \subseteq Given(j)
  BY <1>1 DEF Given
<1>3. \A j \in Requests : job'[j].state = job[j].state \/ job'[j].state = "error"
  <2>1. CASE UNCHANGED job
    BY <2>1
  <2>2. ASSUME NEW k \in kills, KillArrives(k)
        PROVE  \A j \in Requests : job'[j].state = job[j].state \/ job'[j].state = "error"
    <3>1. \A j \in Requests : job[j] \in Job
      BY DEF TypeOK
    <3>2. \A r \in Job : [r EXCEPT !.state = "error"].state = "error"
      BY DEF Job
    <3> QED
      BY <2>2, <3>1, <3>2 DEF KillArrives
  <2> QED
    BY <2>1, <2>2 DEF KillFails, Replicate, Tick, vars
<1> QED
  BY <1>1, <1>2, <1>3, CountKept

(* Every step keeps the count of the attempts. *)
LEMMA CountStep ==
  ASSUME IInv, TypeOK', \A j \in Requests : Counted(j), [Next]_vars
  PROVE  \A j \in Requests : Counted(j)'
<1>1. TypeOK
  BY DEF IInv
<1>2. ASSUME NEW i \in Requests, ProxyStep(i)
      PROVE  \A j \in Requests : Counted(j)'
  BY <1>1, <1>2, CountLookup, CountSend, CountEnd, CountDrop DEF ProxyStep
<1>3. ASSUME NEW i \in Requests, BackendStep(i)
      PROVE  \A j \in Requests : Counted(j)'
  BY <1>1, <1>3, CountExecute, CountDrop DEF BackendStep
<1>4. ASSUME NEW i \in Requests, NEW q \in Queries, Submit(i, q)
      PROVE  \A j \in Requests : Counted(j)'
  BY <1>1, <1>4, CountLookup
<1> QED
  BY <1>1, <1>2, <1>3, <1>4, CountLoose, CountOutside DEF Next

(* At the start nothing has been attempted. *)
LEMMA CountStart == Init => \A j \in Requests : Counted(j)
<1> SUFFICES ASSUME Init, NEW j \in Requests PROVE Counted(j)
  OBVIOUS
<1>1. Given(j) = {}
  BY DEF Init, Given
<1>2. IsFiniteSet(Given(j)) /\ Cardinality(Given(j)) = 0
  BY <1>1, FS_EmptySet
<1>3. pc[j] = "new" /\ job[j].state = "none" /\ answer[j] = "none" /\ runs[j] = 0
  BY DEF Init
<1> QED
  BY <1>2, <1>3 DEF Counted, Counts, Waiting, Budget

(* A client is told of success only of what was executed, what was refused never is        *)
(* executed, and no path of route_query_inner and route_fast makes more attempts than      *)
(* one and, outside transactions and hostgroups, a retry.                                 *)
THEOREM AnswersStayTrue == Spec => []AnswersAreTrue
<1>1. IInv /\ (\A j \in Requests : Counted(j)) => AnswersAreTrue
  <2> SUFFICES ASSUME IInv, NEW i \in Requests, Counted(i)
               PROVE  /\ answer[i] = "ok" /\ query[i].kind = "write" => runs[i] >= 1
                      /\ answer[i] = "refused" => Attempts(i) = 0
                      /\ Attempts(i) <= IF query[i].dest \in {"replica", "primary"} THEN 2 ELSE 1
    BY DEF AnswersAreTrue
  <2>1. runs[i] \in Nat
    BY DEF IInv, TypeOK
  <2>2. PICK n \in Nat : n = Cardinality(Given(i))
    BY FS_CardinalityType DEF Counted
  <2>3. Attempts(i) = runs[i] + n + Waiting(pc[i], job[i].state)
    BY <2>2 DEF Attempts, Given, Waiting
  <2>4. Counts(pc[i], job[i].state, answer[i], query[i], runs[i], n)
    BY <2>2 DEF Counted
  <2> QED
    BY <2>1, <2>3, <2>4 DEF Counts, Waiting, Budget, Retried
<1>2. Init => \A j \in Requests : Counted(j)
  BY CountStart
<1>3. IInv /\ IInv' /\ (\A j \in Requests : Counted(j)) /\ [Next]_vars
        => (\A j \in Requests : Counted(j))'
  BY CountStep DEF IInv
<1> QED
  BY <1>1, <1>2, <1>3, Invariance, PTL DEF Spec

-----------------------------------------------------------------------------
(* Whom KILL QUERY meets. *)

InUse(i) == pc[i] \in {"sent", "resent"}

(* The connections in use at a backend have ids of their own, and no KILL QUERY for that   *)
(* backend is under way that has one of them.                                            *)
OwnId(i) ==
  InUse(i) =>
    /\ \A j \in Requests : j # i /\ InUse(j) /\ job[j].on = job[i].on => job[j].tid # job[i].tid
    /\ \A k \in kills : k.from = job[i].on => k.tid # job[i].tid
OwnIds == \A i \in Requests : OwnId(i)

(* No new connection in use, and no new KILL QUERY. *)
LEMMA IdsKept ==
  ASSUME OwnIds, kills' \subseteq kills,
         \A i \in Requests : InUse(i)' =>
            InUse(i) /\ job'[i].on = job[i].on /\ job'[i].tid = job[i].tid
  PROVE  OwnIds'
  BY DEF OwnIds, OwnId

(* A connection with a fresh id. *)
LEMMA IdsOnSend ==
  ASSUME TypeOK, OwnIds, NEW i \in Requests, NEW b \in {"primary", "replica"}, NEW t \in Tids,
         Send(i, b, t)
  PROVE  OwnIds'
<1>1. pc \in [Requests -> PCs] /\ job \in [Requests -> Job]
  BY DEF TypeOK
<1>2. job'[i].on = b /\ job'[i].tid = t /\ kills' = kills
  BY <1>1 DEF Send, tasks
<1>3. \A j \in Requests \ {i} : job'[j] = job[j] /\ (InUse(j)' <=> InUse(j))
  BY <1>1 DEF Send, Goto, InUse
<1>4. /\ \A j \in Requests : InUse(j) /\ job[j].on = b => job[j].tid # t
      /\ \A k \in kills : k.from = b => k.tid # t
  BY DEF Send, FreshTids, InUse
<1> QED
  BY <1>2, <1>3, <1>4 DEF OwnIds, OwnId

(* A query is given up: its id goes to the KILL QUERY and is no longer in use. *)
LEMMA IdsOnTimeOut ==
  ASSUME TypeOK, OwnIds, NEW i \in Requests, TimeOut(i)
  PROVE  OwnIds'
<1>1. pc \in [Requests -> PCs] /\ job' = job
  BY DEF TypeOK, TimeOut
<1>2. PICK x : x = [tid |-> job[i].tid, from |-> job[i].on]
  OBVIOUS
<1>3. x.tid = job[i].tid /\ x.from = job[i].on /\ kills' = kills \cup {x}
  BY <1>2 DEF TimeOut
<1>4. InUse(i) /\ ~InUse(i)' /\ \A j \in Requests \ {i} : InUse(j)' <=> InUse(j)
  BY <1>1 DEF TimeOut, Timed, Tell, Goto, InUse
<1> QED
  BY <1>1, <1>3, <1>4 DEF OwnIds, OwnId

(* Every step keeps the ids apart. *)
LEMMA IdsStep ==
  ASSUME TypeOK, TypeOK', OwnIds, [Next]_vars
  PROVE  OwnIds'
<1>1. /\ pc \in [Requests -> PCs] /\ job \in [Requests -> Job]
  BY DEF TypeOK
<1>2. ASSUME NEW i \in Requests,
             \/ \E q \in Queries : Submit(i, q)
             \/ Refused(i) \/ Hit(i) \/ Miss(i) \/ Receive(i) \/ CachePut(i)
             \/ Invalidate(i) \/ RetryRefused(i) \/ Lost(i)
      PROVE  OwnIds'
  <2>1. kills' = kills
    BY <1>2 DEF Submit, Refused, Hit, Miss, Receive, CachePut, Invalidate, RetryRefused, Lost, tasks
  <2>2. \A j \in Requests : job'[j].on = job[j].on /\ job'[j].tid = job[j].tid
    BY <1>1, <1>2 DEF Submit, Refused, Hit, Miss, Receive, CachePut, Invalidate, RetryRefused,
                      Lost, Job
  <2>3. pc' = pc \/ \E l \in PCs \ {"sent", "resent"} : pc' = [pc EXCEPT ![i] = l]
    BY <1>2 DEF Submit, Refused, Hit, Miss, Receive, CachePut, Invalidate, RetryRefused, Lost,
                Tell, Goto, PCs
  <2>4. \A j \in Requests : InUse(j)' => InUse(j)
    BY <1>1, <2>3 DEF InUse
  <2> QED
    BY <2>1, <2>2, <2>4, IdsKept
<1>3. ASSUME NEW i \in Requests, Execute(i) \/ Fail(i)
      PROVE  OwnIds'
  <2>1. UNCHANGED <<kills, pc>>
    BY <1>3 DEF Execute, Fail, tasks
  <2>2. \A j \in Requests : job'[j].on = job[j].on /\ job'[j].tid = job[j].tid
    BY <1>1, <1>3 DEF Execute, Fail, Job
  <2> QED
    BY <2>1, <2>2, IdsKept DEF InUse
<1>4. ASSUME NEW k \in kills, KillArrives(k)
      PROVE  OwnIds'
  <2>1. pc' = pc /\ kills' \subseteq kills
    BY <1>4 DEF KillArrives, Kill
  <2>2. \A r \in Job : LET f == [r EXCEPT !.state = "error"] IN f.on = r.on /\ f.tid = r.tid
    BY DEF Job
  <2>3. \A j \in Requests : job'[j].on = job[j].on /\ job'[j].tid = job[j].tid
    BY <1>1, <1>4, <2>2 DEF KillArrives
  <2> QED
    BY <2>1, <2>3, IdsKept DEF InUse
<1>5. CASE \/ \E l \in loose : ExecuteLoose(l)
           \/ \E k \in kills : KillFails(k)
           \/ Replicate \/ Tick \/ UNCHANGED vars
  <2>1. UNCHANGED <<pc, job>> /\ kills' \subseteq kills
    BY <1>5 DEF ExecuteLoose, KillFails, Kill, Replicate, Tick, vars, tasks
  <2> QED
    BY <2>1, IdsKept DEF InUse
<1>6. ASSUME NEW i \in Requests, ProxyStep(i)
      PROVE  OwnIds'
  BY <1>2, <1>6, IdsOnSend, IdsOnTimeOut DEF ProxyStep
<1>7. ASSUME NEW i \in Requests, BackendStep(i)
      PROVE  OwnIds'
  BY <1>2, <1>3, <1>7 DEF BackendStep
<1> QED
  BY <1>2, <1>4, <1>5, <1>6, <1>7 DEF Next

(* A KILL QUERY for a query of the primary meets nobody else's. *)
LEMMA KillMisses ==
  ASSUME TypeOK, OwnIds, NEW k \in kills, KillArrives(k), k.from = "primary"
  PROVE  job' = job
<1>1. job = [i \in Requests |-> job[i]]
  BY DEF TypeOK
<1>2. \A i \in Requests : ~(/\ pc[i] \in {"sent", "resent"} /\ job[i].state = "pending"
                            /\ job[i].on = "primary" /\ job[i].tid = k.tid)
  BY DEF OwnIds, OwnId, InUse
<1> QED
  BY <1>1, <1>2 DEF KillArrives

(* The task that execute_timed leaves behind may run at any time later: when the query was   *)
(* on the primary it never interrupts another one, because the connection was dropped and   *)
(* its id is not used again.                                                              *)
THEOREM KillsMissOthers == Spec => KillsStayOnTarget
<1>1. Init => OwnIds
  BY DEF Init, OwnIds, OwnId, InUse
<1>2. TypeOK /\ TypeOK' /\ OwnIds /\ [Next]_vars => OwnIds'
  BY IdsStep
<1>3. TypeOK /\ OwnIds /\ [Next]_vars
        => [\A k \in kills : KillArrives(k) /\ k.from = "primary" => job' = job]_vars
  BY KillMisses
<1> QED
  BY <1>1, <1>2, <1>3, TypeCorrect, PTL DEF Spec, KillsStayOnTarget

-----------------------------------------------------------------------------
(***************************************************************************)
(* The prepared statements.  The code keeps the backend's id of a statement   *)
(* and not the connection it belongs to.  The invariant is about that         *)
(* connection: it is one of the session's two, or none.                      *)
(***************************************************************************)

(* An entry of the map, a backend connection, and when an entry fits its connection: as
   long as that is alive, the server has the entry's text under its id, or nothing, and
   will not give the id again. *)
Entries == {NoStmt} \cup [text : Texts, bid : Bids, home : Conns \cup {NoConn}]

Connection == [at : {"closed", "idle", "held"}, alive : BOOLEAN, next : Nat \ {0},
               stmts : [Bids -> Texts \cup {"none"}]]

Fit(x, cn) ==
  x.home # NoConn /\ cn[x.home].alive
    => x.bid < cn[x.home].next /\ cn[x.home].stmts[x.bid] \in {x.text, "none"}

(* The map sh over the connections cn, when the session's connections are st and tx. *)
Settled(sh, cn, st, tx) ==
  /\ sh \in [Ids -> Entries] /\ cn \in [Conns -> Connection]
  /\ st \in Conns \cup {NoConn} /\ tx \in Conns \cup {NoConn}
  /\ st # NoConn => cn[st].at = "held" /\ st # tx
  /\ tx # NoConn => cn[tx].at = "held"
  /\ \A p \in Ids : sh[p].home \in {NoConn, st, tx} /\ Fit(sh[p], cn)

Numbered(sh, n) == n \in Nat \ {0} /\ \A p \in Ids : sh[p] # NoStmt => p < n

ShadowInv ==
  /\ Settled(shadow, conn, stmt_conn, tx_conn)
  /\ Numbered(shadow, next_id)
  /\ in_tx \in BOOLEAN /\ (tx_conn # NoConn => in_tx)

(* What the client sees of an entry. *)
Sight(x, st) ==
  [text |-> x.text,
   scope |-> IF x = NoStmt THEN "none"
             ELSE IF x.home = NoConn THEN "loose"
             ELSE IF x.home = st THEN "session" ELSE "tx"]

(* Its text. *)
LEMMA SightText ==
  ASSUME NEW x, NEW st
  PROVE  Sight(x, st).text = x.text
  BY DEF Sight

(* An entry has its fields. *)
LEMMA EntryType ==
  ASSUME NEW x \in Entries
  PROVE  /\ x.home \in Conns \cup {NoConn} /\ x.text \in Texts \cup {"none"}
         /\ x = NoStmt \/ (x.text \in Texts /\ x.bid \in Bids)
         /\ x = NoStmt <=> x.text = "none"
         /\ x = NoStmt => x.home = NoConn
  BY ShadowAssumption DEF Entries, NoStmt

(* The refinement mapping, in terms of Sight. *)
LEMMA ViewIs ==
  ASSUME Settled(shadow, conn, stmt_conn, tx_conn)
  PROVE  \A p \in Ids : View[p] = Sight(shadow[p], stmt_conn)
<1> SUFFICES ASSUME NEW p \in Ids PROVE View[p] = Sight(shadow[p], stmt_conn)
  OBVIOUS
<1>1. shadow[p] \in Entries /\ shadow[p].home \in {NoConn, stmt_conn, tx_conn}
      /\ (stmt_conn # NoConn => stmt_conn # tx_conn)
  BY DEF Settled
<1>2. ScopeOf(p) = Sight(shadow[p], stmt_conn).scope
  <2>1. CASE shadow[p] = NoStmt
    <3>1. shadow[p].home = NoConn
      BY <2>1 DEF NoStmt
    <3> QED
      BY <2>1, <3>1 DEF ScopeOf, Sight
  <2>2. CASE shadow[p] # NoStmt /\ shadow[p].home = NoConn
    BY <2>2 DEF ScopeOf, Sight
  <2>3. CASE shadow[p].home # NoConn /\ shadow[p].home = stmt_conn
    <3>1. shadow[p] # NoStmt
      BY <2>3 DEF NoStmt
    <3> QED
      BY <1>1, <2>3, <3>1 DEF ScopeOf, Sight
  <2>4. CASE shadow[p].home # NoConn /\ shadow[p].home # stmt_conn
    <3>1. shadow[p] # NoStmt
      BY <2>4 DEF NoStmt
    <3> QED
      BY <1>1, <2>4, <3>1 DEF ScopeOf, Sight
  <2> QED
    BY <2>1, <2>2, <2>3, <2>4
<1> QED
  BY <1>2 DEF View, Sight

(* The same, after a step. *)
LEMMA ViewIsPrimed ==
  ASSUME Settled(shadow, conn, stmt_conn, tx_conn)'
  PROVE  \A p \in Ids : View'[p] = Sight(shadow'[p], stmt_conn')
<1>1. ASSUME NEW p \in Ids
      PROVE  View'[p] = Sight(shadow'[p], stmt_conn')
  <2>1. shadow'[p] \in Entries /\ shadow'[p].home \in {NoConn, stmt_conn', tx_conn'}
        /\ (stmt_conn' # NoConn => stmt_conn' # tx_conn')
    BY DEF Settled
  <2>2. ScopeOf(p)' = Sight(shadow'[p], stmt_conn').scope
    <3>1. CASE shadow'[p] = NoStmt
      <4>1. shadow'[p].home = NoConn
        BY <3>1 DEF NoStmt
      <4> QED
        BY <3>1, <4>1 DEF ScopeOf, Sight
    <3>2. CASE shadow'[p] # NoStmt /\ shadow'[p].home = NoConn
      BY <3>2 DEF ScopeOf, Sight
    <3>3. CASE shadow'[p].home # NoConn
      <4>1. shadow'[p] # NoStmt
        BY <3>3 DEF NoStmt
      <4> QED
        BY <2>1, <3>3, <4>1 DEF ScopeOf, Sight
    <3> QED
      BY <3>1, <3>2, <3>3
  <2> QED
    BY <2>2 DEF View, Sight
<1> QED
  BY <1>1

-----------------------------------------------------------------------------
(* What is done to connections. *)

(* Taking one. *)
LEMMA HoldIs ==
  ASSUME NEW cn \in [Conns -> Connection], NEW c \in Conns
  PROVE  /\ Hold(cn, c) \in [Conns -> Connection]
         /\ Hold(cn, c)[c].at = "held"
         /\ \A x \in Conns : /\ Hold(cn, c)[x].alive = cn[x].alive
                             /\ Hold(cn, c)[x].next = cn[x].next
                             /\ Hold(cn, c)[x].stmts = cn[x].stmts
                             /\ x # c => Hold(cn, c)[x] = cn[x]
  BY DEF Hold, Connection

(* Putting one back. *)
LEMMA PutIs ==
  ASSUME NEW cn \in [Conns -> Connection], NEW c \in Conns \cup {NoConn}
  PROVE  /\ Put(cn, c) \in [Conns -> Connection]
         /\ \A x \in Conns : /\ Put(cn, c)[x].alive = cn[x].alive
                             /\ Put(cn, c)[x].next = cn[x].next
                             /\ Put(cn, c)[x].stmts = cn[x].stmts
                             /\ x # c => Put(cn, c)[x] = cn[x]
  BY ShadowAssumption DEF Put, Connection

(* A new connection. *)
LEMMA NewConnType == NewConn \in Connection
<1>1. [b \in Bids |-> "none"] \in [Bids -> Texts \cup {"none"}]
  OBVIOUS
<1> QED
  BY <1>1 DEF NewConn, Connection

(* Closing one. *)
LEMMA DiscardIs ==
  ASSUME NEW cn \in [Conns -> Connection], NEW c \in Conns \cup {NoConn}
  PROVE  /\ Discard(cn, c) \in [Conns -> Connection]
         /\ \A x \in Conns : x # c => Discard(cn, c)[x] = cn[x]
  BY ShadowAssumption, NewConnType DEF Discard

(* Losing one. *)
LEMMA LoseIs ==
  ASSUME NEW cn \in [Conns -> Connection], NEW c \in Conns
  PROVE  /\ Lose(cn, c) \in [Conns -> Connection]
         /\ ~Lose(cn, c)[c].alive /\ Lose(cn, c)[c].at = cn[c].at
         /\ \A x \in Conns : x # c => Lose(cn, c)[x] = cn[x]
<1>1. PICK y : y = [NewConn EXCEPT !.at = cn[c].at, !.alive = FALSE]
  OBVIOUS
<1>2. y = [at |-> cn[c].at, alive |-> FALSE, next |-> 1, stmts |-> [b \in Bids |-> "none"]]
  BY <1>1 DEF NewConn
<1>3. cn[c].at \in {"closed", "idle", "held"} /\ [b \in Bids |-> "none"] \in [Bids -> Texts \cup {"none"}]
  BY DEF Connection
<1>4. y \in Connection /\ ~y.alive /\ y.at = cn[c].at
  BY <1>2, <1>3 DEF Connection
<1>5. Lose(cn, c) = [cn EXCEPT ![c] = y]
  BY <1>1 DEF Lose
<1> QED
  BY <1>4, <1>5

(* A connection that get_primary gives is not the session's. *)
LEMMA GetIs ==
  ASSUME ShadowInv, NEW c \in Get(conn)
  PROVE  /\ c \in Conns \cup {NoConn}
         /\ c # NoConn => c # stmt_conn /\ c # tx_conn
  BY DEF ShadowInv, Settled, Get

(* While c is held, get_primary gives another one. *)
LEMMA AnotherIs ==
  ASSUME ShadowInv, NEW c \in Conns, NEW d \in Another(c), d # NoConn
  PROVE  d \in Conns /\ d # c
<1>1. PICK cn : cn = Hold(conn, c)
  OBVIOUS
<1>2. conn \in [Conns -> Connection]
  BY DEF ShadowInv, Settled
<1>3. cn[c].at = "held"
  BY <1>1, <1>2, HoldIs
<1>4. d \in Get(cn)
  BY <1>1 DEF Another
<1> QED
  BY <1>3, <1>4 DEF Get

(* The connection for a command: the session's for the mode, or, when it has none, one
   that get_primary gives. *)
LEMMA ActiveIs ==
  ASSUME ShadowInv, NEW c \in Active
  PROVE  /\ c \in Conns \cup {NoConn}
         /\ c = NoConn => Slot = NoConn
         /\ c # NoConn => (in_tx => c # stmt_conn) /\ (~in_tx => c # tx_conn)
         /\ c = Slot \/ (Slot = NoConn /\ c # stmt_conn /\ c # tx_conn)
<1>1. CASE Slot # NoConn
  <2>1. c = Slot
    BY <1>1 DEF Active
  <2> QED
    BY <1>1, <2>1 DEF ShadowInv, Settled, Slot
<1>2. CASE Slot = NoConn
  <2>1. c \in Get(conn)
    BY <1>2 DEF Active
  <2> QED
    BY <1>2, <2>1, GetIs
<1> QED
  BY <1>1, <1>2

-----------------------------------------------------------------------------
(* A command that is done on connection c leaves the session with these. *)
St(c) == IF in_tx THEN stmt_conn ELSE c
Tx(c) == IF in_tx THEN c ELSE NoConn

(* The end of a command, on whatever it made of the map and the connections. *)
LEMMA DoneKeeps ==
  ASSUME ShadowInv, NEW sh, NEW cn, NEW c,
         Settled(sh, cn, St(c), Tx(c)), Numbered(sh, next_id'), Done(sh, cn, c)
  PROVE  /\ ShadowInv' /\ Mode' = Mode /\ refused' = refused
         /\ \A p \in Ids : View'[p] = Sight(sh[p], St(c))
<1>1. /\ shadow' = sh /\ in_tx' = in_tx /\ refused' = refused /\ in_tx \in BOOLEAN
      /\ (~in_tx => tx_conn = NoConn) /\ (tx_conn # NoConn => in_tx)
  BY DEF Done, ShadowInv
<1>2. /\ Settled(shadow, conn, stmt_conn, tx_conn)'
      /\ \A p \in Ids : Sight(sh[p], stmt_conn') = Sight(sh[p], St(c))
  <2>1. CASE in_tx
    <3>1. stmt_conn' = stmt_conn /\ tx_conn' = c /\ conn' = cn /\ St(c) = stmt_conn /\ Tx(c) = c
      BY <2>1 DEF Done, St, Tx
    <3>2. Settled(sh, cn, stmt_conn, c)
      BY <3>1
    <3> QED
      BY <1>1, <3>1, <3>2 DEF Settled, Fit
  <2>2. CASE ~in_tx /\ Open(sh) # {}
    <3>1. stmt_conn' = c /\ tx_conn' = NoConn /\ conn' = cn /\ St(c) = c /\ Tx(c) = NoConn
      BY <1>1, <2>2 DEF Done, St, Tx
    <3>2. Settled(sh, cn, c, NoConn)
      BY <3>1
    <3> QED
      BY <1>1, <3>1, <3>2 DEF Settled, Fit
  <2>3. CASE ~in_tx /\ Open(sh) = {}
    <3>1. stmt_conn' = NoConn /\ tx_conn' = NoConn /\ conn' = Put(cn, c) /\ St(c) = c /\ Tx(c) = NoConn
      BY <1>1, <2>3 DEF Done, St, Tx
    <3>2. Settled(sh, cn, c, NoConn)
      BY <3>1
    <3>3. \A p \in Ids : sh[p] = NoStmt
      BY <2>3 DEF Open
    <3>4. sh \in [Ids -> Entries] /\ cn \in [Conns -> Connection] /\ c \in Conns \cup {NoConn}
      BY <3>2 DEF Settled
    <3>5. Put(cn, c) \in [Conns -> Connection]
      BY <3>4, PutIs
    <3>6. \A p \in Ids : sh[p].home = NoConn
      BY <3>3 DEF NoStmt
    <3>7. Settled(sh, Put(cn, c), NoConn, NoConn)
      BY <3>4, <3>5, <3>6 DEF Settled, Fit
    <3>8. Settled(shadow, conn, stmt_conn, tx_conn)'
      BY <1>1, <3>1, <3>7 DEF Settled, Fit
    <3> QED
      BY <3>3, <3>8 DEF Sight
  <2> QED
    BY <1>1, <2>1, <2>2, <2>3
<1>3. tx_conn' # NoConn => in_tx
  BY <1>1 DEF Done
<1>4. Numbered(shadow, next_id)'
  BY <1>1 DEF Numbered
<1>5. \A p \in Ids : View'[p] = Sight(sh[p], St(c))
  BY <1>1, <1>2, ViewIsPrimed
<1> QED
  BY <1>1, <1>2, <1>3, <1>4, <1>5 DEF ShadowInv, Mode

(* What sh says of the statements is what the contract allows of other statements than the
   one that a command is about. *)
Agrees(sh, st) ==
  \A q \in Ids :
    /\ sh[q] = NoStmt <=> shadow[q] = NoStmt
    /\ sh[q].text = shadow[q].text
    /\ \/ Sight(sh[q], st).scope = View[q].scope
       \/ View[q].scope = "loose"
       \/ Broken

(* An id is the client's when the map has it. *)
LEMMA ClosedIs ==
  ASSUME ShadowInv, NEW q \in Ids
  PROVE  View[q] = Contract!Closed <=> shadow[q] = NoStmt
<1>1. shadow[q] \in Entries /\ View[q] = Sight(shadow[q], stmt_conn)
  BY ViewIs DEF ShadowInv, Settled
<1>2. shadow[q] = NoStmt <=> shadow[q].text = "none"
  BY <1>1, EntryType
<1> QED
  BY <1>1, <1>2 DEF Sight, Contract!Closed

(* The other statements. *)
LEMMA OthersAre ==
  ASSUME ShadowInv, NEW sh, NEW st, NEW S, Agrees(sh, st),
         \A q \in Ids \ S : View'[q] = Sight(sh[q], st)
  PROVE  Contract!Others(S) /\ Contract!StaysClosed(S)
<1>1. \A q \in Ids : View[q] = Contract!Closed <=> shadow[q] = NoStmt
  BY ClosedIs
<1>2. \A q \in Ids : View[q].text = shadow[q].text
  <2>1. \A q \in Ids : View[q] = Sight(shadow[q], stmt_conn)
    BY ViewIs DEF ShadowInv
  <2> QED
    BY <2>1, SightText
<1>3. ASSUME NEW q \in Contract!Open \ S
      PROVE  /\ View'[q].text = View[q].text
             /\ View'[q].scope = View[q].scope \/ View[q].scope = "loose" \/ Broken
  <2>1. q \in Ids /\ q \in Ids \ S
    BY <1>3 DEF Contract!Open
  <2>2. View'[q] = Sight(sh[q], st) /\ View[q].text = shadow[q].text
    BY <1>2, <2>1
  <2>3. /\ sh[q].text = shadow[q].text
        /\ Sight(sh[q], st).scope = View[q].scope \/ View[q].scope = "loose" \/ Broken
    BY <2>1 DEF Agrees
  <2> QED
    BY <2>2, <2>3, SightText
<1>4. ASSUME NEW q \in Ids \ (Contract!Open \cup S)
      PROVE  View'[q] = Contract!Closed
  <2>1. View[q] = Contract!Closed /\ q \in Ids \ S
    BY <1>4 DEF Contract!Open
  <2>2. sh[q] = NoStmt
    BY <1>1, <2>1 DEF Agrees
  <2> QED
    BY <2>1, <2>2 DEF Sight, NoStmt, Contract!Closed
<1> QED
  BY <1>3, <1>4 DEF Contract!Others, Contract!StaysClosed

(* A command that takes its connection and leaves the map alone. *)
LEMMA Taken ==
  ASSUME ShadowInv, NEW c \in Active, c # NoConn
  PROVE  /\ c \in Conns /\ Settled(shadow, Hold(conn, c), St(c), Tx(c))
         /\ \A q \in Ids : View[q] = Sight(shadow[q], St(c))
         /\ Agrees(shadow, St(c))
<1>1. /\ c \in Conns /\ (c = Slot \/ (Slot = NoConn /\ c # stmt_conn /\ c # tx_conn))
      /\ (in_tx => c # stmt_conn)
  BY ActiveIs
<1>2. /\ Settled(shadow, conn, stmt_conn, tx_conn) /\ in_tx \in BOOLEAN /\ (tx_conn # NoConn => in_tx)
  BY DEF ShadowInv
<1>3. \A q \in Ids : shadow[q].home \in {NoConn, stmt_conn, tx_conn} /\ Fit(shadow[q], conn)
                    /\ shadow[q] \in Entries
  BY <1>2 DEF Settled
<1>4. \A q \in Ids : shadow[q].home \in {NoConn, St(c), Tx(c)}
  BY <1>1, <1>2, <1>3 DEF St, Tx, Slot
<1>5. conn \in [Conns -> Connection]
  BY <1>2 DEF Settled
<1>6. PICK cn : cn = Hold(conn, c)
  OBVIOUS
<1>7. /\ cn \in [Conns -> Connection] /\ cn[c].at = "held"
      /\ \A x \in Conns : /\ cn[x].alive = conn[x].alive /\ cn[x].next = conn[x].next
                          /\ cn[x].stmts = conn[x].stmts /\ (x # c => cn[x] = conn[x])
  BY <1>1, <1>5, <1>6, HoldIs
<1>8. \A q \in Ids : Fit(shadow[q], cn)
  <2> SUFFICES ASSUME NEW q \in Ids PROVE Fit(shadow[q], cn)
    OBVIOUS
  <2>1. CASE shadow[q].home = NoConn
    BY <2>1 DEF Fit
  <2>2. CASE shadow[q].home # NoConn
    <3>1. shadow[q].home \in Conns
      BY <1>3, <2>2, EntryType
    <3> QED
      BY <1>3, <1>7, <3>1 DEF Fit
  <2> QED
    BY <2>1, <2>2
<1>9. Settled(shadow, cn, St(c), Tx(c))
  <2>1. /\ St(c) \in Conns \cup {NoConn} /\ Tx(c) \in Conns \cup {NoConn}
        /\ St(c) # NoConn => cn[St(c)].at = "held" /\ St(c) # Tx(c)
        /\ Tx(c) # NoConn => cn[Tx(c)].at = "held"
    BY <1>1, <1>2, <1>7 DEF Settled, St, Tx
  <2>2. shadow \in [Ids -> Entries]
    BY <1>2 DEF Settled
  <2> QED
    BY <1>4, <1>7, <1>8, <2>1, <2>2 DEF Settled
<1>10. \A q \in Ids : View[q] = Sight(shadow[q], St(c))
  <2> SUFFICES ASSUME NEW q \in Ids PROVE View[q] = Sight(shadow[q], St(c))
    OBVIOUS
  <2>1. View[q] = Sight(shadow[q], stmt_conn)
    BY <1>2, ViewIs
  <2>2. CASE St(c) = stmt_conn
    BY <2>1, <2>2
  <2>3. CASE St(c) # stmt_conn
    <3>1. ~in_tx /\ stmt_conn = NoConn /\ tx_conn = NoConn
      BY <1>1, <1>2, <2>3 DEF St, Slot
    <3>2. shadow[q].home = NoConn
      BY <1>3, <3>1
    <3> QED
      BY <2>1, <3>2 DEF Sight
  <2> QED
    BY <2>2, <2>3
<1>11. Agrees(shadow, St(c))
  BY <1>10 DEF Agrees
<1> QED
  BY <1>1, <1>6, <1>9, <1>10, <1>11

(* A command that gets no connection. *)
LEMMA NotTaken ==
  ASSUME ShadowInv, NoConn \in Active
  PROVE  /\ Settled(shadow, conn, St(NoConn), Tx(NoConn))
         /\ \A q \in Ids : View[q] = Sight(shadow[q], St(NoConn))
         /\ Agrees(shadow, St(NoConn))
<1>1. Slot = NoConn
  BY ActiveIs
<1>2. St(NoConn) = stmt_conn /\ Tx(NoConn) = tx_conn
  BY <1>1 DEF St, Tx, Slot, ShadowInv
<1>3. Settled(shadow, conn, stmt_conn, tx_conn)
  BY DEF ShadowInv
<1>4. \A q \in Ids : View[q] = Sight(shadow[q], St(NoConn))
  BY <1>2, <1>3, ViewIs
<1> QED
  BY <1>2, <1>3, <1>4 DEF Agrees

-----------------------------------------------------------------------------
(* The steps of the contract. *)

(* A failed PREPARE. *)
LEMMA RefusedStep ==
  ASSUME ShadowInv, NEW sh, NEW st, Agrees(sh, st), \A q \in Ids : View'[q] = Sight(sh[q], st),
         Mode' = Mode, refused' = refused, Reply("prepare", 0, "error")
  PROVE  Contract!Next
<1>1. Contract!Others({}) /\ Contract!StaysClosed({})
  BY OthersAre
<1>2. Contract!Outcome("prepare", 0, "error")
  BY DEF Reply, Contract!Outcome
<1>3. Contract!Prepare
  BY <1>1, <1>2 DEF Contract!Prepare
<1> QED
  BY <1>3 DEF Contract!Next

(* The use of a statement. *)
LEMMA UseStep ==
  ASSUME ShadowInv, NEW sh, NEW st, Agrees(sh, st), \A q \in Ids : View'[q] = Sight(sh[q], st),
         Mode' = Mode, refused' = refused,
         NEW p \in Ids, NEW op \in {"execute", "fetch", "data"}, NEW ran \in Texts \cup {"error", "none"},
         Reply(op, p, ran),
         View[p].scope = Mode /\ View[p].text \notin refused
           => ran \in {View[p].text, "error"} \/ (ran = "none" /\ op = "data")
  PROVE  Contract!Next
<1>1. Contract!Others({}) /\ Contract!StaysClosed({})
  BY OthersAre
<1>2. Contract!Outcome(op, p, ran)
  BY DEF Reply, Contract!Outcome
<1>3. Contract!Use
  BY <1>1, <1>2 DEF Contract!Use
<1> QED
  BY <1>3 DEF Contract!Next

(* A CLOSE whose write fails, or not. *)
LEMMA CloseStep ==
  ASSUME ShadowInv, NEW p \in Ids, NEW st, Agrees(shadow, st),
         \A q \in Ids \ {p} : View'[q] = Sight(shadow[q], st),
         Mode' = Mode, refused' = refused,
         \/ Reply("close", p, "none") /\ View'[p] = Contract!Closed
         \/ Reply("close", p, "error") /\ View'[p] = View[p]
  PROVE  Contract!Next
<1>1. Contract!Others({p}) /\ Contract!StaysClosed({p})
  BY OthersAre
<1>2. \/ Contract!Outcome("close", p, "none") /\ View'[p] = Contract!Closed
      \/ Contract!Outcome("close", p, "error") /\ View'[p] = View[p]
  BY DEF Reply, Contract!Outcome
<1>3. Contract!Close
  BY <1>1, <1>2 DEF Contract!Close
<1> QED
  BY <1>3 DEF Contract!Next

-----------------------------------------------------------------------------
(* The commands that carry a statement id. *)

(* A statement that is used in its scope is at home on the connection of the command. *)
LEMMA InScope ==
  ASSUME ShadowInv, NEW p \in Ids, View[p].scope = Mode
  PROVE  shadow[p] # NoStmt /\ shadow[p].home = Slot /\ Slot # NoConn
<1>1. /\ View[p] = Sight(shadow[p], stmt_conn)
      /\ shadow[p].home \in {NoConn, stmt_conn, tx_conn} /\ in_tx \in BOOLEAN
  BY ViewIs DEF ShadowInv, Settled
<1>2. Sight(shadow[p], stmt_conn).scope = Mode /\ Mode \in {"tx", "session"}
  BY <1>1 DEF Mode
<1>3. shadow[p] # NoStmt /\ shadow[p].home # NoConn
      /\ (shadow[p].home = stmt_conn <=> Mode = "session")
  BY <1>2 DEF Sight
<1> QED
  BY <1>1, <1>3 DEF Mode, Slot

(* The id that is sent is one of a backend's. *)
LEMMA BackendIdType ==
  ASSUME NEW sh \in [Ids -> Entries], NEW p \in Ids
  PROVE  BackendId(sh, p) \in Bids /\ (sh[p] # NoStmt => BackendId(sh, p) = sh[p].bid)
<1>1. p \in Bids
  BY ShadowAssumption DEF Ids, Bids
<1>2. CASE sh[p] = NoStmt
  BY <1>1, <1>2 DEF BackendId, Open
<1>3. CASE sh[p] # NoStmt
  <2>1. sh[p] \in Entries
    OBVIOUS
  <2>2. sh[p].bid \in Bids
    BY <1>3, <2>1, EntryType
  <2> QED
    BY <1>3, <2>2 DEF BackendId, Open
<1> QED
  BY <1>2, <1>3

(* What a server runs for an id is a text or an error. *)
LEMMA RunsType ==
  ASSUME NEW cn \in [Conns -> Connection], NEW c \in Conns, NEW b \in Bids, NEW ran \in Runs(cn, c, b)
  PROVE  /\ ran \in Texts \cup {"error"}
         /\ ran = cn[c].stmts[b] \/ ran = "error"
<1>1. cn[c].stmts[b] \in Texts \cup {"none"}
  BY DEF Connection
<1> QED
  BY <1>1 DEF Runs

(* A statement that is used in its scope runs its text, or fails. *)
LEMMA RunsItsText ==
  ASSUME ShadowInv, NEW p \in Ids, NEW c \in Active, c # NoConn, conn[c].alive,
         NEW ran \in Runs(conn, c, BackendId(shadow, p))
  PROVE  /\ ran \in Texts \cup {"error"}
         /\ View[p].scope = Mode => ran \in {View[p].text, "error"}
<1>1. shadow \in [Ids -> Entries] /\ conn \in [Conns -> Connection] /\ c \in Conns
      /\ Fit(shadow[p], conn)
  BY Taken DEF ShadowInv, Settled
<1>2. BackendId(shadow, p) \in Bids /\ (shadow[p] # NoStmt => BackendId(shadow, p) = shadow[p].bid)
  BY <1>1, BackendIdType
<1>3. /\ ran \in Texts \cup {"error"}
      /\ ran = conn[c].stmts[BackendId(shadow, p)] \/ ran = "error"
  BY <1>1, <1>2, RunsType
<1>4. ASSUME View[p].scope = Mode PROVE ran \in {View[p].text, "error"}
  <2>1. shadow[p] # NoStmt /\ shadow[p].home = Slot /\ Slot # NoConn
    BY <1>4, InScope
  <2>2. c = shadow[p].home
    BY <2>1, ActiveIs
  <2>3. conn[c].stmts[shadow[p].bid] \in {shadow[p].text, "none"}
    BY <1>1, <2>1, <2>2 DEF Fit
  <2>4. View[p].text = shadow[p].text
    BY ViewIs, SightText DEF ShadowInv
  <2>5. ran # "none"
    BY <1>3, ShadowAssumption
  <2> QED
    BY <1>2, <1>3, <2>1, <2>3, <2>4, <2>5
<1> QED
  BY <1>3, <1>4

(* The numbers of a map that stays. *)
LEMMA NumbersStay ==
  ASSUME ShadowInv, UNCHANGED next_id
  PROVE  Numbered(shadow, next_id')
  BY DEF ShadowInv, Numbered

(* EXECUTE, RESET and FETCH. *)
LEMMA UseImplements ==
  ASSUME ShadowInv, NEW p \in Ids, NEW op \in {"execute", "fetch"}, UseWorks(p, op) \/ UseFails(p, op)
  PROVE  ShadowInv' /\ Contract!Next
<1>1. PICK c \in Active, ran \in Texts \cup {"error"} :
        /\ c # NoConn /\ Done(shadow, Hold(conn, c), c) /\ Reply(op, p, ran)
        /\ View[p].scope = Mode => ran \in {View[p].text, "error"}
  <2>1. CASE UseWorks(p, op)
    BY <2>1, RunsItsText DEF UseWorks
  <2>2. CASE UseFails(p, op)
    BY <2>2 DEF UseFails
  <2> QED
    BY <2>1, <2>2
<1>2. Numbered(shadow, next_id')
  BY NumbersStay DEF UseWorks, UseFails
<1>3. Settled(shadow, Hold(conn, c), St(c), Tx(c)) /\ Agrees(shadow, St(c))
  BY <1>1, Taken
<1>4. /\ ShadowInv' /\ Mode' = Mode /\ refused' = refused
      /\ \A q \in Ids : View'[q] = Sight(shadow[q], St(c))
  BY <1>1, <1>2, <1>3, DoneKeeps
<1>5. ran \in Texts \cup {"error", "none"} /\ op \in {"execute", "fetch", "data"}
  OBVIOUS
<1> QED
  BY <1>1, <1>3, <1>4, <1>5, UseStep

(* SEND_LONG_DATA. *)
LEMMA DataImplements ==
  ASSUME ShadowInv, NEW p \in Ids, SendData(p)
  PROVE  ShadowInv' /\ Contract!Next
<1>1. PICK c \in Active, ran \in Texts \cup {"error", "none"} :
        /\ c # NoConn /\ Done(shadow, Hold(conn, c), c) /\ Reply("data", p, ran)
        /\ View[p].scope = Mode => ran \in {View[p].text, "error", "none"}
  <2>1. PICK c \in Active : c # NoConn /\ Done(shadow, Hold(conn, c), c) /\
          \/ /\ conn[c].alive
             /\ \E ran \in Runs(conn, c, BackendId(shadow, p)) :
                  Reply("data", p, IF ran = "error" THEN "none" ELSE ran)
          \/ \E ran \in {"none", "error"} : Reply("data", p, ran)
    BY DEF SendData
  <2>2. CASE conn[c].alive /\ \E ran \in Runs(conn, c, BackendId(shadow, p)) :
                  Reply("data", p, IF ran = "error" THEN "none" ELSE ran)
    <3>1. PICK r \in Runs(conn, c, BackendId(shadow, p)) :
            Reply("data", p, IF r = "error" THEN "none" ELSE r)
      BY <2>2
    <3>2. /\ r \in Texts \cup {"error"}
          /\ View[p].scope = Mode => r \in {View[p].text, "error"}
      BY <2>1, <2>2, RunsItsText
    <3> QED
      BY <2>1, <3>1, <3>2
  <2>3. CASE \E ran \in {"none", "error"} : Reply("data", p, ran)
    BY <2>1, <2>3
  <2> QED
    BY <2>1, <2>2, <2>3
<1>2. Numbered(shadow, next_id')
  BY NumbersStay DEF SendData
<1>3. Settled(shadow, Hold(conn, c), St(c), Tx(c)) /\ Agrees(shadow, St(c))
  BY <1>1, Taken
<1>4. /\ ShadowInv' /\ Mode' = Mode /\ refused' = refused
      /\ \A q \in Ids : View'[q] = Sight(shadow[q], St(c))
  BY <1>1, <1>2, <1>3, DoneKeeps
<1> QED
  BY <1>1, <1>3, <1>4, UseStep

(* A command for which there is no connection. *)
LEMMA NoBackendImplements ==
  ASSUME ShadowInv, NEW op, NEW p, NoBackend(op, p),
         \/ op = "prepare" /\ p = 0
         \/ op \in {"execute", "fetch", "data", "close"} /\ p \in Ids
  PROVE  ShadowInv' /\ Contract!Next
<1>1. NoConn \in Active /\ Done(shadow, conn, NoConn) /\ Reply(op, p, "error")
  BY DEF NoBackend
<1>2. Numbered(shadow, next_id')
  BY NumbersStay DEF NoBackend
<1>3. /\ Settled(shadow, conn, St(NoConn), Tx(NoConn)) /\ Agrees(shadow, St(NoConn))
      /\ \A q \in Ids : View[q] = Sight(shadow[q], St(NoConn))
  BY <1>1, NotTaken
<1>4. /\ ShadowInv' /\ Mode' = Mode /\ refused' = refused
      /\ \A q \in Ids : View'[q] = Sight(shadow[q], St(NoConn))
  BY <1>1, <1>2, <1>3, DoneKeeps
<1>5. CASE op = "prepare" /\ p = 0
  BY <1>1, <1>3, <1>4, <1>5, RefusedStep
<1>6. CASE op \in {"execute", "fetch", "data"} /\ p \in Ids
  <2>1. "error" \in Texts \cup {"error", "none"}
    OBVIOUS
  <2> QED
    BY <1>1, <1>3, <1>4, <1>6, <2>1, UseStep
<1>7. CASE op = "close" /\ p \in Ids
  <2>1. View'[p] = View[p]
    BY <1>3, <1>4, <1>7
  <2>2. \A q \in Ids \ {p} : View'[q] = Sight(shadow[q], St(NoConn))
    BY <1>4
  <2> QED
    BY <1>1, <1>3, <1>4, <1>7, <2>1, <2>2, CloseStep
<1> QED
  BY <1>5, <1>6, <1>7

(* A map without one of its entries. *)
LEMMA WithoutEntry ==
  ASSUME NEW sh, NEW cn, NEW st, NEW tx, Settled(sh, cn, st, tx), NEW p \in Ids
  PROVE  Settled([sh EXCEPT ![p] = NoStmt], cn, st, tx)
<1>1. PICK new : new = [sh EXCEPT ![p] = NoStmt]
  OBVIOUS
<1>2. sh \in [Ids -> Entries]
  BY DEF Settled
<1>3. new[p] = NoStmt /\ \A q \in Ids : q # p => new[q] = sh[q]
  BY <1>1, <1>2
<1>4. new \in [Ids -> Entries]
  BY <1>1, <1>2 DEF Entries
<1>5. \A q \in Ids : new[q].home \in {NoConn, st, tx} /\ Fit(new[q], cn)
  <2>1. NoStmt.home = NoConn
    BY DEF NoStmt
  <2>2. Fit(NoStmt, cn)
    BY <2>1 DEF Fit
  <2> QED
    BY <1>3, <2>1, <2>2 DEF Settled
<1> QED
  BY <1>1, <1>4, <1>5 DEF Settled

(* The server closes a statement. *)
LEMMA WithoutStmt ==
  ASSUME NEW sh, NEW cn, NEW st, NEW tx, Settled(sh, cn, st, tx), NEW c \in Conns, NEW b \in Bids
  PROVE  Settled(sh, [cn EXCEPT ![c].stmts[b] = "none"], st, tx)
<1>1. PICK new : new = [cn EXCEPT ![c].stmts[b] = "none"]
  OBVIOUS
<1>2. cn \in [Conns -> Connection] /\ sh \in [Ids -> Entries]
  BY DEF Settled
<1>3. /\ new \in [Conns -> Connection]
      /\ \A x \in Conns : /\ new[x].at = cn[x].at /\ new[x].alive = cn[x].alive
                          /\ new[x].next = cn[x].next
                          /\ \A i \in Bids : new[x].stmts[i] \in {cn[x].stmts[i], "none"}
  BY <1>1, <1>2 DEF Connection
<1>4. \A q \in Ids : Fit(sh[q], new)
  <2> SUFFICES ASSUME NEW q \in Ids, sh[q].home # NoConn PROVE Fit(sh[q], new)
    BY DEF Fit
  <2>1. sh[q] \in Entries
    BY <1>2
  <2>2. sh[q].home \in Conns /\ sh[q].bid \in Bids
    BY <2>1, EntryType
  <2>3. Fit(sh[q], cn)
    BY DEF Settled
  <2> QED
    BY <1>3, <2>2, <2>3 DEF Fit
<1>5. \A x \in Conns : new[x].at = cn[x].at
  BY <1>3
<1> QED
  BY <1>1, <1>3, <1>4, <1>5 DEF Settled

(* CLOSE. *)
LEMMA CloseImplements ==
  ASSUME ShadowInv, NEW p \in Ids, Close(p)
  PROVE  ShadowInv' /\ Contract!Next
<1>1. PICK c \in Active :
        /\ c # NoConn
        /\ LET b == BackendId(shadow, p)
               sh == [shadow EXCEPT ![p] = NoStmt]
           IN  \/ /\ Done(sh, [Hold(conn, c) EXCEPT ![c].stmts[b] = "none"], c)
                  /\ Reply("close", p, "none")
               \/ Done(sh, Hold(conn, c), c) /\ Reply("close", p, "none")
               \/ Done(shadow, Hold(conn, c), c) /\ Reply("close", p, "error")
  BY DEF Close
<1>2. /\ c \in Conns /\ Settled(shadow, Hold(conn, c), St(c), Tx(c)) /\ Agrees(shadow, St(c))
      /\ \A q \in Ids : View[q] = Sight(shadow[q], St(c))
  BY <1>1, Taken
<1>3. PICK sh : sh = [shadow EXCEPT ![p] = NoStmt]
  OBVIOUS
<1>4. shadow \in [Ids -> Entries]
  BY DEF ShadowInv, Settled
<1>5. sh[p] = NoStmt /\ \A q \in Ids \ {p} : sh[q] = shadow[q]
  BY <1>3, <1>4
<1>6. Numbered(shadow, next_id') /\ Numbered(sh, next_id')
  <2>1. Numbered(shadow, next_id')
    BY NumbersStay DEF Close
  <2> QED
    BY <1>5, <2>1 DEF Numbered
<1>7. CASE Reply("close", p, "error") /\ Done(shadow, Hold(conn, c), c)
  <2>1. /\ ShadowInv' /\ Mode' = Mode /\ refused' = refused
        /\ \A q \in Ids : View'[q] = Sight(shadow[q], St(c))
    BY <1>2, <1>6, <1>7, DoneKeeps
  <2>2. View'[p] = View[p] /\ \A q \in Ids \ {p} : View'[q] = Sight(shadow[q], St(c))
    BY <1>2, <2>1
  <2> QED
    BY <1>2, <1>7, <2>1, <2>2, CloseStep
<1>8. ASSUME NEW cn, Settled(shadow, cn, St(c), Tx(c)), Done(sh, cn, c), Reply("close", p, "none")
      PROVE  ShadowInv' /\ Contract!Next
  <2>1. Settled(sh, cn, St(c), Tx(c))
    BY <1>3, <1>8, WithoutEntry
  <2>2. /\ ShadowInv' /\ Mode' = Mode /\ refused' = refused
        /\ \A q \in Ids : View'[q] = Sight(sh[q], St(c))
    BY <1>6, <1>8, <2>1, DoneKeeps
  <2>3. View'[p] = Contract!Closed
    BY <1>5, <2>2 DEF Sight, NoStmt, Contract!Closed
  <2>4. \A q \in Ids \ {p} : View'[q] = Sight(shadow[q], St(c))
    BY <1>5, <2>2
  <2> QED
    BY <1>2, <1>8, <2>2, <2>3, <2>4, CloseStep
<1>9. BackendId(shadow, p) \in Bids
  BY <1>4, BackendIdType
<1>10. Settled(shadow, [Hold(conn, c) EXCEPT ![c].stmts[BackendId(shadow, p)] = "none"], St(c), Tx(c))
  BY <1>2, <1>9, WithoutStmt
<1> QED
  BY <1>1, <1>2, <1>3, <1>7, <1>8, <1>10

-----------------------------------------------------------------------------
(* COM_STMT_PREPARE. *)

(* The server gives a statement the next id. *)
LEMMA WithStmt ==
  ASSUME NEW sh, NEW cn, NEW st, NEW tx, Settled(sh, cn, st, tx), NEW c \in Conns, NEW t \in Texts,
         NEW p \in Ids, cn[c].next <= MaxBid, c \in {st, tx}
  PROVE  Settled([sh EXCEPT ![p] = [text |-> t, bid |-> cn[c].next, home |-> c]],
                 [cn EXCEPT ![c].next = cn[c].next + 1, ![c].stmts[cn[c].next] = t], st, tx)
<1>1. cn \in [Conns -> Connection] /\ sh \in [Ids -> Entries]
  BY DEF Settled
<1>2. PICK b \in Bids : b = cn[c].next
  BY <1>1, ShadowAssumption DEF Connection, Bids
<1>3. PICK x : x = [text |-> t, bid |-> b, home |-> c]
  OBVIOUS
<1>4. PICK new : new = [cn EXCEPT ![c].next = b + 1, ![c].stmts[b] = t]
  OBVIOUS
<1>5. PICK m : m = [sh EXCEPT ![p] = x]
  OBVIOUS
<1>6. b \in Nat /\ b + 1 \in Nat \ {0}
  BY <1>2 DEF Bids
<1>7. /\ new \in [Conns -> Connection]
      /\ \A k \in Conns : new[k].at = cn[k].at /\ new[k].alive = cn[k].alive
      /\ \A k \in Conns : k # c => new[k] = cn[k]
      /\ new[c].next = b + 1 /\ new[c].stmts[b] = t
      /\ \A i \in Bids : i # b => new[c].stmts[i] = cn[c].stmts[i]
  BY <1>1, <1>4, <1>6 DEF Connection
<1>8. x \in Entries
  BY <1>3 DEF Entries
<1>9. m \in [Ids -> Entries] /\ m[p] = x /\ \A q \in Ids : q # p => m[q] = sh[q]
  BY <1>1, <1>5, <1>8
<1>10. \A q \in Ids : m[q].home \in {NoConn, st, tx} /\ Fit(m[q], new)
  <2>1. x.home = c /\ x.bid = b /\ x.text = t
    BY <1>3
  <2>2. Fit(x, new)
    BY <1>6, <1>7, <2>1 DEF Fit
  <2>3. ASSUME NEW q \in Ids PROVE sh[q].home \in {NoConn, st, tx} /\ Fit(sh[q], new)
    <3>1. sh[q].home \in {NoConn, st, tx} /\ Fit(sh[q], cn) /\ sh[q] \in Entries
      BY <1>1 DEF Settled
    <3>2. CASE sh[q].home # NoConn /\ cn[sh[q].home].alive
      <4>1. /\ sh[q].home \in Conns /\ sh[q].bid \in Bids /\ sh[q].bid < cn[sh[q].home].next
            /\ cn[sh[q].home].stmts[sh[q].bid] \in {sh[q].text, "none"}
        BY <3>1, <3>2, EntryType DEF Fit
      <4>2. CASE sh[q].home = c
        <5>1. sh[q].bid < b /\ sh[q].bid # b /\ sh[q].bid < b + 1
          BY <1>2, <1>6, <4>1, <4>2 DEF Bids
        <5> QED
          BY <1>7, <3>1, <4>1, <4>2, <5>1 DEF Fit
      <4>3. CASE sh[q].home # c
        BY <1>7, <3>1, <4>1, <4>3 DEF Fit
      <4> QED
        BY <4>2, <4>3
    <3>3. CASE ~(sh[q].home # NoConn /\ cn[sh[q].home].alive)
      <4>1. sh[q].home # NoConn => sh[q].home \in Conns
        BY <3>1, EntryType
      <4> QED
        BY <1>7, <3>1, <3>3, <4>1 DEF Fit
    <3> QED
      BY <3>1, <3>2, <3>3
  <2> QED
    BY <1>9, <2>1, <2>2, <2>3
<1>11. Settled(m, new, st, tx)
  BY <1>7, <1>9, <1>10 DEF Settled
<1> QED
  BY <1>2, <1>3, <1>4, <1>5, <1>11

(* The answer of a live server to PREPARE. *)
LEMMA PreparedImplements ==
  ASSUME ShadowInv, NEW t \in Texts, NEW sh, NEW cn, NEW c \in Conns,
         Settled(sh, cn, St(c), Tx(c)), Agrees(sh, St(c)), Prepared(t, sh, cn, c)
  PROVE  ShadowInv' /\ Contract!Next
<1>1. Numbered(sh, next_id) /\ next_id \in Nat \ {0}
  BY DEF Agrees, ShadowInv, Numbered
<1>2. CASE Done(sh, cn, c) /\ Reply("prepare", 0, "error") /\ UNCHANGED next_id
  <2>1. Numbered(sh, next_id')
    BY <1>1, <1>2
  <2>2. /\ ShadowInv' /\ Mode' = Mode /\ refused' = refused
        /\ \A q \in Ids : View'[q] = Sight(sh[q], St(c))
    BY <1>2, <2>1, DoneKeeps
  <2> QED
    BY <1>2, <2>2, RefusedStep
<1>3. CASE ~(Done(sh, cn, c) /\ Reply("prepare", 0, "error") /\ UNCHANGED next_id)
  <2>1. /\ next_id <= MaxId /\ cn[c].next <= MaxBid
        /\ Done([sh EXCEPT ![next_id] = [text |-> t, bid |-> cn[c].next, home |-> c]],
                [cn EXCEPT ![c].next = cn[c].next + 1, ![c].stmts[cn[c].next] = t], c)
        /\ Reply("prepare", next_id, t) /\ next_id' = next_id + 1
    BY <1>3 DEF Prepared
  <2>2. PICK p \in Ids : p = next_id
    BY <1>1, <2>1, ShadowAssumption DEF Ids
  <2>3. PICK x : x = [text |-> t, bid |-> cn[c].next, home |-> c]
    OBVIOUS
  <2>4. PICK m : m = [sh EXCEPT ![p] = x]
    OBVIOUS
  <2>5. sh \in [Ids -> Entries]
    BY DEF Settled
  <2>6. m[p] = x /\ \A q \in Ids : q # p => m[q] = sh[q]
    BY <2>4, <2>5
  <2>7. c \in {St(c), Tx(c)}
    BY DEF St, Tx
  <2>8. PICK new : new = [cn EXCEPT ![c].next = cn[c].next + 1, ![c].stmts[cn[c].next] = t]
    OBVIOUS
  <2>9. Settled(m, new, St(c), Tx(c))
    BY <2>1, <2>2, <2>3, <2>4, <2>7, <2>8, WithStmt
  <2>10. Numbered(m, next_id')
    BY <1>1, <2>1, <2>2, <2>6 DEF Numbered, Ids
  <2>11. Done(m, new, c)
    BY <2>1, <2>2, <2>3, <2>4, <2>8
  <2>12. /\ ShadowInv' /\ Mode' = Mode /\ refused' = refused
         /\ \A q \in Ids : View'[q] = Sight(m[q], St(c))
    BY <2>9, <2>10, <2>11, DoneKeeps
  <2>13. sh[p] = NoStmt /\ shadow[p] = NoStmt
    BY <1>1, <2>2 DEF Numbered, Agrees
  <2>14. View'[p] = [text |-> t, scope |-> Mode]
    <3>1. x # NoStmt /\ x.home = c /\ x.text = t /\ c # NoConn
      BY <2>3, ShadowAssumption DEF NoStmt
    <3>2. c = St(c) <=> ~in_tx
      <4>1. CASE in_tx
        BY <3>1, <4>1 DEF Settled, St, Tx
      <4>2. CASE ~in_tx
        BY <4>2 DEF St
      <4> QED
        BY <4>1, <4>2
    <3> QED
      BY <2>6, <2>12, <3>1, <3>2 DEF Sight, Mode
  <2>15. \A q \in Ids \ {p} : View'[q] = Sight(sh[q], St(c))
    BY <2>6, <2>12
  <2>16. Contract!Others({p}) /\ Contract!StaysClosed({p})
    BY <2>15, OthersAre
  <2>17. p \in Ids \ Contract!Open
    BY <2>13, ClosedIs DEF Contract!Open
  <2>18. Contract!Others({})
    BY <2>16, <2>17 DEF Contract!Others
  <2>19. Contract!Outcome("prepare", p, t)
    BY <2>1, <2>2 DEF Reply, Contract!Outcome
  <2>20. Contract!Prepare
    BY <2>14, <2>16, <2>17, <2>18, <2>19 DEF Contract!Prepare
  <2> QED
    BY <2>12, <2>20 DEF Contract!Next
<1> QED
  BY <1>2, <1>3

(* PREPARE on a live connection. *)
LEMMA PrepareImplements ==
  ASSUME ShadowInv, NEW t \in Texts, PrepareWorks(t)
  PROVE  ShadowInv' /\ Contract!Next
<1>1. PICK c \in Active : c # NoConn /\ Prepared(t, shadow, Hold(conn, c), c)
  BY DEF PrepareWorks
<1>2. c \in Conns /\ Settled(shadow, Hold(conn, c), St(c), Tx(c)) /\ Agrees(shadow, St(c))
  BY <1>1, Taken
<1> QED
  BY <1>1, <1>2, PreparedImplements

(* Another connection in the place of the lost one, on which nothing is at home yet. *)
LEMMA Replaced ==
  ASSUME ShadowInv, ~in_tx, NEW c \in Active, c # NoConn, ~conn[c].alive, NEW d \in Conns, d # c
  PROVE  /\ c \in Conns /\ d \in Conns /\ tx_conn = NoConn
         /\ Hold(Discard(conn, c), d) \in [Conns -> Connection]
         /\ Hold(Discard(conn, c), d)[d].at = "held"
         /\ Hold(Discard(conn, c), d)[d].alive = conn[d].alive
         /\ Hold(Discard(conn, c), d)[d].next = conn[d].next
         /\ Hold(Discard(conn, c), d)[d].stmts = conn[d].stmts
         /\ \A q \in Ids : shadow[q].home \in {NoConn, c}
         /\ \A q \in Ids : View[q].scope \in {"none", "loose"} \/ Broken
<1>1. c \in Conns /\ (c = stmt_conn \/ stmt_conn = NoConn)
  BY ActiveIs DEF Slot
<1>2. d \in Conns
  OBVIOUS
<1>3. /\ tx_conn = NoConn /\ conn \in [Conns -> Connection]
      /\ \A q \in Ids : shadow[q].home \in {NoConn, stmt_conn, tx_conn}
  BY DEF ShadowInv, Settled
<1>4. PICK cn : cn = Discard(conn, c)
  OBVIOUS
<1>5. cn \in [Conns -> Connection] /\ cn[d] = conn[d]
  BY <1>1, <1>2, <1>3, <1>4, DiscardIs
<1>6. /\ Hold(cn, d) \in [Conns -> Connection] /\ Hold(cn, d)[d].at = "held"
      /\ Hold(cn, d)[d].alive = conn[d].alive /\ Hold(cn, d)[d].next = conn[d].next
      /\ Hold(cn, d)[d].stmts = conn[d].stmts
  BY <1>2, <1>5, HoldIs
<1>7. \A q \in Ids : View[q].scope \in {"none", "loose"} \/ Broken
  <2> SUFFICES ASSUME NEW q \in Ids, ~Broken PROVE View[q].scope \in {"none", "loose"}
    OBVIOUS
  <2>1. stmt_conn = NoConn
    BY <1>1 DEF Broken
  <2>2. shadow[q].home = NoConn
    BY <1>3, <2>1
  <2>3. View[q] = Sight(shadow[q], stmt_conn)
    BY ViewIs DEF ShadowInv
  <2> QED
    BY <2>2, <2>3 DEF Sight
<1>8. \A q \in Ids : shadow[q].home \in {NoConn, c}
  BY <1>1, <1>3
<1> QED
  BY <1>1, <1>2, <1>3, <1>4, <1>6, <1>7, <1>8

(* Entries that lose their home, or go to another one, in a broken session. *)
LEMMA BrokenAgrees ==
  ASSUME NEW sh, NEW st,
         \A q \in Ids : sh[q].text = shadow[q].text /\ (sh[q] = NoStmt <=> shadow[q] = NoStmt),
         \A q \in Ids : View[q].scope \in {"none", "loose"} \/ Broken,
         \A q \in Ids : View[q].scope = "none" <=> shadow[q] = NoStmt
  PROVE  Agrees(sh, st)
<1> SUFFICES ASSUME NEW q \in Ids
             PROVE  \/ Sight(sh[q], st).scope = View[q].scope
                    \/ View[q].scope = "loose"
                    \/ Broken
  BY DEF Agrees
<1>1. CASE View[q].scope = "none"
  <2>1. sh[q] = NoStmt
    BY <1>1
  <2> QED
    BY <1>1, <2>1 DEF Sight
<1> QED
  BY <1>1

(* Who is closed has no scope. *)
LEMMA ScopeNone ==
  ASSUME ShadowInv
  PROVE  \A q \in Ids : View[q].scope = "none" <=> shadow[q] = NoStmt
<1>1. \A q \in Ids : View[q] = Sight(shadow[q], stmt_conn)
  BY ViewIs DEF ShadowInv
<1>2. ASSUME NEW q \in Ids PROVE View[q].scope = "none" <=> shadow[q] = NoStmt
  <2>1. View[q] = Sight(shadow[q], stmt_conn)
    BY <1>1
  <2> QED
    BY <2>1 DEF Sight
<1> QED
  BY <1>2

(* An entry without its home. *)
LEMMA Homeless ==
  ASSUME NEW x \in Entries
  PROVE  /\ [x EXCEPT !.home = NoConn] \in Entries
         /\ [x EXCEPT !.home = NoConn].text = x.text
         /\ [x EXCEPT !.home = NoConn].home = NoConn
         /\ [x EXCEPT !.home = NoConn] = NoStmt <=> x = NoStmt
<1>1. CASE x = NoStmt
  <2>1. [x EXCEPT !.home = NoConn] = NoStmt
    BY <1>1 DEF NoStmt
  <2> QED
    BY <1>1, <2>1 DEF NoStmt
<1>2. CASE x # NoStmt
  <2>1. x \in [text : Texts, bid : Bids, home : Conns \cup {NoConn}]
    BY <1>2 DEF Entries
  <2>2. /\ [x EXCEPT !.home = NoConn] \in [text : Texts, bid : Bids, home : Conns \cup {NoConn}]
        /\ [x EXCEPT !.home = NoConn].text = x.text
        /\ [x EXCEPT !.home = NoConn].home = NoConn
    BY <2>1
  <2>3. [x EXCEPT !.home = NoConn] \in Entries
    BY <2>2 DEF Entries
  <2>4. x.text # "none"
    BY <1>2, EntryType
  <2> QED
    BY <1>2, <2>2, <2>3, <2>4, EntryType
<1> QED
  BY <1>1, <1>2

(* The entries of a connection without it. *)
LEMMA ForgetIs ==
  ASSUME NEW sh \in [Ids -> Entries], NEW c
  PROVE  /\ Forget(sh, c) \in [Ids -> Entries]
         /\ \A q \in Ids : /\ Forget(sh, c)[q].text = sh[q].text
                           /\ Forget(sh, c)[q] = NoStmt <=> sh[q] = NoStmt
                           /\ sh[q].home = c => Forget(sh, c)[q].home = NoConn
                           /\ sh[q].home # c => Forget(sh, c)[q] = sh[q]
<1>1. ASSUME NEW q \in Ids
      PROVE  /\ Forget(sh, c)[q] \in Entries
             /\ Forget(sh, c)[q].text = sh[q].text
             /\ Forget(sh, c)[q] = NoStmt <=> sh[q] = NoStmt
             /\ sh[q].home = c => Forget(sh, c)[q].home = NoConn
             /\ sh[q].home # c => Forget(sh, c)[q] = sh[q]
  <2>1. sh[q] \in Entries
    OBVIOUS
  <2>2. CASE sh[q].home = c
    <3>1. Forget(sh, c)[q] = [sh[q] EXCEPT !.home = NoConn]
      BY <2>2 DEF Forget
    <3> QED
      BY <2>1, <2>2, <3>1, Homeless
  <2>3. CASE sh[q].home # c
    BY <2>1, <2>3 DEF Forget
  <2> QED
    BY <2>2, <2>3
<1>2. Forget(sh, c) = [q \in Ids |-> Forget(sh, c)[q]]
  BY DEF Forget
<1>3. \A q \in Ids : Forget(sh, c)[q] \in Entries
  BY <1>1
<1>4. Forget(sh, c) \in [Ids -> Entries]
  BY <1>2, <1>3, Zenon
<1> QED
  BY <1>1, <1>4

(* PREPARE on a lost connection. *)
LEMMA PrepareLostImplements ==
  ASSUME ShadowInv, NEW t \in Texts, PrepareLost(t)
  PROVE  ShadowInv' /\ Contract!Next
<1>1. PICK c \in Active :
        /\ c # NoConn /\ ~conn[c].alive
        /\ \/ /\ Done(shadow, Hold(conn, c), c) /\ Reply("prepare", 0, "error")
              /\ UNCHANGED next_id
           \/ /\ ~in_tx
              /\ \E d \in Another(c) :
                   /\ d # NoConn
                   /\ \/ /\ Done(Forget(shadow, c), Hold(Discard(conn, c), d), d)
                         /\ Reply("prepare", 0, "error")
                         /\ UNCHANGED next_id
                      \/ Prepared(t, Forget(shadow, c), Hold(Discard(conn, c), d), d)
  BY DEF PrepareLost
<1>2. CASE Done(shadow, Hold(conn, c), c) /\ Reply("prepare", 0, "error") /\ UNCHANGED next_id
  <2>1. Settled(shadow, Hold(conn, c), St(c), Tx(c)) /\ Agrees(shadow, St(c))
    BY <1>1, Taken
  <2>2. Numbered(shadow, next_id')
    BY <1>2, NumbersStay
  <2>3. /\ ShadowInv' /\ Mode' = Mode /\ refused' = refused
        /\ \A q \in Ids : View'[q] = Sight(shadow[q], St(c))
    BY <1>2, <2>1, <2>2, DoneKeeps
  <2> QED
    BY <1>2, <2>1, <2>3, RefusedStep
<1>3. ASSUME ~in_tx, NEW d \in Conns, d # c,
             \/ /\ Done(Forget(shadow, c), Hold(Discard(conn, c), d), d)
                /\ Reply("prepare", 0, "error")
                /\ UNCHANGED next_id
             \/ Prepared(t, Forget(shadow, c), Hold(Discard(conn, c), d), d)
      PROVE  ShadowInv' /\ Contract!Next
  <2>1. PICK cn : cn = Hold(Discard(conn, c), d)
    OBVIOUS
  <2>2. /\ c \in Conns /\ d \in Conns /\ cn \in [Conns -> Connection] /\ cn[d].at = "held"
        /\ \A q \in Ids : shadow[q].home \in {NoConn, c}
        /\ \A q \in Ids : View[q].scope \in {"none", "loose"} \/ Broken
    BY <1>1, <1>3, <2>1, Replaced
  <2>3. shadow \in [Ids -> Entries] /\ Numbered(shadow, next_id)
    BY DEF ShadowInv, Settled
  <2>4. PICK sh : sh = Forget(shadow, c)
    OBVIOUS
  <2>5. /\ sh \in [Ids -> Entries]
        /\ \A q \in Ids : sh[q].text = shadow[q].text /\ (sh[q] = NoStmt <=> shadow[q] = NoStmt)
        /\ \A q \in Ids : sh[q].home = NoConn
    BY <2>2, <2>3, <2>4, ForgetIs
  <2>6. St(d) = d /\ Tx(d) = NoConn
    BY <1>3 DEF St, Tx
  <2>7. Settled(sh, cn, St(d), Tx(d))
    BY <1>3, <2>2, <2>5, <2>6 DEF Settled, Fit
  <2>8. Agrees(sh, St(d))
    BY <2>2, <2>5, ScopeNone, BrokenAgrees
  <2>9. CASE Prepared(t, sh, cn, d)
    BY <2>2, <2>7, <2>8, <2>9, PreparedImplements
  <2>10. CASE Done(sh, cn, d) /\ Reply("prepare", 0, "error") /\ UNCHANGED next_id
    <3>1. Numbered(sh, next_id')
      BY <2>3, <2>5, <2>10 DEF Numbered
    <3>2. /\ ShadowInv' /\ Mode' = Mode /\ refused' = refused
          /\ \A q \in Ids : View'[q] = Sight(sh[q], St(d))
      BY <2>7, <2>10, <3>1, DoneKeeps
    <3> QED
      BY <2>8, <2>10, <3>2, RefusedStep
  <2> QED
    BY <1>3, <2>1, <2>4, <2>9, <2>10
<1>4. c \in Conns
  BY <1>1, ActiveIs
<1>5. \A d \in Another(c) : d # NoConn => d \in Conns /\ d # c
  BY <1>4, AnotherIs
<1> QED
  BY <1>1, <1>2, <1>3, <1>5

-----------------------------------------------------------------------------
(* The repair. *)

Before(ord, acc, p) == {q \in acc : ord[q] < ord[p]}

(* The ids that the other connection gives are new and apart. *)
LEMMA NewBids ==
  ASSUME NEW d \in Conns, conn \in [Conns -> Connection], NEW ord \in Orders,
         NEW acc \in SUBSET Open(shadow),
         conn[d].next + Cardinality(Open(shadow)) <= MaxBid + 1
  PROVE  /\ Cardinality(acc) \in Nat
         /\ \A p \in acc : /\ NewBid(d, ord, acc, p) \in Bids
                           /\ NewBid(d, ord, acc, p) >= conn[d].next
                           /\ NewBid(d, ord, acc, p) < conn[d].next + Cardinality(acc)
         /\ \A p, q \in acc : NewBid(d, ord, acc, p) = NewBid(d, ord, acc, q) => p = q
<1>1. IsFiniteSet(Open(shadow)) /\ Cardinality(Open(shadow)) \in Nat
  <2>1. IsFiniteSet(Ids)
    BY FS_Interval, ShadowAssumption DEF Ids
  <2>2. Open(shadow) \in SUBSET Ids
    BY DEF Open
  <2> QED
    BY <2>1, <2>2, FS_Subset, FS_CardinalityType
<1>2. /\ IsFiniteSet(acc) /\ Cardinality(acc) \in Nat
      /\ Cardinality(acc) <= Cardinality(Open(shadow))
  BY <1>1, FS_Subset, FS_CardinalityType
<1>3. conn[d].next \in Nat \ {0}
  BY DEF Connection
<1>4. \A p \in acc : /\ ord[p] \in Nat
                     /\ \A q \in acc : ord[p] = ord[q] => p = q
  <2>1. ord \in [Open(shadow) -> 1..Cardinality(Open(shadow))]
    BY DEF Orders
  <2>2. \A p \in Open(shadow) : ord[p] \in 1..Cardinality(Open(shadow))
    BY <2>1
  <2>3. \A p, q \in Open(shadow) : ord[p] = ord[q] => p = q
    BY DEF Orders
  <2> QED
    BY <1>1, <2>2, <2>3
<1>5. ASSUME NEW p \in acc
      PROVE  /\ IsFiniteSet(Before(ord, acc, p)) /\ Cardinality(Before(ord, acc, p)) \in Nat
             /\ Cardinality(Before(ord, acc, p)) < Cardinality(acc)
  <2>1. Before(ord, acc, p) \in SUBSET acc /\ p \notin Before(ord, acc, p)
    BY <1>4 DEF Before
  <2>2. /\ IsFiniteSet(Before(ord, acc, p)) /\ Cardinality(Before(ord, acc, p)) \in Nat
        /\ Cardinality(Before(ord, acc, p)) <= Cardinality(acc)
        /\ Cardinality(acc) = Cardinality(Before(ord, acc, p)) => acc = Before(ord, acc, p)
    BY <1>2, <2>1, FS_Subset, FS_CardinalityType
  <2> QED
    BY <1>2, <2>1, <2>2
<1>6. ASSUME NEW p \in acc, NEW q \in acc, ord[p] < ord[q]
      PROVE  Cardinality(Before(ord, acc, p)) < Cardinality(Before(ord, acc, q))
  <2>1. /\ Before(ord, acc, p) \in SUBSET Before(ord, acc, q)
        /\ p \in Before(ord, acc, q) /\ p \notin Before(ord, acc, p)
    BY <1>4, <1>6 DEF Before
  <2>2. /\ Cardinality(Before(ord, acc, p)) <= Cardinality(Before(ord, acc, q))
        /\ Cardinality(Before(ord, acc, q)) = Cardinality(Before(ord, acc, p))
             => Before(ord, acc, q) = Before(ord, acc, p)
    BY <1>5, <2>1, FS_Subset
  <2> QED
    BY <1>5, <2>1, <2>2
<1>7. \A p \in acc : NewBid(d, ord, acc, p) = conn[d].next + Cardinality(Before(ord, acc, p))
  BY DEF NewBid, Before
<1>8. ASSUME NEW p \in acc
      PROVE  /\ NewBid(d, ord, acc, p) \in Bids
             /\ NewBid(d, ord, acc, p) >= conn[d].next
             /\ NewBid(d, ord, acc, p) < conn[d].next + Cardinality(acc)
  BY <1>1, <1>2, <1>3, <1>5, <1>7, ShadowAssumption DEF Bids
<1>9. ASSUME NEW p \in acc, NEW q \in acc, NewBid(d, ord, acc, p) = NewBid(d, ord, acc, q)
      PROVE  p = q
  <2>1. Cardinality(Before(ord, acc, p)) = Cardinality(Before(ord, acc, q))
    BY <1>3, <1>5, <1>7, <1>9
  <2>2. ~(ord[p] < ord[q]) /\ ~(ord[q] < ord[p])
    BY <1>5, <1>6, <2>1
  <2> QED
    BY <1>4, <2>2
<1> QED
  BY <1>2, <1>8, <1>9

(* The other connection when the statements are prepared on it. *)
LEMMA MendedIs ==
  ASSUME ShadowInv, ~in_tx, NEW c \in Active, c # NoConn, ~conn[c].alive, NEW d \in Conns, d # c,
         NEW ord \in Orders, NEW acc \in SUBSET Open(shadow),
         conn[d].next + Cardinality(Open(shadow)) <= MaxBid + 1
  PROVE  LET cn == Mended(c, d, ord, acc)
         IN  /\ cn \in [Conns -> Connection]
             /\ cn[d].at = "held" /\ cn[d].alive = conn[d].alive
             /\ \A p \in acc : /\ NewBid(d, ord, acc, p) \in Bids
                               /\ NewBid(d, ord, acc, p) < cn[d].next
                               /\ cn[d].stmts[NewBid(d, ord, acc, p)] = shadow[p].text
<1>1. PICK base : base = Hold(Discard(conn, c), d)
  OBVIOUS
<1>2. /\ c \in Conns /\ d \in Conns /\ base \in [Conns -> Connection]
      /\ base[d].at = "held" /\ base[d].alive = conn[d].alive
      /\ base[d].next = conn[d].next /\ base[d].stmts = conn[d].stmts
  BY <1>1, Replaced
<1>3. shadow \in [Ids -> Entries] /\ conn \in [Conns -> Connection]
  BY DEF ShadowInv, Settled
<1>4. /\ Cardinality(acc) \in Nat
      /\ \A p \in acc : /\ NewBid(d, ord, acc, p) \in Bids
                        /\ NewBid(d, ord, acc, p) >= conn[d].next
                        /\ NewBid(d, ord, acc, p) < conn[d].next + Cardinality(acc)
      /\ \A p, q \in acc : NewBid(d, ord, acc, p) = NewBid(d, ord, acc, q) => p = q
  BY <1>2, <1>3, NewBids
<1>5. PICK n : n = base[d].next + Cardinality(acc)
  OBVIOUS
<1>6. n \in Nat \ {0}
  BY <1>2, <1>4, <1>5 DEF Connection
<1>7. PICK f : f = [b \in Bids |-> IF \E p \in acc : NewBid(d, ord, acc, p) = b
                                  THEN shadow[CHOOSE p \in acc : NewBid(d, ord, acc, p) = b].text
                                  ELSE base[d].stmts[b]]
  OBVIOUS
<1>8. \A p \in acc : shadow[p].text \in Texts
  <2>1. \A p \in acc : p \in Ids /\ shadow[p] # NoStmt
    BY DEF Open
  <2> QED
    BY <1>3, <2>1, EntryType
<1>9. \A p \in acc : (CHOOSE q \in acc : NewBid(d, ord, acc, q) = NewBid(d, ord, acc, p)) = p
  <2> SUFFICES ASSUME NEW p \in acc
               PROVE  (CHOOSE q \in acc : NewBid(d, ord, acc, q) = NewBid(d, ord, acc, p)) = p
    OBVIOUS
  <2>1. PICK b : b = NewBid(d, ord, acc, p)
    OBVIOUS
  <2>2. \E q \in acc : NewBid(d, ord, acc, q) = b
    BY <2>1
  <2>3. (CHOOSE q \in acc : NewBid(d, ord, acc, q) = b) \in acc
        /\ NewBid(d, ord, acc, CHOOSE q \in acc : NewBid(d, ord, acc, q) = b) = b
    BY <2>2
  <2> QED
    BY <1>4, <2>1, <2>3
<1>10. f \in [Bids -> Texts \cup {"none"}]
  <2> SUFFICES ASSUME NEW b \in Bids PROVE f[b] \in Texts \cup {"none"}
    BY <1>7
  <2>1. CASE \E p \in acc : NewBid(d, ord, acc, p) = b
    <3>1. PICK p \in acc : NewBid(d, ord, acc, p) = b
      BY <2>1
    <3>2. f[b] = shadow[p].text
      BY <1>7, <1>9, <2>1, <3>1
    <3> QED
      BY <1>8, <3>2
  <2>2. CASE ~\E p \in acc : NewBid(d, ord, acc, p) = b
    <3>1. f[b] = base[d].stmts[b]
      BY <1>7, <2>2
    <3> QED
      BY <1>2, <3>1 DEF Connection
  <2> QED
    BY <2>1, <2>2
<1>11. \A p \in acc : f[NewBid(d, ord, acc, p)] = shadow[p].text
  BY <1>4, <1>7, <1>9
<1>12. PICK cn : cn = Mended(c, d, ord, acc)
  OBVIOUS
<1>13. cn = [base EXCEPT ![d].next = n, ![d].stmts = f]
  BY <1>1, <1>5, <1>7, <1>12 DEF Mended
<1>14. /\ cn \in [Conns -> Connection]
       /\ cn[d].at = base[d].at /\ cn[d].alive = base[d].alive /\ cn[d].next = n /\ cn[d].stmts = f
  BY <1>2, <1>6, <1>10, <1>13 DEF Connection
<1> QED
  BY <1>2, <1>4, <1>5, <1>11, <1>12, <1>14

(* An entry with another id on another connection. *)
Moved(x, b, d) == [x EXCEPT !.bid = b, !.home = d]

(* It has its fields. *)
LEMMA Rehomed ==
  ASSUME NEW x \in Entries, x # NoStmt, NEW b \in Bids, NEW d \in Conns,
         NEW y, y = Moved(x, b, d)
  PROVE  y \in Entries /\ y.text = x.text /\ y.bid = b /\ y.home = d /\ y # NoStmt
<1>1. x \in [text : Texts, bid : Bids, home : Conns \cup {NoConn}]
  BY DEF Entries
<1>2. PICK t \in Texts, i \in Bids, h \in Conns \cup {NoConn} : x = [text |-> t, bid |-> i, home |-> h]
  BY <1>1
<1>4. y = [text |-> t, bid |-> b, home |-> d]
  BY <1>2 DEF Moved
<1>5. y.text = t /\ y.bid = b /\ y.home = d /\ x.text = t
  BY <1>2, <1>4
<1>6. y \in Entries
  BY <1>4 DEF Entries
<1>7. y # NoStmt
  BY <1>5, ShadowAssumption DEF NoStmt
<1> QED
  BY <1>5, <1>6, <1>7

(* update_backend_ids: the texts stay, what was accepted is at home on the other
   connection and nothing else is at home anywhere. *)
LEMMA UpdatedIs ==
  ASSUME shadow \in [Ids -> Entries], NEW d \in Conns, NEW ord, NEW acc \in SUBSET Open(shadow),
         \A p \in acc : NewBid(d, ord, acc, p) \in Bids
  PROVE  /\ Updated(d, ord, acc) \in [Ids -> Entries]
         /\ \A q \in Ids : /\ Updated(d, ord, acc)[q].text = shadow[q].text
                           /\ Updated(d, ord, acc)[q] = NoStmt <=> shadow[q] = NoStmt
                           /\ q \in acc => /\ Updated(d, ord, acc)[q].home = d
                                           /\ Updated(d, ord, acc)[q].bid = NewBid(d, ord, acc, q)
                           /\ q \notin acc => Updated(d, ord, acc)[q].home = NoConn
<1>1. PICK sh : sh = Updated(d, ord, acc)
  OBVIOUS
<1>2. \A q \in Ids : sh[q] = IF q \in acc
                             THEN [shadow[q] EXCEPT !.bid = NewBid(d, ord, acc, q), !.home = d]
                             ELSE [shadow[q] EXCEPT !.home = NoConn]
  BY <1>1 DEF Updated
<1>3. ASSUME NEW q \in Ids
      PROVE  /\ sh[q] \in Entries /\ sh[q].text = shadow[q].text
             /\ sh[q] = NoStmt <=> shadow[q] = NoStmt
             /\ q \in acc => sh[q].home = d /\ sh[q].bid = NewBid(d, ord, acc, q)
             /\ q \notin acc => sh[q].home = NoConn
  <2>1. PICK x \in Entries : x = shadow[q]
    OBVIOUS
  <2>2. CASE q \in acc
    <3>1. PICK b \in Bids : b = NewBid(d, ord, acc, q)
      BY <2>2
    <3>2. sh[q] = Moved(x, b, d)
      BY <1>2, <2>1, <2>2, <3>1 DEF Moved
    <3>3. x # NoStmt
      BY <2>1, <2>2 DEF Open
    <3>4. /\ sh[q] \in Entries /\ sh[q].text = x.text /\ sh[q] # NoStmt
          /\ sh[q].home = d /\ sh[q].bid = b
      BY <3>2, <3>3, Rehomed
    <3> QED
      BY <2>1, <2>2, <3>1, <3>3, <3>4
  <2>3. CASE q \notin acc
    <3>1. sh[q] = [x EXCEPT !.home = NoConn]
      BY <1>2, <2>1, <2>3
    <3> QED
      BY <2>1, <2>3, <3>1, Homeless
  <2> QED
    BY <2>2, <2>3
<1>4. sh = [q \in Ids |-> sh[q]]
  BY <1>1 DEF Updated
<1>5. sh \in [Ids -> Entries]
  <2>1. \A q \in Ids : sh[q] \in Entries
    BY <1>3
  <2> QED
    BY <1>4, <2>1, Zenon
<1> QED
  BY <1>1, <1>3, <1>5

(* What a repair leaves: the map and the connections fit, whether the other connection is
   still alive or lost too. *)
LEMMA RepairSettles ==
  ASSUME ShadowInv, ~in_tx, NEW c \in Active, c # NoConn, ~conn[c].alive, NEW d \in Conns, d # c,
         NEW ord \in Orders, NEW acc \in SUBSET Open(shadow),
         conn[d].next + Cardinality(Open(shadow)) <= MaxBid + 1
  PROVE  /\ Settled(Updated(d, ord, acc), Mended(c, d, ord, acc), d, NoConn)
         /\ Settled(Updated(d, ord, acc), Lose(Mended(c, d, ord, acc), d), d, NoConn)
         /\ Agrees(Updated(d, ord, acc), d)
         /\ \A p \in acc : /\ Updated(d, ord, acc)[p].bid \in Bids
                           /\ Mended(c, d, ord, acc)[d].stmts[Updated(d, ord, acc)[p].bid] = shadow[p].text
<1>1. PICK cn : cn = Mended(c, d, ord, acc)
  OBVIOUS
<1>2. PICK sh : sh = Updated(d, ord, acc)
  OBVIOUS
<1>3. /\ cn \in [Conns -> Connection] /\ cn[d].at = "held"
      /\ \A p \in acc : /\ NewBid(d, ord, acc, p) \in Bids
                        /\ NewBid(d, ord, acc, p) < cn[d].next
                        /\ cn[d].stmts[NewBid(d, ord, acc, p)] = shadow[p].text
  BY <1>1, MendedIs
<1>4. /\ c \in Conns /\ d \in Conns
      /\ \A q \in Ids : View[q].scope \in {"none", "loose"} \/ Broken
  BY Replaced
<1>5. shadow \in [Ids -> Entries]
  BY DEF ShadowInv, Settled
<1>6. /\ sh \in [Ids -> Entries]
      /\ \A q \in Ids : /\ sh[q].text = shadow[q].text
                        /\ sh[q] = NoStmt <=> shadow[q] = NoStmt
                        /\ q \in acc => sh[q].home = d /\ sh[q].bid = NewBid(d, ord, acc, q)
                        /\ q \notin acc => sh[q].home = NoConn
  BY <1>2, <1>3, <1>4, <1>5, UpdatedIs
<1>7. acc \subseteq Ids
  BY DEF Open
<1>8. \A q \in Ids : sh[q].home \in {NoConn, d}
  BY <1>6
<1>9. \A q \in Ids : Fit(sh[q], cn)
  <2> SUFFICES ASSUME NEW q \in Ids PROVE Fit(sh[q], cn)
    OBVIOUS
  <2>1. CASE q \in acc
    <3>1. sh[q].home = d /\ sh[q].bid = NewBid(d, ord, acc, q) /\ sh[q].text = shadow[q].text
      BY <1>6, <2>1
    <3> QED
      BY <1>3, <2>1, <3>1 DEF Fit
  <2>2. CASE q \notin acc
    <3>1. sh[q].home = NoConn
      BY <1>6, <2>2
    <3> QED
      BY <3>1 DEF Fit
  <2> QED
    BY <2>1, <2>2
<1>10. Settled(sh, cn, d, NoConn)
  BY <1>3, <1>4, <1>6, <1>8, <1>9 DEF Settled
<1>11. Settled(sh, Lose(cn, d), d, NoConn)
  <2>1. PICK lost : lost = Lose(cn, d)
    OBVIOUS
  <2>2. lost \in [Conns -> Connection] /\ ~lost[d].alive /\ lost[d].at = "held"
    BY <1>3, <1>4, <2>1, LoseIs
  <2>3. \A q \in Ids : Fit(sh[q], lost)
    BY <1>8, <2>2 DEF Fit
  <2>4. Settled(sh, lost, d, NoConn)
    BY <1>4, <1>6, <1>8, <2>2, <2>3 DEF Settled
  <2> QED
    BY <2>1, <2>4
<1>12. Agrees(sh, d)
  <2>1. \A q \in Ids : sh[q].text = shadow[q].text /\ (sh[q] = NoStmt <=> shadow[q] = NoStmt)
    BY <1>6
  <2> QED
    BY <1>4, <2>1, ScopeNone, BrokenAgrees
<1>13. \A p \in acc : sh[p].bid \in Bids /\ cn[d].stmts[sh[p].bid] = shadow[p].text
  BY <1>3, <1>6, <1>7
<1> QED
  BY <1>1, <1>2, <1>10, <1>11, <1>12, <1>13

(* EXECUTE on a lost connection: whatever was prepared again, in whatever order, the id
   that is retried is that of its own text on the other connection. *)
LEMMA RepairsImplements ==
  ASSUME ShadowInv, NEW p \in Ids, ExecuteRepairs(p)
  PROVE  ShadowInv' /\ Contract!Next
<1>c. PICK c \in Active : c # NoConn /\ \E d \in Another(c) \ {NoConn} : RepairOn(p, c, d)
  BY DEF ExecuteRepairs, RepairOn
<1>d. c \in Conns
  BY <1>c, ActiveIs
<1>0. PICK d \in Conns :
        /\ c # NoConn /\ c # d /\ ~conn[c].alive
        /\ conn[d].next + Cardinality(Open(shadow)) <= MaxBid + 1
        /\ \E ord \in Orders, answered \in 0 .. Cardinality(Open(shadow)), alive \in {conn[d].alive, FALSE} :
             LET acc == Accepted(ord, answered)
                 sh == Updated(d, ord, acc)
                 cn == IF alive THEN Mended(c, d, ord, acc) ELSE Lose(Mended(c, d, ord, acc), d)
             IN  /\ IF conn[d].alive THEN alive => answered = Cardinality(Open(shadow))
                                     ELSE answered = 0
                 /\ Done(sh, cn, d)
                 /\ \E ran \in IF alive THEN Runs(cn, d, BackendId(sh, p)) ELSE {"error"} :
                      Reply("execute", p, ran)
  <2>1. \A d \in Another(c) \ {NoConn} : d \in Conns /\ d # c
    BY <1>d, AnotherIs
  <2> QED
    BY <1>c, <2>1 DEF RepairOn
<1>1. PICK ord \in Orders, answered \in 0 .. Cardinality(Open(shadow)), alive \in {conn[d].alive, FALSE} :
        LET acc == Accepted(ord, answered)
            sh == Updated(d, ord, acc)
            cn == IF alive THEN Mended(c, d, ord, acc) ELSE Lose(Mended(c, d, ord, acc), d)
        IN  /\ IF conn[d].alive THEN alive => answered = Cardinality(Open(shadow))
                                ELSE answered = 0
            /\ Done(sh, cn, d)
            /\ \E ran \in IF alive THEN Runs(cn, d, BackendId(sh, p)) ELSE {"error"} :
                 Reply("execute", p, ran)
  BY <1>0
<1>2. PICK acc : acc = Accepted(ord, answered)
  OBVIOUS
<1>3. acc \in SUBSET Open(shadow)
  BY <1>2 DEF Accepted
<1>4. PICK sh : sh = Updated(d, ord, acc)
  OBVIOUS
<1>5. PICK mended : mended = Mended(c, d, ord, acc)
  OBVIOUS
<1>6. PICK cn : cn = IF alive THEN mended ELSE Lose(mended, d)
  OBVIOUS
<1>7. ~in_tx /\ UNCHANGED next_id
  BY DEF ExecuteRepairs
<1>8. /\ Settled(sh, mended, d, NoConn) /\ Settled(sh, Lose(mended, d), d, NoConn)
      /\ Agrees(sh, d)
      /\ \A q \in acc : sh[q].bid \in Bids /\ mended[d].stmts[sh[q].bid] = shadow[q].text
  BY <1>0, <1>3, <1>4, <1>5, <1>7, RepairSettles
<1>9. St(d) = d /\ Tx(d) = NoConn
  BY <1>7 DEF St, Tx
<1>10. Settled(sh, cn, St(d), Tx(d))
  BY <1>6, <1>8, <1>9
<1>11. Numbered(sh, next_id')
  <2>1. Numbered(shadow, next_id')
    BY <1>7, NumbersStay
  <2> QED
    BY <1>8, <2>1 DEF Numbered, Agrees
<1>12. Done(sh, cn, d)
  BY <1>1, <1>2, <1>4, <1>5, <1>6
<1>13. /\ ShadowInv' /\ Mode' = Mode /\ refused' = refused
       /\ \A q \in Ids : View'[q] = Sight(sh[q], St(d))
  BY <1>10, <1>11, <1>12, DoneKeeps
<1>14. PICK ran \in IF alive THEN Runs(cn, d, BackendId(sh, p)) ELSE {"error"} : Reply("execute", p, ran)
  BY <1>1, <1>2, <1>4, <1>5, <1>6
<1>15. /\ ran \in Texts \cup {"error", "none"}
       /\ View[p].scope = Mode /\ View[p].text \notin refused => ran \in {View[p].text, "error"}
  <2>1. CASE ~alive
    BY <1>14, <2>1
  <2>2. CASE alive
    <3>1. /\ cn = mended /\ ran \in Runs(mended, d, BackendId(sh, p))
          /\ answered = Cardinality(Open(shadow))
      BY <1>1, <1>6, <1>14, <2>2
    <3>2. sh \in [Ids -> Entries] /\ mended \in [Conns -> Connection] /\ d \in Conns
      BY <1>0, <1>8 DEF Settled
    <3>3. PICK b \in Bids : b = BackendId(sh, p) /\ (sh[p] # NoStmt => b = sh[p].bid)
      BY <3>2, BackendIdType
    <3>4. ran \in Texts \cup {"error"} /\ (ran = mended[d].stmts[b] \/ ran = "error")
      BY <3>1, <3>2, <3>3, RunsType
    <3>5. ASSUME View[p].scope = Mode, View[p].text \notin refused
          PROVE  ran \in {View[p].text, "error"}
      <4>1. View[p].text = shadow[p].text
        BY ViewIs, SightText DEF ShadowInv
      <4>2. shadow[p] # NoStmt /\ p \in Open(shadow)
        BY <3>5, InScope DEF Open
      <4>3. ord[p] <= Cardinality(Open(shadow))
        <5>1. ord \in [Open(shadow) -> 1..Cardinality(Open(shadow))]
          BY DEF Orders
        <5>2. ord[p] \in 1..Cardinality(Open(shadow))
          BY <4>2, <5>1
        <5> QED
          BY <5>2
      <4>4. p \in acc
        BY <1>2, <3>1, <3>5, <4>1, <4>2, <4>3 DEF Accepted
      <4>5. sh[p] # NoStmt
        BY <1>8, <4>2 DEF Agrees
      <4> QED
        BY <1>8, <3>3, <3>4, <4>1, <4>4, <4>5
    <3> QED
      BY <3>4, <3>5
  <2> QED
    BY <2>1, <2>2
<1>16. Agrees(sh, St(d)) /\ "execute" \in {"execute", "fetch", "data"}
  BY <1>8, <1>9
<1> QED
  BY <1>13, <1>14, <1>15, <1>16, UseStep

-----------------------------------------------------------------------------
(* The rest of the session, and the server. *)

(* The mapping's view of the statements is one function of the ids. *)
LEMMA ViewIsFunction == View' = [q \in Ids |-> View'[q]] /\ View = [q \in Ids |-> View[q]]
  BY DEF View

(* A step that is no command. *)
LEMMA QuietStep ==
  ASSUME Quiet, \A q \in Ids : View'[q] = View[q], Mode' = Mode, refused \subseteq refused'
  PROVE  Contract!Next
<1>1. View' = View
  BY ViewIsFunction
<1>2. Contract!Quiet
  BY DEF Quiet, Reply, Contract!Quiet, Contract!Outcome
<1>3. Contract!Environment
  BY <1>1, <1>2 DEF Contract!Environment
<1> QED
  BY <1>3 DEF Contract!Next

(* A step into a transaction, or out of one. *)
LEMMA SwitchStep ==
  ASSUME Quiet, refused' = refused, in_tx' \in BOOLEAN,
         \A q \in Ids : View'[q] = IF View[q].scope = "tx" THEN [View[q] EXCEPT !.scope = "loose"] ELSE View[q]
  PROVE  Contract!Next
<1>1. Contract!Quiet
  BY DEF Quiet, Reply, Contract!Quiet, Contract!Outcome
<1>2. View' = [q \in Ids |-> IF View[q].scope = "tx" THEN [View[q] EXCEPT !.scope = "loose"] ELSE View[q]]
  BY ViewIsFunction
<1>3. Mode' \in {"session", "tx"}
  BY DEF Mode
<1>4. Contract!Switch
  BY <1>1, <1>2, <1>3 DEF Contract!Switch
<1> QED
  BY <1>4 DEF Contract!Next

(* BEGIN. *)
LEMMA BeginImplements ==
  ASSUME ShadowInv, Begin
  PROVE  ShadowInv' /\ Contract!Next
<1>1. /\ ~in_tx /\ in_tx' = TRUE /\ Quiet /\ shadow' = shadow /\ next_id' = next_id
      /\ stmt_conn' = stmt_conn /\ refused' = refused
  BY DEF Begin
<1>2. PICK c \in Get(conn) : tx_conn' = c /\ conn' = IF c = NoConn THEN conn ELSE Hold(conn, c)
  BY DEF Begin
<1>3. /\ Settled(shadow, conn, stmt_conn, tx_conn) /\ tx_conn = NoConn /\ Numbered(shadow, next_id)
  BY <1>1 DEF ShadowInv
<1>4. /\ shadow \in [Ids -> Entries] /\ conn \in [Conns -> Connection]
      /\ stmt_conn \in Conns \cup {NoConn} /\ (stmt_conn # NoConn => conn[stmt_conn].at = "held")
      /\ \A q \in Ids : shadow[q].home \in {NoConn, stmt_conn} /\ Fit(shadow[q], conn)
  BY <1>3 DEF Settled
<1>5. c \in Conns \cup {NoConn} /\ (c # NoConn => c # stmt_conn)
  BY GetIs
<1>6. PICK cn : cn = conn'
  OBVIOUS
<1>7. /\ cn \in [Conns -> Connection] /\ (c # NoConn => cn[c].at = "held")
      /\ \A x \in Conns : /\ cn[x].alive = conn[x].alive /\ cn[x].next = conn[x].next
                          /\ cn[x].stmts = conn[x].stmts /\ (x # c => cn[x] = conn[x])
  <2>1. CASE c = NoConn
    BY <1>2, <1>4, <1>6, <2>1
  <2>2. CASE c # NoConn
    BY <1>2, <1>4, <1>5, <1>6, <2>2, HoldIs
  <2> QED
    BY <2>1, <2>2
<1>8. \A q \in Ids : Fit(shadow[q], cn)
  <2> SUFFICES ASSUME NEW q \in Ids PROVE Fit(shadow[q], cn)
    OBVIOUS
  <2>1. CASE shadow[q].home = NoConn
    BY <2>1 DEF Fit
  <2>2. CASE shadow[q].home # NoConn
    <3>1. shadow[q].home \in Conns
      BY <1>4, <2>2
    <3> QED
      BY <1>4, <1>7, <3>1 DEF Fit
  <2> QED
    BY <2>1, <2>2
<1>9. Settled(shadow, cn, stmt_conn, c)
  BY <1>4, <1>5, <1>7, <1>8 DEF Settled
<1>10. Settled(shadow, conn, stmt_conn, tx_conn)'
  BY <1>1, <1>2, <1>6, <1>9 DEF Settled, Fit
<1>11. ShadowInv'
  BY <1>1, <1>3, <1>10 DEF ShadowInv, Numbered
<1>12. ASSUME NEW q \in Ids PROVE View'[q] = View[q] /\ View[q].scope # "tx"
  <2>1. View'[q] = Sight(shadow[q], stmt_conn) /\ View[q] = Sight(shadow[q], stmt_conn)
    BY <1>1, <1>3, <1>10, ViewIs, ViewIsPrimed
  <2>2. shadow[q].home \in {NoConn, stmt_conn}
    BY <1>4
  <2> QED
    BY <2>1, <2>2 DEF Sight
<1> QED
  BY <1>1, <1>11, <1>12, SwitchStep

(* COMMIT, ROLLBACK and a kill. *)
LEMMA EndImplements ==
  ASSUME ShadowInv, End
  PROVE  ShadowInv' /\ Contract!Next
<1>1. /\ in_tx /\ in_tx' = FALSE /\ Quiet /\ tx_conn' = NoConn /\ shadow' = Forget(shadow, tx_conn)
      /\ next_id' = next_id /\ stmt_conn' = stmt_conn /\ refused' = refused
      /\ conn' \in {Put(conn, tx_conn), Discard(conn, tx_conn)}
  BY DEF End
<1>2. Settled(shadow, conn, stmt_conn, tx_conn) /\ Numbered(shadow, next_id)
  BY DEF ShadowInv
<1>3. /\ shadow \in [Ids -> Entries] /\ conn \in [Conns -> Connection]
      /\ stmt_conn \in Conns \cup {NoConn} /\ tx_conn \in Conns \cup {NoConn}
      /\ (stmt_conn # NoConn => conn[stmt_conn].at = "held" /\ stmt_conn # tx_conn)
      /\ \A q \in Ids : shadow[q].home \in {NoConn, stmt_conn, tx_conn} /\ Fit(shadow[q], conn)
  BY <1>2 DEF Settled
<1>4. PICK sh : sh = Forget(shadow, tx_conn)
  OBVIOUS
<1>5. /\ sh \in [Ids -> Entries]
      /\ \A q \in Ids : /\ sh[q].text = shadow[q].text
                        /\ sh[q] = NoStmt <=> shadow[q] = NoStmt
                        /\ shadow[q].home = tx_conn => sh[q].home = NoConn
                        /\ shadow[q].home # tx_conn => sh[q] = shadow[q]
  BY <1>3, <1>4, ForgetIs
<1>6. PICK cn : cn = conn'
  OBVIOUS
<1>7. cn \in [Conns -> Connection] /\ \A x \in Conns : x # tx_conn => cn[x] = conn[x]
  BY <1>1, <1>3, <1>6, PutIs, DiscardIs
<1>8. ASSUME NEW q \in Ids
      PROVE  /\ sh[q].home \in {NoConn, stmt_conn} /\ Fit(sh[q], cn)
             /\ sh[q].home = NoConn \/ sh[q] = shadow[q]
  <2>1. CASE shadow[q].home = tx_conn \/ shadow[q].home = NoConn
    <3>1. sh[q].home = NoConn
      BY <1>5, <2>1
    <3> QED
      BY <3>1 DEF Fit
  <2>2. CASE shadow[q].home # tx_conn /\ shadow[q].home # NoConn
    <3>1. sh[q] = shadow[q] /\ shadow[q].home = stmt_conn /\ stmt_conn \in Conns /\ stmt_conn # tx_conn
      BY <1>3, <1>5, <2>2
    <3>2. Fit(shadow[q], conn) /\ cn[stmt_conn] = conn[stmt_conn]
      BY <1>3, <1>7, <3>1
    <3> QED
      BY <3>1, <3>2 DEF Fit
  <2> QED
    BY <2>1, <2>2
<1>9. Settled(sh, cn, stmt_conn, NoConn)
  BY <1>3, <1>5, <1>7, <1>8, ShadowAssumption DEF Settled
<1>10. Settled(shadow, conn, stmt_conn, tx_conn)'
  BY <1>1, <1>4, <1>6, <1>9 DEF Settled, Fit
<1>11. Numbered(sh, next_id)
  BY <1>2, <1>5 DEF Numbered
<1>12. ShadowInv'
  BY <1>1, <1>4, <1>10, <1>11 DEF ShadowInv, Numbered
<1>13. ASSUME NEW q \in Ids
       PROVE  View'[q] = IF View[q].scope = "tx" THEN [View[q] EXCEPT !.scope = "loose"] ELSE View[q]
  <2>1. View'[q] = Sight(sh[q], stmt_conn) /\ View[q] = Sight(shadow[q], stmt_conn)
    BY <1>1, <1>2, <1>4, <1>10, ViewIs, ViewIsPrimed
  <2>2. /\ sh[q].text = shadow[q].text /\ (sh[q] = NoStmt <=> shadow[q] = NoStmt)
        /\ shadow[q].home = tx_conn => sh[q].home = NoConn
        /\ shadow[q].home # tx_conn => sh[q] = shadow[q]
        /\ shadow[q].home \in {NoConn, stmt_conn, tx_conn}
        /\ (stmt_conn # NoConn => stmt_conn # tx_conn)
        /\ (shadow[q] = NoStmt => shadow[q].home = NoConn)
    BY <1>3, <1>5, EntryType
  <2>3. CASE shadow[q].home = NoConn
    <3>1. sh[q].home = NoConn
      BY <2>2, <2>3
    <3> QED
      BY <2>1, <2>2, <2>3, <3>1 DEF Sight
  <2>4. CASE shadow[q].home # NoConn /\ shadow[q].home = tx_conn
    BY <2>1, <2>2, <2>4 DEF Sight
  <2>5. CASE shadow[q].home # NoConn /\ shadow[q].home # tx_conn
    BY <2>1, <2>2, <2>5 DEF Sight
  <2> QED
    BY <2>3, <2>4, <2>5
<1>14. in_tx' \in BOOLEAN
  BY <1>1
<1> QED
  BY <1>1, <1>12, <1>13, <1>14, SwitchStep

(* A map without entries. *)
LEMMA EmptySettles ==
  ASSUME NEW cn \in [Conns -> Connection]
  PROVE  /\ Settled([p \in Ids |-> NoStmt], cn, NoConn, NoConn)
         /\ Numbered([p \in Ids |-> NoStmt], 1)
         /\ \A st : \A q \in Ids : Sight([p \in Ids |-> NoStmt][q], st) = Contract!Closed
<1>1. PICK sh : sh = [p \in Ids |-> NoStmt]
  OBVIOUS
<1>2. sh \in [Ids -> Entries] /\ \A q \in Ids : sh[q] = NoStmt
  BY <1>1 DEF Entries
<1>3. NoStmt.home = NoConn /\ NoStmt.text = "none"
  BY DEF NoStmt
<1>4. \A q \in Ids : sh[q].home = NoConn /\ Fit(sh[q], cn)
  BY <1>2, <1>3 DEF Fit
<1>5. Settled(sh, cn, NoConn, NoConn)
  BY <1>2, <1>4 DEF Settled
<1>6. Numbered(sh, 1)
  BY <1>2 DEF Numbered
<1>7. \A st : Sight(NoStmt, st) = Contract!Closed
  BY <1>3 DEF Sight, Contract!Closed
<1> QED
  BY <1>1, <1>2, <1>5, <1>6, <1>7

(* COM_RESET_CONNECTION. *)
LEMMA ResetImplements ==
  ASSUME ShadowInv, ResetConnection
  PROVE  ShadowInv' /\ Contract!Next
<1>1. /\ shadow' = [p \in Ids |-> NoStmt] /\ next_id' = 1 /\ in_tx' = FALSE /\ stmt_conn' = NoConn
      /\ tx_conn' = NoConn /\ conn' = Put(Put(conn, stmt_conn), tx_conn) /\ Quiet /\ refused' = refused
  BY DEF ResetConnection
<1>2. /\ conn \in [Conns -> Connection] /\ stmt_conn \in Conns \cup {NoConn}
      /\ tx_conn \in Conns \cup {NoConn}
  BY DEF ShadowInv, Settled
<1>3. PICK cn : cn = conn'
  OBVIOUS
<1>4. cn \in [Conns -> Connection]
  <2>1. PICK one : one = Put(conn, stmt_conn)
    OBVIOUS
  <2>2. one \in [Conns -> Connection]
    BY <1>2, <2>1, PutIs
  <2> QED
    BY <1>1, <1>2, <1>3, <2>1, <2>2, PutIs
<1>5. PICK sh : sh = [p \in Ids |-> NoStmt]
  OBVIOUS
<1>6. /\ Settled(sh, cn, NoConn, NoConn) /\ Numbered(sh, 1)
      /\ \A st : \A q \in Ids : Sight(sh[q], st) = Contract!Closed
  BY <1>4, <1>5, EmptySettles
<1>7. Settled(shadow, conn, stmt_conn, tx_conn)'
  BY <1>1, <1>3, <1>5, <1>6 DEF Settled, Fit
<1>8. ShadowInv'
  BY <1>1, <1>5, <1>6, <1>7 DEF ShadowInv, Numbered
<1>9. \A q \in Ids : View'[q] = Contract!Closed
  BY <1>1, <1>5, <1>6, <1>7, ViewIsPrimed
<1>10. View' = [q \in Ids |-> Contract!Closed]
  BY <1>9, ViewIsFunction
<1>11. Contract!Quiet /\ Mode' = "session"
  BY <1>1 DEF Quiet, Reply, Mode, Contract!Quiet, Contract!Outcome
<1>12. Contract!Reset
  BY <1>10, <1>11 DEF Contract!Reset
<1> QED
  BY <1>1, <1>8, <1>12 DEF Contract!Next

(* A connection dies. *)
LEMMA DiesImplements ==
  ASSUME ShadowInv, NEW c \in Conns, ConnectionDies(c)
  PROVE  ShadowInv' /\ Contract!Next
<1>1. /\ conn' = Lose(conn, c) /\ Quiet /\ shadow' = shadow /\ next_id' = next_id /\ in_tx' = in_tx
      /\ stmt_conn' = stmt_conn /\ tx_conn' = tx_conn /\ refused' = refused
  BY DEF ConnectionDies
<1>2. Settled(shadow, conn, stmt_conn, tx_conn)
  BY DEF ShadowInv
<1>3. conn \in [Conns -> Connection] /\ shadow \in [Ids -> Entries]
  BY <1>2 DEF Settled
<1>4. PICK cn : cn = Lose(conn, c)
  OBVIOUS
<1>5. /\ cn \in [Conns -> Connection] /\ ~cn[c].alive
      /\ \A x \in Conns : cn[x].at = conn[x].at /\ (x # c => cn[x] = conn[x])
  BY <1>3, <1>4, LoseIs
<1>6. \A q \in Ids : Fit(shadow[q], cn)
  <2> SUFFICES ASSUME NEW q \in Ids PROVE Fit(shadow[q], cn)
    OBVIOUS
  <2>1. Fit(shadow[q], conn) /\ shadow[q].home \in Conns \cup {NoConn}
    BY <1>2, <1>3, EntryType DEF Settled
  <2> QED
    BY <1>5, <2>1 DEF Fit
<1>7. Settled(shadow, cn, stmt_conn, tx_conn)
  BY <1>2, <1>5, <1>6 DEF Settled
<1>8. Settled(shadow, conn, stmt_conn, tx_conn)'
  BY <1>1, <1>4, <1>7 DEF Settled, Fit
<1>9. ShadowInv'
  BY <1>1, <1>8 DEF ShadowInv, Numbered
<1>10. \A q \in Ids : View'[q] = View[q]
  BY <1>1, <1>2, <1>8, ViewIs, ViewIsPrimed
<1>11. Mode' = Mode
  BY <1>1 DEF Mode
<1> QED
  BY <1>1, <1>9, <1>10, <1>11, QuietStep

(* Nothing of the session changes. *)
LEMMA NothingChanges ==
  ASSUME ShadowInv, UNCHANGED <<shadow, next_id, in_tx, stmt_conn, tx_conn, conn>>
  PROVE  ShadowInv' /\ View' = View /\ Mode' = Mode /\ Broken' = Broken
<1>1. ShadowInv'
  BY DEF ShadowInv, Settled, Fit, Numbered
<1>2. \A q \in Ids : View'[q] = View[q]
  BY <1>1, ViewIs, ViewIsPrimed DEF ShadowInv
<1> QED
  BY <1>1, <1>2, ViewIsFunction DEF Mode, Broken

(* A table is dropped. *)
LEMMA DropImplements ==
  ASSUME ShadowInv, NEW t \in Texts, DropTable(t)
  PROVE  ShadowInv' /\ Contract!Next
<1>1. /\ UNCHANGED <<shadow, next_id, in_tx, stmt_conn, tx_conn, conn>>
      /\ Quiet /\ refused \subseteq refused'
  BY DEF DropTable
<1>2. ShadowInv' /\ View' = View /\ Mode' = Mode
  BY <1>1, NothingChanges
<1> QED
  BY <1>1, <1>2, QuietStep

-----------------------------------------------------------------------------
(* Every step is one of the contract. *)
LEMMA StepImplements ==
  ASSUME ShadowInv, ShadowNext
  PROVE  ShadowInv' /\ Contract!Next
<1>1. ASSUME NEW t \in Texts, PrepareWorks(t) \/ PrepareLost(t) \/ DropTable(t)
      PROVE  ShadowInv' /\ Contract!Next
  BY <1>1, PrepareImplements, PrepareLostImplements, DropImplements
<1>2. ASSUME NoBackend("prepare", 0)
      PROVE  ShadowInv' /\ Contract!Next
  BY <1>2, NoBackendImplements
<1>3. ASSUME NEW p \in Ids, NEW op \in {"execute", "fetch"},
             UseWorks(p, op) \/ UseFails(p, op) \/ NoBackend(op, p)
      PROVE  ShadowInv' /\ Contract!Next
  BY <1>3, UseImplements, NoBackendImplements
<1>4. ASSUME NEW p \in Ids, SendData(p) \/ Close(p) \/ ExecuteRepairs(p)
      PROVE  ShadowInv' /\ Contract!Next
  BY <1>4, DataImplements, CloseImplements, RepairsImplements
<1>5. ASSUME NEW p \in Ids, NEW op \in {"data", "close"}, NoBackend(op, p)
      PROVE  ShadowInv' /\ Contract!Next
  BY <1>5, NoBackendImplements
<1>6. ASSUME Begin \/ End \/ ResetConnection
      PROVE  ShadowInv' /\ Contract!Next
  BY <1>6, BeginImplements, EndImplements, ResetImplements
<1>7. ASSUME NEW c \in Conns, ConnectionDies(c)
      PROVE  ShadowInv' /\ Contract!Next
  BY <1>7, DiesImplements
<1> QED
  BY <1>1, <1>2, <1>3, <1>4, <1>5, <1>6, <1>7 DEF ShadowNext

(* The start. *)
LEMMA StartImplements ==
  ASSUME ShadowInit
  PROVE  ShadowInv /\ Contract!Init
<1>1. /\ shadow = [p \in Ids |-> NoStmt] /\ next_id = 1 /\ in_tx = FALSE /\ stmt_conn = NoConn
      /\ tx_conn = NoConn /\ conn = [c \in Conns |-> NewConn] /\ refused = {} /\ out = Nothing
  BY DEF ShadowInit
<1>2. conn \in [Conns -> Connection]
  BY <1>1, NewConnType
<1>3. PICK sh : sh = [p \in Ids |-> NoStmt]
  OBVIOUS
<1>4. /\ Settled(sh, conn, NoConn, NoConn) /\ Numbered(sh, 1)
      /\ \A st : \A q \in Ids : Sight(sh[q], st) = Contract!Closed
  BY <1>2, <1>3, EmptySettles
<1>5. Settled(shadow, conn, stmt_conn, tx_conn) /\ Numbered(shadow, next_id)
  BY <1>1, <1>3, <1>4
<1>6. ShadowInv
  BY <1>1, <1>5 DEF ShadowInv
<1>7. \A q \in Ids : View[q] = Contract!Closed
  BY <1>1, <1>3, <1>4, <1>5, ViewIs
<1>8. View = [q \in Ids |-> Contract!Closed]
  BY <1>7, ViewIsFunction
<1>9. Mode = "session" /\ Broken = FALSE /\ Contract!Nothing = Nothing
  BY <1>1 DEF Mode, Broken, Nothing, Contract!Nothing
<1> QED
  BY <1>1, <1>6, <1>8, <1>9 DEF Contract!Init

(* ImplementsContract: the map of prepared statements over changing backend connections
   (route_stmt_mysql_shadow and MysqlStmtShadow) does what the contract promises, for any
   number of ids, texts and connections and whatever dies in between. *)
THEOREM ShadowImplementsContract == ShadowSpec => ImplementsContract
<1>1. ShadowInit => ShadowInv /\ Contract!Init
  BY StartImplements
<1>2. ShadowInv /\ [ShadowNext]_shadowVars => ShadowInv' /\ [Contract!Next]_(Contract!cvars)
  <2>1. ASSUME ShadowInv, ShadowNext
        PROVE  ShadowInv' /\ [Contract!Next]_(Contract!cvars)
    BY <2>1, StepImplements
  <2>2. ASSUME ShadowInv, UNCHANGED shadowVars
        PROVE  ShadowInv' /\ [Contract!Next]_(Contract!cvars)
    <3>1. UNCHANGED <<shadow, next_id, in_tx, stmt_conn, tx_conn, conn>> /\ UNCHANGED <<refused, out>>
      BY <2>2 DEF shadowVars
    <3>2. ShadowInv' /\ View' = View /\ Mode' = Mode /\ Broken' = Broken
      BY <2>2, <3>1, NothingChanges
    <3> QED
      BY <3>1, <3>2 DEF Contract!cvars
  <2> QED
    BY <2>1, <2>2
<1> QED
  BY <1>1, <1>2, PTL DEF ShadowSpec, ImplementsContract, Contract!Spec
=============================================================================
