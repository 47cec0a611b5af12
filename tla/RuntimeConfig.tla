---------------------------- MODULE RuntimeConfig ----------------------------
(* The runtime configuration: the tables of config/store.rs, the handlers of
   dashboard/routes_config.rs and the reload handlers of dashboard/routes.rs that
   change them or put them in force, SIGHUP and start-up (main.rs), together with the
   rule engine the requests use meanwhile.

   A handler is a sequence of steps: each one is what the code does under one lock (the
   store's mutex, the write lock of an engine, of proxy_config or of the router's
   pool), a reading of the clock or a store of the time that was read, and other
   handlers and requests run between them.  Only the columns that decide what is in
   force are kept of a row. *)
EXTENDS RuleEngine, SequencesExt

CONSTANTS
  Handlers,       \* dashboard requests and signal handlers that can run at a time
  RuleRows,       \* rows the dashboard sends for query rules: [name, ok, on]
  RewriteRows,    \* ... for rewrite rules: [name, ok, block, on]
  BackendRows,    \* ... for backends: [addr, role, on]
  UserRows,       \* ... for users: [name, on]
  Files,          \* contents the configuration file may have
  Budgets         \* bounds: the configuration operations, requests and ticks of a behaviour

VARIABLES
  file,           \* the configuration file
  store,          \* the tables of the store
  job,            \* the handlers under way
  cfg,            \* proxy_config: the backends of each protocol
  serving,        \* the pool of each protocol's router
  watched,        \* the pool that the health checkers and the dashboard hold
  mutation_ts, export_ts,
  why,            \* observation: what put the rules and the rewrite rules in force
  newest,         \* observation: the latest stamp mutation_ts ever had
  unsaved,        \* observation: confirmed changes that the last export lacks
  admin, ticks    \* bounds: configuration operations and ticks that may still come

configVars == <<file, store, job, cfg, serving, watched, mutation_ts, export_ts, why, newest,
                unsaved, admin, ticks>>
vars == <<clock, engineVars, configVars>>

RuleRow == [name : STRING, ok : BOOLEAN, on : BOOLEAN]
RewriteRow == [name : STRING, ok : BOOLEAN, block : BOOLEAN, on : BOOLEAN]
BackendRow == [addr : STRING, role : {"primary", "replica"}, on : BOOLEAN]
UserRow == [name : STRING, on : BOOLEAN]
File == [parses : BOOLEAN, primary : STRING, shared : STRING, rules : SUBSET Rule,
         rewrites : SUBSET Rewrite, users : SUBSET STRING, dup : BOOLEAN]

ASSUME RowsAssumption ==
  /\ RuleRows \subseteq RuleRow /\ RewriteRows \subseteq RewriteRow
  /\ BackendRows \subseteq BackendRow /\ UserRows \subseteq UserRow /\ Files \subseteq File

Protocols == {"mysql", "pgsql"}
Tables == {"rules", "rewrites", "backends", "users"}
Steps == {"readRules", "swapRules", "readRewrites", "swapRewrites", "fileRules", "fileRewrites",
          "readMysql", "readPgsql", "writeMysql", "writePgsql", "writeAll", "swapMysql", "swapPgsql",
          "stamp", "bump", "reply", "mark", "rules", "rewrites", "backends", "users"}

(* The changes an export may lack: those of the tables it lists, of the PostgreSQL
   backends, which it does not list (list_backends), and of an import. *)
Changes == Tables \cup {"pgsql", "import"}

(* A handler: the steps it has still to do, what it has read for the next one, whether it
   read the file, the changes it made.  raced: what it read has been overtaken by
   another handler. *)
Job(todo, snap, dirty) == [todo |-> todo, snap |-> snap, file |-> FALSE, raced |-> FALSE, dirty |-> dirty]
Idle == Job(<<>>, {}, {})

TypeOK ==
  /\ clock \in Nat /\ mutation_ts \in 0..clock /\ export_ts \in 0..clock /\ newest \in 0..clock
  /\ file \in Files
  /\ \A g \in 1..Len(sets) : DOMAIN sets[g] \subseteq Rule
  /\ rewriter \subseteq Rewrite
  /\ \A c \in Callers : CallerOK(caller[c])
  /\ store.rules \subseteq RuleRow
  /\ store.rewrites \subseteq [name : STRING, ok : {TRUE}, block : BOOLEAN, on : BOOLEAN]
  /\ \A p \in Protocols : store.backends[p] \in Seq(BackendRow)
  /\ store.users \subseteq UserRow
  /\ \A h \in Handlers : job[h].todo \in Seq(Steps) /\ job[h].dirty \subseteq Changes

-----------------------------------------------------------------------------
(* The configuration file, and what becomes of a table's rows when they are put in
   force. *)

(* from_file: [primary], or else [shared.primary] or [pgsql.primary], which `shared'
   stands for, must be there. *)
FromFile(f) ==
  IF f.parses /\ (f.primary # "none" \/ f.shared # "none")
  THEN {[f EXCEPT !.primary = IF f.primary # "none" THEN f.primary ELSE f.shared]} ELSE {}

(* toml::from_str into a ProxyConfig, which requires a [primary]. *)
FromToml(f) == IF f.parses /\ f.primary # "none" THEN {f} ELSE {}

Loads(f) == \E g \in FromFile(f) : Compiles(g.rules) /\ Compiles(g.rewrites)

PoolOf(f) == [primary |-> f.primary, replicas |-> {}]

(* active_query_rules: the store has no column for the limit and the flags of a rule. *)
Stored(r) == [name |-> r.name, ok |-> r.ok, qps |-> 0, ff |-> FALSE, dry |-> FALSE]
ActiveRules(rows) == {Stored(r) : r \in {s \in rows : s.on}}
ActiveRewrites(rows) ==
  {[name |-> r.name, ok |-> r.ok, block |-> r.block] : r \in {s \in rows : s.on}}

(* active_backends_for_protocol: the last primary wins; none without a primary. *)
ActiveBackends(rows) ==
  LET prim == SelectSeq(rows, LAMBDA r : r.on /\ r.role = "primary")
      repl == SelectSeq(rows, LAMBDA r : r.on /\ r.role # "primary")
  IN  IF prim = <<>> THEN {}
      ELSE {[primary |-> Last(prim).addr, replicas |-> {repl[i].addr : i \in DOMAIN repl}]}

(* The rows that seeding and import write for a configuration. *)
RuleRowsOf(f) == {[name |-> r.name, ok |-> r.ok, on |-> TRUE] : r \in f.rules}
RewriteRowsOf(f) == {[name |-> r.name, ok |-> r.ok, block |-> r.block, on |-> TRUE] : r \in f.rewrites}
BackendRowsOf(f) == <<[addr |-> f.primary, role |-> "primary", on |-> TRUE]>>
UserRowsOf(f) == {[name |-> u, on |-> TRUE] : u \in f.users}

(* seed_if_empty, table by table. *)
Seeded(s, f) ==
  [rules |-> IF s.rules = {} THEN RuleRowsOf(f) ELSE s.rules,
   rewrites |-> IF s.rewrites = {} THEN RewriteRowsOf(f) ELSE s.rewrites,
   backends |-> [s.backends EXCEPT !.mysql = IF @ = <<>> THEN BackendRowsOf(f) ELSE @],
   users |-> IF s.users = {} THEN UserRowsOf(f) ELSE s.users]

NoRows == [rules |-> {}, rewrites |-> {}, backends |-> [p \in Protocols |-> <<>>], users |-> {}]

(* The engines, the configuration and the pools of a process that starts on file f. *)
Started(f) ==
  \E g \in FromFile(f) :
    /\ Loads(f)
    /\ sets' = <<Compiled(g.rules)>>
    /\ rewriter' = g.rewrites
    /\ caller' = [c \in Callers |-> Nobody]
    /\ job' = [h \in Handlers |-> Idle]
    /\ cfg' = [p \in Protocols |-> PoolOf(g)]
    /\ serving' = [p \in Protocols |-> PoolOf(g)]
    /\ watched' = [p \in Protocols |-> PoolOf(g)]
    /\ store' = Seeded(store, g)
    /\ why' = [t \in {"rules", "rewrites"} |-> "file"]
    /\ mutation_ts' = 0 /\ export_ts' = 0 /\ newest' = 0 /\ unsaved' = {}

Init ==
  /\ clock = 2 * Second
  /\ file \in {f \in Files : Loads(f)}
  /\ \E g \in FromFile(file) :
       /\ sets = <<Compiled(g.rules)>>
       /\ rewriter = g.rewrites
       /\ cfg = [p \in Protocols |-> PoolOf(g)]
       /\ store = Seeded(NoRows, g)
  /\ caller = [c \in Callers |-> Nobody]
  /\ job = [h \in Handlers |-> Idle]
  /\ serving = cfg /\ watched = cfg
  /\ why = [t \in {"rules", "rewrites"} |-> "store"]
  /\ mutation_ts = 0 /\ export_ts = 0 /\ newest = 0 /\ unsaved = {}
  /\ \E b \in Budgets : admin = b.admin /\ queries = b.queries /\ ticks = b.ticks

-----------------------------------------------------------------------------
(* Handlers arrive. *)

Begin(h, todo, snap, dirty) ==
  /\ job[h] = Idle
  /\ admin > 0
  /\ admin' = admin - 1
  /\ job' = [job EXCEPT ![h] = Job(todo, snap, dirty)]
  /\ UNCHANGED <<clock, ticks, engineVars, file, cfg, serving, watched, mutation_ts, newest, unsaved>>

(* What a change of the backends does after it is stored. *)
ApplyBackends(p) ==
  IF p = "mysql" THEN <<"readMysql", "writeMysql", "swapMysql", "stamp", "bump">>
  ELSE <<"readPgsql", "writePgsql", "swapPgsql", "stamp", "bump">>

WriteRules(h, rows) ==
  /\ Begin(h, <<"readRules", "swapRules", "stamp", "bump">>, {}, {"rules"})
  /\ store' = [store EXCEPT !.rules = rows]
  /\ UNCHANGED <<export_ts, why>>

Replaced(rows, old, new) == IF old \in rows THEN (rows \ {old}) \cup {new} ELSE rows

(* The regex of a rule is not looked at before the row is stored. *)
CreateRule(h, row) == WriteRules(h, store.rules \cup {row})
UpdateRule(h, old, row) == old.name = row.name /\ WriteRules(h, Replaced(store.rules, old, row))
DeleteRule(h, row) == WriteRules(h, store.rules \ {row})

WriteRewrites(h, rows) ==
  /\ Begin(h, <<"readRewrites", "swapRewrites", "stamp", "bump">>, {}, {"rewrites"})
  /\ store' = [store EXCEPT !.rewrites = rows]
  /\ UNCHANGED <<export_ts, why>>

CreateRewrite_Unvalidated(h, row) == WriteRewrites(h, store.rewrites \cup {row})

(* The regex of a rewrite rule is compiled before the row is stored. *)
CreateRewrite(h, row) == row.ok /\ WriteRewrites(h, store.rewrites \cup {row})
UpdateRewrite(h, old, row) ==
  row.ok /\ old.name = row.name /\ WriteRewrites(h, Replaced(store.rewrites, old, row))
DeleteRewrite(h, row) == WriteRewrites(h, store.rewrites \ {row})

WriteBackends(h, p, rows) ==
  /\ Begin(h, ApplyBackends(p), {}, {IF p = "mysql" THEN "backends" ELSE "pgsql"})
  /\ store' = [store EXCEPT !.backends[p] = rows]
  /\ UNCHANGED <<export_ts, why>>

CreateBackend(h, p, row) ==
  Len(store.backends[p]) < 2 /\ row.on /\ WriteBackends(h, p, Append(store.backends[p], row))
UpdateBackend(h, p, i, row) ==
  i \in DOMAIN store.backends[p] /\ WriteBackends(h, p, [store.backends[p] EXCEPT ![i] = row])
DeleteBackend(h, p, i) ==
  i \in DOMAIN store.backends[p] /\ WriteBackends(h, p, RemoveAt(store.backends[p], i))

(* Users are stored and never put in force; a taken name is refused. *)
WriteUsers(h, rows) ==
  /\ Begin(h, <<"stamp", "bump">>, {}, {"users"})
  /\ store' = [store EXCEPT !.users = rows]
  /\ UNCHANGED <<export_ts, why>>

CreateUser(h, row) ==
  (\A u \in store.users : u.name # row.name) /\ WriteUsers(h, store.users \cup {row})
UpdateUser(h, old, row) ==
  /\ \A u \in store.users \ {old} : u.name # row.name
  /\ WriteUsers(h, Replaced(store.users, old, row))
DeleteUser(h, row) == WriteUsers(h, store.users \ {row})

(* The handlers that have read table t and not yet put it in force are overtaken. *)
Overtaken(jobs, t) ==
  LET step == IF t = "rules" THEN "swapRules" ELSE "swapRewrites"
  IN  [h \in Handlers |->
         IF jobs[h].todo # <<>> /\ Head(jobs[h].todo) = step
         THEN [jobs[h] EXCEPT !.raced = TRUE] ELSE jobs[h]]

Import_RulesOnly(h, f) ==
  /\ \E g \in FromToml(f) :
       /\ Compiles(g.rewrites)
       /\ store' = [rules |-> RuleRowsOf(g), rewrites |-> RewriteRowsOf(g),
                    backends |-> [store.backends EXCEPT !.mysql = BackendRowsOf(g)],
                    users |-> UserRowsOf(g)]
  /\ job[h] = Idle /\ admin > 0 /\ admin' = admin - 1
  /\ IF f.dup
     THEN /\ job' = Overtaken(Overtaken(job, "rules"), "rewrites")
          /\ why' = [t \in {"rules", "rewrites"} |-> "failed"]
     ELSE /\ job' = [job EXCEPT ![h] = Job(<<"readRules", "swapRules", "reply">>, {}, {"import"})]
          /\ UNCHANGED why
  /\ UNCHANGED <<clock, ticks, engineVars, file, cfg, serving, watched, mutation_ts, export_ts, newest, unsaved>>

(* import_config: replace_all deletes and inserts without a transaction; a user name
   that occurs twice stops it after the other tables, and nothing is put in force.
   The rewrite rules are validated first, the query rules are not; backends and users
   are only stored, and mutation_ts is not bumped. *)
Import(h, f) ==
  /\ \E g \in FromToml(f) :
       /\ Compiles(g.rewrites)
       /\ store' = [rules |-> RuleRowsOf(g), rewrites |-> RewriteRowsOf(g),
                    backends |-> [store.backends EXCEPT !.mysql = BackendRowsOf(g)],
                    users |-> UserRowsOf(g)]
  /\ job[h] = Idle /\ admin > 0 /\ admin' = admin - 1
  /\ IF f.dup
     THEN /\ job' = Overtaken(Overtaken(job, "rules"), "rewrites")
          /\ why' = [t \in {"rules", "rewrites"} |-> "failed"]
     ELSE /\ job' = [job EXCEPT ![h] =
                       Job(<<"readRules", "swapRules", "readRewrites", "swapRewrites", "reply">>,
                           {}, {"import"})]
          /\ UNCHANGED why
  /\ UNCHANGED <<clock, ticks, engineVars, file, cfg, serving, watched, mutation_ts, export_ts, newest, unsaved>>

(* export_config reads the clock, stamps the export with what it read, then reads the
   tables one by one. *)
ExportStart(h) ==
  /\ Begin(h, <<"mark", "rules", "rewrites", "backends", "users">>, {clock}, {})
  /\ UNCHANGED <<store, why, export_ts>>

(* reload_rules; reload_config and SIGHUP, whose second half runs in any case. *)
ReloadRules(h) == Begin(h, <<"fileRules", "swapRules">>, {}, {}) /\ UNCHANGED <<store, why, export_ts>>
ReloadConfig(h) ==
  /\ Begin(h, <<"fileRules", "swapRules", "fileRewrites", "swapRewrites">>, {}, {})
  /\ UNCHANGED <<store, why, export_ts>>

(* reload_backends reads the file, cluster_sync gets the text of a peer's file: the
   whole proxy_config is replaced, and the MySQL pool after it. *)
ReloadBackends(h) ==
  /\ \E g \in FromToml(file) : Begin(h, <<"writeAll", "swapMysql">>, {PoolOf(g)}, {})
  /\ UNCHANGED <<store, why, export_ts>>
ClusterSync(h, f) ==
  /\ \E g \in FromToml(f) : Begin(h, <<"writeAll", "swapMysql">>, {PoolOf(g)}, {})
  /\ UNCHANGED <<store, why, export_ts>>

-----------------------------------------------------------------------------
(* A step of a handler. *)

At(h, step) == job[h].todo # <<>> /\ Head(job[h].todo) = step

(* The next k steps of h are done, with the snapshot snap for the step that follows. *)
Advance(jobs, h, k, snap) ==
  LET todo == jobs[h].todo
  IN  [jobs EXCEPT ![h] =
         IF Len(todo) = k THEN Idle
         ELSE [todo |-> SubSeq(todo, k + 1, Len(todo)), snap |-> snap, file |-> jobs[h].file,
               raced |-> FALSE, dirty |-> jobs[h].dirty]]

KeepRest == UNCHANGED <<clock, ticks, file, store, watched, admin, caller, queries>>

(* apply_rules: the rows of the store are read and compiled; one regex that does not
   compile fails the handler, with whatever it had still to apply. *)
ReadRules(h) ==
  LET rules == ActiveRules(store.rules)
      failed == {t \in {"rules", "rewrites"} :
                   (IF t = "rules" THEN "readRules" ELSE "readRewrites") \in Range(job[h].todo)}
  IN  /\ At(h, "readRules")
      /\ IF Compiles(rules)
         THEN job' = Advance(job, h, 1, rules) /\ UNCHANGED why
         ELSE /\ job' = LET j == Overtaken([job EXCEPT ![h] = Idle], "rules")
                       IN  IF "rewrites" \in failed THEN Overtaken(j, "rewrites") ELSE j
              /\ why' = [t \in DOMAIN why |-> IF t \in failed THEN "failed" ELSE why[t]]
      /\ KeepRest /\ UNCHANGED <<sets, rewriter, cfg, serving, mutation_ts, export_ts, newest, unsaved>>

ReadRewrites(h) ==
  /\ At(h, "readRewrites")
  /\ job' = Advance(job, h, 1, ActiveRewrites(store.rewrites))
  /\ KeepRest /\ UNCHANGED <<sets, rewriter, cfg, serving, mutation_ts, export_ts, why, newest, unsaved>>

(* reload_from_file of the rules and of the rewriter: the running set is kept when the
   file cannot be used. *)
ReadFile(h, step, rules) ==
  /\ At(h, step)
  /\ job' = IF \E g \in FromFile(file) : Compiles(rules)
            THEN [Advance(job, h, 1, rules) EXCEPT ![h].file = TRUE]
            ELSE Advance(job, h, 2, {})
  /\ KeepRest /\ UNCHANGED <<sets, rewriter, cfg, serving, mutation_ts, export_ts, why, newest, unsaved>>

ReadFileRules(h) == ReadFile(h, "fileRules", file.rules)
ReadFileRewrites(h) == ReadFile(h, "fileRewrites", file.rewrites)

(* What put table t in force when h swaps in what it has read. *)
Cause(h) == IF job[h].file THEN "file" ELSE IF job[h].raced THEN "race" ELSE "store"
Swapped(h, t) ==
  /\ why' = [why EXCEPT ![t] = Cause(h)]
  /\ job' = LET j == Advance(job, h, 1, {}) IN IF job[h].file THEN j ELSE Overtaken(j, t)

SwapRules(h) ==
  /\ At(h, "swapRules")
  /\ Swap(job[h].snap)
  /\ Swapped(h, "rules")
  /\ KeepRest /\ UNCHANGED <<rewriter, cfg, serving, mutation_ts, export_ts, newest, unsaved>>

SwapRewrites(h) ==
  /\ At(h, "swapRewrites")
  /\ rewriter' = job[h].snap
  /\ Swapped(h, "rewrites")
  /\ KeepRest /\ UNCHANGED <<sets, cfg, serving, mutation_ts, export_ts, newest, unsaved>>

(* apply_mysql_backends and apply_pg_backends: no enabled primary fails the handler. *)
ReadBackends(h, p) ==
  /\ At(h, IF p = "mysql" THEN "readMysql" ELSE "readPgsql")
  /\ job' = LET pool == ActiveBackends(store.backends[p])
            IN  IF pool = {} THEN [job EXCEPT ![h] = Idle] ELSE Advance(job, h, 1, pool)
  /\ KeepRest /\ UNCHANGED <<sets, rewriter, cfg, serving, mutation_ts, export_ts, why, newest, unsaved>>

WriteConfig(h) ==
  /\ job[h].todo # <<>> /\ Head(job[h].todo) \in {"writeMysql", "writePgsql", "writeAll"}
  /\ \E pool \in job[h].snap :
       cfg' = CASE At(h, "writeMysql") -> [cfg EXCEPT !.mysql = pool]
                [] At(h, "writePgsql") -> [cfg EXCEPT !.pgsql = pool]
                [] At(h, "writeAll") -> [p \in Protocols |-> pool]
  /\ job' = Advance(job, h, 1, job[h].snap)
  /\ KeepRest /\ UNCHANGED <<sets, rewriter, serving, mutation_ts, export_ts, why, newest, unsaved>>

SwapPool(h, p) ==
  /\ At(h, IF p = "mysql" THEN "swapMysql" ELSE "swapPgsql")
  /\ \E pool \in job[h].snap : serving' = [serving EXCEPT ![p] = pool]
  /\ job' = Advance(job, h, 1, {})
  /\ KeepRest /\ UNCHANGED <<sets, rewriter, cfg, mutation_ts, export_ts, why, newest, unsaved>>

(* bump_mutation, the last thing a successful change does: the clock is read, then what
   was read is stored, over a newer stamp too. *)
Stamp(h) ==
  /\ At(h, "stamp")
  /\ job' = Advance(job, h, 1, {clock})
  /\ KeepRest /\ UNCHANGED <<sets, rewriter, cfg, serving, mutation_ts, export_ts, why, newest, unsaved>>

Bump(h) ==
  /\ At(h, "bump")
  /\ \E ts \in job[h].snap :
       /\ mutation_ts' = ts
       /\ newest' = IF ts > newest THEN ts ELSE newest
  /\ unsaved' = unsaved \cup job[h].dirty
  /\ job' = Advance(job, h, 1, {})
  /\ KeepRest /\ UNCHANGED <<sets, rewriter, cfg, serving, export_ts, why>>

(* The answer of import_config, which confirms the import and does not bump. *)
Reply(h) ==
  /\ At(h, "reply")
  /\ unsaved' = unsaved \cup ({"import"} \cap job[h].dirty)
  /\ job' = Advance(job, h, 1, {})
  /\ KeepRest /\ UNCHANGED <<sets, rewriter, cfg, serving, mutation_ts, export_ts, why, newest>>

(* The stamp of an export. *)
Mark(h) ==
  /\ At(h, "mark")
  /\ \E ts \in job[h].snap : export_ts' = ts
  /\ job' = Advance(job, h, 1, {})
  /\ KeepRest /\ UNCHANGED <<sets, rewriter, cfg, serving, mutation_ts, why, newest, unsaved>>

(* What an export that reads table t will contain: an import is in all its tables when it
   is in the first. *)
Exported(t) == IF t = "rules" THEN {"rules", "import"} ELSE {t}

ExportTable_Stamped(h) ==
  /\ job[h].todo # <<>> /\ Head(job[h].todo) \in Tables
  /\ LET t == Head(job[h].todo)
         j == Advance(job, h, 1, {})
     IN  /\ unsaved' = unsaved \ Exported(t)
         /\ job' = [k \in Handlers |-> [j[k] EXCEPT !.dirty = @ \ Exported(t)]]
  /\ export_ts' = clock
  /\ KeepRest /\ UNCHANGED <<sets, rewriter, cfg, serving, mutation_ts, why, newest>>

(* The export copies a table, changes not yet confirmed included. *)
ExportTable(h) ==
  /\ job[h].todo # <<>> /\ Head(job[h].todo) \in Tables
  /\ LET t == Head(job[h].todo)
         j == Advance(job, h, 1, {})
     IN  /\ unsaved' = unsaved \ Exported(t)
         /\ job' = [k \in Handlers |-> [j[k] EXCEPT !.dirty = @ \ Exported(t)]]
  /\ KeepRest /\ UNCHANGED <<sets, rewriter, cfg, serving, mutation_ts, export_ts, why, newest>>

-----------------------------------------------------------------------------
(* The environment: the operator edits the file, the process is restarted at any time
   (it comes up only on a file it can load), time passes. *)

EditFile(f) ==
  /\ admin > 0 /\ admin' = admin - 1
  /\ file' = f /\ f # file
  /\ UNCHANGED <<clock, ticks, engineVars, store, job, cfg, serving, watched, mutation_ts, export_ts, why, newest, unsaved>>

Restart ==
  /\ admin > 0 /\ admin' = admin - 1
  /\ Started(file)
  /\ UNCHANGED <<clock, ticks, file, queries>>

Tick ==
  /\ ticks > 0 /\ ticks' = ticks - 1
  /\ clock' = clock + 1
  /\ UNCHANGED <<engineVars, file, store, job, cfg, serving, watched, mutation_ts, export_ts, why,
                 newest, unsaved, admin>>

RuleHandler(h) ==
  \/ \E row \in RuleRows : CreateRule(h, row) \/ DeleteRule(h, row)
  \/ \E old, row \in RuleRows : UpdateRule(h, old, row)
RewriteHandler(h) ==
  \/ \E row \in RewriteRows : CreateRewrite(h, row) \/ DeleteRewrite(h, row)
  \/ \E old, row \in RewriteRows : UpdateRewrite(h, old, row)
BackendHandler(h) ==
  \E p \in Protocols :
    \/ \E row \in BackendRows : CreateBackend(h, p, row) \/ \E i \in 1..2 : UpdateBackend(h, p, i, row)
    \/ \E i \in 1..2 : DeleteBackend(h, p, i)
UserHandler(h) ==
  \/ \E row \in UserRows : CreateUser(h, row) \/ DeleteUser(h, row)
  \/ \E old, row \in UserRows : UpdateUser(h, old, row)

HandlerStep(h) ==
  \/ ReadRules(h) \/ ReadRewrites(h) \/ ReadFileRules(h) \/ ReadFileRewrites(h)
  \/ SwapRules(h) \/ SwapRewrites(h) \/ WriteConfig(h)
  \/ Stamp(h) \/ Bump(h) \/ Reply(h) \/ Mark(h) \/ ExportTable(h)
  \/ \E p \in Protocols : ReadBackends(h, p) \/ SwapPool(h, p)

Next ==
  \/ \E c \in Callers : Request(c) /\ UNCHANGED configVars
  \/ \E h \in Handlers :
       \/ RuleHandler(h) \/ RewriteHandler(h) \/ BackendHandler(h) \/ UserHandler(h)
       \/ \E f \in Files : Import(h, f) \/ ClusterSync(h, f)
       \/ ExportStart(h) \/ ReloadRules(h) \/ ReloadConfig(h) \/ ReloadBackends(h)
       \/ HandlerStep(h)
  \/ \E f \in Files : EditFile(f)
  \/ Restart \/ Tick

Spec == Init /\ [][Next]_vars

-----------------------------------------------------------------------------
(* No handler is going to put table t in force. *)
Settled(t) ==
  \A h \in Handlers : Range(job[h].todo) \cap
    (IF t = "rules" THEN {"readRules", "swapRules"} ELSE {"readRewrites", "swapRewrites"}) = {}

(* Once every handler has returned, the rules and the rewrite rules in force are the
   enabled rows of the store, the rows of whoever wrote last, except after a reload from
   the file or a restart, after a handler that was overtaken between reading the store
   and swapping (apply_rules), and after a handler that failed: the early returns,
   validations and orders of steps of the handlers leave no other way to serve rules
   that the store does not hold. *)
StoreInForce ==
  /\ Settled("rules") /\ why["rules"] = "store" =>
       {Stored(r) : r \in InForce} = ActiveRules(store.rules)
  /\ Settled("rewrites") /\ why["rewrites"] = "store" => rewriter = ActiveRewrites(store.rewrites)

(* No export is under way. *)
NoExport == \A h \in Handlers : Range(job[h].todo) \cap (Tables \cup {"mark"}) = {}

(* While no export is under way, a change of the rules, the rewrite rules, the MySQL
   backends or the users that was confirmed to the operator and that the last export
   lacks is stamped no earlier than that export, whichever way the readings and the
   stores of the two clocks interleave: config_status, which compares the two stamps,
   does not report it as exported, up to the resolution of its clock.  The export stores
   its stamp before it reads a table, and a change is stamped after it is stored.  Three
   cases are left out, in which the code does report a lacking change as exported: an
   import, which never bumps; a change of the PostgreSQL backends, which no export lists;
   and a bump whose older reading of the clock is stored over a newer stamp. *)
UnsavedShown ==
  NoExport /\ unsaved \cap Tables # {} /\ mutation_ts = newest => mutation_ts >= export_ts

(* Stronger than the code: no confirmed change that the last export lacks is reported as
   exported. *)
ChangesShown == NoExport /\ unsaved # {} => mutation_ts >= export_ts

(* Stronger than the code: the health checkers and the failover act on the pool that
   serves. *)
WatchedIsServing == \A p \in Protocols : watched[p] = serving[p]

(* Stronger than the code: the store, not the file, is in force when nothing is under
   way. *)
StoreIsTruth ==
  (\A h \in Handlers : job[h] = Idle) => {r.name : r \in InForce} = {r.name : r \in ActiveRules(store.rules)}
=============================================================================
