------------------------- MODULE RuntimeConfigProofs -------------------------
(***************************************************************************)
(* Proofs about RuntimeConfig, for any number of dashboard requests and       *)
(* signal handlers, of routed requests, and any rows and files.             *)
(***************************************************************************)
EXTENDS RuntimeConfig, FiniteSetTheorems, SequenceTheorems, TLAPS

Kinds == {"rules", "rewrites"}
ReadOf(t) == IF t = "rules" THEN "readRules" ELSE "readRewrites"
FileOf(t) == IF t = "rules" THEN "fileRules" ELSE "fileRewrites"
SwapOf(t) == IF t = "rules" THEN "swapRules" ELSE "swapRewrites"

-----------------------------------------------------------------------------
(***************************************************************************)
(* The rule engine: shapes, and the tokens that a bucket has or is owed.      *)
(***************************************************************************)
Tokens == [tokens : Int, ms : Nat]
RuleSet == UNION {[rules -> Tokens] : rules \in SUBSET Rule}

SetsOK == sets \in Seq(RuleSet) /\ Len(sets) > 0

Caller == [pc : {"idle", "route", "load", "cas", "read", "store", "take", "undo"}, set : Nat,
           rule : SUBSET Rule, now : Nat, last : Nat, cur : Int, second : BOOLEAN]

CallersOK ==
  /\ caller \in [Callers -> Caller]
  /\ \A c \in Callers :
       /\ caller[c].set \in 1..Len(sets)
       /\ caller[c].pc \in {"idle", "route"} => caller[c].rule = {}
       /\ caller[c].pc \notin {"idle", "route"} =>
            \E r \in DOMAIN sets[caller[c].set] : caller[c].rule = {r}

(* The requests that will give a token back. *)
Undoing(g, r) == {c \in Callers : caller[c].pc = "undo" /\ caller[c].set = g /\ caller[c].rule = {r}}

CreditInv ==
  \A g \in 1..Len(sets) : \A r \in DOMAIN sets[g] :
    r.qps > 0 =>
      sets[g][r].tokens + Cardinality(Undoing(g, r)) <= r.qps + Cardinality(Callers) - 1

EngineInv == SetsOK /\ CallersOK /\ CreditInv

-----------------------------------------------------------------------------
(***************************************************************************)
(* The steps a handler has still to do.                                     *)
(***************************************************************************)
Program(q) ==
  /\ q \in Seq(Steps)
  /\ \A i, j \in 1..Len(q) : q[i] \in Tables => q[j] \in Tables \cup {"mark"}
  /\ \A i \in 1..Len(q) :
       /\ q[i] = "mark" => i = 1 /\ \A y \in Tables : \E j \in 1..Len(q) : q[j] = y
       /\ q[i] = "bump" /\ i > 1 => q[i - 1] = "stamp"
  /\ \A t \in Kinds : \A i \in 1..Len(q) :
       /\ q[i] \in {ReadOf(t), FileOf(t)} => i < Len(q) /\ q[i + 1] = SwapOf(t)
       /\ q[i] = SwapOf(t) /\ i > 1 => q[i - 1] \in {ReadOf(t), FileOf(t)}
       /\ q[i] = ReadOf(t) =>
            \A j \in 1..Len(q) : q[j] \notin {"readMysql", "readPgsql", "fileRules", "fileRewrites"}

TodoOf(j) == {j.todo[i] : i \in 1..Len(j.todo)}
Todo(h) == TodoOf(job[h])

Shape(j) ==
  /\ j = [todo |-> j.todo, snap |-> j.snap, file |-> j.file, raced |-> j.raced, dirty |-> j.dirty]
  /\ j.file \in BOOLEAN /\ j.raced \in BOOLEAN /\ j.dirty \in SUBSET Changes
  /\ Program(j.todo)
  /\ j.todo = <<>> => j = Idle
  /\ \A t \in Kinds : \A i \in 1..Len(j.todo) : j.todo[i] = ReadOf(t) => ~j.file
  /\ j.todo # <<>> /\ Head(j.todo) = "swapRules" => j.snap \in SUBSET Rule
  /\ j.todo # <<>> /\ Head(j.todo) = "swapRewrites" => j.snap \in SUBSET Rewrite

Fit(jobs) == jobs = [h \in Handlers |-> jobs[h]] /\ \A h \in Handlers : Shape(jobs[h])
JobsOK == Fit(job)

StoreOK ==
  store \in [rules : SUBSET RuleRow,
             rewrites : SUBSET [name : STRING, ok : {TRUE}, block : BOOLEAN, on : BOOLEAN],
             backends : [Protocols -> Seq(BackendRow)], users : SUBSET UserRow]

RestOK ==
  /\ clock \in Nat /\ mutation_ts \in 0..clock /\ export_ts \in 0..clock /\ newest \in 0..clock
  /\ file \in Files /\ rewriter \in SUBSET Rewrite
  /\ why \in [Kinds -> {"store", "file", "race", "failed"}]
  /\ unsaved \in SUBSET Changes

(* An export that is under way will take table t; a handler has a reading of the clock
   to store. *)
Awaited(t) == \E h \in Handlers : t \in Todo(h)
Stamped(h) == At(h, "bump") \/ At(h, "mark")

(* A confirmed change that no export has is younger than the last export, or an export
   that is under way will take it; so is one that is about to be confirmed, by the clock
   reading that its handler has still to store. *)
UnsavedInv ==
  /\ \A t \in unsaved \cap Tables : newest >= export_ts \/ Awaited(t)
  /\ \A h \in Handlers : Stamped(h) => \A ts \in job[h].snap :
       ts \in 0..clock /\ \A t \in job[h].dirty \cap Tables : ts >= export_ts \/ Awaited(t)

(* When nobody has still to read table t: who will swap in what the store no longer
   holds is overtaken, or is not the last; what is in force is in the store, or will be
   replaced. *)
Active(t) == IF t = "rules" THEN ActiveRules(store.rules) ELSE ActiveRewrites(store.rewrites)
Plain(rules) == {Stored(r) : r \in rules}
Shown(t) == IF t = "rules" THEN Plain(InForce) ELSE rewriter
Pending(t) == \E h \in Handlers : ReadOf(t) \in Todo(h)
Swapping(h, t) == At(h, SwapOf(t)) /\ ~job[h].file

ForceAt(t) ==
  ~Pending(t) =>
    /\ \A h \in Handlers : Swapping(h, t) /\ ~job[h].raced =>
         job[h].snap = Active(t) \/ \E k \in Handlers \ {h} : Swapping(k, t)
    /\ why[t] = "store" => Shown(t) = Active(t) \/ \E k \in Handlers : Swapping(k, t)

ForceInv == \A t \in Kinds : ForceAt(t)

IInv == EngineInv /\ JobsOK /\ StoreOK /\ RestOK /\ UnsavedInv /\ ForceInv

-----------------------------------------------------------------------------
(***************************************************************************)
(* The rule engine.                                                        *)
(***************************************************************************)

(* The smaller of two integers. *)
LEMMA MinOfTwo ==
  ASSUME NEW a \in Int, NEW b \in Int
  PROVE  Min({a, b}) \in Int /\ Min({a, b}) <= a /\ Min({a, b}) <= b
<1>1. \E x \in {a, b} : \A y \in {a, b} : x <= y
  <2>1. CASE a <= b
    BY <2>1
  <2>2. CASE b <= a
    BY <2>2
  <2>3. QED
    BY <2>1, <2>2
<1>2. QED
  BY <1>1 DEF Min

(* A rule set maps each of its rules to a bucket. *)
LEMMA RuleSetIs ==
  ASSUME NEW x
  PROVE  x \in RuleSet <=> DOMAIN x \in SUBSET Rule /\ x \in [DOMAIN x -> Tokens]
  BY DEF RuleSet

(* The rule sets, one by one. *)
LEMMA SetsAre ==
  ASSUME SetsOK
  PROVE  /\ Len(sets) \in Nat \ {0} /\ DOMAIN sets = 1..Len(sets)
         /\ \A g \in 1..Len(sets) :
              /\ sets[g] \in RuleSet /\ DOMAIN sets[g] \in SUBSET Rule
              /\ sets[g] \in [DOMAIN sets[g] -> Tokens]
<1>1. Len(sets) \in Nat \ {0} /\ DOMAIN sets = 1..Len(sets) /\ \A g \in 1..Len(sets) : sets[g] \in RuleSet
  BY DEF SetsOK
<1>2. QED
  BY <1>1, RuleSetIs

(* The request is working on a bucket. *)
LEMMA Working ==
  ASSUME SetsOK, CallersOK, NEW c \in Callers, caller[c].pc \notin {"idle", "route"}
  PROVE  /\ caller[c].set \in 1..Len(sets) /\ RuleOf(c) \in DOMAIN sets[caller[c].set]
         /\ caller[c].rule = {RuleOf(c)} /\ RuleOf(c) \in Rule /\ Bucket(c) \in Tokens
<1>1. PICK r \in DOMAIN sets[caller[c].set] : caller[c].rule = {r}
  BY DEF CallersOK
<1>2. RuleOf(c) = r
  BY <1>1 DEF RuleOf
<1>3. caller[c].set \in 1..Len(sets)
  BY DEF CallersOK
<1>4. r \in Rule /\ sets[caller[c].set][r] \in Tokens
  BY <1>1, <1>3, SetsAre
<1>5. QED
  BY <1>1, <1>2, <1>3, <1>4 DEF Bucket

(* The domains of the rule sets stay. *)
SameRules ==
  Len(sets') = Len(sets) /\ \A g \in 1..Len(sets) : DOMAIN sets'[g] = DOMAIN sets[g]

(* A request goes on. *)
LEMMA CallerIs ==
  ASSUME CallersOK, SameRules, NEW c \in Callers, NEW x \in Caller,
         caller' = [caller EXCEPT ![c] = x], x.set \in 1..Len(sets),
         x.pc \in {"idle", "route"} => x.rule = {},
         x.pc \notin {"idle", "route"} => \E r \in DOMAIN sets[x.set] : x.rule = {r}
  PROVE  /\ CallersOK' /\ caller'[c] = x
         /\ \A d \in Callers : d # c => caller'[d] = caller[d]
<1>1. /\ caller' \in [Callers -> Caller] /\ caller'[c] = x
      /\ \A d \in Callers : d # c => caller'[d] = caller[d]
  BY DEF CallersOK
<1>2. \A d \in Callers :
        /\ caller'[d].set \in 1..Len(sets)
        /\ caller'[d].pc \in {"idle", "route"} => caller'[d].rule = {}
        /\ caller'[d].pc \notin {"idle", "route"} =>
             \E r \in DOMAIN sets[caller'[d].set] : caller'[d].rule = {r}
  BY <1>1 DEF CallersOK
<1>3. CallersOK'
  BY <1>1, <1>2 DEF CallersOK, SameRules
<1>4. QED
  BY <1>1, <1>3

(* A request that is answered leaves the engine or comes back to route_query_inner. *)
LEMMA AnswerIs ==
  ASSUME SetsOK, CallersOK, SameRules, NEW c \in Callers, NEW rule, NEW limited, Answer(c, rule, limited)
  PROVE  /\ CallersOK' /\ caller'[c].pc \in {"idle", "route"}
         /\ \A d \in Callers : d # c => caller'[d] = caller[d]
<1>1. 1 \in 1..Len(sets)
  BY SetsAre
<1> DEFINE y == [Nobody EXCEPT !.pc = "route", !.second = TRUE]
<1>2. /\ Nobody \in Caller /\ Nobody.pc = "idle" /\ Nobody.rule = {} /\ Nobody.set = 1
      /\ y \in Caller /\ y.pc = "route" /\ y.rule = {} /\ y.set = 1
  <2>1. Nobody.pc = "idle" /\ Nobody.rule = {} /\ Nobody.set = 1
    BY DEF Nobody
  <2>2. y.pc = "route" /\ y.rule = {} /\ y.set = 1
    BY DEF Nobody
  <2>3. Nobody \in Caller
    BY DEF Nobody, Caller
  <2>4. y \in Caller
    BY <2>3 DEF Caller
  <2>5. QED
    BY <2>1, <2>2, <2>3, <2>4
<1>3. caller' = [caller EXCEPT ![c] = Nobody] \/ caller' = [caller EXCEPT ![c] = y]
  BY DEF Answer
<1> HIDE DEF y
<1>4. PICK x \in Caller : /\ caller' = [caller EXCEPT ![c] = x]
                          /\ x.pc \in {"idle", "route"} /\ x.rule = {} /\ x.set = 1
  BY <1>2, <1>3
<1>5. QED
  BY <1>1, <1>4, CallerIs

(* Who is counted. *)
LEMMA UndoingCounts ==
  ASSUME NEW g, NEW r
  PROVE  Undoing(g, r) \in SUBSET Callers /\ Cardinality(Undoing(g, r)) \in Nat
         /\ IsFiniteSet(Undoing(g, r)) /\ Cardinality(Callers) \in Nat
<1>1. Undoing(g, r) \in SUBSET Callers
  BY DEF Undoing
<1>2. QED
  BY <1>1, CallersAssumption, FS_Subset, FS_CardinalityType

(* A bucket that nobody touches, and for which nobody more is undoing, keeps its bound. *)
LEMMA CreditStays ==
  ASSUME SetsOK, CreditInv, NEW g \in 1..Len(sets), NEW r \in DOMAIN sets[g], r.qps > 0,
         sets'[g][r].tokens = sets[g][r].tokens, Undoing(g, r)' \in SUBSET Undoing(g, r)
  PROVE  sets'[g][r].tokens + Cardinality(Undoing(g, r)') <= r.qps + Cardinality(Callers) - 1
<1>1. /\ sets[g][r].tokens \in Int /\ r.qps \in Nat
      /\ sets[g][r].tokens + Cardinality(Undoing(g, r)) <= r.qps + Cardinality(Callers) - 1
  BY SetsAre DEF CreditInv, Tokens, Rule
<1>2. IsFiniteSet(Undoing(g, r)) /\ Cardinality(Undoing(g, r)) \in Nat /\ Cardinality(Callers) \in Nat
  BY UndoingCounts
<1>3. /\ Cardinality(Undoing(g, r)') <= Cardinality(Undoing(g, r))
      /\ Cardinality(Undoing(g, r)') \in Nat
  BY <1>2, FS_Subset, FS_CardinalityType
<1>4. QED
  BY <1>1, <1>2, <1>3

(* No bucket's tokens change and nobody starts undoing. *)
LEMMA CreditSame ==
  ASSUME SetsOK, CreditInv, SameRules, NEW c \in Callers, caller'[c].pc # "undo",
         \A d \in Callers : d # c => caller'[d] = caller[d],
         \A k \in 1..Len(sets) : \A q \in DOMAIN sets[k] : sets'[k][q].tokens = sets[k][q].tokens
  PROVE  CreditInv'
<1>1. ASSUME NEW k \in 1..Len(sets), NEW q \in DOMAIN sets[k], q.qps > 0
      PROVE  sets'[k][q].tokens + Cardinality(Undoing(k, q)') <= q.qps + Cardinality(Callers) - 1
  <2>1. Undoing(k, q)' \in SUBSET Undoing(k, q)
    BY DEF Undoing
  <2>2. QED
    BY <1>1, <2>1, CreditStays
<1>2. QED
  BY <1>1 DEF CreditInv, SameRules

(* The tokens of one bucket change; who starts undoing does so for that bucket. *)
LEMMA CreditMoves ==
  ASSUME SetsOK, CreditInv, SameRules, NEW c \in Callers,
         NEW g \in 1..Len(sets), NEW r \in DOMAIN sets[g],
         caller'[c].pc = "undo" => caller'[c].set = g /\ caller'[c].rule = {r},
         \A d \in Callers : d # c => caller'[d] = caller[d],
         \A k \in 1..Len(sets) : \A q \in DOMAIN sets[k] :
           k # g \/ q # r => sets'[k][q] = sets[k][q],
         r.qps > 0 => sets'[g][r].tokens + Cardinality(Undoing(g, r)') <= r.qps + Cardinality(Callers) - 1
  PROVE  CreditInv'
<1>1. ASSUME NEW k \in 1..Len(sets), NEW q \in DOMAIN sets[k], q.qps > 0
      PROVE  sets'[k][q].tokens + Cardinality(Undoing(k, q)') <= q.qps + Cardinality(Callers) - 1
  <2>1. CASE k = g /\ q = r
    BY <1>1, <2>1
  <2>2. CASE k # g \/ q # r
    <3>1. Undoing(k, q)' \in SUBSET Undoing(k, q)
      BY <2>2 DEF Undoing
    <3>2. sets'[k][q].tokens = sets[k][q].tokens
      BY <2>2
    <3>3. QED
      BY <1>1, <3>1, <3>2, CreditStays
  <2>3. QED
    BY <2>1, <2>2
<1>2. QED
  BY <1>1 DEF CreditInv, SameRules

(* What a step of a request does to the engine, as far as the handlers see it. *)
EngineStep == EngineInv' /\ SameRules

(* A request looks at the rules in force: it is answered at once, or has a bucket. *)
LEMMA MatchKeeps ==
  ASSUME EngineInv, NEW c \in Callers, caller[c].pc \in {"idle", "route"}, MatchQuery(c)
  PROVE  EngineStep
<1>1. SetsOK /\ CallersOK /\ CreditInv /\ sets' = sets
  BY DEF EngineInv, MatchQuery
<1>2. SetsOK' /\ SameRules
  BY <1>1 DEF SetsOK, SameRules
<1>3. Len(sets) \in 1..Len(sets)
  BY <1>1, SetsAre
<1>4. PICK rule \in {{}} \cup {{r} : r \in {s \in InForce : ~s.dry}} :
        IF \E r \in rule : r.qps > 0
        THEN caller' = [caller EXCEPT ![c].pc = "load", ![c].set = Len(sets), ![c].rule = rule]
        ELSE Answer(c, rule, FALSE)
  BY DEF MatchQuery
<1>5. /\ CallersOK' /\ caller'[c].pc # "undo" /\ \A d \in Callers : d # c => caller'[d] = caller[d]
  <2>1. CASE \E r \in rule : r.qps > 0
    <3>1. PICK r \in InForce : rule = {r}
      BY <1>4, <2>1
    <3>2. r \in DOMAIN sets[Len(sets)] /\ r \in Rule
      BY <1>1, <1>3, SetsAre DEF InForce
    <3> DEFINE x == [caller[c] EXCEPT !.pc = "load", !.set = Len(sets), !.rule = rule]
    <3>3. caller \in [Callers -> Caller]
      BY <1>1 DEF CallersOK
    <3>4. caller' = [caller EXCEPT ![c] = x]
      BY <1>4, <2>1, <3>3
    <3>5. x \in Caller /\ x.pc = "load" /\ x.set = Len(sets) /\ x.rule = {r}
      BY <1>1, <1>3, <3>1, <3>2, <3>3, SetsAre DEF Caller
    <3> HIDE DEF x
    <3>6. QED
      BY <1>1, <1>2, <1>3, <3>2, <3>4, <3>5, CallerIs
  <2>2. CASE ~\E r \in rule : r.qps > 0
    <3>1. Answer(c, rule, FALSE)
      BY <1>4, <2>2
    <3>2. QED
      BY <1>1, <1>2, <3>1, AnswerIs
  <2>3. QED
    BY <2>1, <2>2
<1>6. CreditInv'
  BY <1>1, <1>2, <1>5, CreditSame
<1>7. QED
  BY <1>2, <1>5, <1>6 DEF EngineStep, EngineInv

(* A request arrives, or a rewrite rule blocks it. *)
LEMMA ArriveKeeps ==
  ASSUME EngineInv, NEW c \in Callers, Arrive(c) \/ Route(c)
  PROVE  EngineStep
<1>1. CASE MatchQuery(c)
  BY <1>1, MatchKeeps DEF Arrive, Route
<1>2. CASE ~MatchQuery(c)
  <2>1. sets' = sets /\ caller' = [caller EXCEPT ![c] = Nobody]
    BY <1>2 DEF Arrive, Route
  <2>2. SetsOK /\ CallersOK /\ CreditInv
    BY DEF EngineInv
  <2>3. SetsOK' /\ SameRules /\ 1 \in 1..Len(sets)
    BY <2>1, <2>2, SetsAre DEF SetsOK, SameRules
  <2>4. Nobody \in Caller /\ Nobody.pc = "idle" /\ Nobody.rule = {} /\ Nobody.set = 1
    <3>1. Nobody \in Caller
      BY DEF Nobody, Caller
    <3>2. QED
      BY <3>1 DEF Nobody
  <2>5. /\ CallersOK' /\ caller'[c].pc # "undo" /\ \A d \in Callers : d # c => caller'[d] = caller[d]
    BY <2>1, <2>2, <2>3, <2>4, CallerIs
  <2>6. CreditInv'
    BY <2>1, <2>2, <2>3, <2>5, CreditSame
  <2>7. QED
    BY <2>3, <2>5, <2>6 DEF EngineStep, EngineInv
<1>3. QED
  BY <1>1, <1>2

(* The request goes on with the bucket it has. *)
LEMMA GoesOn ==
  ASSUME SetsOK, CallersOK, SameRules, NEW c \in Callers,
         caller[c].pc \notin {"idle", "route"}, NEW x \in Caller, caller' = [caller EXCEPT ![c] = x],
         x.pc \notin {"idle", "route"}, x.set = caller[c].set, x.rule = caller[c].rule
  PROVE  /\ CallersOK' /\ caller'[c] = x
         /\ \A d \in Callers : d # c => caller'[d] = caller[d]
<1>1. x.set \in 1..Len(sets) /\ \E r \in DOMAIN sets[x.set] : x.rule = {r}
  BY DEF CallersOK
<1>2. QED
  BY <1>1, CallerIs

(* What a request reads from its bucket. *)
LEMMA LoadKeeps ==
  ASSUME EngineInv, clock \in Nat, NEW c \in Callers, LoadMs(c) \/ LoadTokens(c)
  PROVE  EngineStep
<1>1. SetsOK /\ CallersOK /\ CreditInv /\ sets' = sets /\ caller[c].pc \in {"load", "read"}
  BY DEF EngineInv, LoadMs, LoadTokens
<1>2. SetsOK' /\ SameRules
  BY <1>1 DEF SetsOK, SameRules
<1>3. /\ caller \in [Callers -> Caller] /\ caller[c] \in Caller
      /\ Bucket(c).ms \in Nat /\ Bucket(c).tokens \in Int
  BY <1>1, Working DEF CallersOK, Tokens
<1> DEFINE x == [caller[c] EXCEPT !.now = clock, !.last = Bucket(c).ms,
                                  !.pc = IF clock > Bucket(c).ms THEN "cas" ELSE "take"]
           y == [caller[c] EXCEPT !.cur = Bucket(c).tokens, !.pc = "store"]
<1>4. /\ x \in Caller /\ x.pc \in {"cas", "take"} /\ x.set = caller[c].set /\ x.rule = caller[c].rule
      /\ y \in Caller /\ y.pc = "store" /\ y.set = caller[c].set /\ y.rule = caller[c].rule
  <2>1. x \in Caller /\ y \in Caller
    BY <1>3 DEF Caller
  <2>2. QED
    BY <1>3, <2>1 DEF Caller
<1>5. caller' = [caller EXCEPT ![c] = x] \/ caller' = [caller EXCEPT ![c] = y]
  <2>1. CASE LoadMs(c)
    BY <1>3, <2>1 DEF LoadMs
  <2>2. CASE LoadTokens(c)
    BY <1>3, <2>2 DEF LoadTokens
  <2>3. QED
    BY <2>1, <2>2
<1> HIDE DEF x, y
<1>6. /\ CallersOK' /\ caller'[c].pc # "undo" /\ \A d \in Callers : d # c => caller'[d] = caller[d]
  <2>1. CASE caller' = [caller EXCEPT ![c] = x]
    BY <1>1, <1>2, <1>4, <2>1, GoesOn
  <2>2. CASE caller' = [caller EXCEPT ![c] = y]
    BY <1>1, <1>2, <1>4, <2>2, GoesOn
  <2>3. QED
    BY <1>5, <2>1, <2>2
<1>7. CreditInv'
  BY <1>1, <1>2, <1>6, CreditSame
<1>8. QED
  BY <1>2, <1>6, <1>7 DEF EngineStep, EngineInv

(* The request goes on without reading anything. *)
LEMMA GotoIs ==
  ASSUME SetsOK, CallersOK, SameRules, NEW c \in Callers, caller[c].pc \notin {"idle", "route"},
         NEW pc \in {"load", "cas", "read", "store", "take", "undo"}, Goto(c, pc)
  PROVE  /\ CallersOK' /\ caller'[c].pc = pc
         /\ caller'[c].set = caller[c].set /\ caller'[c].rule = caller[c].rule
         /\ \A d \in Callers : d # c => caller'[d] = caller[d]
<1>1. caller \in [Callers -> Caller] /\ caller[c] \in Caller
  BY DEF CallersOK
<1> DEFINE x == [caller[c] EXCEPT !.pc = pc]
<1>2. caller' = [caller EXCEPT ![c] = x]
  BY <1>1 DEF Goto
<1>3. x \in Caller /\ x.pc = pc /\ x.set = caller[c].set /\ x.rule = caller[c].rule
  BY <1>1 DEF Caller
<1> HIDE DEF x
<1>4. QED
  BY <1>2, <1>3, GoesOn

(* The request changes its bucket. *)
LEMMA SetBucketIs ==
  ASSUME SetsOK, CallersOK, NEW c \in Callers, caller[c].pc \notin {"idle", "route"},
         NEW b \in Tokens, SetBucket(c, b), NEW g, NEW r, g = caller[c].set, r = RuleOf(c)
  PROVE  /\ SetsOK' /\ SameRules /\ g \in 1..Len(sets) /\ r \in DOMAIN sets[g]
         /\ sets'[g][r] = b /\ Bucket(c) = sets[g][r]
         /\ \A k \in 1..Len(sets) : \A q \in DOMAIN sets[k] :
              k # g \/ q # r => sets'[k][q] = sets[k][q]
<1>1. g \in 1..Len(sets) /\ r \in DOMAIN sets[g]
  BY Working
<1>2. sets' = [sets EXCEPT ![g][r] = b]
  BY DEF SetBucket
<1>3. Bucket(c) = sets[g][r]
  BY DEF Bucket
<1>4. PICK x : x = [sets[g] EXCEPT ![r] = b]
  OBVIOUS
<1>5. sets' = [sets EXCEPT ![g] = x]
  BY <1>1, <1>2, <1>4, SetsAre
<1>6. /\ x \in [DOMAIN sets[g] -> Tokens] /\ x[r] = b
      /\ \A q \in DOMAIN sets[g] : q # r => x[q] = sets[g][q]
  BY <1>1, <1>4, SetsAre
<1>7. DOMAIN x = DOMAIN sets[g]
  BY <1>6
<1>8. x \in RuleSet
  BY <1>1, <1>6, <1>7, SetsAre, RuleSetIs
<1>9. sets' \in Seq(RuleSet) /\ Len(sets') = Len(sets) /\ sets'[g] = x
      /\ \A k \in 1..Len(sets) : k # g => sets'[k] = sets[k]
  <2>1. sets \in Seq(RuleSet)
    BY DEF SetsOK
  <2>2. QED
    BY <1>1, <1>5, <1>8, <2>1, ExceptSeq
<1>10. SetsOK' /\ SameRules
  BY <1>7, <1>9 DEF SetsOK, SameRules
<1>11. QED
  BY <1>1, <1>3, <1>6, <1>9, <1>10

(* One request wins the refill; no token changes. *)
LEMMA WinKeeps ==
  ASSUME EngineInv, NEW c \in Callers, WinRefill(c)
  PROVE  EngineStep
<1>1. SetsOK /\ CallersOK /\ CreditInv /\ caller[c].pc = "cas"
  BY DEF EngineInv, WinRefill
<1> DEFINE b == [Bucket(c) EXCEPT !.ms = caller[c].now]
<1>2. Bucket(c) \in Tokens /\ caller[c].now \in Nat
  BY <1>1, Working DEF CallersOK, Caller
<1>3. b \in Tokens /\ b.tokens = Bucket(c).tokens
  BY <1>2 DEF Tokens
<1>4. /\ SetsOK' /\ SameRules
      /\ \A k \in 1..Len(sets) : \A q \in DOMAIN sets[k] : sets'[k][q].tokens = sets[k][q].tokens
  <2>1. CASE SetBucket(c, b)
    <3> HIDE DEF b
    <3> PICK g, r : g = caller[c].set /\ r = RuleOf(c)
      OBVIOUS
    <3>1. /\ SetsOK' /\ SameRules /\ sets'[g][r] = b /\ Bucket(c) = sets[g][r]
          /\ \A k \in 1..Len(sets) : \A q \in DOMAIN sets[k] :
               k # g \/ q # r => sets'[k][q] = sets[k][q]
      BY <1>1, <1>3, <2>1, SetBucketIs
    <3>2. QED
      BY <1>3, <3>1
  <2>2. CASE sets' = sets
    BY <1>1, <2>2 DEF SetsOK, SameRules
  <2>3. QED
    BY <2>1, <2>2 DEF WinRefill
<1>5. PICK pc \in {"read", "take"} : Goto(c, pc)
  BY DEF WinRefill
<1>6. CallersOK' /\ caller'[c].pc = pc /\ \A d \in Callers : d # c => caller'[d] = caller[d]
  BY <1>1, <1>4, <1>5, GotoIs
<1>7. CreditInv'
  BY <1>1, <1>4, <1>6, CreditSame
<1>8. QED
  BY <1>4, <1>6, <1>7 DEF EngineStep, EngineInv

(* What is stored is at most one second's tokens: whatever the others still give back
   comes on top, and the one who stores is not among them. *)
LEMMA StoreKeeps ==
  ASSUME EngineInv, NEW c \in Callers, StoreTokens(c)
  PROVE  EngineStep
<1>1. SetsOK /\ CallersOK /\ CreditInv /\ caller[c].pc = "store" /\ Goto(c, "take")
  BY DEF EngineInv, StoreTokens
<1> PICK g, r : g = caller[c].set /\ r = RuleOf(c)
  OBVIOUS
<1>2. Bucket(c) \in Tokens /\ r.qps \in Nat /\ caller[c] \in Caller
  BY <1>1, Working DEF CallersOK, Rule
<1>3. Refill(c) \in Int /\ Refill(c) <= r.qps
  <2> DEFINE a == ((caller[c].now - caller[c].last) * r.qps) \div Second
  <2>1. a \in Int
    BY <1>2, SecondAssumption DEF Caller
  <2> HIDE DEF a
  <2>2. r.qps \in Int /\ Min({a, r.qps}) \in Int
    <3>1. r.qps \in Int
      BY <1>2
    <3>2. QED
      BY <2>1, <3>1, MinOfTwo
  <2>3. caller[c].cur + Min({a, r.qps}) \in Int
    BY <1>2, <2>2 DEF Caller
  <2>4. Refill(c) = Min({caller[c].cur + Min({a, r.qps}), r.qps})
    BY DEF Refill, a
  <2>5. QED
    BY <2>2, <2>3, <2>4, MinOfTwo
<1> DEFINE b == [Bucket(c) EXCEPT !.tokens = Refill(c)]
<1>4. b \in Tokens /\ b.tokens = Refill(c) /\ SetBucket(c, b)
  BY <1>2, <1>3 DEF Tokens, StoreTokens
<1> HIDE DEF b
<1>5. /\ SetsOK' /\ SameRules /\ g \in 1..Len(sets) /\ r \in DOMAIN sets[g] /\ sets'[g][r] = b
      /\ \A k \in 1..Len(sets) : \A q \in DOMAIN sets[k] :
           k # g \/ q # r => sets'[k][q] = sets[k][q]
  BY <1>1, <1>4, SetBucketIs
<1>6. CallersOK' /\ caller'[c].pc = "take" /\ \A d \in Callers : d # c => caller'[d] = caller[d]
  BY <1>1, <1>5, GotoIs
<1>7. sets'[g][r].tokens + Cardinality(Undoing(g, r)') <= r.qps + Cardinality(Callers) - 1
  <2>1. Undoing(g, r)' \in SUBSET (Callers \ {c})
    BY <1>6 DEF Undoing
  <2>2. IsFiniteSet(Callers \ {c}) /\ Cardinality(Callers \ {c}) = Cardinality(Callers) - 1
        /\ Cardinality(Callers) \in Nat
    BY CallersAssumption, FS_RemoveElement, FS_CardinalityType
  <2>3. /\ Cardinality(Undoing(g, r)') <= Cardinality(Callers \ {c})
        /\ Cardinality(Undoing(g, r)') \in Nat
    BY <2>1, <2>2, FS_Subset, FS_CardinalityType
  <2>4. sets'[g][r].tokens \in Int /\ sets'[g][r].tokens <= r.qps
    BY <1>3, <1>4, <1>5
  <2>5. QED
    BY <1>2, <2>2, <2>3, <2>4
<1>8. CreditInv'
  BY <1>1, <1>5, <1>6, <1>7, CreditMoves
<1>9. QED
  BY <1>5, <1>6, <1>8 DEF EngineStep, EngineInv

(* A token is taken, or the debt of one is noted together with who will give it back. *)
LEMMA TakeKeeps ==
  ASSUME EngineInv, NEW c \in Callers, TakeToken(c)
  PROVE  EngineStep
<1>1. SetsOK /\ CallersOK /\ CreditInv /\ caller[c].pc = "take"
  BY DEF EngineInv, TakeToken
<1> PICK g, r : g = caller[c].set /\ r = RuleOf(c)
  OBVIOUS
<1>2. Bucket(c) \in Tokens /\ r.qps \in Nat /\ caller[c].rule = {r}
  BY <1>1, Working DEF CallersOK, Rule
<1> DEFINE b == [Bucket(c) EXCEPT !.tokens = @ - 1]
<1>3. b \in Tokens /\ b.tokens = Bucket(c).tokens - 1 /\ SetBucket(c, b)
  BY <1>2 DEF Tokens, TakeToken
<1> HIDE DEF b
<1>4. /\ SetsOK' /\ SameRules /\ g \in 1..Len(sets) /\ r \in DOMAIN sets[g] /\ sets'[g][r] = b
      /\ Bucket(c) = sets[g][r]
      /\ \A k \in 1..Len(sets) : \A q \in DOMAIN sets[k] :
           k # g \/ q # r => sets'[k][q] = sets[k][q]
  BY <1>1, <1>3, SetBucketIs
<1>5. /\ CallersOK' /\ \A d \in Callers : d # c => caller'[d] = caller[d]
      /\ caller'[c].pc = "undo" => caller'[c].set = g /\ caller'[c].rule = {r}
  <2>1. CASE Goto(c, "undo")
    BY <1>1, <1>2, <1>4, <2>1, GotoIs
  <2>2. CASE Answer(c, caller[c].rule, FALSE)
    BY <1>1, <1>4, <2>2, AnswerIs
  <2>3. QED
    BY <2>1, <2>2 DEF TakeToken
<1>6. ASSUME r.qps > 0
      PROVE  sets'[g][r].tokens + Cardinality(Undoing(g, r)') <= r.qps + Cardinality(Callers) - 1
  <2>1. /\ sets[g][r].tokens \in Int /\ sets'[g][r].tokens = sets[g][r].tokens - 1
        /\ sets[g][r].tokens + Cardinality(Undoing(g, r)) <= r.qps + Cardinality(Callers) - 1
    BY <1>1, <1>2, <1>3, <1>4, <1>6 DEF CreditInv, Tokens
  <2>2. /\ IsFiniteSet(Undoing(g, r)) /\ Cardinality(Undoing(g, r)) \in Nat
        /\ Cardinality(Callers) \in Nat
    BY UndoingCounts
  <2>3. Undoing(g, r)' \in SUBSET (Undoing(g, r) \cup {c}) /\ c \notin Undoing(g, r)
    BY <1>1, <1>5 DEF Undoing
  <2>4. /\ IsFiniteSet(Undoing(g, r) \cup {c})
        /\ Cardinality(Undoing(g, r) \cup {c}) = Cardinality(Undoing(g, r)) + 1
    BY <2>2, <2>3, FS_AddElement
  <2>5. /\ Cardinality(Undoing(g, r)') <= Cardinality(Undoing(g, r)) + 1
        /\ Cardinality(Undoing(g, r)') \in Nat
    BY <2>3, <2>4, FS_Subset, FS_CardinalityType
  <2>6. QED
    BY <1>2, <2>1, <2>2, <2>5
<1>7. CreditInv'
  BY <1>1, <1>4, <1>5, <1>6, CreditMoves
<1>8. QED
  BY <1>4, <1>5, <1>7 DEF EngineStep, EngineInv

(* The token is given back by one who was counted. *)
LEMMA UndoKeeps ==
  ASSUME EngineInv, NEW c \in Callers, UndoToken(c)
  PROVE  EngineStep
<1>1. SetsOK /\ CallersOK /\ CreditInv /\ caller[c].pc = "undo" /\ Answer(c, caller[c].rule, TRUE)
  BY DEF EngineInv, UndoToken
<1> PICK g, r : g = caller[c].set /\ r = RuleOf(c)
  OBVIOUS
<1>2. Bucket(c) \in Tokens /\ r.qps \in Nat /\ caller[c].rule = {r}
  BY <1>1, Working DEF CallersOK, Rule
<1> DEFINE b == [Bucket(c) EXCEPT !.tokens = @ + 1]
<1>3. b \in Tokens /\ b.tokens = Bucket(c).tokens + 1 /\ SetBucket(c, b)
  BY <1>2 DEF Tokens, UndoToken
<1> HIDE DEF b
<1>4. /\ SetsOK' /\ SameRules /\ g \in 1..Len(sets) /\ r \in DOMAIN sets[g] /\ sets'[g][r] = b
      /\ Bucket(c) = sets[g][r]
      /\ \A k \in 1..Len(sets) : \A q \in DOMAIN sets[k] :
           k # g \/ q # r => sets'[k][q] = sets[k][q]
  BY <1>1, <1>3, SetBucketIs
<1>5. /\ CallersOK' /\ caller'[c].pc # "undo" /\ \A d \in Callers : d # c => caller'[d] = caller[d]
  BY <1>1, <1>4, AnswerIs
<1>6. ASSUME r.qps > 0
      PROVE  sets'[g][r].tokens + Cardinality(Undoing(g, r)') <= r.qps + Cardinality(Callers) - 1
  <2>1. /\ sets[g][r].tokens \in Int /\ sets'[g][r].tokens = sets[g][r].tokens + 1
        /\ sets[g][r].tokens + Cardinality(Undoing(g, r)) <= r.qps + Cardinality(Callers) - 1
    BY <1>1, <1>2, <1>3, <1>4, <1>6 DEF CreditInv, Tokens
  <2>2. /\ IsFiniteSet(Undoing(g, r)) /\ Cardinality(Undoing(g, r)) \in Nat
        /\ Cardinality(Callers) \in Nat
    BY UndoingCounts
  <2>3. Undoing(g, r)' = Undoing(g, r) \ {c} /\ c \in Undoing(g, r)
    BY <1>1, <1>2, <1>5 DEF Undoing
  <2>4. Cardinality(Undoing(g, r)') = Cardinality(Undoing(g, r)) - 1
    <3> PICK U : U = Undoing(g, r)
      OBVIOUS
    <3>1. IsFiniteSet(U) /\ c \in U
      BY <2>2, <2>3
    <3>2. Cardinality(U \ {c}) = Cardinality(U) - 1
      BY <3>1, FS_RemoveElement
    <3>3. QED
      BY <2>3, <3>2
  <2>5. QED
    BY <1>2, <2>1, <2>2, <2>4
<1>7. CreditInv'
  BY <1>1, <1>4, <1>5, <1>6, CreditMoves
<1>8. QED
  BY <1>4, <1>5, <1>7 DEF EngineStep, EngineInv

(* Every access of a request. *)
LEMMA RequestKeeps ==
  ASSUME EngineInv, clock \in Nat, NEW c \in Callers, Request(c)
  PROVE  EngineStep
<1>1. CASE Arrive(c) \/ Route(c)
  BY <1>1, ArriveKeeps
<1>2. CASE LoadMs(c) \/ LoadTokens(c)
  BY <1>2, LoadKeeps
<1>3. CASE WinRefill(c)
  BY <1>3, WinKeeps
<1>4. CASE StoreTokens(c)
  BY <1>4, StoreKeeps
<1>5. CASE TakeToken(c)
  BY <1>5, TakeKeeps
<1>6. CASE UndoToken(c)
  BY <1>6, UndoKeeps
<1>7. QED
  BY <1>1, <1>2, <1>3, <1>4, <1>5, <1>6 DEF Request

(* A new rule set is appended; nobody uses it yet. *)
LEMMA SwapKeeps ==
  ASSUME EngineInv, NEW rules \in SUBSET Rule, Swap(rules), caller' = caller
  PROVE  EngineInv' /\ InForce' = rules
<1>1. SetsOK /\ CallersOK /\ CreditInv
  BY DEF EngineInv
<1>2. Compiled(rules) \in [rules -> Tokens] /\ \A r \in rules : Compiled(rules)[r].tokens = r.qps
  BY DEF Compiled, Tokens, Rule
<1>3. DOMAIN Compiled(rules) = rules
  BY <1>2
<1>4. Compiled(rules) \in RuleSet
  BY <1>2, <1>3, RuleSetIs
<1> PICK x : x = Compiled(rules)
  OBVIOUS
<1>5. /\ sets' \in Seq(RuleSet) /\ Len(sets') = Len(sets) + 1 /\ sets'[Len(sets) + 1] = x
      /\ \A k \in 1..Len(sets) : sets'[k] = sets[k]
  <2>1. sets \in Seq(RuleSet)
    BY <1>1 DEF SetsOK
  <2>2. sets' = Append(sets, x)
    BY DEF Swap
  <2>3. QED
    BY <1>4, <2>1, <2>2, AppendProperties
<1>6. Len(sets) \in Nat \ {0}
  BY <1>1, SetsAre
<1>7. SetsOK' /\ InForce' = rules
  BY <1>3, <1>5, <1>6 DEF SetsOK, InForce
<1>8. CallersOK'
  <2>1. \A d \in Callers :
          /\ caller[d].set \in 1..Len(sets')
          /\ caller[d].pc \in {"idle", "route"} => caller[d].rule = {}
          /\ caller[d].pc \notin {"idle", "route"} =>
               \E r \in DOMAIN sets'[caller[d].set] : caller[d].rule = {r}
    BY <1>1, <1>5, <1>6 DEF CallersOK
  <2>2. QED
    BY <1>1, <2>1 DEF CallersOK
<1>9. ASSUME NEW k \in 1..Len(sets'), NEW q \in DOMAIN sets'[k], q.qps > 0
      PROVE  sets'[k][q].tokens + Cardinality(Undoing(k, q)') <= q.qps + Cardinality(Callers) - 1
  <2>1. Undoing(k, q)' = Undoing(k, q)
    BY DEF Undoing
  <2>2. CASE k \in 1..Len(sets)
    <3>1. sets'[k] = sets[k] /\ q \in DOMAIN sets[k]
      BY <1>5, <2>2
    <3>2. QED
      BY <1>1, <1>9, <2>1, <2>2, <3>1 DEF CreditInv
  <2>3. CASE k \notin 1..Len(sets)
    <3>1. k = Len(sets) + 1
      BY <1>5, <1>6, <2>3
    <3>2. q \in rules /\ sets'[k][q].tokens = q.qps /\ q.qps \in Nat
      BY <1>2, <1>3, <1>5, <3>1 DEF Rule
    <3>3. Undoing(k, q) = {}
      BY <1>1, <2>3 DEF Undoing, CallersOK
    <3>4. Cardinality(Undoing(k, q)') = 0
      BY <2>1, <3>3, FS_EmptySet
    <3>5. Cardinality(Callers) \in Nat /\ Cardinality(Callers) > 0
      BY CallersAssumption, FS_EmptySet, FS_CardinalityType
    <3>6. QED
      BY <3>2, <3>4, <3>5
  <2>4. QED
    BY <2>2, <2>3
<1>10. CreditInv'
  BY <1>9 DEF CreditInv
<1>11. QED
  BY <1>7, <1>8, <1>10 DEF EngineInv

(* The engine of a process that starts: full buckets, no request. *)
LEMMA EngineStarts ==
  ASSUME NEW rules \in SUBSET Rule, sets = <<Compiled(rules)>>, caller = [c \in Callers |-> Nobody]
  PROVE  EngineInv /\ InForce = rules
<1>1. Compiled(rules) \in [rules -> Tokens] /\ \A r \in rules : Compiled(rules)[r].tokens = r.qps
  BY DEF Compiled, Tokens, Rule
<1>2. DOMAIN Compiled(rules) = rules
  BY <1>1
<1>3. Compiled(rules) \in RuleSet
  BY <1>1, <1>2, RuleSetIs
<1>4. PICK x \in RuleSet : x = Compiled(rules)
  BY <1>3
<1>5. sets \in Seq(RuleSet) /\ Len(sets) = 1 /\ sets[1] = x
  BY <1>4
<1>6. SetsOK /\ InForce = rules
  BY <1>2, <1>4, <1>5 DEF SetsOK, InForce
<1>7. Nobody \in Caller /\ Nobody.pc = "idle" /\ Nobody.rule = {} /\ Nobody.set = 1
  <2>1. Nobody \in Caller
    BY DEF Nobody, Caller
  <2>2. QED
    BY <2>1 DEF Nobody
<1>8. CallersOK
  BY <1>5, <1>7 DEF CallersOK
<1>9. ASSUME NEW k \in 1..Len(sets), NEW q \in DOMAIN sets[k], q.qps > 0
      PROVE  sets[k][q].tokens + Cardinality(Undoing(k, q)) <= q.qps + Cardinality(Callers) - 1
  <2>1. k = 1
    BY <1>5
  <2>2. q \in rules /\ sets[k][q].tokens = q.qps /\ q.qps \in Nat
    BY <1>1, <1>2, <1>4, <1>5, <2>1 DEF Rule
  <2>3. Undoing(k, q) = {}
    BY <1>7 DEF Undoing
  <2>4. Cardinality(Undoing(k, q)) = 0
    BY <2>3, FS_EmptySet
  <2>5. Cardinality(Callers) \in Nat /\ Cardinality(Callers) > 0
    BY CallersAssumption, FS_EmptySet, FS_CardinalityType
  <2>6. QED
    BY <2>2, <2>4, <2>5
<1>10. CreditInv
  BY <1>9 DEF CreditInv
<1>11. QED
  BY <1>6, <1>8, <1>10 DEF EngineInv

(* The same after a restart. *)
LEMMA EngineStartsAnew ==
  ASSUME NEW rules \in SUBSET Rule, sets' = <<Compiled(rules)>>, caller' = [c \in Callers |-> Nobody]
  PROVE  EngineInv' /\ InForce' = rules
<1>1. Compiled(rules) \in [rules -> Tokens] /\ \A r \in rules : Compiled(rules)[r].tokens = r.qps
  BY DEF Compiled, Tokens, Rule
<1>2. DOMAIN Compiled(rules) = rules
  BY <1>1
<1>3. Compiled(rules) \in RuleSet
  BY <1>1, <1>2, RuleSetIs
<1>4. PICK x \in RuleSet : x = Compiled(rules)
  BY <1>3
<1>5. sets' \in Seq(RuleSet) /\ Len(sets') = 1 /\ sets'[1] = x
  BY <1>4
<1>6. SetsOK' /\ InForce' = rules
  BY <1>2, <1>4, <1>5 DEF SetsOK, InForce
<1>7. Nobody \in Caller /\ Nobody.pc = "idle" /\ Nobody.rule = {} /\ Nobody.set = 1
  <2>1. Nobody \in Caller
    BY DEF Nobody, Caller
  <2>2. QED
    BY <2>1 DEF Nobody
<1>8. CallersOK'
  BY <1>5, <1>7 DEF CallersOK
<1>9. ASSUME NEW k \in 1..Len(sets'), NEW q \in DOMAIN sets'[k], q.qps > 0
      PROVE  sets'[k][q].tokens + Cardinality(Undoing(k, q)') <= q.qps + Cardinality(Callers) - 1
  <2>1. k = 1
    BY <1>5
  <2>2. q \in rules /\ sets'[k][q].tokens = q.qps /\ q.qps \in Nat
    BY <1>1, <1>2, <1>4, <1>5, <2>1 DEF Rule
  <2>3. Undoing(k, q)' = {}
    BY <1>7 DEF Undoing
  <2>4. Cardinality(Undoing(k, q)') = 0
    BY <2>3, FS_EmptySet
  <2>5. Cardinality(Callers) \in Nat /\ Cardinality(Callers) > 0
    BY CallersAssumption, FS_EmptySet, FS_CardinalityType
  <2>6. QED
    BY <2>2, <2>4, <2>5
<1>10. CreditInv'
  BY <1>9 DEF CreditInv
<1>11. QED
  BY <1>6, <1>8, <1>10 DEF EngineInv

-----------------------------------------------------------------------------
(***************************************************************************)
(* The handlers' steps.                                                    *)
(***************************************************************************)

(* What is left of a program is one. *)
LEMMA RestIsProgram ==
  ASSUME NEW q, Program(q), NEW k \in 1..Len(q)
  PROVE  /\ Program(SubSeq(q, k + 1, Len(q))) /\ Len(SubSeq(q, k + 1, Len(q))) = Len(q) - k
         /\ \A i \in 1..(Len(q) - k) : SubSeq(q, k + 1, Len(q))[i] = q[i + k]
<1>1. q \in Seq(Steps) /\ Len(q) \in Nat /\ k \in Nat
  BY DEF Program
<1>2. /\ SubSeq(q, k + 1, Len(q)) \in Seq(Steps) /\ Len(SubSeq(q, k + 1, Len(q))) = Len(q) - k
      /\ \A i \in 1..(Len(q) - k) : SubSeq(q, k + 1, Len(q))[i] = q[i + k]
  BY <1>1, SubSeqProperties
<1> PICK s : s = SubSeq(q, k + 1, Len(q))
  OBVIOUS
<1>3. s \in Seq(Steps) /\ Len(s) = Len(q) - k /\ \A i \in 1..Len(s) : s[i] = q[i + k]
  BY <1>2
<1>4. \A i \in 1..Len(s) : i + k \in 1..Len(q)
  BY <1>1, <1>3
<1>5. /\ \A i, j \in 1..Len(s) : s[i] \in Tables => s[j] \in Tables \cup {"mark"}
      /\ \A i \in 1..Len(s) :
           /\ s[i] = "mark" => i = 1 /\ \A y \in Tables : \E j \in 1..Len(s) : s[j] = y
           /\ s[i] = "bump" /\ i > 1 => s[i - 1] = "stamp"
  <2>1. \A i, j \in 1..Len(s) : s[i] \in Tables => s[j] \in Tables \cup {"mark"}
    BY <1>3, <1>4 DEF Program
  <2>2. ASSUME NEW i \in 1..Len(s)
        PROVE  s[i] # "mark"
    <3>1. i + k \in 1..Len(q) /\ i + k # 1 /\ s[i] = q[i + k]
      BY <1>1, <1>3, <1>4
    <3>2. QED
      BY <3>1 DEF Program
  <2>3. ASSUME NEW i \in 1..Len(s), s[i] = "bump", i > 1
        PROVE  s[i - 1] = "stamp"
    <3>1. i + k \in 1..Len(q) /\ i + k > 1 /\ q[i + k] = "bump"
      BY <1>1, <1>3, <1>4, <2>3
    <3>2. q[(i + k) - 1] = "stamp"
      BY <3>1 DEF Program
    <3>3. i - 1 \in 1..Len(s) /\ (i - 1) + k = (i + k) - 1
      BY <1>1, <1>3, <2>3
    <3>4. QED
      BY <1>3, <3>2, <3>3
  <2>4. QED
    BY <2>1, <2>2, <2>3
<1>6. ASSUME NEW t \in Kinds, NEW i \in 1..Len(s)
      PROVE  /\ s[i] \in {ReadOf(t), FileOf(t)} => i < Len(s) /\ s[i + 1] = SwapOf(t)
             /\ s[i] = SwapOf(t) /\ i > 1 => s[i - 1] \in {ReadOf(t), FileOf(t)}
             /\ s[i] = ReadOf(t) =>
                  \A j \in 1..Len(s) : s[j] \notin {"readMysql", "readPgsql", "fileRules", "fileRewrites"}
  <2>1. s[i] = q[i + k] /\ i + k \in 1..Len(q)
    BY <1>3, <1>4
  <2>2. ASSUME s[i] \in {ReadOf(t), FileOf(t)}
        PROVE  i < Len(s) /\ s[i + 1] = SwapOf(t)
    <3>1. i + k < Len(q) /\ q[i + k + 1] = SwapOf(t)
      BY <2>1, <2>2 DEF Program
    <3>2. i < Len(s) /\ i + 1 \in 1..Len(s) /\ (i + 1) + k = i + k + 1
      BY <1>1, <1>3, <3>1
    <3>3. s[i + 1] = q[(i + 1) + k]
      BY <1>3, <3>2
    <3>4. QED
      BY <3>1, <3>2, <3>3
  <2>3. ASSUME s[i] = SwapOf(t), i > 1
        PROVE  s[i - 1] \in {ReadOf(t), FileOf(t)}
    <3>1. q[i + k - 1] \in {ReadOf(t), FileOf(t)}
      BY <1>1, <2>1, <2>3 DEF Program
    <3>2. i - 1 \in 1..Len(s) /\ (i - 1) + k = i + k - 1
      BY <1>1, <1>3, <2>3
    <3>3. s[i - 1] = q[(i - 1) + k]
      BY <1>3, <3>2
    <3>4. QED
      BY <3>1, <3>2, <3>3
  <2>4. ASSUME s[i] = ReadOf(t)
        PROVE  \A j \in 1..Len(s) : s[j] \notin {"readMysql", "readPgsql", "fileRules", "fileRewrites"}
    BY <1>3, <1>4, <2>1, <2>4 DEF Program
  <2>5. QED
    BY <2>2, <2>3, <2>4
<1>7. Program(s)
  BY <1>3, <1>5, <1>6 DEF Program
<1>8. QED
  BY <1>2, <1>7

(* Nothing to do. *)
LEMMA IdleIs ==
  /\ Shape(Idle) /\ Idle.todo = <<>> /\ Len(Idle.todo) = 0
  /\ ~Idle.file /\ ~Idle.raced /\ Idle.dirty = {} /\ TodoOf(Idle) = {}
<1>1. Idle.todo = <<>> /\ Idle.snap = {} /\ Idle.dirty = {} /\ Len(Idle.todo) = 0
  BY DEF Idle, Job
<1>2. ~Idle.file /\ ~Idle.raced /\ Idle.file \in BOOLEAN /\ Idle.raced \in BOOLEAN
  BY DEF Idle, Job
<1>3. Idle = [todo |-> Idle.todo, snap |-> Idle.snap, file |-> Idle.file, raced |-> Idle.raced, dirty |-> Idle.dirty]
  BY DEF Idle, Job
<1>4. Program(<<>>)
  BY DEF Program
<1>5. Shape(Idle)
  BY <1>1, <1>2, <1>3, <1>4 DEF Shape
<1>6. QED
  BY <1>1, <1>2, <1>5 DEF TodoOf

(* The steps r are those of q without the first k. *)
Follows(r, q, k) == Len(r) = Len(q) - k /\ \A i \in 1..(Len(q) - k) : r[i] = q[i + k]

(* What is read for the step after the first k of q, if that is a swap. *)
SnapFits(q, k, snap) ==
  /\ k < Len(q) /\ q[k + 1] = "swapRules" => snap \in SUBSET Rule
  /\ k < Len(q) /\ q[k + 1] = "swapRewrites" => snap \in SUBSET Rewrite

(* The next k steps of h are done. *)
LEMMA AdvanceIs ==
  ASSUME NEW jobs, Fit(jobs), NEW h \in Handlers, NEW k \in 1..Len(jobs[h].todo), NEW snap,
         SnapFits(jobs[h].todo, k, snap), NEW j, j = Advance(jobs, h, k, snap)
  PROVE  /\ Fit(j) /\ \A x \in Handlers : x # h => j[x] = jobs[x]
         /\ Follows(j[h].todo, jobs[h].todo, k)
         /\ k < Len(jobs[h].todo) =>
              j[h].snap = snap /\ ~j[h].raced /\ j[h].file = jobs[h].file /\ j[h].dirty = jobs[h].dirty
         /\ k = Len(jobs[h].todo) => j[h] = Idle
<1> DEFINE old == jobs[h]
<1>1. /\ jobs = [x \in Handlers |-> jobs[x]] /\ Shape(old) /\ \A x \in Handlers : Shape(jobs[x])
      /\ Program(old.todo) /\ Len(old.todo) \in Nat /\ k \in Nat
  BY DEF Fit, Shape, Program
<1>2. CASE k = Len(old.todo)
  <2>1. j = [jobs EXCEPT ![h] = Idle]
    BY <1>2 DEF Advance
  <2>2. j = [x \in Handlers |-> j[x]] /\ j[h] = Idle /\ \A x \in Handlers : x # h => j[x] = jobs[x]
    BY <1>1, <2>1
  <2>3. Fit(j)
    BY <1>1, <2>2, IdleIs DEF Fit
  <2>4. Follows(j[h].todo, old.todo, k)
    BY <1>1, <1>2, <2>2, IdleIs DEF Follows
  <2>5. QED
    BY <1>1, <1>2, <2>2, <2>3, <2>4
<1>3. CASE k # Len(old.todo)
  <2> DEFINE y == [todo |-> SubSeq(old.todo, k + 1, Len(old.todo)), snap |-> snap,
                   file |-> old.file, raced |-> FALSE, dirty |-> old.dirty]
  <2>2. j = [jobs EXCEPT ![h] = y]
    BY <1>3 DEF Advance
  <2>3. /\ y.todo = SubSeq(old.todo, k + 1, Len(old.todo)) /\ y.snap = snap /\ y.file = old.file
        /\ y.raced = FALSE /\ y.dirty = old.dirty
        /\ y = [todo |-> y.todo, snap |-> y.snap, file |-> y.file, raced |-> y.raced, dirty |-> y.dirty]
    OBVIOUS
  <2> HIDE DEF y
  <2>4. j = [x \in Handlers |-> j[x]] /\ j[h] = y /\ \A x \in Handlers : x # h => j[x] = jobs[x]
    BY <1>1, <2>2
  <2>5. /\ Program(y.todo) /\ Len(y.todo) = Len(old.todo) - k
        /\ \A i \in 1..(Len(old.todo) - k) : y.todo[i] = old.todo[i + k]
    <3> PICK q : q = old.todo
      OBVIOUS
    <3>1. Program(q) /\ k \in 1..Len(q) /\ y.todo = SubSeq(q, k + 1, Len(q))
      BY <1>1, <2>3
    <3>2. QED
      BY <3>1, RestIsProgram
  <2>6. Len(y.todo) > 0 /\ y.todo # <<>> /\ Head(y.todo) = old.todo[k + 1] /\ k < Len(old.todo)
    <3>1. Len(y.todo) > 0 /\ k < Len(old.todo) /\ 1 \in 1..(Len(old.todo) - k)
      BY <1>1, <1>3, <2>5
    <3>2. y.todo[1] = old.todo[1 + k] /\ y.todo \in Seq(Steps)
      BY <2>5, <3>1 DEF Program
    <3>3. QED
      BY <3>1, <3>2
  <2>7. \A t \in Kinds : \A i \in 1..Len(y.todo) : y.todo[i] = ReadOf(t) => ~y.file
    <3>1. \A i \in 1..Len(y.todo) : i + k \in 1..Len(old.todo) /\ y.todo[i] = old.todo[i + k]
      BY <1>1, <2>5
    <3>2. QED
      BY <1>1, <2>3, <3>1 DEF Shape
  <2>8. /\ y.file \in BOOLEAN /\ y.raced \in BOOLEAN /\ y.dirty \in SUBSET Changes
        /\ (Head(y.todo) = "swapRules" => y.snap \in SUBSET Rule)
        /\ (Head(y.todo) = "swapRewrites" => y.snap \in SUBSET Rewrite)
    BY <1>1, <2>3, <2>6 DEF Shape, SnapFits
  <2>9. Shape(y)
    BY <2>3, <2>5, <2>6, <2>7, <2>8 DEF Shape
  <2>10. Fit(j)
    BY <1>1, <2>4, <2>9 DEF Fit
  <2>11. Follows(j[h].todo, old.todo, k)
    BY <2>4, <2>5 DEF Follows
  <2>12. QED
    BY <1>3, <2>3, <2>4, <2>10, <2>11
<1>4. QED
  BY <1>2, <1>3

(* The first step of a handler that has one. *)
LEMMA FirstIs ==
  ASSUME NEW j, Shape(j), j.todo # <<>>
  PROVE  /\ Len(j.todo) \in Nat \ {0} /\ 1 \in 1..Len(j.todo)
         /\ Head(j.todo) = j.todo[1] /\ Head(j.todo) \in Steps
         /\ Head(j.todo) \in TodoOf(j) /\ Program(j.todo)
<1>1. Program(j.todo) /\ j.todo \in Seq(Steps)
  BY DEF Shape, Program
<1> PICK q : q = j.todo
  OBVIOUS
<1>2. Len(q) \in Nat \ {0} /\ 1 \in 1..Len(q) /\ Head(q) = q[1] /\ q[1] \in Steps
  BY <1>1
<1>3. q[1] \in TodoOf(j)
  BY <1>2 DEF TodoOf
<1>4. QED
  BY <1>1, <1>2, <1>3

(* The same for the jobs of a state. *)
LEMMA HeadIs ==
  ASSUME JobsOK, NEW h \in Handlers, job[h].todo # <<>>
  PROVE  /\ Len(job[h].todo) \in Nat \ {0} /\ 1 \in 1..Len(job[h].todo)
         /\ Head(job[h].todo) = job[h].todo[1] /\ Head(job[h].todo) \in Steps
         /\ Head(job[h].todo) \in Todo(h) /\ Shape(job[h]) /\ Program(job[h].todo)
<1>1. Shape(job[h])
  BY DEF JobsOK, Fit
<1>2. QED
  BY <1>1, FirstIs DEF Todo

(* For table t, handler x did nothing that matters: it has still to read it if it had,
   and swaps in the same if it did. *)
Quiet(x, t) ==
  /\ ReadOf(t) \in Todo(x) => ReadOf(t) \in Todo(x)'
  /\ Swapping(x, t)' <=> Swapping(x, t)
  /\ Swapping(x, t) => job'[x].snap = job[x].snap /\ (~job'[x].raced => ~job[x].raced)

(* Whoever is left alone is quiet. *)
LEMMA QuietAlone ==
  ASSUME NEW x, NEW t, job'[x] = job[x]
  PROVE  Quiet(x, t)
  BY DEF Quiet, Todo, Swapping, At

(* So is who does not swap before or after and loses no reading. *)
LEMMA QuietElsewhere ==
  ASSUME NEW x, NEW t, ReadOf(t) \in Todo(x) => ReadOf(t) \in Todo(x)',
         ~Swapping(x, t), ~Swapping(x, t)'
  PROVE  Quiet(x, t)
  BY DEF Quiet

(* When all are quiet and the table, its rows and the reason stay. *)
LEMMA ForceStays ==
  ASSUME NEW t \in Kinds, ForceAt(t), \A x \in Handlers : Quiet(x, t),
         Active(t)' = Active(t), Shown(t)' = Shown(t), why'[t] = why[t]
  PROVE  ForceAt(t)'
<1> SUFFICES ASSUME ~Pending(t)'
             PROVE  /\ \A h \in Handlers : Swapping(h, t)' /\ ~job'[h].raced =>
                         job'[h].snap = Active(t)' \/ \E k \in Handlers \ {h} : Swapping(k, t)'
                    /\ why'[t] = "store" => Shown(t)' = Active(t)' \/ \E k \in Handlers : Swapping(k, t)'
  BY DEF ForceAt
<1>1. ~Pending(t)
  BY DEF Pending, Quiet
<1>2. /\ \A h \in Handlers : Swapping(h, t) /\ ~job[h].raced =>
           job[h].snap = Active(t) \/ \E k \in Handlers \ {h} : Swapping(k, t)
      /\ why[t] = "store" => Shown(t) = Active(t) \/ \E k \in Handlers : Swapping(k, t)
  BY <1>1 DEF ForceAt
<1>3. \A h \in Handlers : /\ Swapping(h, t)' <=> Swapping(h, t)
                          /\ Swapping(h, t) => job'[h].snap = job[h].snap /\ (~job'[h].raced => ~job[h].raced)
  BY DEF Quiet
<1>4. QED
  BY <1>2, <1>3

(* No export loses a table it has still to read, and a reading of the clock that is still
   to be stored is fresh or was there. *)
Within(d, e) == d \in SUBSET e
Fresh(snap) == snap = {clock}
KeepsStamp(x) ==
  Stamped(x)' => \/ Stamped(x) /\ job'[x].snap = job[x].snap /\ Within(job'[x].dirty, job[x].dirty)
                 \/ Fresh(job'[x].snap)
KeepsTables(x) == (\A y \in Tables : y \in Todo(x) => y \in Todo(x)') /\ KeepsStamp(x)

(* Whoever is left alone keeps what it has to do. *)
LEMMA KeepsAlone ==
  ASSUME NEW x, job'[x] = job[x]
  PROVE  KeepsTables(x)
  BY DEF KeepsTables, KeepsStamp, Within, Todo, Stamped, At

(* So does who only gets a mark. *)
LEMMA KeepsMarked ==
  ASSUME NEW x, job'[x].todo = job[x].todo, job'[x].snap = job[x].snap, job'[x].dirty = job[x].dirty
  PROVE  KeepsTables(x)
  BY DEF KeepsTables, KeepsStamp, Within, Todo, TodoOf, Stamped, At

(* Stamps and confirmed changes stay. *)
LEMMA UnsavedStays ==
  ASSUME UnsavedInv, RestOK, UNCHANGED <<unsaved, newest, export_ts>>,
         \A n \in 0..clock : n \in 0..clock', \A x \in Handlers : KeepsTables(x)
  PROVE  UnsavedInv'
<1>1. \A t \in Tables : Awaited(t) => Awaited(t)'
  BY DEF Awaited, KeepsTables
<1>2. \A t \in unsaved' \cap Tables : newest' >= export_ts' \/ Awaited(t)'
  BY <1>1 DEF UnsavedInv
<1>3. ASSUME NEW h \in Handlers, Stamped(h)', NEW ts \in job'[h].snap
      PROVE  ts \in 0..clock' /\ \A t \in job'[h].dirty \cap Tables : ts >= export_ts' \/ Awaited(t)'
  <2>1. CASE Fresh(job'[h].snap)
    BY <1>3, <2>1 DEF RestOK, Fresh
  <2>2. CASE Stamped(h) /\ job'[h].snap = job[h].snap /\ Within(job'[h].dirty, job[h].dirty)
    <3>1. ts \in 0..clock /\ \A t \in job[h].dirty \cap Tables : ts >= export_ts \/ Awaited(t)
      BY <1>3, <2>2 DEF UnsavedInv
    <3>2. QED
      BY <1>1, <2>2, <3>1 DEF Within
  <2>3. QED
    BY <1>3, <2>1, <2>2 DEF KeepsTables, KeepsStamp
<1>4. QED
  BY <1>2, <1>3 DEF UnsavedInv

(* The first k steps of h are gone. *)
LEMMA TodoLeft ==
  ASSUME JobsOK, NEW h \in Handlers, NEW k \in 1..Len(job[h].todo),
         Follows(job'[h].todo, job[h].todo, k)
  PROVE  /\ Todo(h)' \in SUBSET Todo(h)
         /\ \A y \in Todo(h) : (\A i \in 1..k : y # job[h].todo[i]) => y \in Todo(h)'
<1>0. Len(job[h].todo) \in Nat
  <2>1. Shape(job[h])
    BY DEF JobsOK, Fit
  <2>2. Program(job[h].todo)
    BY <2>1 DEF Shape
  <2>3. QED
    BY <2>2 DEF Program
<1> PICK n \in Nat : n = Len(job[h].todo)
  BY <1>0
<1>1. Todo(h)' \in SUBSET Todo(h)
  BY DEF Todo, TodoOf, Follows
<1>2. ASSUME NEW i \in 1..n, \A l \in 1..k : job[h].todo[i] # job[h].todo[l]
      PROVE  job[h].todo[i] \in Todo(h)'
  <2>1. i > k
    BY <1>2
  <2>2. i - k \in 1..(n - k) /\ (i - k) + k = i
    BY <2>1
  <2>3. job'[h].todo[i - k] = job[h].todo[i] /\ Len(job'[h].todo) = n - k
    BY <2>2 DEF Follows
  <2>4. QED
    BY <2>2, <2>3 DEF Todo, TodoOf
<1>3. QED
  BY <1>1, <1>2 DEF Todo, TodoOf

Special == {"readRules", "readRewrites", "swapRules", "swapRewrites", "fileRules", "fileRewrites"}

(* Handler h has done k steps, the last of which neither reads nor is about to swap
   table t, and is then not about to swap it either. *)
LEMMA NoSwapNext ==
  ASSUME NEW q, Program(q), NEW k \in 1..Len(q), NEW t \in Kinds, q[k] \notin {ReadOf(t), FileOf(t)},
         NEW j, Shape(j), Follows(j.todo, q, k)
  PROVE  ~(j.todo # <<>> /\ Head(j.todo) = SwapOf(t))
<1> SUFFICES ASSUME j.todo # <<>>, Head(j.todo) = SwapOf(t)
             PROVE  FALSE
  OBVIOUS
<1>1. Len(j.todo) \in Nat \ {0} /\ Head(j.todo) = j.todo[1] /\ Len(q) \in Nat /\ k \in Nat
  BY FirstIs DEF Program
<1>2. 1 \in 1..(Len(q) - k) /\ k + 1 \in 1..Len(q) /\ k + 1 > 1 /\ (k + 1) - 1 = k /\ 1 + k = k + 1
  BY <1>1 DEF Follows
<1>3. q[k + 1] = SwapOf(t)
  BY <1>1, <1>2 DEF Follows
<1>4. QED
  BY <1>2, <1>3 DEF Program

(* The step after one that does not read the clock stores no time. *)
LEMMA NoStampNext ==
  ASSUME NEW q, Program(q), NEW k \in 1..Len(q), q[k] # "stamp", NEW j, Shape(j), Follows(j.todo, q, k)
  PROVE  ~(j.todo # <<>> /\ Head(j.todo) \in {"bump", "mark"})
<1> SUFFICES ASSUME j.todo # <<>>, Head(j.todo) \in {"bump", "mark"}
             PROVE  FALSE
  OBVIOUS
<1>1. Len(j.todo) \in Nat \ {0} /\ Head(j.todo) = j.todo[1] /\ Len(q) \in Nat /\ k \in Nat
  BY FirstIs DEF Program
<1>2. 1 \in 1..(Len(q) - k) /\ k + 1 \in 1..Len(q) /\ k + 1 > 1 /\ (k + 1) - 1 = k /\ 1 + k = k + 1
  BY <1>1 DEF Follows
<1>3. q[k + 1] \in {"bump", "mark"}
  BY <1>1, <1>2 DEF Follows
<1>4. QED
  BY <1>2, <1>3 DEF Program

(* The next step of h is done: it is idle then, or has what was read. *)
LEMMA AdvanceOnce ==
  ASSUME JobsOK, NEW h \in Handlers, 1 \in 1..Len(job[h].todo), NEW snap,
         SnapFits(job[h].todo, 1, snap), NEW j, j = Advance(job, h, 1, snap)
  PROVE  /\ Fit(j) /\ \A x \in Handlers : x # h => j[x] = job[x]
         /\ Follows(j[h].todo, job[h].todo, 1)
         /\ j[h].snap = snap \/ j[h] = Idle
<1>1. /\ Fit(j) /\ \A x \in Handlers : x # h => j[x] = job[x]
      /\ Follows(j[h].todo, job[h].todo, 1)
  BY AdvanceIs DEF JobsOK
<1>2. CASE 1 < Len(job[h].todo)
  <2>1. j[h].snap = snap
    BY <1>2, AdvanceIs DEF JobsOK
  <2>2. QED
    BY <1>1, <2>1
<1>3. CASE 1 = Len(job[h].todo)
  <2>1. j = [job EXCEPT ![h] = Idle] /\ job = [x \in Handlers |-> job[x]]
    BY <1>3 DEF Advance, JobsOK, Fit
  <2>2. j[h] = Idle
    BY <2>1
  <2>3. QED
    BY <1>1, <2>2
<1>4. Len(job[h].todo) \in Nat
  <2>1. Shape(job[h])
    BY DEF JobsOK, Fit
  <2>2. Program(job[h].todo)
    BY <2>1 DEF Shape
  <2>3. QED
    BY <2>2 DEF Program
<1>5. \A n \in Nat : 1 \in 1..n => 1 < n \/ 1 = n
  OBVIOUS
<1>6. QED
  BY <1>2, <1>3, <1>4, <1>5

(* A step that has nothing to do with the rules and the rewrite rules. *)
LEMMA PlainStep ==
  ASSUME JobsOK, NEW h \in Handlers, job[h].todo # <<>>, Head(job[h].todo) \notin Special,
         NEW snap, Head(job[h].todo) = "stamp" => Fresh(snap), NEW j, j = Advance(job, h, 1, snap),
         \A x \in Handlers : /\ job'[x].todo = j[x].todo /\ job'[x].snap = j[x].snap
                             /\ job'[x].file = j[x].file /\ job'[x].raced = j[x].raced
                             /\ Within(job'[x].dirty, j[x].dirty)
  PROVE  /\ Fit(j) /\ \A x \in Handlers : \A t \in Kinds : Quiet(x, t)
         /\ \A x \in Handlers : \A y \in Tables : y \in Todo(x) /\ y # Head(job[h].todo) => y \in Todo(x)'
         /\ \A x \in Handlers : KeepsStamp(x)
<1> PICK q : q = job[h].todo
  OBVIOUS
<1>1. Len(q) \in Nat \ {0} /\ 1 \in 1..Len(q) /\ Head(q) = q[1] /\ Program(q) /\ Fit(job)
  BY HeadIs DEF JobsOK
<1>2. SnapFits(q, 1, snap)
  <2> SUFFICES ASSUME 1 < Len(q)
               PROVE  q[1 + 1] \notin {"swapRules", "swapRewrites"}
    BY DEF SnapFits
  <2>1. 1 + 1 \in 1..Len(q) /\ 1 + 1 > 1 /\ (1 + 1) - 1 = 1
    BY <1>1
  <2>2. \A t \in Kinds : q[1 + 1] = SwapOf(t) => q[1] \in {ReadOf(t), FileOf(t)}
    BY <1>1, <2>1 DEF Program
  <2>3. \A t \in Kinds : q[1 + 1] # SwapOf(t)
    BY <1>1, <2>2 DEF Special, ReadOf, FileOf, Kinds
  <2>4. QED
    BY <2>3 DEF SwapOf, Kinds
<1>3. /\ Fit(j) /\ \A x \in Handlers : x # h => j[x] = job[x]
      /\ Follows(j[h].todo, q, 1) /\ (j[h].snap = snap \/ j[h] = Idle)
  <2>1. 1 \in 1..Len(job[h].todo) /\ SnapFits(job[h].todo, 1, snap)
    BY <1>1, <1>2
  <2>2. /\ Fit(j) /\ \A x \in Handlers : x # h => j[x] = job[x]
        /\ Follows(j[h].todo, job[h].todo, 1)
        /\ j[h].snap = snap \/ j[h] = Idle
    BY <2>1, AdvanceOnce
  <2>3. QED
    BY <2>2
<1>4. Shape(j[h])
  BY <1>3 DEF Fit
<1>5. \A y \in Todo(h) : y # q[1] => y \in Todo(h)'
  <2>1. Follows(job'[h].todo, q, 1)
    BY <1>3
  <2>2. 1..1 = {1}
    OBVIOUS
  <2>3. QED
    BY <1>1, <2>1, <2>2, TodoLeft
<1>6. ASSUME NEW t \in Kinds
      PROVE  Quiet(h, t)
  <2>1. q[1] \notin {ReadOf(t), FileOf(t), SwapOf(t)}
    BY <1>1 DEF Special, ReadOf, FileOf, SwapOf, Kinds
  <2>2. ~Swapping(h, t)
    BY <1>1, <2>1 DEF Swapping, At
  <2>3. ~(j[h].todo # <<>> /\ Head(j[h].todo) = SwapOf(t))
    BY <1>1, <1>3, <1>4, <2>1, NoSwapNext
  <2>4. ~Swapping(h, t)'
    BY <2>3 DEF Swapping, At
  <2>5. QED
    BY <1>5, <2>1, <2>2, <2>4, QuietElsewhere
<1>7. ASSUME NEW x \in Handlers, x # h
      PROVE  /\ \A t \in Kinds : Quiet(x, t)
             /\ Todo(x)' = Todo(x)
  <2>1. /\ job'[x].todo = job[x].todo /\ job'[x].snap = job[x].snap
        /\ job'[x].file = job[x].file /\ job'[x].raced = job[x].raced
    BY <1>3, <1>7
  <2>2. Todo(x)' = Todo(x)
    BY <2>1 DEF Todo, TodoOf
  <2>3. \A t \in Kinds : Swapping(x, t)' <=> Swapping(x, t)
    BY <2>1 DEF Swapping, At
  <2>4. QED
    BY <2>1, <2>2, <2>3 DEF Quiet
<1>8. ASSUME NEW x \in Handlers
      PROVE  KeepsStamp(x)
  <2>1. CASE x # h
    BY <1>3, <2>1 DEF KeepsStamp, Stamped, At
  <2>2. CASE x = h
    <3> SUFFICES ASSUME Stamped(h)'
                 PROVE  Fresh(j[h].snap)
      BY <2>2 DEF KeepsStamp
    <3>1. j[h].todo # <<>> /\ Head(j[h].todo) \in {"bump", "mark"}
      BY DEF Stamped, At
    <3>2. q[1] = "stamp"
      BY <1>1, <1>3, <1>4, <3>1, NoStampNext
    <3>3. j[h] # Idle
      BY <3>1, IdleIs
    <3>4. QED
      BY <1>1, <1>3, <3>2, <3>3
  <2>3. QED
    BY <2>1, <2>2
<1>9. QED
  BY <1>1, <1>3, <1>5, <1>6, <1>7, <1>8

(* One step, and two. *)
LEMMA ShortPrograms ==
  /\ Program(<<"stamp", "bump">>)
  /\ Program(<<"fileRules", "swapRules">>)
  /\ Program(<<"writeAll", "swapMysql">>)
  BY DEF Program, Kinds, Steps, Tables, ReadOf, FileOf, SwapOf

(* A table of the store is written and put in force. *)
LEMMA WritePrograms ==
  /\ Program(<<"readRules", "swapRules", "stamp", "bump">>)
  /\ Program(<<"readRewrites", "swapRewrites", "stamp", "bump">>)
  /\ Program(<<"readMysql", "writeMysql", "swapMysql", "stamp", "bump">>)
  /\ Program(<<"readPgsql", "writePgsql", "swapPgsql", "stamp", "bump">>)
<1>1. Program(<<"readRules", "swapRules", "stamp", "bump">>)
  BY DEF Program, Kinds, Steps, Tables, ReadOf, FileOf, SwapOf
<1>2. Program(<<"readRewrites", "swapRewrites", "stamp", "bump">>)
  BY DEF Program, Kinds, Steps, Tables, ReadOf, FileOf, SwapOf
<1>3. Program(<<"readMysql", "writeMysql", "swapMysql", "stamp", "bump">>)
  BY DEF Program, Kinds, Steps, Tables, ReadOf, FileOf, SwapOf
<1>4. Program(<<"readPgsql", "writePgsql", "swapPgsql", "stamp", "bump">>)
  BY DEF Program, Kinds, Steps, Tables, ReadOf, FileOf, SwapOf
<1>5. QED
  BY <1>1, <1>2, <1>3, <1>4

(* Export, import, and the reload of the file. *)
LEMMA LongPrograms ==
  /\ Program(<<"mark", "rules", "rewrites", "backends", "users">>)
  /\ Program(<<"fileRules", "swapRules", "fileRewrites", "swapRewrites">>)
  /\ Program(<<"readRules", "swapRules", "readRewrites", "swapRewrites", "reply">>)
<1>1. Program(<<"mark", "rules", "rewrites", "backends", "users">>)
  BY DEF Program, Kinds, Steps, Tables, ReadOf, FileOf, SwapOf
<1>2. Program(<<"fileRules", "swapRules", "fileRewrites", "swapRewrites">>)
  BY DEF Program, Kinds, Steps, Tables, ReadOf, FileOf, SwapOf
<1>3. Program(<<"readRules", "swapRules", "readRewrites", "swapRewrites", "reply">>)
  BY DEF Program, Kinds, Steps, Tables, ReadOf, FileOf, SwapOf
<1>4. QED
  BY <1>1, <1>2, <1>3

(* A handler that has just begun, with y to do. *)
LEMMA Begins ==
  ASSUME JobsOK, NEW h \in Handlers, job[h] = Idle, NEW y, Shape(y),
         y.todo # <<>>, Head(y.todo) \notin {"swapRules", "swapRewrites", "bump"},
         Head(y.todo) = "mark" => Fresh(y.snap), job' = [job EXCEPT ![h] = y]
  PROVE  /\ JobsOK' /\ job'[h] = y /\ \A x \in Handlers : x # h => job'[x] = job[x]
         /\ \A x \in Handlers : KeepsTables(x) /\ \A t \in Kinds : Quiet(x, t)
<1>1. job = [x \in Handlers |-> job[x]] /\ \A x \in Handlers : Shape(job[x])
  BY DEF JobsOK, Fit
<1>2. /\ job' = [x \in Handlers |-> job'[x]] /\ job'[h] = y
      /\ \A x \in Handlers : x # h => job'[x] = job[x]
  BY <1>1
<1>3. JobsOK'
  BY <1>1, <1>2 DEF JobsOK, Fit
<1>4. \A x \in Handlers : x # h => KeepsTables(x) /\ \A t \in Kinds : Quiet(x, t)
  <2>1. \A x \in Handlers : x # h => \A t \in Kinds : Quiet(x, t)
    BY <1>2, QuietAlone
  <2>2. \A x \in Handlers : x # h => KeepsTables(x)
    BY <1>2, KeepsAlone
  <2>3. QED
    BY <2>1, <2>2
<1>5. Todo(h) = {} /\ job[h].todo = <<>>
  BY IdleIs DEF Todo
<1>6. KeepsTables(h)
  BY <1>2, <1>5 DEF KeepsTables, KeepsStamp, Stamped, At
<1>7. ASSUME NEW t \in Kinds
      PROVE  Quiet(h, t)
  <2>1. ~Swapping(h, t)
    BY <1>5 DEF Swapping, At
  <2>2. ~Swapping(h, t)'
    BY <1>2 DEF Swapping, At, SwapOf, Kinds
  <2>3. QED
    BY <1>5, <2>1, <2>2, QuietElsewhere
<1>8. QED
  BY <1>2, <1>3, <1>4, <1>6, <1>7

-----------------------------------------------------------------------------
(***************************************************************************)
(* Handlers arrive.                                                        *)
(***************************************************************************)

(* The engines are left alone. *)
LEMMA EngineSame ==
  ASSUME EngineInv, UNCHANGED engineVars
  PROVE  EngineInv' /\ InForce' = InForce /\ rewriter' = rewriter
<1>1. sets' = sets /\ caller' = caller /\ rewriter' = rewriter
  BY DEF engineVars
<1>2. SetsOK' /\ InForce' = InForce
  BY <1>1 DEF EngineInv, SetsOK, InForce
<1>3. CallersOK'
  BY <1>1 DEF EngineInv, CallersOK
<1>4. CreditInv'
  <2>1. \A g, r : Undoing(g, r)' = Undoing(g, r)
    BY <1>1 DEF Undoing
  <2>2. QED
    BY <1>1, <2>1 DEF EngineInv, CreditInv
<1>5. QED
  BY <1>1, <1>2, <1>3, <1>4 DEF EngineInv

(* As long as somebody has still to read the table, nothing is claimed. *)
LEMMA ForcePending ==
  ASSUME NEW t, NEW h \in Handlers, ReadOf(t) \in Todo(h)'
  PROVE  ForceAt(t)'
  BY DEF ForceAt, Pending

(* A handler that has just begun. *)
LEMMA JobIs ==
  ASSUME NEW todo, Program(todo), Len(todo) > 0, todo[1] \notin {"swapRules", "swapRewrites", "bump"}, NEW snap,
         NEW dirty \in SUBSET Changes
  PROVE  /\ Shape(Job(todo, snap, dirty)) /\ Job(todo, snap, dirty).todo = todo
         /\ todo # <<>> /\ Head(todo) = todo[1] /\ Head(todo) \notin {"swapRules", "swapRewrites", "bump"}
         /\ Job(todo, snap, dirty).snap = snap
<1> PICK y : y = Job(todo, snap, dirty)
  OBVIOUS
<1>1. /\ y.todo = todo /\ y.snap = snap /\ y.dirty = dirty /\ ~y.file /\ y.file \in BOOLEAN /\ y.raced \in BOOLEAN
      /\ y = [todo |-> y.todo, snap |-> y.snap, file |-> y.file, raced |-> y.raced, dirty |-> y.dirty]
  BY DEF Job
<1>2. todo # <<>> /\ Head(todo) = todo[1] /\ Head(todo) \notin {"swapRules", "swapRewrites", "bump"}
  <2>1. todo \in Seq(Steps)
    BY DEF Program
  <2>2. QED
    BY <2>1
<1>3. Shape(y)
  BY <1>1, <1>2 DEF Shape
<1>4. QED
  BY <1>1, <1>2, <1>3

(* What Begin does. *)
LEMMA BeginIs ==
  ASSUME JobsOK, NEW h \in Handlers, NEW todo, Program(todo), Len(todo) > 0,
         todo[1] \notin {"swapRules", "swapRewrites", "bump"}, NEW snap, NEW dirty \in SUBSET Changes,
         todo[1] = "mark" => Fresh(snap),
         Begin(h, todo, snap, dirty)
  PROVE  /\ JobsOK' /\ job'[h].todo = todo
         /\ \A x \in Handlers : KeepsTables(x) /\ \A t \in Kinds : Quiet(x, t)
         /\ UNCHANGED <<clock, engineVars, file, mutation_ts, newest, unsaved>>
<1> PICK y : y = Job(todo, snap, dirty)
  OBVIOUS
<1>1. /\ job[h] = Idle /\ UNCHANGED <<clock, engineVars, file, mutation_ts, newest, unsaved>>
      /\ job' = [job EXCEPT ![h] = y]
  BY DEF Begin
<1>2. /\ Shape(y) /\ y.todo = todo /\ todo # <<>> /\ y.snap = snap /\ Head(todo) = todo[1]
      /\ Head(todo) \notin {"swapRules", "swapRewrites", "bump"}
  BY JobIs
<1>3. QED
  BY <1>1, <1>2, Begins

(* The rows of a table, one table at a time. *)
GoodRewrite == [name : STRING, ok : {TRUE}, block : BOOLEAN, on : BOOLEAN]

(* The tables one by one. *)
LEMMA StoreIs ==
  ASSUME StoreOK
  PROVE  /\ store = [rules |-> store.rules, rewrites |-> store.rewrites,
                     backends |-> store.backends, users |-> store.users]
         /\ store.rules \in SUBSET RuleRow /\ store.rewrites \in SUBSET GoodRewrite
         /\ store.backends \in [Protocols -> Seq(BackendRow)] /\ store.users \in SUBSET UserRow
  BY DEF StoreOK, GoodRewrite

(* The engines, the file, the stamps and the reasons stay when a handler begins to write. *)
LEMMA RestStays ==
  ASSUME RestOK, UNCHANGED <<clock, engineVars, file, mutation_ts, newest, unsaved, export_ts, why>>
  PROVE  RestOK'
  BY DEF RestOK, engineVars

(* A row is written to the rules. *)
LEMMA WriteRulesKeeps ==
  ASSUME IInv, NEW h \in Handlers, NEW rows \in SUBSET RuleRow, WriteRules(h, rows)
  PROVE  IInv'
<1> DEFINE todo == <<"readRules", "swapRules", "stamp", "bump">>
<1>1. /\ EngineInv /\ JobsOK /\ StoreOK /\ RestOK /\ UnsavedInv /\ ForceInv
      /\ Begin(h, todo, {}, {"rules"}) /\ store' = [store EXCEPT !.rules = rows]
      /\ UNCHANGED <<export_ts, why>>
  BY DEF IInv, WriteRules
<1>2. Program(todo) /\ Len(todo) > 0 /\ todo[1] = "readRules" /\ {"rules"} \in SUBSET Changes
  BY WritePrograms DEF Tables, Changes
<1> HIDE DEF todo
<1>3. /\ JobsOK' /\ job'[h].todo = todo
      /\ \A x \in Handlers : KeepsTables(x) /\ \A t \in Kinds : Quiet(x, t)
      /\ UNCHANGED <<clock, engineVars, file, mutation_ts, newest, unsaved>>
  BY <1>1, <1>2, BeginIs
<1>4. EngineInv' /\ InForce' = InForce /\ rewriter' = rewriter
  BY <1>1, <1>3, EngineSame
<1>5. StoreOK' /\ store'.rewrites = store.rewrites
  BY <1>1 DEF StoreOK
<1>6. RestOK'
  BY <1>1, <1>3, RestStays
<1>7. UnsavedInv'
  BY <1>1, <1>3, UnsavedStays
<1>8. ForceAt("rules")'
  <2>1. ReadOf("rules") \in Todo(h)'
    BY <1>2, <1>3 DEF Todo, TodoOf, ReadOf
  <2>2. QED
    BY <2>1, ForcePending
<1>9. ForceAt("rewrites")'
  <2>1. Active("rewrites")' = Active("rewrites") /\ Shown("rewrites")' = Shown("rewrites")
    BY <1>4, <1>5 DEF Active, Shown
  <2>2. QED
    BY <1>1, <1>3, <2>1, ForceStays DEF ForceInv, Kinds
<1>10. QED
  BY <1>3, <1>4, <1>5, <1>6, <1>7, <1>8, <1>9 DEF IInv, ForceInv, Kinds

(* A row is written to the rewrite rules. *)
LEMMA WriteRewritesKeeps ==
  ASSUME IInv, NEW h \in Handlers, NEW rows \in SUBSET GoodRewrite, WriteRewrites(h, rows)
  PROVE  IInv'
<1> DEFINE todo == <<"readRewrites", "swapRewrites", "stamp", "bump">>
<1>1. /\ EngineInv /\ JobsOK /\ StoreOK /\ RestOK /\ UnsavedInv /\ ForceInv
      /\ Begin(h, todo, {}, {"rewrites"}) /\ store' = [store EXCEPT !.rewrites = rows]
      /\ UNCHANGED <<export_ts, why>>
  BY DEF IInv, WriteRewrites
<1>2. Program(todo) /\ Len(todo) > 0 /\ todo[1] = "readRewrites" /\ {"rewrites"} \in SUBSET Changes
  BY WritePrograms DEF Tables, Changes
<1> HIDE DEF todo
<1>3. /\ JobsOK' /\ job'[h].todo = todo
      /\ \A x \in Handlers : KeepsTables(x) /\ \A t \in Kinds : Quiet(x, t)
      /\ UNCHANGED <<clock, engineVars, file, mutation_ts, newest, unsaved>>
  BY <1>1, <1>2, BeginIs
<1>4. EngineInv' /\ InForce' = InForce /\ rewriter' = rewriter
  BY <1>1, <1>3, EngineSame
<1>5. StoreOK' /\ store'.rules = store.rules
  BY <1>1 DEF StoreOK, GoodRewrite
<1>6. RestOK'
  BY <1>1, <1>3, RestStays
<1>7. UnsavedInv'
  BY <1>1, <1>3, UnsavedStays
<1>8. ForceAt("rewrites")'
  <2>1. ReadOf("rewrites") \in Todo(h)'
    BY <1>2, <1>3 DEF Todo, TodoOf, ReadOf
  <2>2. QED
    BY <2>1, ForcePending
<1>9. ForceAt("rules")'
  <2>1. Active("rules")' = Active("rules") /\ Shown("rules")' = Shown("rules")
    BY <1>4, <1>5 DEF Active, Shown
  <2>2. QED
    BY <1>1, <1>3, <2>1, ForceStays DEF ForceInv, Kinds
<1>10. QED
  BY <1>3, <1>4, <1>5, <1>6, <1>7, <1>8, <1>9 DEF IInv, ForceInv, Kinds

(* A handler begins that leaves the rules and the rewrite rules of the store alone. *)
LEMMA OtherBegins ==
  ASSUME IInv, NEW h \in Handlers, NEW todo, Program(todo), Len(todo) > 0,
         todo[1] \notin {"swapRules", "swapRewrites", "bump"}, NEW snap, NEW dirty \in SUBSET Changes,
         todo[1] = "mark" => Fresh(snap),
         Begin(h, todo, snap, dirty), StoreOK', store'.rules = store.rules,
         store'.rewrites = store.rewrites, UNCHANGED <<export_ts, why>>
  PROVE  IInv'
<1>1. EngineInv /\ JobsOK /\ StoreOK /\ RestOK /\ UnsavedInv /\ ForceInv
  BY DEF IInv
<1>2. /\ JobsOK' /\ \A x \in Handlers : KeepsTables(x) /\ \A t \in Kinds : Quiet(x, t)
      /\ UNCHANGED <<clock, engineVars, file, mutation_ts, newest, unsaved>>
  BY <1>1, BeginIs
<1>3. EngineInv' /\ InForce' = InForce /\ rewriter' = rewriter
  BY <1>1, <1>2, EngineSame
<1>4. RestOK'
  BY <1>1, <1>2, RestStays
<1>5. UnsavedInv'
  BY <1>1, <1>2, UnsavedStays
<1>6. ASSUME NEW t \in Kinds
      PROVE  ForceAt(t)'
  <2>1. Active(t)' = Active(t) /\ Shown(t)' = Shown(t)
    BY <1>3 DEF Active, Shown
  <2>2. QED
    BY <1>1, <1>2, <2>1, ForceStays DEF ForceInv
<1>7. QED
  BY <1>2, <1>3, <1>4, <1>5, <1>6 DEF IInv, ForceInv

(* A row is written to the backends. *)
LEMMA WriteBackendsKeeps ==
  ASSUME IInv, NEW h \in Handlers, NEW p \in Protocols, NEW rows \in Seq(BackendRow), WriteBackends(h, p, rows)
  PROVE  IInv'
<1>1. /\ Begin(h, ApplyBackends(p), {}, {IF p = "mysql" THEN "backends" ELSE "pgsql"})
      /\ store' = [store EXCEPT !.backends[p] = rows] /\ UNCHANGED <<export_ts, why>>
  BY DEF WriteBackends
<1>2. /\ store = [rules |-> store.rules, rewrites |-> store.rewrites,
                  backends |-> store.backends, users |-> store.users]
      /\ store.rules \in SUBSET RuleRow /\ store.rewrites \in SUBSET GoodRewrite
      /\ store.backends \in [Protocols -> Seq(BackendRow)] /\ store.users \in SUBSET UserRow
  BY StoreIs DEF IInv
<1>3. [store.backends EXCEPT ![p] = rows] \in [Protocols -> Seq(BackendRow)]
  BY <1>2
<1>4. StoreOK' /\ store'.rules = store.rules /\ store'.rewrites = store.rewrites
  BY <1>1, <1>2, <1>3 DEF StoreOK, GoodRewrite
<1>5. /\ Program(ApplyBackends(p)) /\ Len(ApplyBackends(p)) > 0
      /\ ApplyBackends(p)[1] \notin {"swapRules", "swapRewrites", "bump", "mark"}
  BY WritePrograms DEF ApplyBackends
<1>6. {IF p = "mysql" THEN "backends" ELSE "pgsql"} \in SUBSET Changes
  BY DEF Tables, Changes
<1>7. QED
  BY <1>1, <1>4, <1>5, <1>6, OtherBegins

(* A row is written to the users. *)
LEMMA WriteUsersKeeps ==
  ASSUME IInv, NEW h \in Handlers, NEW rows \in SUBSET UserRow, WriteUsers(h, rows)
  PROVE  IInv'
<1>1. /\ Begin(h, <<"stamp", "bump">>, {}, {"users"})
      /\ store' = [store EXCEPT !.users = rows] /\ UNCHANGED <<export_ts, why>>
  BY DEF WriteUsers
<1>2. StoreOK' /\ store'.rules = store.rules /\ store'.rewrites = store.rewrites
  BY <1>1 DEF IInv, StoreOK
<1>3. /\ Program(<<"stamp", "bump">>) /\ Len(<<"stamp", "bump">>) > 0 /\ <<"stamp", "bump">>[1] = "stamp"
      /\ {"users"} \in SUBSET Changes
  BY ShortPrograms DEF Tables, Changes
<1>4. QED
  BY <1>1, <1>2, <1>3, OtherBegins

(* The handlers of the dashboard that write rows. *)
LEMMA RowsKeep ==
  ASSUME IInv, NEW h \in Handlers,
         RuleHandler(h) \/ RewriteHandler(h) \/ BackendHandler(h) \/ UserHandler(h)
  PROVE  IInv'
<1>1. /\ store.rules \in SUBSET RuleRow /\ store.rewrites \in SUBSET GoodRewrite
      /\ store.backends \in [Protocols -> Seq(BackendRow)] /\ store.users \in SUBSET UserRow
  BY StoreIs DEF IInv
<1>2. /\ RuleRows \subseteq RuleRow /\ RewriteRows \subseteq RewriteRow
      /\ BackendRows \subseteq BackendRow /\ UserRows \subseteq UserRow
  BY RowsAssumption
<1>3. CASE RuleHandler(h)
  <2>1. PICK rows \in SUBSET RuleRow : WriteRules(h, rows)
    <3>1. \A old, row \in RuleRows : Replaced(store.rules, old, row) \in SUBSET RuleRow
      BY <1>1, <1>2 DEF Replaced
    <3>2. \A row \in RuleRows :
            store.rules \cup {row} \in SUBSET RuleRow /\ store.rules \ {row} \in SUBSET RuleRow
      BY <1>1, <1>2
    <3>3. QED
      BY <1>3, <3>1, <3>2 DEF RuleHandler, CreateRule, UpdateRule, DeleteRule
  <2>2. QED
    BY <2>1, WriteRulesKeeps
<1>4. CASE RewriteHandler(h)
  <2>1. PICK rows \in SUBSET GoodRewrite : WriteRewrites(h, rows)
    <3>1. \A row \in RewriteRows : row.ok => row \in GoodRewrite
      BY <1>2 DEF RewriteRow, GoodRewrite
    <3>2. \A old, row \in RewriteRows : row.ok => Replaced(store.rewrites, old, row) \in SUBSET GoodRewrite
      BY <1>1, <3>1 DEF Replaced
    <3>3. \A row \in RewriteRows : /\ row.ok => store.rewrites \cup {row} \in SUBSET GoodRewrite
                                   /\ store.rewrites \ {row} \in SUBSET GoodRewrite
      BY <1>1, <3>1
    <3>4. QED
      BY <1>4, <3>2, <3>3 DEF RewriteHandler, CreateRewrite, UpdateRewrite, DeleteRewrite
  <2>2. QED
    BY <2>1, WriteRewritesKeeps
<1>5. CASE UserHandler(h)
  <2>1. PICK rows \in SUBSET UserRow : WriteUsers(h, rows)
    <3>1. \A old, row \in UserRows : Replaced(store.users, old, row) \in SUBSET UserRow
      BY <1>1, <1>2 DEF Replaced
    <3>2. \A row \in UserRows :
            store.users \cup {row} \in SUBSET UserRow /\ store.users \ {row} \in SUBSET UserRow
      BY <1>1, <1>2
    <3>3. QED
      BY <1>5, <3>1, <3>2 DEF UserHandler, CreateUser, UpdateUser, DeleteUser
  <2>2. QED
    BY <2>1, WriteUsersKeeps
<1>6. CASE BackendHandler(h)
  <2>1. PICK p \in Protocols :
          \/ \E row \in BackendRows : CreateBackend(h, p, row) \/ \E i \in 1..2 : UpdateBackend(h, p, i, row)
          \/ \E i \in 1..2 : DeleteBackend(h, p, i)
    BY <1>6 DEF BackendHandler
  <2>2. PICK q \in Seq(BackendRow) : q = store.backends[p]
    BY <1>1
  <2>3. \A row \in BackendRows : Append(q, row) \in Seq(BackendRow)
    BY <1>2, <2>2
  <2>4. \A row \in BackendRows : \A i \in DOMAIN q : [q EXCEPT ![i] = row] \in Seq(BackendRow)
    BY <1>2, <2>2, ExceptSeq
  <2>5. \A i \in DOMAIN q : RemoveAt(q, i) \in Seq(BackendRow)
    <3> TAKE i \in DOMAIN q
    <3>1. i \in 1..Len(q) /\ Len(q) \in Nat
      BY <2>2
    <3>2. SubSeq(q, 1, i - 1) \in Seq(BackendRow) /\ SubSeq(q, i + 1, Len(q)) \in Seq(BackendRow)
      BY <2>2, <3>1, SubSeqProperties
    <3>3. QED
      BY <3>2, ConcatProperties DEF RemoveAt
  <2>6. PICK rows \in Seq(BackendRow) : WriteBackends(h, p, rows)
    BY <2>1, <2>2, <2>3, <2>4, <2>5 DEF CreateBackend, UpdateBackend, DeleteBackend
  <2>7. QED
    BY <2>6, WriteBackendsKeeps
<1>7. QED
  BY <1>3, <1>4, <1>5, <1>6

(* The reloads and the copy of a peer's backends. *)
LEMMA ReloadsKeep ==
  ASSUME IInv, NEW h \in Handlers,
         ReloadRules(h) \/ ReloadConfig(h) \/ ReloadBackends(h) \/ \E f \in Files : ClusterSync(h, f)
  PROVE  IInv'
<1>1. store' = store /\ UNCHANGED <<export_ts, why>>
  BY DEF ReloadRules, ReloadConfig, ReloadBackends, ClusterSync
<1>2. StoreOK' /\ store'.rules = store.rules /\ store'.rewrites = store.rewrites
  BY <1>1 DEF IInv, StoreOK
<1> DEFINE a == <<"fileRules", "swapRules">>
           b == <<"fileRules", "swapRules", "fileRewrites", "swapRewrites">>
           c == <<"writeAll", "swapMysql">>
<1>3. /\ Program(a) /\ Len(a) > 0 /\ a[1] \notin {"swapRules", "swapRewrites", "bump", "mark"}
      /\ Program(b) /\ Len(b) > 0 /\ b[1] \notin {"swapRules", "swapRewrites", "bump", "mark"}
      /\ Program(c) /\ Len(c) > 0 /\ c[1] \notin {"swapRules", "swapRewrites", "bump", "mark"}
  BY ShortPrograms, LongPrograms
<1>4. \E todo \in {a, b, c} : \E snap : Begin(h, todo, snap, {})
  BY DEF ReloadRules, ReloadConfig, ReloadBackends, ClusterSync
<1> HIDE DEF a, b, c
<1>5. PICK todo, snap : /\ Program(todo) /\ Len(todo) > 0
                        /\ todo[1] \notin {"swapRules", "swapRewrites", "bump", "mark"}
                        /\ Begin(h, todo, snap, {})
  BY <1>3, <1>4
<1>6. {} \in SUBSET Changes
  OBVIOUS
<1>7. QED
  BY <1>1, <1>2, <1>5, <1>6, OtherBegins

(* An export begins: it has read the clock, and will read every table. *)
LEMMA ExportStartKeeps ==
  ASSUME IInv, NEW h \in Handlers, ExportStart(h)
  PROVE  IInv'
<1> DEFINE todo == <<"mark", "rules", "rewrites", "backends", "users">>
<1>1. Begin(h, todo, {clock}, {}) /\ UNCHANGED <<store, why, export_ts>>
  BY DEF ExportStart
<1>2. /\ Program(todo) /\ Len(todo) > 0 /\ todo[1] \notin {"swapRules", "swapRewrites", "bump"}
      /\ {} \in SUBSET Changes
  BY LongPrograms
<1> HIDE DEF todo
<1>3. StoreOK' /\ store'.rules = store.rules /\ store'.rewrites = store.rewrites
  BY <1>1 DEF IInv, StoreOK
<1>4. Fresh({clock})
  BY DEF Fresh
<1>5. QED
  BY <1>1, <1>2, <1>3, <1>4, OtherBegins

(* Who has read table t is marked. *)
LEMMA OvertakenIs ==
  ASSUME NEW jobs, Fit(jobs), NEW t \in Kinds, NEW j, j = Overtaken(jobs, t)
  PROVE  /\ Fit(j)
         /\ \A x \in Handlers :
              /\ j[x].todo = jobs[x].todo /\ j[x].snap = jobs[x].snap /\ j[x].dirty = jobs[x].dirty
              /\ (j[x].file <=> jobs[x].file) /\ (jobs[x].raced => j[x].raced)
              /\ jobs[x].todo # <<>> /\ Head(jobs[x].todo) = SwapOf(t) => j[x].raced
              /\ j[x] # jobs[x] => jobs[x].todo # <<>> /\ Head(jobs[x].todo) = SwapOf(t)
<1>1. j = [x \in Handlers |-> IF jobs[x].todo # <<>> /\ Head(jobs[x].todo) = SwapOf(t)
                              THEN [jobs[x] EXCEPT !.raced = TRUE] ELSE jobs[x]]
  BY DEF Overtaken, SwapOf
<1>2. ASSUME NEW x \in Handlers, jobs[x].todo # <<>>, Head(jobs[x].todo) = SwapOf(t)
      PROVE  /\ Shape(j[x]) /\ j[x].todo = jobs[x].todo /\ j[x].snap = jobs[x].snap
             /\ j[x].dirty = jobs[x].dirty /\ (j[x].file <=> jobs[x].file) /\ j[x].raced
  <2>1. PICK a : a = jobs[x]
    OBVIOUS
  <2>2. Shape(a)
    BY <2>1 DEF Fit
  <2>3. /\ a = [todo |-> a.todo, snap |-> a.snap, file |-> a.file, raced |-> a.raced, dirty |-> a.dirty]
        /\ a.file \in BOOLEAN
    BY <2>2 DEF Shape
  <2>4. j[x] = [a EXCEPT !.raced = TRUE]
    BY <1>1, <1>2, <2>1
  <2>5. PICK b : b = j[x]
    OBVIOUS
  <2>6. b = [todo |-> a.todo, snap |-> a.snap, file |-> a.file, raced |-> TRUE, dirty |-> a.dirty]
    BY <2>3, <2>4, <2>5
  <2>7. /\ b.todo = a.todo /\ b.snap = a.snap /\ b.file = a.file /\ b.raced = TRUE /\ b.dirty = a.dirty
        /\ b = [todo |-> b.todo, snap |-> b.snap, file |-> b.file, raced |-> b.raced, dirty |-> b.dirty]
    BY <2>6
  <2>8. Shape(b)
    BY <1>2, <2>1, <2>2, <2>7 DEF Shape
  <2>9. QED
    BY <2>1, <2>3, <2>5, <2>7, <2>8
<1>3. ASSUME NEW x \in Handlers, ~(jobs[x].todo # <<>> /\ Head(jobs[x].todo) = SwapOf(t))
      PROVE  j[x] = jobs[x] /\ Shape(j[x])
  BY <1>1, <1>3 DEF Fit
<1>4. j = [x \in Handlers |-> j[x]]
  BY <1>1
<1>5. \A x \in Handlers : Shape(j[x])
  BY <1>2, <1>3
<1>6. QED
  BY <1>2, <1>3, <1>4, <1>5 DEF Fit

(* What is in force is not claimed to be the store's, and whoever will swap is marked. *)
LEMMA ForceFailed ==
  ASSUME NEW t, why'[t] # "store", \A x \in Handlers : Swapping(x, t)' => job'[x].raced
  PROVE  ForceAt(t)'
  BY DEF ForceAt

(* The rules of the rows of a rule file, as rows and in force. *)
LEMMA RowsOfFile ==
  ASSUME NEW g \in File
  PROVE  /\ RuleRowsOf(g) \in SUBSET RuleRow /\ UserRowsOf(g) \in SUBSET UserRow
         /\ BackendRowsOf(g) \in Seq(BackendRow)
         /\ Compiles(g.rewrites) => RewriteRowsOf(g) \in SUBSET GoodRewrite
<1>1. /\ g.rules \in SUBSET Rule /\ g.rewrites \in SUBSET Rewrite /\ g.users \in SUBSET STRING
      /\ g.primary \in STRING
  BY DEF File
<1>2. RuleRowsOf(g) \in SUBSET RuleRow
  <2>1. \A r \in g.rules : [name |-> r.name, ok |-> r.ok, on |-> TRUE] \in RuleRow
    BY <1>1 DEF Rule, RuleRow
  <2>2. QED
    BY <2>1 DEF RuleRowsOf
<1>3. UserRowsOf(g) \in SUBSET UserRow
  <2>1. \A u \in g.users : [name |-> u, on |-> TRUE] \in UserRow
    BY <1>1 DEF UserRow
  <2>2. QED
    BY <2>1 DEF UserRowsOf
<1>4. BackendRowsOf(g) \in Seq(BackendRow)
  <2>1. PICK x : x = [addr |-> g.primary, role |-> "primary", on |-> TRUE]
    OBVIOUS
  <2>2. x \in BackendRow
    BY <1>1, <2>1 DEF BackendRow
  <2>3. QED
    BY <2>1, <2>2 DEF BackendRowsOf
<1>5. ASSUME Compiles(g.rewrites)
      PROVE  RewriteRowsOf(g) \in SUBSET GoodRewrite
  <2>1. ASSUME NEW r \in g.rewrites
        PROVE  [name |-> r.name, ok |-> r.ok, block |-> r.block, on |-> TRUE] \in GoodRewrite
    <3>1. r \in Rewrite /\ r.ok
      BY <1>1, <1>5, <2>1 DEF Compiles
    <3>2. r.name \in STRING /\ r.ok \in {TRUE} /\ r.block \in BOOLEAN
      BY <3>1 DEF Rewrite
    <3>3. QED
      BY <3>2 DEF GoodRewrite
  <2>2. QED
    BY <2>1 DEF RewriteRowsOf
<1>6. QED
  BY <1>2, <1>3, <1>4, <1>5

(* What is put in force of rows. *)
LEMMA ActiveIs ==
  ASSUME StoreOK
  PROVE  /\ ActiveRules(store.rules) \in SUBSET Rule /\ ActiveRewrites(store.rewrites) \in SUBSET Rewrite
         /\ Plain(ActiveRules(store.rules)) = ActiveRules(store.rules)
<1>1. store.rules \in SUBSET RuleRow /\ store.rewrites \in SUBSET GoodRewrite
  BY StoreIs
<1>2. ASSUME NEW r \in store.rules
      PROVE  Stored(r) \in Rule
  <2>1. r.name \in STRING /\ r.ok \in BOOLEAN
    BY <1>1 DEF RuleRow
  <2>2. QED
    BY <2>1 DEF Rule, Stored
<1>3. ActiveRules(store.rules) \in SUBSET Rule
  BY <1>2 DEF ActiveRules
<1>4. ASSUME NEW r \in store.rewrites
      PROVE  [name |-> r.name, ok |-> r.ok, block |-> r.block] \in Rewrite
  <2>1. r.name \in STRING /\ r.ok \in BOOLEAN /\ r.block \in BOOLEAN
    BY <1>1 DEF GoodRewrite
  <2>2. QED
    BY <2>1 DEF Rewrite
<1>5. ActiveRewrites(store.rewrites) \in SUBSET Rewrite
  BY <1>4 DEF ActiveRewrites
<1>6. \A r : Stored(Stored(r)) = Stored(r)
  <2>1. \A r : Stored(r).name = r.name /\ Stored(r).ok = r.ok
    BY DEF Stored
  <2>2. QED
    BY <2>1 DEF Stored
<1>7. \A x \in ActiveRules(store.rules) : Stored(x) = x
  BY <1>6 DEF ActiveRules
<1>8. Plain(ActiveRules(store.rules)) = ActiveRules(store.rules)
  BY <1>7 DEF Plain
<1>9. QED
  BY <1>3, <1>5, <1>8

(* What a file that is loaded holds is what its rows put in force. *)
LEMMA FileInForce ==
  ASSUME NEW g \in File
  PROVE  /\ ActiveRules(RuleRowsOf(g)) = Plain(g.rules) /\ ActiveRewrites(RewriteRowsOf(g)) = g.rewrites
<1>1. g.rules \in SUBSET Rule /\ g.rewrites \in SUBSET Rewrite
  BY DEF File
<1> DEFINE A(r) == [name |-> r.name, ok |-> r.ok, on |-> TRUE]
           B(r) == [name |-> r.name, ok |-> r.ok, block |-> r.block, on |-> TRUE]
           C(r) == [name |-> r.name, ok |-> r.ok, block |-> r.block]
<1>2. \A r : /\ A(r).name = r.name /\ A(r).ok = r.ok /\ A(r).on
             /\ B(r).name = r.name /\ B(r).ok = r.ok /\ B(r).block = r.block /\ B(r).on
  OBVIOUS
<1>3. \A r : Stored(A(r)) = Stored(r)
  BY <1>2 DEF Stored
<1>4. \A r : C(B(r)) = C(r)
  BY <1>2
<1>5. /\ RuleRowsOf(g) = {A(r) : r \in g.rules} /\ RewriteRowsOf(g) = {B(r) : r \in g.rewrites}
      /\ ActiveRewrites(RewriteRowsOf(g)) = {C(x) : x \in {s \in RewriteRowsOf(g) : s.on}}
  BY DEF RuleRowsOf, RewriteRowsOf, ActiveRewrites
<1>6. \A r \in g.rewrites : C(r) = r
  BY <1>1 DEF Rewrite
<1> HIDE DEF A, B, C
<1>7. {s \in RuleRowsOf(g) : s.on} = {A(r) : r \in g.rules}
  BY <1>2, <1>5
<1>8. ActiveRules(RuleRowsOf(g)) = Plain(g.rules)
  <2>1. ActiveRules(RuleRowsOf(g)) = {Stored(x) : x \in {A(r) : r \in g.rules}}
    BY <1>7 DEF ActiveRules
  <2>2. QED
    BY <1>3, <2>1 DEF Plain
<1>9. {s \in RewriteRowsOf(g) : s.on} = {B(r) : r \in g.rewrites}
  BY <1>2, <1>5
<1>10. ActiveRewrites(RewriteRowsOf(g)) = {C(x) : x \in {B(r) : r \in g.rewrites}}
  BY <1>5, <1>9
<1>11. ActiveRewrites(RewriteRowsOf(g)) = g.rewrites
  BY <1>4, <1>6, <1>10
<1>12. QED
  BY <1>8, <1>11

(* The file is imported: both tables have then to be read, or the import fails. *)
LEMMA ImportKeeps ==
  ASSUME IInv, NEW h \in Handlers, NEW f \in Files, Import(h, f)
  PROVE  IInv'
<1>1. EngineInv /\ JobsOK /\ StoreOK /\ RestOK /\ UnsavedInv /\ ForceInv
  BY DEF IInv
<1>2. /\ job[h] = Idle
      /\ UNCHANGED <<clock, ticks, engineVars, file, cfg, serving, watched, mutation_ts, export_ts, newest, unsaved>>
      /\ \E g \in FromToml(f) :
           /\ Compiles(g.rewrites)
           /\ store' = [rules |-> RuleRowsOf(g), rewrites |-> RewriteRowsOf(g),
                        backends |-> [store.backends EXCEPT !.mysql = BackendRowsOf(g)],
                        users |-> UserRowsOf(g)]
  BY DEF Import
<1>3. /\ f \in File /\ Compiles(f.rewrites)
      /\ store' = [rules |-> RuleRowsOf(f), rewrites |-> RewriteRowsOf(f),
                   backends |-> [store.backends EXCEPT !.mysql = BackendRowsOf(f)], users |-> UserRowsOf(f)]
  BY <1>2, RowsAssumption DEF FromToml
<1>4. EngineInv' /\ InForce' = InForce /\ rewriter' = rewriter
  BY <1>1, <1>2, EngineSame
<1>5. StoreOK'
  <2>1. /\ RuleRowsOf(f) \in SUBSET RuleRow /\ UserRowsOf(f) \in SUBSET UserRow
        /\ BackendRowsOf(f) \in Seq(BackendRow) /\ RewriteRowsOf(f) \in SUBSET GoodRewrite
    BY <1>3, RowsOfFile
  <2>2. store.backends \in [Protocols -> Seq(BackendRow)]
    BY <1>1, StoreIs
  <2>3. [store.backends EXCEPT !.mysql = BackendRowsOf(f)] \in [Protocols -> Seq(BackendRow)]
    BY <2>1, <2>2
  <2>4. QED
    BY <1>3, <2>1, <2>3 DEF StoreOK, GoodRewrite
<1>6. CASE f.dup
  <2>1. /\ job' = Overtaken(Overtaken(job, "rules"), "rewrites")
        /\ why' = [t \in {"rules", "rewrites"} |-> "failed"]
    BY <1>6 DEF Import
  <2>2. PICK j : j = Overtaken(job, "rules")
    OBVIOUS
  <2>3. /\ Fit(job) /\ "rules" \in Kinds /\ "rewrites" \in Kinds /\ job' = Overtaken(j, "rewrites")
    BY <1>1, <2>1, <2>2 DEF JobsOK, Kinds
  <2>4. /\ Fit(j)
        /\ \A x \in Handlers :
             /\ j[x].todo = job[x].todo /\ j[x].snap = job[x].snap /\ j[x].dirty = job[x].dirty
             /\ job[x].todo # <<>> /\ Head(job[x].todo) = SwapOf("rules") => j[x].raced
    BY <2>2, <2>3, OvertakenIs
  <2>5. /\ Fit(job')
        /\ \A x \in Handlers :
             /\ job'[x].todo = j[x].todo /\ (j[x].raced => job'[x].raced)
             /\ job'[x].snap = j[x].snap /\ job'[x].dirty = j[x].dirty
             /\ j[x].todo # <<>> /\ Head(j[x].todo) = SwapOf("rewrites") => job'[x].raced
    BY <2>3, <2>4, OvertakenIs
  <2>6. JobsOK'
    BY <2>5 DEF JobsOK
  <2>7. UnsavedInv'
    <3>1. \A x \in Handlers : KeepsTables(x)
      BY <2>4, <2>5, KeepsMarked
    <3>2. QED
      BY <1>1, <1>2, <3>1, UnsavedStays
  <2>8. RestOK'
    BY <1>1, <1>2, <1>4, <2>1 DEF RestOK, Kinds
  <2>9. ASSUME NEW t \in Kinds
        PROVE  ForceAt(t)'
    <3>1. \A x \in Handlers : Swapping(x, t)' => job'[x].raced
      BY <2>4, <2>5 DEF Swapping, At, Kinds
    <3>2. why'[t] # "store"
      BY <2>1 DEF Kinds
    <3>3. QED
      BY <3>1, <3>2, ForceFailed
  <2>10. QED
    BY <1>4, <1>5, <2>6, <2>7, <2>8, <2>9 DEF IInv, ForceInv
<1>7. CASE ~f.dup
  <2> DEFINE todo == <<"readRules", "swapRules", "readRewrites", "swapRewrites", "reply">>
  <2>1. job' = [job EXCEPT ![h] = Job(todo, {}, {"import"})] /\ why' = why
    BY <1>7 DEF Import
  <2>2. /\ Program(todo) /\ Len(todo) = 5 /\ todo[1] = "readRules" /\ todo[3] = "readRewrites"
        /\ {"import"} \in SUBSET Changes
    BY LongPrograms DEF Changes
  <2> HIDE DEF todo
  <2> PICK y : y = Job(todo, {}, {"import"})
    OBVIOUS
  <2>3. /\ Shape(y) /\ y.todo = todo /\ todo # <<>> /\ Head(todo) = "readRules"
    <3>1. Len(todo) > 0 /\ todo[1] \notin {"swapRules", "swapRewrites", "bump"}
      BY <2>2
    <3>2. QED
      BY <2>2, <3>1, JobIs
  <2>4. /\ JobsOK' /\ job'[h] = y /\ \A x \in Handlers : KeepsTables(x)
    BY <1>1, <1>2, <2>1, <2>3, Begins
  <2>5. UnsavedInv'
    BY <1>1, <1>2, <2>4, UnsavedStays
  <2>6. RestOK'
    BY <1>1, <1>2, <2>1, RestStays
  <2>7. ASSUME NEW t \in Kinds
        PROVE  ForceAt(t)'
    <3>1. 1 \in 1..Len(todo) /\ 3 \in 1..Len(todo)
      BY <2>2
    <3>2. ReadOf(t) \in Todo(h)'
      BY <2>2, <2>3, <2>4, <3>1 DEF Todo, TodoOf, ReadOf, Kinds
    <3>3. QED
      BY <3>2, ForcePending
  <2>8. QED
    BY <1>4, <1>5, <2>4, <2>5, <2>6, <2>7 DEF IInv, ForceInv
<1>8. QED
  BY <1>6, <1>7

-----------------------------------------------------------------------------
(***************************************************************************)
(* The handlers' steps that have nothing to do with the rules.              *)
(***************************************************************************)

(* Nothing of the rules, the rewrite rules and their rows changes. *)
LEMMA QuietKeeps ==
  ASSUME IInv, JobsOK', RestOK', UnsavedInv', \A x \in Handlers : \A t \in Kinds : Quiet(x, t),
         UNCHANGED <<engineVars, store, why>>
  PROVE  IInv'
<1>1. EngineInv /\ StoreOK /\ ForceInv
  BY DEF IInv
<1>2. EngineInv' /\ InForce' = InForce /\ rewriter' = rewriter
  BY <1>1, EngineSame
<1>3. StoreOK'
  BY <1>1 DEF StoreOK
<1>4. ASSUME NEW t \in Kinds
      PROVE  ForceAt(t)'
  <2>1. Active(t)' = Active(t) /\ Shown(t)' = Shown(t)
    BY <1>2 DEF Active, Shown
  <2>2. QED
    BY <1>1, <2>1, ForceStays DEF ForceInv
<1>5. QED
  BY <1>2, <1>3, <1>4 DEF IInv, ForceInv

(* One step of h that reads, swaps and exports nothing. *)
LEMMA StepAlong ==
  ASSUME JobsOK, NEW h \in Handlers, job[h].todo # <<>>, Head(job[h].todo) \notin Special \cup Tables,
         NEW snap, Head(job[h].todo) = "stamp" => Fresh(snap), job' = Advance(job, h, 1, snap)
  PROVE  JobsOK' /\ \A x \in Handlers : KeepsTables(x) /\ \A t \in Kinds : Quiet(x, t)
<1>1. PICK j : j = Advance(job, h, 1, snap)
  OBVIOUS
<1>2. job' = j
  BY <1>1
<1>3. \A x \in Handlers : /\ job'[x].todo = j[x].todo /\ job'[x].snap = j[x].snap
                          /\ job'[x].file = j[x].file /\ job'[x].raced = j[x].raced
                          /\ Within(job'[x].dirty, j[x].dirty)
  BY <1>2 DEF Within
<1>4. /\ Fit(j) /\ \A x \in Handlers : \A t \in Kinds : Quiet(x, t)
      /\ \A x \in Handlers : \A y \in Tables : y \in Todo(x) /\ y # Head(job[h].todo) => y \in Todo(x)'
      /\ \A x \in Handlers : KeepsStamp(x)
  BY <1>1, <1>3, PlainStep
<1>5. QED
  BY <1>2, <1>4 DEF JobsOK, KeepsTables

(* A handler gives up before it has read the backends. *)
LEMMA GivesUp ==
  ASSUME JobsOK, NEW h \in Handlers, job[h].todo # <<>>, Head(job[h].todo) \in {"readMysql", "readPgsql"},
         job' = [job EXCEPT ![h] = Idle]
  PROVE  JobsOK' /\ \A x \in Handlers : KeepsTables(x) /\ \A t \in Kinds : Quiet(x, t)
<1>1. job = [x \in Handlers |-> job[x]] /\ \A x \in Handlers : Shape(job[x])
  BY DEF JobsOK, Fit
<1>2. /\ job' = [x \in Handlers |-> job'[x]] /\ job'[h] = Idle
      /\ \A x \in Handlers : x # h => job'[x] = job[x]
  BY <1>1
<1>3. JobsOK'
  BY <1>1, <1>2, IdleIs DEF JobsOK, Fit
<1>4. \A x \in Handlers : x # h => KeepsTables(x) /\ \A t \in Kinds : Quiet(x, t)
  <2>1. \A x \in Handlers : x # h => \A t \in Kinds : Quiet(x, t)
    BY <1>2, QuietAlone
  <2>2. \A x \in Handlers : x # h => KeepsTables(x)
    BY <1>2, KeepsAlone
  <2>3. QED
    BY <2>1, <2>2
<1> PICK q : q = job[h].todo
  OBVIOUS
<1>5. 1 \in 1..Len(q) /\ Head(q) = q[1] /\ Program(q) /\ q[1] \in {"readMysql", "readPgsql"}
  BY HeadIs
<1>6. KeepsTables(h)
  <2>1. q[1] \notin Tables \cup {"mark"}
    BY <1>5 DEF Tables
  <2>2. \A i \in 1..Len(q) : q[i] \notin Tables
    BY <1>5, <2>1 DEF Program
  <2>3. ~Stamped(h)'
    BY <1>2, IdleIs DEF Stamped, At
  <2>4. QED
    BY <2>2, <2>3 DEF KeepsTables, KeepsStamp, Todo, TodoOf
<1>7. ASSUME NEW t \in Kinds
      PROVE  Quiet(h, t)
  <2>1. \A i \in 1..Len(q) : q[i] # ReadOf(t)
    BY <1>5 DEF Program
  <2>2. ReadOf(t) \notin Todo(h)
    BY <2>1 DEF Todo, TodoOf
  <2>3. ~Swapping(h, t)
    BY <1>5 DEF Swapping, At, SwapOf
  <2>4. ~Swapping(h, t)'
    BY <1>2, IdleIs DEF Swapping, At
  <2>5. QED
    BY <2>2, <2>3, <2>4, QuietElsewhere
<1>8. QED
  BY <1>3, <1>4, <1>6, <1>7

(* The steps on the backends. *)
LEMMA BackendStepKeeps ==
  ASSUME IInv, NEW h \in Handlers,
         WriteConfig(h) \/ \E p \in Protocols : ReadBackends(h, p) \/ SwapPool(h, p)
  PROVE  IInv'
<1>1. JobsOK /\ RestOK /\ UnsavedInv
  BY DEF IInv
<1>2. UNCHANGED <<clock, engineVars, file, mutation_ts, newest, unsaved, export_ts, why, store>>
  BY DEF WriteConfig, ReadBackends, SwapPool, KeepRest, engineVars
<1>3. JobsOK' /\ \A x \in Handlers : KeepsTables(x) /\ \A t \in Kinds : Quiet(x, t)
  <2>1. CASE WriteConfig(h)
    <3>1. /\ job[h].todo # <<>> /\ Head(job[h].todo) \notin Special \cup Tables \cup {"stamp"}
          /\ job' = Advance(job, h, 1, job[h].snap)
      BY <2>1 DEF WriteConfig, Special, Tables
    <3>2. QED
      BY <1>1, <3>1, StepAlong
  <2>2. ASSUME NEW p \in Protocols, SwapPool(h, p)
        PROVE  JobsOK' /\ \A x \in Handlers : KeepsTables(x) /\ \A t \in Kinds : Quiet(x, t)
    <3>1. /\ job[h].todo # <<>> /\ Head(job[h].todo) \notin Special \cup Tables \cup {"stamp"}
          /\ job' = Advance(job, h, 1, {})
      BY <2>2 DEF SwapPool, At, Special, Tables
    <3>2. QED
      BY <1>1, <3>1, StepAlong
  <2>3. ASSUME NEW p \in Protocols, ReadBackends(h, p)
        PROVE  JobsOK' /\ \A x \in Handlers : KeepsTables(x) /\ \A t \in Kinds : Quiet(x, t)
    <3>1. /\ job[h].todo # <<>> /\ Head(job[h].todo) \in {"readMysql", "readPgsql"}
      BY <2>3 DEF ReadBackends, At
    <3>2. PICK pool : job' = IF pool = {} THEN [job EXCEPT ![h] = Idle] ELSE Advance(job, h, 1, pool)
      BY <2>3 DEF ReadBackends
    <3>3. CASE pool = {}
      BY <1>1, <3>1, <3>2, <3>3, GivesUp
    <3>4. CASE pool # {}
      <4>1. Head(job[h].todo) \notin Special \cup Tables \cup {"stamp"} /\ job' = Advance(job, h, 1, pool)
        BY <3>1, <3>2, <3>4 DEF Special, Tables
      <4>2. QED
        BY <1>1, <3>1, <4>1, StepAlong
    <3>5. QED
      BY <3>3, <3>4
  <2>4. QED
    BY <2>1, <2>2, <2>3
<1>4. RestOK'
  BY <1>1, <1>2, RestStays
<1>5. UnsavedInv'
  BY <1>1, <1>2, <1>3, UnsavedStays
<1>6. QED
  BY <1>2, <1>3, <1>4, <1>5, QuietKeeps

(* The clock is read. *)
LEMMA StampKeeps ==
  ASSUME IInv, NEW h \in Handlers, Stamp(h)
  PROVE  IInv'
<1>1. JobsOK /\ RestOK /\ UnsavedInv
  BY DEF IInv
<1>2. /\ UNCHANGED <<clock, engineVars, file, mutation_ts, newest, unsaved, export_ts, why, store>>
      /\ job[h].todo # <<>> /\ Head(job[h].todo) = "stamp" /\ job' = Advance(job, h, 1, {clock})
  BY DEF Stamp, KeepRest, engineVars, At
<1>3. JobsOK' /\ \A x \in Handlers : KeepsTables(x) /\ \A t \in Kinds : Quiet(x, t)
  <2>1. Head(job[h].todo) \notin Special \cup Tables /\ Fresh({clock})
    BY <1>2 DEF Special, Tables, Fresh
  <2>2. QED
    BY <1>1, <1>2, <2>1, StepAlong
<1>4. RestOK'
  BY <1>1, <1>2, RestStays
<1>5. UnsavedInv'
  BY <1>1, <1>2, <1>3, UnsavedStays
<1>6. QED
  BY <1>2, <1>3, <1>4, <1>5, QuietKeeps

(* A step that confirms changes which are stamped no earlier than the last export, or
   which an export will take. *)
LEMMA ConfirmKeeps ==
  ASSUME RestOK, UnsavedInv, \A x \in Handlers : KeepsTables(x),
         UNCHANGED <<clock, export_ts>>, newest' \in 0..clock, newest' >= newest,
         NEW dirty, unsaved' = unsaved \cup dirty,
         \A t \in dirty \cap Tables : newest' >= export_ts \/ Awaited(t)
  PROVE  UnsavedInv'
<1>1. \A t \in Tables : Awaited(t) => Awaited(t)'
  BY DEF Awaited, KeepsTables
<1>2. ASSUME NEW t \in unsaved' \cap Tables
      PROVE  newest' >= export_ts' \/ Awaited(t)'
  <2>1. CASE t \in unsaved
    <3>1. newest >= export_ts \/ Awaited(t)
      BY <1>2, <2>1 DEF UnsavedInv
    <3>2. newest \in Int /\ newest' \in Int /\ export_ts \in Int
      BY DEF RestOK
    <3>3. QED
      BY <1>1, <1>2, <3>1, <3>2
  <2>2. CASE t \in dirty
    BY <1>1, <1>2, <2>2
  <2>3. QED
    BY <1>2, <2>1, <2>2
<1>3. ASSUME NEW k \in Handlers, Stamped(k)', NEW ts \in job'[k].snap
      PROVE  ts \in 0..clock' /\ \A t \in job'[k].dirty \cap Tables : ts >= export_ts' \/ Awaited(t)'
  <2>1. CASE Fresh(job'[k].snap)
    BY <1>3, <2>1 DEF RestOK, Fresh
  <2>2. CASE Stamped(k) /\ job'[k].snap = job[k].snap /\ Within(job'[k].dirty, job[k].dirty)
    <3>1. ts \in 0..clock /\ \A t \in job[k].dirty \cap Tables : ts >= export_ts \/ Awaited(t)
      BY <1>3, <2>2 DEF UnsavedInv
    <3>2. QED
      BY <1>1, <2>2, <3>1 DEF Within
  <2>3. QED
    BY <1>3, <2>1, <2>2 DEF KeepsTables, KeepsStamp
<1>4. QED
  BY <1>2, <1>3 DEF UnsavedInv

(* A change is confirmed and stamped. *)
LEMMA BumpKeeps ==
  ASSUME IInv, NEW h \in Handlers, Bump(h)
  PROVE  IInv'
<1>1. JobsOK /\ RestOK /\ UnsavedInv
  BY DEF IInv
<1>2. /\ UNCHANGED <<clock, engineVars, file, export_ts, why, store>>
      /\ unsaved' = unsaved \cup job[h].dirty
      /\ job[h].todo # <<>> /\ Head(job[h].todo) = "bump" /\ job' = Advance(job, h, 1, {})
  BY DEF Bump, KeepRest, engineVars, At
<1>3. JobsOK' /\ \A x \in Handlers : KeepsTables(x) /\ \A t \in Kinds : Quiet(x, t)
  <2>1. Head(job[h].todo) \notin Special \cup Tables \cup {"stamp"}
    BY <1>2 DEF Special, Tables
  <2>2. QED
    BY <1>1, <1>2, <2>1, StepAlong
<1>4. job[h].dirty \in SUBSET Changes
  BY <1>1 DEF JobsOK, Fit, Shape
<1>5. PICK ts \in job[h].snap : mutation_ts' = ts /\ newest' = IF ts > newest THEN ts ELSE newest
  BY DEF Bump
<1>6. ts \in 0..clock /\ \A t \in job[h].dirty \cap Tables : ts >= export_ts \/ Awaited(t)
  <2>1. Stamped(h)
    BY <1>2 DEF Stamped, At
  <2>2. QED
    BY <1>1, <2>1 DEF UnsavedInv
<1>7. newest \in 0..clock /\ clock \in Nat /\ export_ts \in 0..clock
  BY <1>1 DEF RestOK
<1>8. newest' \in 0..clock /\ newest' >= newest /\ newest' >= ts
  BY <1>5, <1>6, <1>7
<1>9. RestOK'
  BY <1>1, <1>2, <1>4, <1>5, <1>6, <1>8 DEF RestOK, engineVars
<1>10. \A t \in job[h].dirty \cap Tables : newest' >= export_ts \/ Awaited(t)
  BY <1>6, <1>7, <1>8
<1>11. UnsavedInv'
  BY <1>1, <1>2, <1>3, <1>8, <1>10, ConfirmKeeps
<1>12. QED
  BY <1>2, <1>3, <1>9, <1>11, QuietKeeps

(* An import is confirmed, which is no change of a single table. *)
LEMMA ReplyKeeps ==
  ASSUME IInv, NEW h \in Handlers, Reply(h)
  PROVE  IInv'
<1>1. JobsOK /\ RestOK /\ UnsavedInv
  BY DEF IInv
<1>2. /\ UNCHANGED <<clock, engineVars, file, mutation_ts, newest, export_ts, why, store>>
      /\ unsaved' = unsaved \cup ({"import"} \cap job[h].dirty)
      /\ job[h].todo # <<>> /\ Head(job[h].todo) = "reply" /\ job' = Advance(job, h, 1, {})
  BY DEF Reply, KeepRest, engineVars, At
<1>3. JobsOK' /\ \A x \in Handlers : KeepsTables(x) /\ \A t \in Kinds : Quiet(x, t)
  <2>1. Head(job[h].todo) \notin Special \cup Tables \cup {"stamp"}
    BY <1>2 DEF Special, Tables
  <2>2. QED
    BY <1>1, <1>2, <2>1, StepAlong
<1>4. {"import"} \cap job[h].dirty \in SUBSET Changes /\ ({"import"} \cap job[h].dirty) \cap Tables = {}
  BY DEF Changes, Tables
<1>5. RestOK'
  BY <1>1, <1>2, <1>4 DEF RestOK, engineVars
<1>6. newest' \in 0..clock /\ newest' >= newest
  BY <1>1, <1>2 DEF RestOK
<1>7. UnsavedInv'
  BY <1>1, <1>2, <1>3, <1>4, <1>6, ConfirmKeeps
<1>8. QED
  BY <1>2, <1>3, <1>5, <1>7, QuietKeeps

(* An export is stamped: it will then read every table. *)
LEMMA MarkKeeps ==
  ASSUME IInv, NEW h \in Handlers, Mark(h)
  PROVE  IInv'
<1>1. JobsOK /\ RestOK /\ UnsavedInv
  BY DEF IInv
<1>2. /\ UNCHANGED <<clock, engineVars, file, mutation_ts, newest, unsaved, why, store>>
      /\ job[h].todo # <<>> /\ Head(job[h].todo) = "mark" /\ job' = Advance(job, h, 1, {})
  BY DEF Mark, KeepRest, engineVars, At
<1>3. JobsOK' /\ \A x \in Handlers : KeepsTables(x) /\ \A t \in Kinds : Quiet(x, t)
  <2>1. Head(job[h].todo) \notin Special \cup Tables \cup {"stamp"}
    BY <1>2 DEF Special, Tables
  <2>2. QED
    BY <1>1, <1>2, <2>1, StepAlong
<1>4. PICK ts \in job[h].snap : export_ts' = ts
  BY DEF Mark
<1>5. ts \in 0..clock
  <2>1. Stamped(h)
    BY <1>2 DEF Stamped, At
  <2>2. QED
    BY <1>1, <2>1 DEF UnsavedInv
<1>6. RestOK'
  BY <1>1, <1>2, <1>4, <1>5 DEF RestOK, engineVars
<1>7. \A t \in Tables : Awaited(t)'
  <2>1. 1 \in 1..Len(job[h].todo) /\ job[h].todo[1] = "mark" /\ Program(job[h].todo)
    BY <1>1, <1>2, HeadIs
  <2>2. \A t \in Tables : \E i \in 1..Len(job[h].todo) : job[h].todo[i] = t
    BY <2>1 DEF Program
  <2>3. \A t \in Tables : t \in Todo(h)
    BY <2>2 DEF Todo, TodoOf
  <2>4. QED
    BY <1>3, <2>3 DEF KeepsTables, Awaited
<1>8. UnsavedInv'
  <2>1. ASSUME NEW k \in Handlers, Stamped(k)', NEW n \in job'[k].snap
        PROVE  n \in 0..clock'
    <3>1. CASE Fresh(job'[k].snap)
      BY <1>1, <1>2, <2>1, <3>1 DEF RestOK, Fresh
    <3>2. CASE Stamped(k) /\ job'[k].snap = job[k].snap
      BY <1>1, <1>2, <2>1, <3>2 DEF UnsavedInv
    <3>3. QED
      BY <1>3, <2>1, <3>1, <3>2 DEF KeepsTables, KeepsStamp
  <2>2. QED
    BY <1>7, <2>1 DEF UnsavedInv
<1>9. QED
  BY <1>2, <1>3, <1>6, <1>8, QuietKeeps

(* A table is copied to the export, with all changes to it. *)
LEMMA ExportTableKeeps ==
  ASSUME IInv, NEW h \in Handlers, ExportTable(h)
  PROVE  IInv'
<1>1. JobsOK /\ RestOK /\ UnsavedInv
  BY DEF IInv
<1>2. PICK t \in Tables : t = Head(job[h].todo)
  BY DEF ExportTable
<1>3. PICK j, gone : j = Advance(job, h, 1, {}) /\ gone = Exported(t)
  OBVIOUS
<1>4. /\ UNCHANGED <<clock, engineVars, file, mutation_ts, export_ts, why, store>>
      /\ newest' = newest /\ job[h].todo # <<>> /\ unsaved' = unsaved \ gone
      /\ job' = [k \in Handlers |-> [j[k] EXCEPT !.dirty = j[k].dirty \ gone]]
  BY <1>2, <1>3 DEF ExportTable, KeepRest, engineVars
<1>5. Head(job[h].todo) \notin Special
  BY <1>2 DEF Special, Tables
<1>6. SnapFits(job[h].todo, 1, {})
  BY DEF SnapFits
<1>7. Fit(j)
  <2>1. 1 \in 1..Len(job[h].todo)
    BY <1>1, <1>4, HeadIs
  <2>2. QED
    BY <1>1, <1>3, <1>6, <2>1, AdvanceIs DEF JobsOK
<1>8. ASSUME NEW x \in Handlers
      PROVE  /\ Shape(job'[x]) /\ job'[x].todo = j[x].todo /\ job'[x].snap = j[x].snap
             /\ job'[x].file = j[x].file /\ job'[x].raced = j[x].raced
             /\ job'[x].dirty = j[x].dirty \ gone
  <2>1. PICK a : a = j[x]
    OBVIOUS
  <2>2. Shape(a)
    BY <1>7, <2>1 DEF Fit
  <2>3. PICK b : b = [a EXCEPT !.dirty = a.dirty \ gone]
    OBVIOUS
  <2>4. a = [todo |-> a.todo, snap |-> a.snap, file |-> a.file, raced |-> a.raced, dirty |-> a.dirty]
    BY <2>2 DEF Shape
  <2>5. b = [todo |-> a.todo, snap |-> a.snap, file |-> a.file, raced |-> a.raced, dirty |-> a.dirty \ gone]
    BY <2>3, <2>4
  <2>6. /\ b.todo = a.todo /\ b.snap = a.snap /\ b.file = a.file /\ b.raced = a.raced
        /\ b.dirty = a.dirty \ gone
        /\ b = [todo |-> b.todo, snap |-> b.snap, file |-> b.file, raced |-> b.raced, dirty |-> b.dirty]
    BY <2>5
  <2>7. b.todo = <<>> => b = Idle
    <3>1. ASSUME b.todo = <<>>
          PROVE  b = Idle
      <4>1. a = Idle /\ a.dirty = {}
        BY <2>2, <2>6, <3>1, IdleIs DEF Shape
      <4>2. a.dirty \ gone = a.dirty
        BY <4>1
      <4>3. b = a
        BY <2>4, <2>5, <4>2
      <4>4. QED
        BY <4>1, <4>3
    <3>2. QED
      BY <3>1
  <2>8. Shape(b)
    BY <2>2, <2>6, <2>7 DEF Shape
  <2>9. job'[x] = b
    BY <1>4, <2>1, <2>3
  <2>10. QED
    BY <2>1, <2>6, <2>8, <2>9
<1>9. JobsOK'
  <2>1. job' = [x \in Handlers |-> job'[x]]
    BY <1>4
  <2>2. QED
    BY <1>8, <2>1 DEF JobsOK, Fit
<1>10. /\ \A x \in Handlers : \A k \in Kinds : Quiet(x, k)
       /\ \A x \in Handlers : \A y \in Tables : y \in Todo(x) /\ y # Head(job[h].todo) => y \in Todo(x)'
       /\ \A x \in Handlers : KeepsStamp(x)
  <2>1. \A x \in Handlers : /\ job'[x].todo = j[x].todo /\ job'[x].snap = j[x].snap
                            /\ job'[x].file = j[x].file /\ job'[x].raced = j[x].raced
                            /\ Within(job'[x].dirty, j[x].dirty)
    BY <1>8 DEF Within
  <2>2. job[h].todo # <<>> /\ (Head(job[h].todo) = "stamp" => Fresh({}))
    BY <1>2, <1>4 DEF Tables
  <2>3. QED
    BY <1>1, <1>3, <1>5, <2>1, <2>2, PlainStep
<1>11. RestOK'
  BY <1>1, <1>4 DEF RestOK, engineVars
<1>12. UnsavedInv'
  <2>1. t \in gone
    BY <1>3 DEF Exported
  <2>2. \A y \in Tables : y # t /\ Awaited(y) => Awaited(y)'
    BY <1>2, <1>10 DEF Awaited
  <2>3. ASSUME NEW y \in unsaved' \cap Tables
        PROVE  newest' >= export_ts' \/ Awaited(y)'
    <3>1. y \in unsaved /\ y # t
      BY <1>4, <2>1, <2>3
    <3>2. newest >= export_ts \/ Awaited(y)
      BY <1>1, <2>3, <3>1 DEF UnsavedInv
    <3>3. QED
      BY <1>4, <2>2, <2>3, <3>1, <3>2
  <2>4. ASSUME NEW k \in Handlers, Stamped(k)', NEW ts \in job'[k].snap
        PROVE  ts \in 0..clock' /\ \A y \in job'[k].dirty \cap Tables : ts >= export_ts' \/ Awaited(y)'
    <3>1. CASE Fresh(job'[k].snap)
      <4>1. ts = clock /\ clock' = clock /\ export_ts' = export_ts
        BY <1>4, <2>4, <3>1 DEF Fresh
      <4>2. clock \in Nat /\ export_ts \in 0..clock
        BY <1>1 DEF RestOK
      <4>3. QED
        BY <4>1, <4>2
    <3>2. CASE Stamped(k) /\ job'[k].snap = job[k].snap /\ Within(job'[k].dirty, job[k].dirty)
      <4>1. ts \in 0..clock /\ \A y \in job[k].dirty \cap Tables : ts >= export_ts \/ Awaited(y)
        BY <1>1, <2>4, <3>2 DEF UnsavedInv
      <4>2. t \notin job'[k].dirty
        BY <1>8, <2>1
      <4>3. QED
        BY <1>4, <2>2, <3>2, <4>1, <4>2 DEF Within
    <3>3. QED
      BY <1>10, <2>4, <3>1, <3>2 DEF KeepsStamp
  <2>5. QED
    BY <2>3, <2>4 DEF UnsavedInv
<1>13. QED
  BY <1>4, <1>9, <1>10, <1>11, <1>12, QuietKeeps

-----------------------------------------------------------------------------
(***************************************************************************)
(* Reading and swapping the rules and the rewrite rules.                    *)
(***************************************************************************)

(* Rules of the engine that table t is for. *)
Fits(t, rules) == IF t = "rules" THEN rules \in SUBSET Rule ELSE rules \in SUBSET Rewrite

(* The swap comes right after the reading. *)
LEMMA SwapFollows ==
  ASSUME JobsOK, NEW h \in Handlers, NEW t \in Kinds, job[h].todo # <<>>,
         Head(job[h].todo) \in {ReadOf(t), FileOf(t)}
  PROVE  /\ 1 \in 1..Len(job[h].todo) /\ 2 \in 1..Len(job[h].todo) /\ 1 < Len(job[h].todo)
         /\ job[h].todo[2] = SwapOf(t) /\ job[h].todo[1] = Head(job[h].todo)
         /\ \A rules : Fits(t, rules) => SnapFits(job[h].todo, 1, rules)
         /\ SnapFits(job[h].todo, 2, {})
<1> PICK q : q = job[h].todo
  OBVIOUS
<1>1. Len(q) \in Nat \ {0} /\ 1 \in 1..Len(q) /\ Head(q) = q[1] /\ Program(q)
  BY HeadIs
<1>2. 1 < Len(q) /\ q[1 + 1] = SwapOf(t)
  BY <1>1 DEF Program
<1>3. 2 \in 1..Len(q) /\ q[2] = SwapOf(t)
  BY <1>1, <1>2
<1>4. \A rules : Fits(t, rules) => SnapFits(q, 1, rules)
  BY <1>2 DEF Fits, SnapFits, SwapOf, Kinds
<1>5. SnapFits(q, 2, {})
  BY DEF SnapFits
<1>6. QED
  BY <1>1, <1>2, <1>3, <1>4, <1>5

(* No handler that works on the rules exports. *)
LEMMA NoTables ==
  ASSUME JobsOK, NEW h \in Handlers, job[h].todo # <<>>, Head(job[h].todo) \in Special, ~Stamped(h)'
  PROVE  KeepsTables(h)
<1> PICK q : q = job[h].todo
  OBVIOUS
<1>1. 1 \in 1..Len(q) /\ Head(q) = q[1] /\ Program(q)
  BY HeadIs
<1>2. q[1] \notin Tables \cup {"mark"}
  BY <1>1 DEF Tables, Special
<1>3. \A i \in 1..Len(q) : q[i] \notin Tables
  BY <1>1, <1>2 DEF Program
<1>4. QED
  BY <1>3 DEF KeepsTables, KeepsStamp, Todo, TodoOf

(* Who has just read the table will put in force what it holds. *)
LEMMA ForceRead ==
  ASSUME NEW t, NEW h \in Handlers, Swapping(h, t)', job'[h].snap = Active(t)'
  PROVE  ForceAt(t)'
<1>1. ASSUME NEW x \in Handlers, Swapping(x, t)', ~job'[x].raced
      PROVE  job'[x].snap = Active(t)' \/ \E k \in Handlers \ {x} : Swapping(k, t)'
  <2>1. CASE x = h
    BY <2>1
  <2>2. CASE x # h
    BY <2>2
  <2>3. QED
    BY <2>1, <2>2
<1>2. QED
  BY <1>1 DEF ForceAt

(* The rows of a table are read. *)
LEMMA ReadKeeps ==
  ASSUME IInv, NEW h \in Handlers, NEW t \in Kinds, At(h, ReadOf(t)), Fits(t, Active(t)),
         job' = Advance(job, h, 1, Active(t)),
         UNCHANGED <<clock, engineVars, file, mutation_ts, newest, unsaved, export_ts, why, store>>
  PROVE  IInv'
<1> PICK j : j = Advance(job, h, 1, Active(t))
  OBVIOUS
<1> PICK q : q = job[h].todo
  OBVIOUS
<1>1. /\ EngineInv /\ JobsOK /\ StoreOK /\ RestOK /\ UnsavedInv /\ ForceInv /\ Fit(job)
      /\ job[h].todo # <<>> /\ Head(job[h].todo) = ReadOf(t) /\ job' = j
  BY DEF IInv, At, JobsOK
<1>2. /\ 1 \in 1..Len(job[h].todo) /\ 2 \in 1..Len(job[h].todo) /\ 1 < Len(job[h].todo)
      /\ job[h].todo[2] = SwapOf(t) /\ job[h].todo[1] = ReadOf(t)
      /\ SnapFits(job[h].todo, 1, Active(t))
  BY <1>1, SwapFollows
<1>3. /\ Fit(j) /\ \A x \in Handlers : x # h => j[x] = job[x]
      /\ Follows(j[h].todo, job[h].todo, 1)
      /\ j[h].snap = Active(t) /\ ~j[h].raced /\ j[h].file = job[h].file
  BY <1>1, <1>2, AdvanceIs
<1>4. JobsOK'
  BY <1>1, <1>3 DEF JobsOK
<1>5. Shape(job[h]) /\ Shape(j[h])
  BY <1>1, <1>3 DEF Fit
<1>6. ~job[h].file
  BY <1>2, <1>5 DEF Shape
<1>7. j[h].todo # <<>> /\ Head(j[h].todo) = SwapOf(t)
  <2>1. Len(job[h].todo) \in Nat /\ j[h].todo \in Seq(Steps)
    BY <1>1, <1>5, HeadIs DEF Shape, Program
  <2>2. Len(j[h].todo) = Len(job[h].todo) - 1 /\ 1 \in 1..(Len(job[h].todo) - 1)
    BY <1>2, <1>3, <2>1 DEF Follows
  <2>3. j[h].todo[1] = job[h].todo[1 + 1]
    BY <1>3, <2>2 DEF Follows
  <2>4. QED
    BY <1>2, <2>1, <2>2, <2>3
<1>8. \A y \in Todo(h) : y # ReadOf(t) => y \in Todo(h)'
  <2>1. Follows(job'[h].todo, job[h].todo, 1) /\ 1..1 = {1}
    BY <1>1, <1>3
  <2>2. QED
    BY <1>1, <1>2, <2>1, TodoLeft
<1>9. EngineInv' /\ InForce' = InForce /\ rewriter' = rewriter
  BY <1>1, EngineSame
<1>10. \A k \in Kinds : Active(k)' = Active(k) /\ Shown(k)' = Shown(k)
  BY <1>9 DEF Active, Shown
<1>11. ForceAt(t)'
  <2>1. Swapping(h, t)' /\ job'[h].snap = Active(t)'
    BY <1>1, <1>3, <1>6, <1>7, <1>10 DEF Swapping, At
  <2>2. QED
    BY <2>1, ForceRead
<1>12. ASSUME NEW k \in Kinds, k # t
       PROVE  ForceAt(k)'
  <2>1. ReadOf(k) # ReadOf(t) /\ SwapOf(k) # SwapOf(t) /\ SwapOf(k) # ReadOf(t)
    BY <1>12 DEF ReadOf, SwapOf, Kinds
  <2>2. ~Swapping(h, k) /\ ~Swapping(h, k)'
    BY <1>1, <1>7, <2>1 DEF Swapping, At
  <2>3. Quiet(h, k)
    BY <1>8, <2>1, <2>2, QuietElsewhere
  <2>4. \A x \in Handlers : Quiet(x, k)
    BY <1>1, <1>3, <2>3, QuietAlone
  <2>5. QED
    BY <1>1, <1>10, <2>4, ForceStays DEF ForceInv
<1>13. UnsavedInv'
  <2>0. ~Stamped(h)'
    BY <1>1, <1>7 DEF Stamped, At, SwapOf
  <2>1. KeepsTables(h)
    BY <1>1, <2>0, NoTables DEF Special, ReadOf
  <2>2. \A x \in Handlers : KeepsTables(x)
    BY <1>1, <1>3, <2>1, KeepsAlone
  <2>3. QED
    BY <1>1, <2>2, UnsavedStays
<1>14. RestOK' /\ StoreOK'
  BY <1>1, RestStays DEF StoreOK
<1>15. QED
  BY <1>4, <1>9, <1>11, <1>12, <1>13, <1>14 DEF IInv, ForceInv

(* The file is read, or cannot be used. *)
LEMMA ReadFileKeeps ==
  ASSUME IInv, NEW h \in Handlers, NEW t \in Kinds, NEW rules, Fits(t, rules), ReadFile(h, FileOf(t), rules)
  PROVE  IInv'
<1>1. /\ EngineInv /\ JobsOK /\ StoreOK /\ RestOK /\ UnsavedInv /\ ForceInv /\ Fit(job)
      /\ job[h].todo # <<>> /\ Head(job[h].todo) = FileOf(t)
      /\ UNCHANGED <<clock, engineVars, file, mutation_ts, newest, unsaved, export_ts, why, store>>
  BY DEF IInv, At, JobsOK, ReadFile, KeepRest, engineVars
<1>2. /\ 1 \in 1..Len(job[h].todo) /\ 2 \in 1..Len(job[h].todo) /\ 1 < Len(job[h].todo)
      /\ job[h].todo[2] = SwapOf(t) /\ job[h].todo[1] = FileOf(t)
      /\ SnapFits(job[h].todo, 1, rules) /\ SnapFits(job[h].todo, 2, {})
  BY <1>1, SwapFollows
<1>3. Program(job[h].todo) /\ Shape(job[h])
  BY <1>1, HeadIs
<1>4. ASSUME NEW k \in Kinds
      PROVE  ReadOf(k) \notin Todo(h) /\ ~Swapping(h, k)
  <2>1. \A i \in 1..Len(job[h].todo) : job[h].todo[i] # ReadOf(k)
    <3>1. FileOf(t) \in {"fileRules", "fileRewrites"}
      BY DEF FileOf
    <3>2. QED
      BY <1>2, <1>3, <3>1 DEF Program
  <2>2. FileOf(t) # SwapOf(k)
    BY DEF FileOf, SwapOf
  <2>3. QED
    BY <1>1, <2>1, <2>2 DEF Todo, TodoOf, Swapping, At
<1>5. /\ JobsOK' /\ (\A x \in Handlers : x # h => job'[x] = job[x]) /\ \A k \in Kinds : ~Swapping(h, k)'
      /\ ~Stamped(h)'
  <2>1. CASE job' = [Advance(job, h, 1, rules) EXCEPT ![h].file = TRUE]
    <3> PICK j : j = Advance(job, h, 1, rules)
      OBVIOUS
    <3>1. /\ Fit(j) /\ \A x \in Handlers : x # h => j[x] = job[x]
          /\ Follows(j[h].todo, job[h].todo, 1)
      BY <1>1, <1>2, AdvanceIs
    <3> PICK a : a = j[h]
      OBVIOUS
    <3>2. Shape(a) /\ j = [x \in Handlers |-> j[x]]
      BY <3>1 DEF Fit
    <3> PICK b : b = [a EXCEPT !.file = TRUE]
      OBVIOUS
    <3>3. job' = [j EXCEPT ![h] = b]
      BY <2>1, <3>2
    <3>4. a = [todo |-> a.todo, snap |-> a.snap, file |-> a.file, raced |-> a.raced, dirty |-> a.dirty]
      BY <3>2 DEF Shape
    <3>5. b = [todo |-> a.todo, snap |-> a.snap, file |-> TRUE, raced |-> a.raced, dirty |-> a.dirty]
      BY <3>4
    <3>6. /\ b.todo = a.todo /\ b.snap = a.snap /\ b.file = TRUE /\ b.raced = a.raced /\ b.dirty = a.dirty
          /\ b = [todo |-> b.todo, snap |-> b.snap, file |-> b.file, raced |-> b.raced, dirty |-> b.dirty]
      BY <3>5
    <3>7. /\ \A x \in Handlers : x # h => job'[x] = job[x]
          /\ job'[h] = b /\ job' = [x \in Handlers |-> job'[x]]
          /\ \A x \in Handlers : x # h => Shape(job'[x])
      BY <3>1, <3>2, <3>3 DEF Fit
    <3>8. \A k \in Kinds : \A i \in 1..Len(b.todo) : b.todo[i] # ReadOf(k)
      <4>1. Follows(job'[h].todo, job[h].todo, 1)
        BY <3>1, <3>6, <3>7
      <4>2. Todo(h)' \in SUBSET Todo(h)
        BY <1>1, <1>2, <4>1, TodoLeft
      <4>3. QED
        BY <1>4, <3>7, <4>2 DEF Todo, TodoOf
    <3>9. b.todo # <<>>
      <4>1. Len(b.todo) = Len(job[h].todo) - 1
        BY <3>1, <3>6 DEF Follows
      <4>2. Len(job[h].todo) \in Nat
        BY <1>1, HeadIs
      <4>3. QED
        BY <1>2, <4>1, <4>2
    <3>10. Shape(b)
      BY <3>2, <3>6, <3>8, <3>9 DEF Shape
    <3>11. JobsOK'
      BY <3>7, <3>10 DEF JobsOK, Fit
    <3>12. \A k \in Kinds : ~Swapping(h, k)'
      BY <3>6, <3>7 DEF Swapping
    <3>13. ~Stamped(h)'
      <4>1. job[h].todo[1] # "stamp" /\ Follows(b.todo, job[h].todo, 1)
        BY <1>2, <3>1, <3>6 DEF FileOf
      <4>2. ~(b.todo # <<>> /\ Head(b.todo) \in {"bump", "mark"})
        BY <1>2, <1>3, <3>10, <4>1, NoStampNext
      <4>3. QED
        BY <3>7, <4>2 DEF Stamped, At
    <3>14. QED
      BY <3>7, <3>11, <3>12, <3>13
  <2>2. CASE job' = Advance(job, h, 2, {})
    <3> PICK j : j = Advance(job, h, 2, {})
      OBVIOUS
    <3>1. /\ Fit(j) /\ \A x \in Handlers : x # h => j[x] = job[x]
          /\ Follows(j[h].todo, job[h].todo, 2) /\ job' = j
      BY <1>1, <1>2, <2>2, AdvanceIs
    <3>2. Shape(j[h]) /\ JobsOK'
      BY <3>1 DEF JobsOK, Fit
    <3>3. ASSUME NEW k \in Kinds
          PROVE  ~Swapping(h, k)'
      <4>1. job[h].todo[2] \notin {ReadOf(k), FileOf(k)}
        BY <1>2 DEF ReadOf, FileOf, SwapOf
      <4>2. ~(j[h].todo # <<>> /\ Head(j[h].todo) = SwapOf(k))
        BY <1>2, <1>3, <3>1, <3>2, <4>1, NoSwapNext
      <4>3. QED
        BY <3>1, <4>2 DEF Swapping, At
    <3>4. ~Stamped(h)'
      <4>1. job[h].todo[2] # "stamp"
        BY <1>2 DEF SwapOf
      <4>2. ~(j[h].todo # <<>> /\ Head(j[h].todo) \in {"bump", "mark"})
        BY <1>2, <1>3, <3>1, <3>2, <4>1, NoStampNext
      <4>3. QED
        BY <3>1, <4>2 DEF Stamped, At
    <3>5. QED
      BY <3>1, <3>2, <3>3, <3>4
  <2>3. QED
    BY <2>1, <2>2 DEF ReadFile
<1>6. ASSUME NEW x \in Handlers, NEW k \in Kinds
      PROVE  Quiet(x, k)
  BY <1>4, <1>5, QuietAlone, QuietElsewhere
<1>7. UnsavedInv'
  <2>1. KeepsTables(h)
    BY <1>1, <1>5, NoTables DEF Special, FileOf
  <2>2. \A x \in Handlers : KeepsTables(x)
    BY <1>5, <2>1, KeepsAlone
  <2>3. QED
    BY <1>1, <2>2, UnsavedStays
<1>8. RestOK'
  BY <1>1, RestStays
<1>9. QED
  BY <1>1, <1>5, <1>6, <1>7, <1>8, QuietKeeps

(* A handler that has swapped: whoever else has read the table is overtaken, unless it
   was the file that was put in force. *)
LEMMA SwappedIs ==
  ASSUME JobsOK, NEW h \in Handlers, NEW t \in Kinds, At(h, SwapOf(t)), Swapped(h, t)
  PROVE  /\ JobsOK' /\ \A x \in Handlers : KeepsTables(x)
         /\ \A x \in Handlers : ReadOf(t) \in Todo(x) => ReadOf(t) \in Todo(x)'
         /\ ~Swapping(h, t)' /\ \A x \in Handlers : x # h => (Swapping(x, t)' <=> Swapping(x, t))
         /\ job[h].file => \A x \in Handlers : Quiet(x, t)
         /\ ~job[h].file => \A x \in Handlers : Swapping(x, t)' => job'[x].raced
         /\ \A k \in Kinds \ {t} : \A x \in Handlers : Quiet(x, k)
<1> PICK j : j = Advance(job, h, 1, {})
  OBVIOUS
<1>1. /\ job[h].todo # <<>> /\ Head(job[h].todo) = SwapOf(t) /\ Fit(job)
      /\ job' = IF job[h].file THEN j ELSE Overtaken(j, t)
  BY DEF At, Swapped, JobsOK
<1>2. /\ 1 \in 1..Len(job[h].todo) /\ Program(job[h].todo) /\ job[h].todo[1] = SwapOf(t)
  BY <1>1, HeadIs
<1>3. SnapFits(job[h].todo, 1, {})
  BY DEF SnapFits
<1>4. /\ Fit(j) /\ (\A x \in Handlers : x # h => j[x] = job[x]) /\ Follows(j[h].todo, job[h].todo, 1)
  BY <1>1, <1>2, <1>3, AdvanceIs
<1>5. /\ Fit(job')
      /\ \A x \in Handlers : /\ job'[x].todo = j[x].todo /\ job'[x].snap = j[x].snap
                             /\ (job'[x].file <=> j[x].file) /\ (j[x].raced => job'[x].raced)
                             /\ job'[x].dirty = j[x].dirty
      /\ ~job[h].file => \A x \in Handlers : j[x].todo # <<>> /\ Head(j[x].todo) = SwapOf(t) => job'[x].raced
  <2>1. CASE job[h].file
    BY <1>1, <1>4, <2>1
  <2>2. CASE ~job[h].file
    <3>1. job' = Overtaken(j, t)
      BY <1>1, <2>2
    <3>2. QED
      BY <1>4, <2>2, <3>1, OvertakenIs
  <2>3. QED
    BY <2>1, <2>2
<1>6. JobsOK'
  BY <1>5 DEF JobsOK
<1>7. \A x \in Handlers : x # h => Todo(x)' = Todo(x)
  BY <1>4, <1>5 DEF Todo, TodoOf
<1>8. \A y \in Todo(h) : y # SwapOf(t) => y \in Todo(h)'
  <2>1. Follows(job'[h].todo, job[h].todo, 1) /\ 1..1 = {1}
    BY <1>4, <1>5
  <2>2. QED
    BY <1>2, <2>1, TodoLeft
<1>9. \A x \in Handlers : KeepsTables(x)
  <2>1. ~Stamped(h)'
    <3>1. Shape(j[h]) /\ job[h].todo[1] # "stamp"
      BY <1>2, <1>4 DEF Fit, SwapOf
    <3>2. ~(j[h].todo # <<>> /\ Head(j[h].todo) \in {"bump", "mark"})
      BY <1>2, <1>4, <3>1, NoStampNext
    <3>3. QED
      BY <1>5, <3>2 DEF Stamped, At
  <2>2. KeepsTables(h)
    BY <1>1, <2>1, NoTables DEF Special, SwapOf
  <2>3. QED
    BY <1>4, <1>5, <2>2, KeepsMarked
<1>10. \A k \in Kinds : ReadOf(k) # SwapOf(t)
  BY DEF ReadOf, SwapOf
<1>11. ASSUME NEW k \in Kinds
       PROVE  ~Swapping(h, k)'
  <2>1. Shape(j[h])
    BY <1>4 DEF Fit
  <2>2. job[h].todo[1] \notin {ReadOf(k), FileOf(k)}
    BY <1>2 DEF ReadOf, FileOf, SwapOf
  <2>3. ~(j[h].todo # <<>> /\ Head(j[h].todo) = SwapOf(k))
    BY <1>2, <1>4, <2>1, <2>2, NoSwapNext
  <2>4. QED
    BY <1>5, <2>3 DEF Swapping, At
<1>12. ASSUME NEW x \in Handlers, x # h, NEW k \in Kinds
       PROVE  Quiet(x, k) /\ (Swapping(x, k)' <=> Swapping(x, k))
  <2>1. /\ job'[x].todo = job[x].todo /\ job'[x].snap = job[x].snap
        /\ (job'[x].file <=> job[x].file) /\ (job[x].raced => job'[x].raced)
    BY <1>4, <1>5, <1>12
  <2>2. Swapping(x, k)' <=> Swapping(x, k)
    BY <2>1 DEF Swapping, At
  <2>3. QED
    BY <1>7, <1>12, <2>1, <2>2 DEF Quiet
<1>13. ASSUME job[h].file
       PROVE  Quiet(h, t)
  <2>1. ~Swapping(h, t)
    BY <1>13 DEF Swapping
  <2>2. QED
    BY <1>8, <1>10, <1>11, <2>1, QuietElsewhere
<1>14. ASSUME NEW k \in Kinds \ {t}
       PROVE  Quiet(h, k)
  <2>1. ~Swapping(h, k)
    BY <1>1 DEF Swapping, At, SwapOf, Kinds
  <2>2. QED
    BY <1>8, <1>10, <1>11, <2>1, QuietElsewhere
<1>15. ASSUME ~job[h].file, NEW x \in Handlers, Swapping(x, t)'
       PROVE  job'[x].raced
  BY <1>5, <1>15 DEF Swapping, At
<1>16. \A x \in Handlers : ReadOf(t) \in Todo(x) => ReadOf(t) \in Todo(x)'
  BY <1>7, <1>8, <1>10
<1>17. QED
  BY <1>6, <1>9, <1>11, <1>12, <1>13, <1>14, <1>15, <1>16

(* The table after a swap. *)
LEMMA SwapForces ==
  ASSUME JobsOK, NEW h \in Handlers, NEW t \in Kinds, At(h, SwapOf(t)), Swapped(h, t), ForceAt(t),
         Active(t)' = Active(t), job[h].snap = Active(t) => Shown(t)' = Active(t), why'[t] = Cause(h)
  PROVE  ForceAt(t)'
<1>1. /\ \A x \in Handlers : ReadOf(t) \in Todo(x) => ReadOf(t) \in Todo(x)'
      /\ ~Swapping(h, t)' /\ \A x \in Handlers : x # h => (Swapping(x, t)' <=> Swapping(x, t))
      /\ job[h].file => \A x \in Handlers : Quiet(x, t)
      /\ ~job[h].file => \A x \in Handlers : Swapping(x, t)' => job'[x].raced
  BY SwappedIs
<1> SUFFICES ASSUME ~Pending(t)'
             PROVE  /\ \A x \in Handlers : Swapping(x, t)' /\ ~job'[x].raced =>
                         job'[x].snap = Active(t)' \/ \E k \in Handlers \ {x} : Swapping(k, t)'
                    /\ why'[t] = "store" => Shown(t)' = Active(t)' \/ \E k \in Handlers : Swapping(k, t)'
  BY DEF ForceAt
<1>2. ~Pending(t)
  BY <1>1 DEF Pending
<1>3. \A x \in Handlers : Swapping(x, t) /\ ~job[x].raced =>
        job[x].snap = Active(t) \/ \E k \in Handlers \ {x} : Swapping(k, t)
  BY <1>2 DEF ForceAt
<1>4. CASE job[h].file
  <2>1. \A x \in Handlers : /\ Swapping(x, t)' <=> Swapping(x, t)
                            /\ Swapping(x, t) => job'[x].snap = job[x].snap /\ (~job'[x].raced => ~job[x].raced)
    BY <1>1, <1>4 DEF Quiet
  <2>2. why'[t] # "store"
    BY <1>4 DEF Cause
  <2>3. QED
    BY <1>3, <2>1, <2>2
<1>5. CASE ~job[h].file
  <2>1. ASSUME why'[t] = "store"
        PROVE  Shown(t)' = Active(t)' \/ \E k \in Handlers : Swapping(k, t)'
    <3>1. ~job[h].raced
      BY <1>5, <2>1 DEF Cause
    <3>2. Swapping(h, t)
      BY <1>5 DEF Swapping
    <3>3. job[h].snap = Active(t) \/ \E k \in Handlers \ {h} : Swapping(k, t)
      BY <1>3, <3>1, <3>2
    <3>4. QED
      BY <1>1, <3>3
  <2>2. QED
    BY <1>1, <1>5, <2>1
<1>6. QED
  BY <1>4, <1>5

(* What put the table in force. *)
LEMMA CauseIs ==
  ASSUME RestOK, NEW h, NEW t \in Kinds, Swapped(h, t)
  PROVE  /\ why' \in [Kinds -> {"store", "file", "race", "failed"}] /\ why'[t] = Cause(h)
         /\ \A k \in Kinds \ {t} : why'[k] = why[k]
<1>1. why \in [Kinds -> {"store", "file", "race", "failed"}] /\ why' = [why EXCEPT ![t] = Cause(h)]
  BY DEF RestOK, Swapped
<1>2. Cause(h) \in {"store", "file", "race", "failed"}
  BY DEF Cause
<1>3. QED
  BY <1>1, <1>2

(* The rules that a handler has read are put in force. *)
LEMMA SwapRulesKeeps ==
  ASSUME IInv, NEW h \in Handlers, SwapRules(h)
  PROVE  IInv'
<1>1. /\ EngineInv /\ JobsOK /\ StoreOK /\ RestOK /\ UnsavedInv /\ ForceInv
      /\ At(h, "swapRules") /\ Swap(job[h].snap) /\ Swapped(h, "rules")
      /\ UNCHANGED <<clock, caller, rewriter, file, mutation_ts, newest, unsaved, export_ts, store>>
      /\ "rules" \in Kinds /\ "rewrites" \in Kinds /\ Kinds \ {"rules"} = {"rewrites"}
      /\ SwapOf("rules") = "swapRules"
  BY DEF IInv, SwapRules, KeepRest, Kinds, SwapOf
<1>2. PICK rules \in SUBSET Rule : rules = job[h].snap
  BY <1>1 DEF JobsOK, Fit, Shape, At
<1>3. EngineInv' /\ InForce' = rules
  BY <1>1, <1>2, SwapKeeps
<1>4. /\ JobsOK' /\ (\A x \in Handlers : KeepsTables(x)) /\ \A x \in Handlers : Quiet(x, "rewrites")
  BY <1>1, SwappedIs
<1>5. /\ why' \in [Kinds -> {"store", "file", "race", "failed"}] /\ why'["rules"] = Cause(h)
      /\ why'["rewrites"] = why["rewrites"]
  BY <1>1, CauseIs
<1>6. StoreOK' /\ \A k \in Kinds : Active(k)' = Active(k)
  BY <1>1 DEF StoreOK, Active
<1>7. Active("rules") = ActiveRules(store.rules) /\ Shown("rules")' = Plain(rules)
  BY <1>3 DEF Active, Shown, Plain
<1>8. job[h].snap = Active("rules") => Shown("rules")' = Active("rules")
  BY <1>1, <1>2, <1>7, ActiveIs
<1>9. ForceAt("rules")'
  BY <1>1, <1>5, <1>6, <1>8, SwapForces DEF ForceInv
<1>10. ForceAt("rewrites")'
  <2>1. Shown("rewrites")' = Shown("rewrites")
    BY <1>1 DEF Shown
  <2>2. QED
    BY <1>1, <1>4, <1>5, <1>6, <2>1, ForceStays DEF ForceInv
<1>11. UnsavedInv'
  BY <1>1, <1>4, UnsavedStays
<1>12. RestOK'
  BY <1>1, <1>5 DEF RestOK
<1>13. QED
  BY <1>3, <1>4, <1>6, <1>9, <1>10, <1>11, <1>12 DEF IInv, ForceInv, Kinds

(* The rewrite rules that a handler has read are put in force. *)
LEMMA SwapRewritesKeeps ==
  ASSUME IInv, NEW h \in Handlers, SwapRewrites(h)
  PROVE  IInv'
<1>1. /\ EngineInv /\ JobsOK /\ StoreOK /\ RestOK /\ UnsavedInv /\ ForceInv
      /\ At(h, "swapRewrites") /\ rewriter' = job[h].snap /\ Swapped(h, "rewrites")
      /\ UNCHANGED <<clock, caller, sets, file, mutation_ts, newest, unsaved, export_ts, store>>
      /\ "rules" \in Kinds /\ "rewrites" \in Kinds /\ Kinds \ {"rewrites"} = {"rules"}
      /\ SwapOf("rewrites") = "swapRewrites"
  BY DEF IInv, SwapRewrites, KeepRest, Kinds, SwapOf
<1>2. job[h].snap \in SUBSET Rewrite
  BY <1>1 DEF JobsOK, Fit, Shape, At
<1>3. EngineInv' /\ InForce' = InForce
  <2>1. SetsOK' /\ InForce' = InForce
    BY <1>1 DEF EngineInv, SetsOK, InForce
  <2>2. CallersOK'
    BY <1>1 DEF EngineInv, CallersOK
  <2>3. \A g, r : Undoing(g, r)' = Undoing(g, r)
    BY <1>1 DEF Undoing
  <2>4. CreditInv'
    BY <1>1, <2>3 DEF EngineInv, CreditInv
  <2>5. QED
    BY <2>1, <2>2, <2>4 DEF EngineInv
<1>4. /\ JobsOK' /\ (\A x \in Handlers : KeepsTables(x)) /\ \A x \in Handlers : Quiet(x, "rules")
  BY <1>1, SwappedIs
<1>5. /\ why' \in [Kinds -> {"store", "file", "race", "failed"}] /\ why'["rewrites"] = Cause(h)
      /\ why'["rules"] = why["rules"]
  BY <1>1, CauseIs
<1>6. StoreOK' /\ \A k \in Kinds : Active(k)' = Active(k)
  BY <1>1 DEF StoreOK, Active
<1>7. job[h].snap = Active("rewrites") => Shown("rewrites")' = Active("rewrites")
  BY <1>1 DEF Shown
<1>8. ForceAt("rewrites")'
  BY <1>1, <1>5, <1>6, <1>7, SwapForces DEF ForceInv
<1>9. ForceAt("rules")'
  <2>1. Shown("rules")' = Shown("rules")
    BY <1>3 DEF Shown, Plain
  <2>2. QED
    BY <1>1, <1>4, <1>5, <1>6, <2>1, ForceStays DEF ForceInv
<1>10. UnsavedInv'
  BY <1>1, <1>4, UnsavedStays
<1>11. RestOK'
  BY <1>1, <1>2, <1>5 DEF RestOK
<1>12. QED
  BY <1>3, <1>4, <1>6, <1>8, <1>9, <1>10, <1>11 DEF IInv, ForceInv, Kinds

(* The steps that a handler has still to do, as the model writes them. *)
LEMMA RangeIs ==
  ASSUME JobsOK, NEW h \in Handlers
  PROVE  Range(job[h].todo) = Todo(h)
<1>1. job[h].todo \in Seq(Steps)
  BY DEF JobsOK, Fit, Shape, Program
<1>2. DOMAIN job[h].todo = 1..Len(job[h].todo)
  BY <1>1
<1>3. QED
  BY <1>2 DEF Range, Todo, TodoOf

(* The jobs j are the jobs a, with those marked who have read a table that failed. *)
Marks(a, j, failed) ==
  /\ Fit(j)
  /\ \A x \in Handlers :
       /\ j[x].todo = a[x].todo /\ j[x].snap = a[x].snap /\ j[x].dirty = a[x].dirty
       /\ (j[x].file <=> a[x].file) /\ (a[x].raced => j[x].raced)
       /\ a[x].todo # <<>> /\ Head(a[x].todo) = SwapOf("rules") => j[x].raced
       /\ "rewrites" \in failed /\ a[x].todo # <<>> /\ Head(a[x].todo) = SwapOf("rewrites") => j[x].raced

FailedJobs(a, failed) ==
  IF "rewrites" \in failed THEN Overtaken(Overtaken(a, "rules"), "rewrites") ELSE Overtaken(a, "rules")

(* A handler gives up. *)
LEMMA FailedIs ==
  ASSUME NEW a, Fit(a), NEW failed, NEW j, j = FailedJobs(a, failed)
  PROVE  Marks(a, j, failed)
<1> PICK b : b = Overtaken(a, "rules")
  OBVIOUS
<1>1. "rules" \in Kinds /\ "rewrites" \in Kinds
  BY DEF Kinds
<1>2. /\ Fit(b)
      /\ \A x \in Handlers :
           /\ b[x].todo = a[x].todo /\ b[x].snap = a[x].snap /\ b[x].dirty = a[x].dirty
           /\ (b[x].file <=> a[x].file) /\ (a[x].raced => b[x].raced)
           /\ a[x].todo # <<>> /\ Head(a[x].todo) = SwapOf("rules") => b[x].raced
  BY <1>1, OvertakenIs
<1>3. CASE "rewrites" \in failed
  <2>1. j = Overtaken(b, "rewrites")
    BY <1>3 DEF FailedJobs
  <2>2. /\ Fit(j)
        /\ \A x \in Handlers :
             /\ j[x].todo = b[x].todo /\ j[x].snap = b[x].snap /\ j[x].dirty = b[x].dirty
             /\ (j[x].file <=> b[x].file) /\ (b[x].raced => j[x].raced)
             /\ b[x].todo # <<>> /\ Head(b[x].todo) = SwapOf("rewrites") => j[x].raced
    BY <1>1, <1>2, <2>1, OvertakenIs
  <2>3. QED
    BY <1>2, <2>2 DEF Marks
<1>4. CASE "rewrites" \notin failed
  <2>1. j = b
    BY <1>4 DEF FailedJobs
  <2>2. QED
    BY <1>2, <1>4, <2>1 DEF Marks
<1>5. QED
  BY <1>3, <1>4

(* A rule of the store does not compile: the handler fails, with all it had to apply. *)
LEMMA ReadFails ==
  ASSUME IInv, NEW h \in Handlers, NEW failed \in SUBSET Kinds,
         \A t \in Kinds : t \in failed <=> ReadOf(t) \in Todo(h),
         At(h, "readRules"), NEW a, a[h] = Idle, \A x \in Handlers : x # h => a[x] = job[x], Marks(a, job', failed),
         why' \in [Kinds -> {"store", "file", "race", "failed"}],
         \A t \in Kinds : why'[t] = IF t \in failed THEN "failed" ELSE why[t],
         UNCHANGED <<clock, engineVars, file, mutation_ts, newest, unsaved, export_ts, store>>
  PROVE  IInv'
<1>1. /\ EngineInv /\ JobsOK /\ StoreOK /\ RestOK /\ UnsavedInv /\ ForceInv
      /\ job[h].todo # <<>> /\ Head(job[h].todo) = "readRules"
  BY DEF IInv, At
<1>2. a[h] = Idle /\ \A x \in Handlers : x # h => a[x] = job[x]
  OBVIOUS
<1>4. \A x \in Handlers :
        /\ job'[x].todo = a[x].todo /\ job'[x].snap = a[x].snap /\ job'[x].dirty = a[x].dirty
        /\ (job'[x].file <=> a[x].file) /\ (a[x].raced => job'[x].raced)
        /\ a[x].todo # <<>> /\ Head(a[x].todo) = SwapOf("rules") => job'[x].raced
        /\ "rewrites" \in failed /\ a[x].todo # <<>> /\ Head(a[x].todo) = SwapOf("rewrites") => job'[x].raced
  BY DEF Marks
<1>5. JobsOK' /\ job'[h].todo = <<>>
  BY <1>2, <1>4, IdleIs DEF JobsOK, Marks
<1>6. EngineInv' /\ InForce' = InForce /\ rewriter' = rewriter
  BY <1>1, EngineSame
<1>7. UnsavedInv'
  <2>0. ~Stamped(h)'
    BY <1>5 DEF Stamped, At
  <2>1. KeepsTables(h)
    BY <1>1, <2>0, NoTables DEF Special
  <2>2. \A x \in Handlers : x # h => KeepsTables(x)
    BY <1>2, <1>4, KeepsMarked
  <2>3. \A x \in Handlers : KeepsTables(x)
    BY <2>1, <2>2
  <2>4. QED
    BY <1>1, <2>3, UnsavedStays
<1>8. /\ why' \in [Kinds -> {"store", "file", "race", "failed"}]
      /\ \A t \in Kinds : why'[t] = IF t \in failed THEN "failed" ELSE why[t]
  OBVIOUS
<1>9. RestOK' /\ StoreOK'
  BY <1>1, <1>6, <1>8 DEF RestOK, StoreOK
<1>10. ASSUME NEW t \in Kinds, t \in failed
       PROVE  ForceAt(t)'
  <2>1. why'[t] # "store"
    BY <1>8, <1>10
  <2>2. t = "rules" \/ t = "rewrites"
    BY DEF Kinds
  <2>3. \A x \in Handlers : Swapping(x, t)' => job'[x].raced
    BY <1>4, <1>10, <2>2 DEF Swapping, At
  <2>4. QED
    BY <2>1, <2>3, ForceFailed
<1>11. ASSUME NEW t \in Kinds, t \notin failed
       PROVE  ForceAt(t)'
  <2>1. Active(t)' = Active(t) /\ Shown(t)' = Shown(t) /\ why'[t] = why[t]
    BY <1>6, <1>8, <1>11 DEF Active, Shown
  <2>2. ReadOf(t) \notin Todo(h)
    BY <1>11
  <2>3. ~Swapping(h, t) /\ ~Swapping(h, t)'
    BY <1>1, <1>5 DEF Swapping, At, SwapOf
  <2>4. Quiet(h, t)
    BY <2>2, <2>3, QuietElsewhere
  <2>5. ASSUME NEW x \in Handlers, x # h
        PROVE  Quiet(x, t)
    <3>1. /\ job'[x].todo = job[x].todo /\ job'[x].snap = job[x].snap
          /\ (job'[x].file <=> job[x].file) /\ (job[x].raced => job'[x].raced)
      BY <1>2, <1>4, <2>5
    <3>2. Todo(x)' = Todo(x)
      BY <3>1 DEF Todo, TodoOf
    <3>3. Swapping(x, t)' <=> Swapping(x, t)
      BY <3>1 DEF Swapping, At
    <3>4. QED
      BY <3>1, <3>2, <3>3 DEF Quiet
  <2>6. QED
    BY <1>1, <2>1, <2>4, <2>5, ForceStays DEF ForceInv
<1>12. QED
  BY <1>5, <1>6, <1>7, <1>9, <1>10, <1>11 DEF IInv, ForceInv

(* apply_rules reads the table. *)
LEMMA ReadRulesKeeps ==
  ASSUME IInv, NEW h \in Handlers, ReadRules(h)
  PROVE  IInv'
<1> DEFINE failed == {t \in {"rules", "rewrites"} :
                        (IF t = "rules" THEN "readRules" ELSE "readRewrites") \in Range(job[h].todo)}
<1>1. JobsOK /\ StoreOK
  BY DEF IInv
<1>2. /\ At(h, "readRules")
      /\ UNCHANGED <<clock, engineVars, file, mutation_ts, newest, unsaved, export_ts, store>>
  BY DEF ReadRules, KeepRest, engineVars
<1>3. CASE Compiles(ActiveRules(store.rules))
  <2>1. job' = Advance(job, h, 1, ActiveRules(store.rules)) /\ why' = why
    BY <1>3 DEF ReadRules
  <2>2. "rules" \in Kinds /\ ReadOf("rules") = "readRules" /\ Active("rules") = ActiveRules(store.rules)
    BY DEF Kinds, ReadOf, Active
  <2>3. Fits("rules", Active("rules"))
    BY <1>1, <2>2, ActiveIs DEF Fits
  <2>4. At(h, ReadOf("rules")) /\ job' = Advance(job, h, 1, Active("rules"))
    BY <1>2, <2>1, <2>2
  <2>5. QED
    BY <1>2, <2>1, <2>2, <2>3, <2>4, ReadKeeps
<1>4. CASE ~Compiles(ActiveRules(store.rules))
  <2>1. /\ job' = LET j == Overtaken([job EXCEPT ![h] = Idle], "rules")
                  IN  IF "rewrites" \in failed THEN Overtaken(j, "rewrites") ELSE j
        /\ why' = [t \in DOMAIN why |-> IF t \in failed THEN "failed" ELSE why[t]]
    BY <1>4 DEF ReadRules
  <2>2. failed \in SUBSET Kinds /\ \A t \in Kinds : t \in failed <=> ReadOf(t) \in Todo(h)
    BY <1>1, RangeIs DEF Kinds, ReadOf
  <2> HIDE DEF failed
  <2>3. PICK a, F : a = [job EXCEPT ![h] = Idle] /\ F = failed
    OBVIOUS
  <2>4. job' = FailedJobs(a, F)
    BY <2>1, <2>3 DEF FailedJobs
  <2>5. Fit(a) /\ a[h] = Idle /\ \A x \in Handlers : x # h => a[x] = job[x]
    <3>1. job = [x \in Handlers |-> job[x]] /\ \A x \in Handlers : Shape(job[x])
      BY <1>1 DEF JobsOK, Fit
    <3>2. /\ a = [x \in Handlers |-> a[x]] /\ a[h] = Idle
          /\ \A x \in Handlers : x # h => a[x] = job[x]
      BY <2>3, <3>1
    <3>3. QED
      BY <3>1, <3>2, IdleIs DEF Fit
  <2>6. Marks(a, job', F)
    BY <2>4, <2>5, FailedIs
  <2>7. /\ why' \in [Kinds -> {"store", "file", "race", "failed"}]
        /\ \A t \in Kinds : why'[t] = IF t \in F THEN "failed" ELSE why[t]
    <3>1. why \in [Kinds -> {"store", "file", "race", "failed"}]
      BY DEF IInv, RestOK
    <3>2. why' = [t \in Kinds |-> IF t \in F THEN "failed" ELSE why[t]]
      BY <2>1, <2>3, <3>1
    <3>3. QED
      BY <3>1, <3>2
  <2>8. F \in SUBSET Kinds /\ \A t \in Kinds : t \in F <=> ReadOf(t) \in Todo(h)
    BY <2>2, <2>3
  <2>9. QED
    BY <1>2, <2>5, <2>6, <2>7, <2>8, ReadFails
<1>5. QED
  BY <1>3, <1>4

(* apply_rewrite_rules reads the table. *)
LEMMA ReadRewritesKeeps ==
  ASSUME IInv, NEW h \in Handlers, ReadRewrites(h)
  PROVE  IInv'
<1>1. StoreOK
  BY DEF IInv
<1>2. /\ At(h, "readRewrites") /\ job' = Advance(job, h, 1, ActiveRewrites(store.rewrites))
      /\ UNCHANGED <<clock, engineVars, file, mutation_ts, newest, unsaved, export_ts, why, store>>
  BY DEF ReadRewrites, KeepRest, engineVars
<1>3. /\ "rewrites" \in Kinds /\ ReadOf("rewrites") = "readRewrites"
      /\ Active("rewrites") = ActiveRewrites(store.rewrites)
  BY DEF Kinds, ReadOf, Active
<1>4. Fits("rewrites", Active("rewrites"))
  BY <1>1, <1>3, ActiveIs DEF Fits
<1>5. At(h, ReadOf("rewrites")) /\ job' = Advance(job, h, 1, Active("rewrites"))
  BY <1>2, <1>3
<1>6. QED
  BY <1>2, <1>3, <1>4, <1>5, ReadKeeps

(* Every step of a handler. *)
LEMMA HandlerStepKeeps ==
  ASSUME IInv, NEW h \in Handlers, HandlerStep(h)
  PROVE  IInv'
<1>1. CASE ReadRules(h)
  BY <1>1, ReadRulesKeeps
<1>2. CASE ReadRewrites(h)
  BY <1>2, ReadRewritesKeeps
<1>3. CASE ReadFileRules(h) \/ ReadFileRewrites(h)
  <2>1. file \in File
    BY RowsAssumption DEF IInv, RestOK
  <2>2. Fits("rules", file.rules) /\ Fits("rewrites", file.rewrites)
    BY <2>1 DEF Fits, File
  <2>3. /\ "rules" \in Kinds /\ "rewrites" \in Kinds
        /\ FileOf("rules") = "fileRules" /\ FileOf("rewrites") = "fileRewrites"
    BY DEF Kinds, FileOf
  <2>4. \/ ReadFile(h, FileOf("rules"), file.rules)
        \/ ReadFile(h, FileOf("rewrites"), file.rewrites)
    BY <1>3, <2>3 DEF ReadFileRules, ReadFileRewrites
  <2>5. QED
    BY <2>2, <2>3, <2>4, ReadFileKeeps
<1>4. CASE SwapRules(h)
  BY <1>4, SwapRulesKeeps
<1>5. CASE SwapRewrites(h)
  BY <1>5, SwapRewritesKeeps
<1>6. CASE WriteConfig(h) \/ \E p \in Protocols : ReadBackends(h, p) \/ SwapPool(h, p)
  BY <1>6, BackendStepKeeps
<1>7. CASE Bump(h)
  BY <1>7, BumpKeeps
<1>8. CASE ExportTable(h)
  BY <1>8, ExportTableKeeps
<1>9. CASE Stamp(h) \/ Reply(h) \/ Mark(h)
  BY <1>9, StampKeeps, ReplyKeeps, MarkKeeps
<1>10. QED
  BY <1>1, <1>2, <1>3, <1>4, <1>5, <1>6, <1>7, <1>8, <1>9 DEF HandlerStep

-----------------------------------------------------------------------------
(***************************************************************************)
(* Requests, the environment, start and restart.                            *)
(***************************************************************************)

(* No handler is under way. *)
LEMMA NobodyWorks ==
  ASSUME NEW jobs, jobs = [x \in Handlers |-> Idle]
  PROVE  Fit(jobs) /\ \A x \in Handlers : jobs[x] = Idle
<1>1. \A x \in Handlers : jobs[x] = Idle
  OBVIOUS
<1>2. jobs = [x \in Handlers |-> jobs[x]]
  OBVIOUS
<1>3. QED
  BY <1>1, <1>2, IdleIs DEF Fit

(* The handlers are left alone. *)
LEMMA JobsStay ==
  ASSUME JobsOK, job' = job
  PROVE  JobsOK' /\ \A x \in Handlers : KeepsTables(x) /\ \A t \in Kinds : Quiet(x, t)
<1>1. JobsOK'
  BY DEF JobsOK
<1>2. \A x \in Handlers : KeepsTables(x)
  BY KeepsAlone
<1>3. QED
  BY <1>1, <1>2, QuietAlone

(* A step of a request changes tokens, never which rules are in force. *)
LEMMA RequestsKeep ==
  ASSUME IInv, NEW c \in Callers, Request(c), UNCHANGED configVars
  PROVE  IInv'
<1>1. EngineInv /\ JobsOK /\ StoreOK /\ RestOK /\ UnsavedInv /\ ForceInv /\ clock \in Nat
  BY DEF IInv, RestOK
<1>2. EngineInv' /\ SameRules
  BY <1>1, RequestKeeps DEF EngineStep
<1>3. clock' = clock /\ rewriter' = rewriter
  BY DEF Request, Arrive, Route, LoadMs, LoadTokens, WinRefill, StoreTokens, TakeToken, UndoToken, MatchQuery
<1>4. UNCHANGED <<file, store, job, mutation_ts, newest, export_ts, why, unsaved>>
  BY DEF configVars
<1>5. JobsOK' /\ \A x \in Handlers : KeepsTables(x) /\ \A t \in Kinds : Quiet(x, t)
  BY <1>1, <1>4, JobsStay
<1>6. InForce' = InForce
  <2>1. Len(sets) \in 1..Len(sets)
    BY <1>1, SetsAre DEF EngineInv
  <2>2. QED
    BY <1>2, <2>1 DEF SameRules, InForce
<1>7. ASSUME NEW t \in Kinds
      PROVE  ForceAt(t)'
  <2>1. Active(t)' = Active(t) /\ Shown(t)' = Shown(t)
    BY <1>3, <1>4, <1>6 DEF Active, Shown, Plain
  <2>2. QED
    BY <1>1, <1>4, <1>5, <2>1, ForceStays DEF ForceInv
<1>8. UnsavedInv'
  BY <1>1, <1>3, <1>4, <1>5, UnsavedStays
<1>9. RestOK' /\ StoreOK'
  BY <1>1, <1>3, <1>4 DEF RestOK, StoreOK
<1>10. QED
  BY <1>2, <1>5, <1>7, <1>8, <1>9 DEF IInv, ForceInv

(* The file is edited, or time passes. *)
LEMMA WorldKeeps ==
  ASSUME IInv, Tick \/ \E f \in Files : EditFile(f)
  PROVE  IInv'
<1>1. JobsOK /\ RestOK /\ UnsavedInv
  BY DEF IInv
<1>2. UNCHANGED <<engineVars, store, job, mutation_ts, newest, export_ts, why, unsaved>>
  BY DEF Tick, EditFile
<1>3. file' \in Files /\ (clock' = clock \/ clock' = clock + 1)
  BY <1>1 DEF Tick, EditFile, RestOK
<1>4. RestOK'
  <2>1. /\ mutation_ts' \in 0..clock' /\ export_ts' \in 0..clock' /\ newest' \in 0..clock'
        /\ clock' \in Nat
    BY <1>1, <1>2, <1>3 DEF RestOK
  <2>2. QED
    BY <1>1, <1>2, <1>3, <2>1 DEF RestOK, engineVars
<1>5. JobsOK' /\ \A x \in Handlers : KeepsTables(x) /\ \A t \in Kinds : Quiet(x, t)
  BY <1>1, <1>2, JobsStay
<1>6. UnsavedInv'
  <2>1. \A n \in 0..clock : n \in 0..clock'
    BY <1>1, <1>3 DEF RestOK
  <2>2. QED
    BY <1>1, <1>2, <1>5, <2>1, UnsavedStays
<1>7. QED
  BY <1>2, <1>4, <1>5, <1>6, QuietKeeps

(* A file that is loaded. *)
LEMMA LoadedIs ==
  ASSUME NEW f \in Files, Loads(f), NEW g \in FromFile(f)
  PROVE  g \in File /\ Compiles(g.rewrites)
<1>1. f \in File
  BY RowsAssumption
<1>2. \A x \in FromFile(f) : x = g
  BY DEF FromFile
<1>3. Compiles(g.rewrites)
  BY <1>2 DEF Loads
<1>4. g = [f EXCEPT !.primary = IF f.primary # "none" THEN f.primary ELSE f.shared]
  BY DEF FromFile
<1>5. (IF f.primary # "none" THEN f.primary ELSE f.shared) \in STRING
  BY <1>1 DEF File
<1>6. g \in File
  BY <1>1, <1>4, <1>5 DEF File
<1>7. QED
  BY <1>3, <1>6

(* seed_if_empty fills the tables with rows. *)
LEMMA SeededIs ==
  ASSUME NEW s \in [rules : SUBSET RuleRow, rewrites : SUBSET GoodRewrite,
                    backends : [Protocols -> Seq(BackendRow)], users : SUBSET UserRow],
         NEW g \in File, Compiles(g.rewrites)
  PROVE  Seeded(s, g) \in [rules : SUBSET RuleRow, rewrites : SUBSET GoodRewrite,
                           backends : [Protocols -> Seq(BackendRow)], users : SUBSET UserRow]
<1>1. /\ RuleRowsOf(g) \in SUBSET RuleRow /\ UserRowsOf(g) \in SUBSET UserRow
      /\ BackendRowsOf(g) \in Seq(BackendRow) /\ RewriteRowsOf(g) \in SUBSET GoodRewrite
  BY RowsOfFile
<1>2. /\ s.rules \in SUBSET RuleRow /\ s.rewrites \in SUBSET GoodRewrite
      /\ s.backends \in [Protocols -> Seq(BackendRow)] /\ s.users \in SUBSET UserRow
  OBVIOUS
<1>3. PICK b \in [Protocols -> Seq(BackendRow)] :
        b = [s.backends EXCEPT !.mysql = IF s.backends.mysql = <<>> THEN BackendRowsOf(g) ELSE s.backends.mysql]
  <2>1. s.backends.mysql \in Seq(BackendRow)
    BY <1>2 DEF Protocols
  <2>2. QED
    BY <1>1, <1>2, <2>1
<1>4. Seeded(s, g) = [rules |-> IF s.rules = {} THEN RuleRowsOf(g) ELSE s.rules,
                      rewrites |-> IF s.rewrites = {} THEN RewriteRowsOf(g) ELSE s.rewrites,
                      backends |-> b, users |-> IF s.users = {} THEN UserRowsOf(g) ELSE s.users]
  BY <1>3 DEF Seeded
<1>5. PICK r \in SUBSET RuleRow : r = IF s.rules = {} THEN RuleRowsOf(g) ELSE s.rules
  BY <1>1, <1>2
<1>6. PICK w \in SUBSET GoodRewrite : w = IF s.rewrites = {} THEN RewriteRowsOf(g) ELSE s.rewrites
  BY <1>1, <1>2
<1>7. PICK u \in SUBSET UserRow : u = IF s.users = {} THEN UserRowsOf(g) ELSE s.users
  BY <1>1, <1>2
<1>8. Seeded(s, g) = [rules |-> r, rewrites |-> w, backends |-> b, users |-> u]
  BY <1>4, <1>5, <1>6, <1>7
<1>9. \A R, W, B, U : \A x \in R, y \in W, z \in B, v \in U :
        [rules |-> x, rewrites |-> y, backends |-> z, users |-> v]
          \in [rules : R, rewrites : W, backends : B, users : U]
  OBVIOUS
<1>10. [rules |-> r, rewrites |-> w, backends |-> b, users |-> u]
         \in [rules : SUBSET RuleRow, rewrites : SUBSET GoodRewrite,
              backends : [Protocols -> Seq(BackendRow)], users : SUBSET UserRow]
  BY <1>9, Zenon
<1>11. QED
  BY <1>8, <1>10

(* The process comes up again on the file. *)
LEMMA RestartKeeps ==
  ASSUME IInv, Restart
  PROVE  IInv'
<1>1. StoreOK /\ RestOK /\ file \in Files
  BY DEF IInv, RestOK
<1>2. PICK g \in FromFile(file) :
        /\ Loads(file) /\ sets' = <<Compiled(g.rules)>> /\ rewriter' = g.rewrites
        /\ caller' = [c \in Callers |-> Nobody] /\ job' = [h \in Handlers |-> Idle]
        /\ store' = Seeded(store, g) /\ why' = [t \in {"rules", "rewrites"} |-> "file"]
        /\ mutation_ts' = 0 /\ export_ts' = 0 /\ newest' = 0 /\ unsaved' = {}
  BY DEF Restart, Started
<1>3. UNCHANGED <<clock, file>>
  BY DEF Restart
<1>4. g \in File /\ Compiles(g.rewrites)
  BY <1>1, <1>2, LoadedIs
<1>5. g.rules \in SUBSET Rule /\ g.rewrites \in SUBSET Rewrite
  BY <1>4 DEF File
<1>6. EngineInv'
  BY <1>2, <1>5, EngineStartsAnew
<1>7. StoreOK'
  <2>1. store \in [rules : SUBSET RuleRow, rewrites : SUBSET GoodRewrite,
                   backends : [Protocols -> Seq(BackendRow)], users : SUBSET UserRow]
    BY <1>1 DEF StoreOK, GoodRewrite
  <2>2. store' \in [rules : SUBSET RuleRow, rewrites : SUBSET GoodRewrite,
                    backends : [Protocols -> Seq(BackendRow)], users : SUBSET UserRow]
    BY <1>2, <1>4, <2>1, SeededIs
  <2>3. QED
    BY <2>2 DEF StoreOK, GoodRewrite
<1>8. JobsOK' /\ \A x \in Handlers : job'[x] = Idle
  BY <1>2, NobodyWorks DEF JobsOK
<1>9. RestOK'
  BY <1>1, <1>2, <1>3, <1>5 DEF RestOK, Kinds
<1>10. UnsavedInv'
  <2>1. \A x \in Handlers : ~Stamped(x)'
    BY <1>8, IdleIs DEF Stamped, At
  <2>2. QED
    BY <1>2, <2>1 DEF UnsavedInv
<1>11. ASSUME NEW t \in Kinds
       PROVE  ForceAt(t)'
  <2>1. why'[t] # "store"
    BY <1>2 DEF Kinds
  <2>2. \A x \in Handlers : ~Swapping(x, t)'
    BY <1>8, IdleIs DEF Swapping, At
  <2>3. QED
    BY <2>1, <2>2, ForceFailed
<1>12. QED
  BY <1>6, <1>7, <1>8, <1>9, <1>10, <1>11 DEF IInv, ForceInv

(* The process starts for the first time: the file is in force and in the store. *)
LEMMA InitEstablishes ==
  ASSUME Init
  PROVE  IInv
<1>1. /\ clock = 2 * Second /\ file \in Files /\ Loads(file)
      /\ caller = [c \in Callers |-> Nobody] /\ job = [h \in Handlers |-> Idle]
      /\ why = [t \in {"rules", "rewrites"} |-> "store"]
      /\ mutation_ts = 0 /\ export_ts = 0 /\ newest = 0 /\ unsaved = {}
  BY DEF Init
<1>2. PICK g \in FromFile(file) :
        sets = <<Compiled(g.rules)>> /\ rewriter = g.rewrites /\ store = Seeded(NoRows, g)
  BY DEF Init
<1>3. g \in File /\ Compiles(g.rewrites)
  BY <1>1, LoadedIs
<1>4. g.rules \in SUBSET Rule /\ g.rewrites \in SUBSET Rewrite
  BY <1>3 DEF File
<1>5. EngineInv /\ InForce = g.rules
  BY <1>1, <1>2, <1>4, EngineStarts
<1>6. /\ NoRows \in [rules : SUBSET RuleRow, rewrites : SUBSET GoodRewrite,
                     backends : [Protocols -> Seq(BackendRow)], users : SUBSET UserRow]
      /\ NoRows.rules = {} /\ NoRows.rewrites = {}
  <2>1. PICK b : b = [p \in Protocols |-> <<>>]
    OBVIOUS
  <2>2. b \in [Protocols -> Seq(BackendRow)]
    BY <2>1
  <2>3. NoRows = [rules |-> {}, rewrites |-> {}, backends |-> b, users |-> {}]
    BY <2>1 DEF NoRows
  <2>4. QED
    BY <2>2, <2>3
<1>7. StoreOK
  <2>1. store \in [rules : SUBSET RuleRow, rewrites : SUBSET GoodRewrite,
                   backends : [Protocols -> Seq(BackendRow)], users : SUBSET UserRow]
    BY <1>2, <1>3, <1>6, SeededIs
  <2>2. QED
    BY <2>1 DEF StoreOK, GoodRewrite
<1>8. store.rules = RuleRowsOf(g) /\ store.rewrites = RewriteRowsOf(g)
  BY <1>2, <1>6 DEF Seeded
<1>9. JobsOK /\ \A x \in Handlers : job[x] = Idle
  BY <1>1, NobodyWorks DEF JobsOK
<1>10. RestOK
  BY <1>1, <1>2, <1>4, SecondAssumption DEF RestOK, Kinds
<1>11. UnsavedInv
  <2>1. \A x \in Handlers : ~Stamped(x)
    BY <1>9, IdleIs DEF Stamped, At
  <2>2. QED
    BY <1>1, <2>1 DEF UnsavedInv
<1>12. ASSUME NEW t \in Kinds
       PROVE  ForceAt(t)
  <2>1. \A x \in Handlers : ~Swapping(x, t)
    BY <1>9, IdleIs DEF Swapping, At
  <2>2. ActiveRules(store.rules) = Plain(g.rules) /\ ActiveRewrites(store.rewrites) = g.rewrites
    BY <1>3, <1>8, FileInForce
  <2>3. Shown(t) = Active(t)
    BY <1>2, <1>5, <2>2 DEF Shown, Active
  <2>4. QED
    BY <2>1, <2>3 DEF ForceAt
<1>13. QED
  BY <1>5, <1>7, <1>9, <1>10, <1>11, <1>12 DEF IInv, ForceInv

-----------------------------------------------------------------------------
(***************************************************************************)
(* The theorems.                                                           *)
(***************************************************************************)

(* Every step keeps the invariant. *)
LEMMA NextKeeps ==
  ASSUME IInv, [Next]_vars
  PROVE  IInv'
<1>1. CASE UNCHANGED vars
  <2>1. UNCHANGED <<clock, engineVars, file, store, job, mutation_ts, newest, export_ts, why, unsaved>>
    BY <1>1 DEF vars, configVars
  <2>2. JobsOK /\ RestOK /\ UnsavedInv
    BY DEF IInv
  <2>3. JobsOK' /\ \A x \in Handlers : KeepsTables(x) /\ \A t \in Kinds : Quiet(x, t)
    BY <2>1, <2>2, JobsStay
  <2>4. RestOK'
    BY <2>1, <2>2, RestStays
  <2>5. UnsavedInv'
    BY <2>1, <2>2, <2>3, UnsavedStays
  <2>6. QED
    BY <2>1, <2>3, <2>4, <2>5, QuietKeeps
<1>2. ASSUME NEW c \in Callers, Request(c), UNCHANGED configVars
      PROVE  IInv'
  BY <1>2, RequestsKeep
<1>3. ASSUME NEW h \in Handlers,
             RuleHandler(h) \/ RewriteHandler(h) \/ BackendHandler(h) \/ UserHandler(h)
      PROVE  IInv'
  BY <1>3, RowsKeep
<1>4. ASSUME NEW h \in Handlers, NEW f \in Files, Import(h, f)
      PROVE  IInv'
  BY <1>4, ImportKeeps
<1>5. ASSUME NEW h \in Handlers,
             ReloadRules(h) \/ ReloadConfig(h) \/ ReloadBackends(h) \/ \E f \in Files : ClusterSync(h, f)
      PROVE  IInv'
  BY <1>5, ReloadsKeep
<1>6. ASSUME NEW h \in Handlers, ExportStart(h)
      PROVE  IInv'
  BY <1>6, ExportStartKeeps
<1>7. ASSUME NEW h \in Handlers, HandlerStep(h)
      PROVE  IInv'
  BY <1>7, HandlerStepKeeps
<1>8. CASE Tick \/ \E f \in Files : EditFile(f)
  BY <1>8, WorldKeeps
<1>9. CASE Restart
  BY <1>9, RestartKeeps
<1>10. QED
  BY <1>1, <1>2, <1>3, <1>4, <1>5, <1>6, <1>7, <1>8, <1>9 DEF Next

(* The inductive invariant holds in every reachable state. *)
THEOREM InvariantHolds == Spec => []IInv
<1>1. Init => IInv
  BY InitEstablishes
<1>2. IInv /\ [Next]_vars => IInv'
  BY NextKeeps
<1>3. QED
  BY <1>1, <1>2, PTL DEF Spec

(* Every variable of the tables, the engines, the handlers and the stamps keeps its
   type: in particular every rewrite rule in the store compiles, whatever the dashboard
   sends and whatever file is imported or seeded (create_rewrite_rule, import_config),
   and no stamp is ahead of the clock. *)
THEOREM TypeCorrect == Spec => []TypeOK
<1>1. IInv => TypeOK
  <2> SUFFICES ASSUME IInv PROVE TypeOK
    OBVIOUS
  <2>1. EngineInv /\ JobsOK /\ StoreOK /\ RestOK
    BY DEF IInv
  <2>2. \A g \in 1..Len(sets) : DOMAIN sets[g] \subseteq Rule
    BY <2>1, SetsAre DEF EngineInv
  <2>3. ASSUME NEW c \in Callers
        PROVE  CallerOK(caller[c])
    <3>1. /\ caller[c] \in Caller /\ caller[c].set \in 1..Len(sets)
          /\ caller[c].pc \in {"idle", "route"} => caller[c].rule = {}
          /\ caller[c].pc \notin {"idle", "route"} =>
               \E r \in DOMAIN sets[caller[c].set] : caller[c].rule = {r}
      BY <2>1 DEF EngineInv, CallersOK
    <3>2. /\ caller[c].pc \in {"idle", "route", "load", "cas", "read", "store", "take", "undo"}
          /\ caller[c].now \in Nat /\ caller[c].last \in Nat /\ caller[c].cur \in Int
          /\ caller[c].second \in BOOLEAN
      BY <3>1 DEF Caller
    <3>3. caller[c].rule \subseteq DOMAIN sets[caller[c].set] /\ Cardinality(caller[c].rule) <= 1
      <4>1. CASE caller[c].rule = {}
        BY <4>1, FS_EmptySet
      <4>2. CASE \E r \in DOMAIN sets[caller[c].set] : caller[c].rule = {r}
        <5>1. PICK r \in DOMAIN sets[caller[c].set] : caller[c].rule = {r}
          BY <4>2
        <5>2. Cardinality(caller[c].rule) = 1
          BY <5>1, FS_Singleton
        <5>3. QED
          BY <5>1, <5>2
      <4>3. QED
        BY <3>1, <4>1, <4>2
    <3>4. QED
      BY <3>1, <3>2, <3>3 DEF CallerOK
  <2>4. \A h \in Handlers : job[h].todo \in Seq(Steps) /\ job[h].dirty \subseteq Changes
    BY <2>1 DEF JobsOK, Fit, Shape, Program
  <2>5. /\ store.rules \subseteq RuleRow
        /\ store.rewrites \subseteq [name : STRING, ok : {TRUE}, block : BOOLEAN, on : BOOLEAN]
        /\ \A p \in Protocols : store.backends[p] \in Seq(BackendRow)
        /\ store.users \subseteq UserRow
    BY <2>1, StoreIs DEF GoodRewrite
  <2>6. QED
    BY <2>1, <2>2, <2>3, <2>4, <2>5 DEF TypeOK, RestOK
<1>2. QED
  BY <1>1, InvariantHolds, PTL

(* However the atomic accesses of try_consume_token interleave, in a rule set in force or
   in one that was replaced, a bucket never holds more than one second's tokens plus one
   less than the requests that can be in the router at a time: the tokens that a bucket
   has, and those that refused requests have still to give back, are together at most
   that. *)
THEOREM CreditIsBounded == Spec => []CreditBounded
<1>1. IInv => CreditBounded
  <2> SUFFICES ASSUME IInv PROVE CreditBounded
    OBVIOUS
  <2>1. SetsOK /\ CreditInv
    BY DEF IInv, EngineInv
  <2>2. ASSUME NEW g \in 1..Len(sets), NEW r \in DOMAIN sets[g], r.qps > 0
        PROVE  sets[g][r].tokens <= r.qps + Cardinality(Callers) - 1
    <3>1. sets[g][r].tokens \in Int /\ r.qps \in Nat
      BY <2>1, SetsAre DEF Tokens, Rule
    <3>2. Cardinality(Undoing(g, r)) \in Nat /\ Cardinality(Callers) \in Nat
      BY UndoingCounts
    <3>3. sets[g][r].tokens + Cardinality(Undoing(g, r)) <= r.qps + Cardinality(Callers) - 1
      BY <2>1, <2>2 DEF CreditInv
    <3>4. QED
      BY <3>1, <3>2, <3>3
  <2>3. QED
    BY <2>2 DEF CreditBounded
<1>2. QED
  BY <1>1, InvariantHolds, PTL

(* When no handler has still to read or swap a table, its rows in the store are what is in
   force, unless the file, a failed handler or a handler that was overtaken between
   reading the store and swapping (apply_rules) was the last: for any number of handlers,
   however their reads of the store and their swaps interleave. *)
THEOREM RulesComeFromStore == Spec => []StoreInForce
<1>1. IInv => StoreInForce
  <2> SUFFICES ASSUME IInv PROVE StoreInForce
    OBVIOUS
  <2>1. JobsOK /\ ForceInv
    BY DEF IInv
  <2>2. ASSUME NEW t \in Kinds, Settled(t), why[t] = "store"
        PROVE  Shown(t) = Active(t)
    <3>1. \A h \in Handlers : ReadOf(t) \notin Todo(h) /\ SwapOf(t) \notin Todo(h)
      BY <2>1, <2>2, RangeIs DEF Settled, ReadOf, SwapOf
    <3>2. ~Pending(t)
      BY <3>1 DEF Pending
    <3>3. \A h \in Handlers : ~Swapping(h, t)
      BY <2>1, <3>1, HeadIs DEF Swapping, At
    <3>4. QED
      BY <2>1, <2>2, <3>2, <3>3 DEF ForceInv, ForceAt
  <2>3. Settled("rules") /\ why["rules"] = "store" => {Stored(r) : r \in InForce} = ActiveRules(store.rules)
    BY <2>2 DEF Kinds, Shown, Active, Plain
  <2>4. Settled("rewrites") /\ why["rewrites"] = "store" => rewriter = ActiveRewrites(store.rewrites)
    BY <2>2 DEF Kinds, Shown, Active
  <2>5. QED
    BY <2>3, <2>4 DEF StoreInForce
<1>2. QED
  BY <1>1, InvariantHolds, PTL

(* While no export is under way and mutation_ts holds the newest stamp, a change of a table
   that was confirmed (bump_mutation) and that the last export (export_config) lacks is
   never stamped older than that export, so the comparison of the two stamps in
   config_status reports it: for any number of exports and changes that overlap, with
   each reading of the clock and each store of a stamp a step of its own. *)
THEOREM ConfirmedChangesShow == Spec => []UnsavedShown
<1>1. IInv => UnsavedShown
  <2> SUFFICES ASSUME IInv, NoExport, unsaved \cap Tables # {}, mutation_ts = newest
               PROVE  mutation_ts >= export_ts
    BY DEF UnsavedShown
  <2>1. JobsOK /\ RestOK /\ UnsavedInv
    BY DEF IInv
  <2>2. PICK t \in unsaved : t \in Tables
    OBVIOUS
  <2>3. \A h \in Handlers : t \notin Todo(h)
    BY <2>1, <2>2, RangeIs DEF NoExport
  <2>4. QED
    BY <2>1, <2>2, <2>3 DEF UnsavedInv, Awaited
<1>2. QED
  BY <1>1, InvariantHolds, PTL
=============================================================================
