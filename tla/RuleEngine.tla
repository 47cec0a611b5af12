----------------------------- MODULE RuleEngine -----------------------------
(* Query rules and their rate limits (proxy/rules.rs), the rewrite rules that run
   before them (proxy/rewriter.rs), and the requests that use both (is_fast_forward_rule
   and the head of route_query_inner in proxy/router.rs).

   A rule set is compiled once and swapped in as a whole; a request that took a
   reference to an older set goes on with that set and its token buckets.  A token
   bucket is three relaxed atomics, so each access is a step of its own. *)
EXTENDS Integers, Sequences, FiniteSets, FiniteSetsExt

CONSTANTS
  Callers,        \* requests that can be in the router at a time
  Second          \* milliseconds in a second, scaled

VARIABLES
  clock,          \* milliseconds
  sets,           \* the compiled rule sets; the last one is in force
  rewriter,       \* the rewrite rules in force
  caller,         \* the requests
  queries         \* bound: requests that may still arrive

engineVars == <<sets, rewriter, caller, queries>>

ASSUME SecondAssumption == Second \in Nat \ {0}
ASSUME CallersAssumption == IsFiniteSet(Callers) /\ Callers # {}

(* A rule as configured: whether its regex compiles, its qps_limit (0 is none), its
   flags.  What text it matches is left open. *)
Rule == [name : STRING, ok : BOOLEAN, qps : Nat, ff : BOOLEAN, dry : BOOLEAN]
Rewrite == [name : STRING, ok : BOOLEAN, block : BOOLEAN]

Compiles(rules) == \A r \in rules : r.ok

(* compile_rules: every rule starts with a full bucket that was never refilled. *)
Compiled(rules) == [r \in rules |-> [tokens |-> r.qps, ms |-> 0]]

InForce == DOMAIN sets[Len(sets)]

Swap(rules) == sets' = Append(sets, Compiled(rules))

Nobody == [pc |-> "idle", set |-> 1, rule |-> {}, now |-> 0, last |-> 0, cur |-> 0, second |-> FALSE]

CallerOK(c) ==
  /\ c.pc \in {"idle", "route", "load", "cas", "read", "store", "take", "undo"}
  /\ c.set \in 1..Len(sets)
  /\ c.rule \subseteq DOMAIN sets[c.set] /\ Cardinality(c.rule) <= 1
  /\ c.now \in Nat /\ c.last \in Nat /\ c.cur \in Int /\ c.second \in BOOLEAN

(* The rule that a request between two atomic accesses is working on. *)
RuleOf(c) == CHOOSE r \in caller[c].rule : TRUE
Bucket(c) == sets[caller[c].set][RuleOf(c)]
SetBucket(c, b) == sets' = [sets EXCEPT ![caller[c].set][RuleOf(c)] = b]
Goto(c, pc) == caller' = [caller EXCEPT ![c].pc = pc]

(* The answer of match_query reaches its caller: a fast-forward rule that admitted the
   request sends it out, otherwise the first match is followed by the router's own. *)
Answer(c, rule, limited) ==
  caller' = [caller EXCEPT ![c] =
    IF caller[c].second \/ (~limited /\ \E r \in rule : r.ff) THEN Nobody
    ELSE [Nobody EXCEPT !.pc = "route", !.second = TRUE]]

(* match_query: the first rule that matches and is neither a dry run nor left out of
   the rollout; none may match. *)
MatchQuery(c) ==
  \E rule \in {{}} \cup {{r} : r \in {s \in InForce : ~s.dry}} :
    /\ IF \E r \in rule : r.qps > 0
       THEN caller' = [caller EXCEPT ![c].pc = "load", ![c].set = Len(sets), ![c].rule = rule]
       ELSE Answer(c, rule, FALSE)
    /\ UNCHANGED <<sets, rewriter>>

(* is_fast_forward_rule, on a request that arrives. *)
Arrive(c) ==
  /\ caller[c].pc = "idle"
  /\ queries > 0
  /\ queries' = queries - 1
  /\ MatchQuery(c)
  /\ UNCHANGED clock

(* QueryRewriter::apply, as far as the request is concerned: a rule that matches may
   block it; a replaced text is still a text. *)
Blocks == \E r \in rewriter : r.block

(* route_query_inner: a rewrite rule that blocks ends the request, otherwise the rules
   are matched once more. *)
Route(c) ==
  /\ caller[c].pc = "route"
  /\ \/ /\ Blocks
        /\ caller' = [caller EXCEPT ![c] = Nobody]
        /\ UNCHANGED <<sets, rewriter>>
     \/ MatchQuery(c)
  /\ UNCHANGED <<clock, queries>>

(* try_consume_token: the time, and when the bucket was last refilled. *)
LoadMs(c) ==
  /\ caller[c].pc = "load"
  /\ caller' = [caller EXCEPT ![c].now = clock, ![c].last = Bucket(c).ms,
                              ![c].pc = IF clock > Bucket(c).ms THEN "cas" ELSE "take"]
  /\ UNCHANGED <<clock, sets, rewriter, queries>>

(* Only one thread wins the refill of a millisecond. *)
WinRefill(c) ==
  /\ caller[c].pc = "cas"
  /\ IF Bucket(c).ms = caller[c].last
     THEN SetBucket(c, [Bucket(c) EXCEPT !.ms = caller[c].now]) /\ Goto(c, "read")
     ELSE Goto(c, "take") /\ UNCHANGED sets
  /\ UNCHANGED <<clock, rewriter, queries>>

LoadTokens(c) ==
  /\ caller[c].pc = "read"
  /\ caller' = [caller EXCEPT ![c].cur = Bucket(c).tokens, ![c].pc = "store"]
  /\ UNCHANGED <<clock, sets, rewriter, queries>>

Refill_Unbounded(c) ==
  caller[c].cur + ((caller[c].now - caller[c].last) * RuleOf(c).qps) \div Second

(* The new content of the bucket: what was read, the tokens of the elapsed time, which
   are rounded down, and never more than one second's. *)
Refill(c) ==
  LET qps == RuleOf(c).qps
      add == Min({((caller[c].now - caller[c].last) * qps) \div Second, qps})
  IN  Min({caller[c].cur + add, qps})

StoreTokens(c) ==
  /\ caller[c].pc = "store"
  /\ SetBucket(c, [Bucket(c) EXCEPT !.tokens = Refill(c)])
  /\ Goto(c, "take")
  /\ UNCHANGED <<clock, rewriter, queries>>

(* fetch_sub: a request that found no token has to give its debt back. *)
TakeToken(c) ==
  /\ caller[c].pc = "take"
  /\ SetBucket(c, [Bucket(c) EXCEPT !.tokens = @ - 1])
  /\ IF Bucket(c).tokens <= 0 THEN Goto(c, "undo") ELSE Answer(c, caller[c].rule, FALSE)
  /\ UNCHANGED <<clock, rewriter, queries>>

UndoToken(c) ==
  /\ caller[c].pc = "undo"
  /\ SetBucket(c, [Bucket(c) EXCEPT !.tokens = @ + 1])
  /\ Answer(c, caller[c].rule, TRUE)
  /\ UNCHANGED <<clock, rewriter, queries>>

Request(c) ==
  \/ Arrive(c) \/ Route(c) \/ LoadMs(c) \/ WinRefill(c)
  \/ LoadTokens(c) \/ StoreTokens(c) \/ TakeToken(c) \/ UndoToken(c)

-----------------------------------------------------------------------------
(* However the atomic accesses of try_consume_token interleave, the overlap of a refill
   with refused requests lifts a bucket above one second's tokens by less than the
   number of requests, and this credit does not build up, also in a rule set that was
   replaced while requests were working on it. *)
CreditBounded ==
  \A g \in 1..Len(sets) : \A r \in DOMAIN sets[g] :
    r.qps > 0 => sets[g][r].tokens <= r.qps + Cardinality(Callers) - 1

(* Stronger than the code: a bucket owes no more than the refused requests that have not
   given their token back.  A refill that overlaps a refused request stores its debt. *)
NoDebt ==
  \A g \in 1..Len(sets) : \A r \in DOMAIN sets[g] :
    sets[g][r].tokens + Cardinality({c \in Callers : caller[c].pc = "undo" /\ caller[c].set = g}) >= 0
=============================================================================
