--------------------------- MODULE MCRuntimeConfig ---------------------------
(* Small instances: one query rule with and without a limit and one that does not
   compile, and three configuration files. *)
EXTENDS RuntimeConfig

limited == [name |-> "a", ok |-> TRUE, qps |-> 1, ff |-> TRUE, dry |-> FALSE]
free == [name |-> "b", ok |-> TRUE, qps |-> 0, ff |-> FALSE, dry |-> TRUE]
block == [name |-> "w", ok |-> TRUE, block |-> TRUE]

MCRuleRows == {[name |-> "a", ok |-> TRUE, on |-> TRUE], [name |-> "a", ok |-> FALSE, on |-> TRUE],
               [name |-> "b", ok |-> TRUE, on |-> TRUE]}
MCRewriteRows == {[name |-> "w", ok |-> b, block |-> b, on |-> TRUE] : b \in BOOLEAN}
MCBackendRows == {[addr |-> "y", role |-> "primary", on |-> TRUE],
                  [addr |-> "y", role |-> "replica", on |-> TRUE]}
MCUserRows == {[name |-> "u", on |-> TRUE]}

MCFiles == {[parses |-> TRUE, primary |-> "x", shared |-> "none", rules |-> {limited},
             rewrites |-> {}, users |-> {}, dup |-> FALSE],
            [parses |-> TRUE, primary |-> "none", shared |-> "x", rules |-> {free},
             rewrites |-> {block}, users |-> {"u"}, dup |-> FALSE],
            [parses |-> TRUE, primary |-> "z", shared |-> "none", rules |-> {free},
             rewrites |-> {}, users |-> {"u"}, dup |-> TRUE]}

MCBudgets == {[admin |-> 3, queries |-> 0, ticks |-> 1], [admin |-> 0, queries |-> 3, ticks |-> 2],
              [admin |-> 1, queries |-> 2, ticks |-> 1]}

Symm == Permutations(Callers) \cup Permutations(Handlers)
=============================================================================
