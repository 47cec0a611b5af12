---------------------------- MODULE MCStmtShadow ----------------------------
(* Two connections, two texts, two proxy ids; three ids per connection let a connection
   carry statements left by an earlier use. *)
EXTENDS StmtShadow, TLC

CONSTANTS c1, c2, t1, t2

MCConns == {c1, c2}
MCTexts == {t1, t2}

(* No action depends on the last outcome but for the turn, which every step changes: states
   that differ in it only have the same steps, and none of the steps is a stuttering step
   of the contract, so that TLC compares each of them with the contract's actions. *)
WithoutOutcome == <<shadow, next_id, in_tx, stmt_conn, tx_conn, conn, refused>>
Symm == Permutations(MCConns) \cup Permutations(MCTexts)
=============================================================================
