---------------------------- MODULE MCQueryRouter ----------------------------
(* Small instances of QueryRouter for TLC. *)
EXTENDS QueryRouter, TLC

Read(ts, d, c) == [kind |-> "read", tables |-> ts, cached |-> c, dest |-> d]
Write(ts, d, c) == [kind |-> "write", tables |-> ts, cached |-> c, dest |-> d]

(* Reads of one table and of both, cached or sent to the primary; writes of
   one, by the classifier, in a transaction, by a hostgroup rule and by a rule
   that sends it to a replica. *)
Mixed == {Read({1}, "replica", TRUE), Read({1, 2}, "group1", TRUE),
          Read({1}, "primary", TRUE),
          Write({1}, "primary", TRUE), Write({1}, "direct", FALSE), Write({2}, "group0", FALSE),
          Write({1}, "replica", FALSE)}
=============================================================================
