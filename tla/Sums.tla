-------------------------------- MODULE Sums --------------------------------
(* Sums over finite sets, as the number of their units: f[x] of each member x.  Written
   with Cardinality, they can be reasoned about with the theorems on finite sets. *)
EXTENDS Naturals, FiniteSets

Units(f, S) == UNION {{x} \X (1..f[x]) : x \in S}
Total(f, S) == Cardinality(Units(f, S))
=============================================================================
