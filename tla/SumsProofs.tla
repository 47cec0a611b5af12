----------------------------- MODULE SumsProofs -----------------------------
(***************************************************************************)
(* Sums over finite sets, and the facts about numbers that the proofs share:  *)
(* a set of them has a least one, and division has one remainder.            *)
(***************************************************************************)
EXTENDS Sums, Integers, FiniteSetTheorems, WellFoundedInduction, TLAPS

-----------------------------------------------------------------------------
(* Sums. *)

(* The units of one member. *)
LEMMA OneMember ==
  ASSUME NEW x, NEW n \in Nat
  PROVE  IsFiniteSet({x} \X (1..n)) /\ Cardinality({x} \X (1..n)) = n
<1>1. IsFiniteSet({x}) /\ Cardinality({x}) = 1
  BY FS_Singleton
<1>2. IsFiniteSet(1..n) /\ Cardinality(1..n) = n
  BY FS_Interval
<1>3. \A A, B : IsFiniteSet(A) /\ IsFiniteSet(B) =>
        IsFiniteSet(A \X B) /\ Cardinality(A \X B) = Cardinality(A) * Cardinality(B)
  BY FS_Product
<1>4. /\ IsFiniteSet({x} \X (1..n))
      /\ Cardinality({x} \X (1..n)) = Cardinality({x}) * Cardinality(1..n)
  BY <1>1, <1>2, <1>3, Zenon
<1> QED
  BY <1>1, <1>2, <1>4

(* What is a unit. *)
LEMMA UnitsAre ==
  ASSUME NEW f, NEW S, NEW u
  PROVE  u \in Units(f, S) <=> \E x \in S : u \in {x} \X (1..f[x])
  BY DEF Units

(* A sum over a finite set is a number. *)
LEMMA TotalType ==
  ASSUME NEW f, NEW S, IsFiniteSet(S), \A x \in S : f[x] \in Nat
  PROVE  IsFiniteSet(Units(f, S)) /\ Total(f, S) \in Nat
<1> DEFINE g == [x \in S |-> {x} \X (1..f[x])]
           T == {g[x] : x \in S}
<1>1. g \in Surjection(S, T)
  BY DEF Surjection
<1>2. UNION T = Units(f, S)
  BY DEF Units
<1>3. \A V \in T : IsFiniteSet(V)
  <2>1. \A x \in S : IsFiniteSet({x} \X (1..f[x]))
    BY OneMember
  <2> QED
    BY <2>1
<1> HIDE DEF g, T
<1>4. IsFiniteSet(T)
  BY <1>1, FS_Surjection
<1>5. IsFiniteSet(UNION T)
  BY <1>3, <1>4, FS_UNION
<1> QED
  BY <1>2, <1>5, FS_CardinalityType DEF Total

(* A sum depends on what the members have. *)
LEMMA TotalSame ==
  ASSUME NEW f, NEW g, NEW S, \A x \in S : f[x] = g[x]
  PROVE  Total(f, S) = Total(g, S)
<1>1. \A u : u \in Units(f, S) <=> u \in Units(g, S)
  BY UnitsAre
<1>2. Units(f, S) = Units(g, S)
  BY <1>1
<1> QED
  BY <1>2 DEF Total

(* One member taken out. *)
LEMMA TotalWithout ==
  ASSUME NEW f, NEW S, IsFiniteSet(S), \A x \in S : f[x] \in Nat, NEW y \in S
  PROVE  Total(f, S) = Total(f, S \ {y}) + f[y]
<1> DEFINE A == Units(f, S \ {y})
           B == {y} \X (1..f[y])
<1>1. IsFiniteSet(S \ {y})
  BY FS_RemoveElement
<1>2. IsFiniteSet(A) /\ Cardinality(A) \in Nat
  <2>1. \A x \in S \ {y} : f[x] \in Nat
    OBVIOUS
  <2> QED
    BY <1>1, <2>1, TotalType DEF Total
<1>3. IsFiniteSet(B) /\ Cardinality(B) = f[y]
  BY OneMember
<1>4. \A u : u \in A => u[1] # y
  BY UnitsAre
<1>5. \A u : u \in B => u[1] = y
  OBVIOUS
<1>6. \A u : u \in Units(f, S) <=> u \in A \/ u \in B
  BY UnitsAre
<1> HIDE DEF A, B
<1>7. A \cap B = {} /\ Units(f, S) = A \cup B
  BY <1>4, <1>5, <1>6
<1>8. Cardinality(A \cup B) = Cardinality(A) + Cardinality(B) - Cardinality(A \cap B)
  BY <1>2, <1>3, FS_Union
<1>9. Cardinality(A \cap B) = 0
  BY <1>7, FS_EmptySet
<1> QED
  BY <1>2, <1>3, <1>7, <1>8, <1>9 DEF Total, A

(* Fewer members. *)
LEMMA TotalMono ==
  ASSUME NEW f, NEW S, IsFiniteSet(S), \A x \in S : f[x] \in Nat, NEW R \in SUBSET S
  PROVE  Total(f, R) <= Total(f, S) /\ Total(f, R) \in Nat /\ Total(f, S) \in Nat
<1>1. IsFiniteSet(R)
  BY FS_Subset
<1>2. \A x \in R : f[x] \in Nat
  OBVIOUS
<1>3. Total(f, R) \in Nat /\ Total(f, S) \in Nat /\ IsFiniteSet(Units(f, S))
  BY <1>1, <1>2, TotalType
<1>4. \A u : u \in Units(f, R) => u \in Units(f, S)
  BY UnitsAre
<1>5. Units(f, R) \in SUBSET Units(f, S)
  BY <1>4
<1> QED
  BY <1>3, <1>5, FS_Subset DEF Total

(* One member changes. *)
LEMMA TotalChanged ==
  ASSUME NEW f, NEW g, NEW S, IsFiniteSet(S), NEW y \in S,
         \A x \in S : f[x] \in Nat /\ g[x] \in Nat,
         \A x \in S \ {y} : g[x] = f[x]
  PROVE  /\ Total(g, S) = Total(f, S) + g[y] - f[y]
         /\ Total(f, S) \in Nat /\ Total(g, S) \in Nat
<1>1. Total(f, S) = Total(f, S \ {y}) + f[y] /\ Total(g, S) = Total(g, S \ {y}) + g[y]
  BY TotalWithout
<1>2. Total(f, S \ {y}) = Total(g, S \ {y})
  BY TotalSame
<1>3. Total(f, S) \in Nat /\ Total(g, S) \in Nat /\ Total(f, S \ {y}) \in Nat
  BY TotalMono, TotalType
<1> QED
  BY <1>1, <1>2, <1>3

(* Members that have more. *)
LEMMA TotalOrder ==
  ASSUME NEW f, NEW g, NEW S, IsFiniteSet(S),
         \A x \in S : f[x] \in Nat /\ g[x] \in Nat /\ f[x] <= g[x]
  PROVE  Total(f, S) <= Total(g, S) /\ Total(f, S) \in Nat /\ Total(g, S) \in Nat
<1>1. \A x \in S : f[x] \in Nat
  OBVIOUS
<1>2. \A x \in S : g[x] \in Nat
  OBVIOUS
<1>3. IsFiniteSet(Units(g, S)) /\ Total(f, S) \in Nat /\ Total(g, S) \in Nat
  BY <1>1, <1>2, TotalType
<1>4. \A x \in S : 1..f[x] \subseteq 1..g[x]
  OBVIOUS
<1>5. \A u : u \in Units(f, S) => u \in Units(g, S)
  <2> SUFFICES ASSUME NEW u, u \in Units(f, S) PROVE u \in Units(g, S)
    OBVIOUS
  <2>1. PICK x \in S : u \in {x} \X (1..f[x])
    BY UnitsAre
  <2>2. u \in {x} \X (1..g[x])
    BY <1>4, <2>1
  <2> QED
    BY <2>2, UnitsAre
<1>6. Units(f, S) \in SUBSET Units(g, S)
  BY <1>5
<1> QED
  BY <1>3, <1>6, FS_Subset DEF Total

(* Members that have nothing do not count. *)
LEMMA TotalSupport ==
  ASSUME NEW f, NEW g, NEW S, NEW R \in SUBSET S,
         \A x \in R : f[x] = g[x], \A x \in S \ R : g[x] = 0
  PROVE  Total(f, R) = Total(g, S)
<1>1. \A u : u \in Units(f, R) => u \in Units(g, S)
  BY UnitsAre
<1>2. \A u : u \in Units(g, S) => u \in Units(f, R)
  <2> SUFFICES ASSUME NEW u, u \in Units(g, S) PROVE u \in Units(f, R)
    OBVIOUS
  <2>1. PICK x \in S : u \in {x} \X (1..g[x])
    BY UnitsAre
  <2>2. x \in R
    <3>1. CASE x \notin R
      <4>1. g[x] = 0
        BY <3>1
      <4> QED
        BY <2>1, <4>1
    <3> QED
      BY <3>1
  <2> QED
    BY <2>1, <2>2, UnitsAre
<1>3. Units(f, R) = Units(g, S)
  BY <1>1, <1>2
<1> QED
  BY <1>3 DEF Total

(* Two sets without a common member. *)
LEMMA TotalApart ==
  ASSUME NEW f, NEW A, NEW B, IsFiniteSet(A), IsFiniteSet(B), A \cap B = {},
         \A x \in A \cup B : f[x] \in Nat
  PROVE  Total(f, A \cup B) = Total(f, A) + Total(f, B)
<1>1. IsFiniteSet(Units(f, A)) /\ Total(f, A) \in Nat
  BY TotalType
<1>2. IsFiniteSet(Units(f, B)) /\ Total(f, B) \in Nat
  BY TotalType
<1>3. \A u : u \in Units(f, A) => u[1] \in A
  BY UnitsAre
<1>4. \A u : u \in Units(f, B) => u[1] \in B
  BY UnitsAre
<1>5. \A u : u \in Units(f, A \cup B) <=> u \in Units(f, A) \/ u \in Units(f, B)
  BY UnitsAre
<1>6. Units(f, A) \cap Units(f, B) = {} /\ Units(f, A \cup B) = Units(f, A) \cup Units(f, B)
  BY <1>3, <1>4, <1>5
<1>7. PICK U, V : U = Units(f, A) /\ V = Units(f, B)
  OBVIOUS
<1>8. Cardinality(U \cup V) = Cardinality(U) + Cardinality(V) - Cardinality(U \cap V)
  BY <1>1, <1>2, <1>7, FS_Union
<1>9. Cardinality(U \cap V) = 0
  BY <1>6, <1>7, FS_EmptySet
<1>10. /\ Total(f, A) = Cardinality(U) /\ Total(f, B) = Cardinality(V)
       /\ Total(f, A \cup B) = Cardinality(U \cup V)
  BY <1>6, <1>7 DEF Total
<1> QED
  BY <1>1, <1>2, <1>8, <1>9, <1>10

(* The members of some of the parts of a set. *)
Union(part, T) == UNION {part[h] : h \in T}

(* A sum over the parts of a set, by the least set of parts for which it would fail. *)
LEMMA TotalOfParts ==
  ASSUME NEW H, IsFiniteSet(H), NEW g, NEW part, NEW f,
         \A h \in H : IsFiniteSet(part[h]) /\ f[h] = Total(g, part[h]),
         \A h \in H : \A x \in part[h] : g[x] \in Nat,
         \A h, k \in H : h # k => part[h] \cap part[k] = {}
  PROVE  Total(f, H) = Total(g, Union(part, H))
<1> DEFINE Fails(T) == Total(f, T) # Total(g, Union(part, T))
           Bad == {T \in SUBSET H : Fails(T)}
<1>1. \A h \in H : f[h] \in Nat
  <2> SUFFICES ASSUME NEW h \in H PROVE f[h] \in Nat
    OBVIOUS
  <2> QED
    BY TotalType
<1>2. IsWellFoundedOn(StrictSubsetOrdering(H), FiniteSubsetsOf(H))
  BY FS_StrictSubsetOrderingWellFounded
<1>3. ASSUME Bad # {} PROVE FALSE
  <2>1. \A T \in SUBSET H : IsFiniteSet(T)
    BY FS_Subset
  <2>2. Bad \subseteq FiniteSubsetsOf(H)
    BY <2>1 DEF FiniteSubsetsOf
  <2>h. HIDE DEF Bad
  <2>3. PICK T \in Bad : \A V \in Bad : ~(<<V, T>> \in StrictSubsetOrdering(H))
    BY <1>2, <1>3, <2>2, WFMin
  <2>4. T \in SUBSET H /\ Fails(T) /\ IsFiniteSet(T)
    BY <2>1, <2>3 DEF Bad
  <2>5. CASE T = {}
    <3>1. Units(f, T) = {} /\ Units(g, Union(part, T)) = {}
      BY <2>5 DEF Units, Union
    <3> QED
      BY <2>4, <3>1 DEF Total
  <2>6. CASE T # {}
    <3>1. PICK y \in T : TRUE
      BY <2>6
    <3>2. PICK V : V = T \ {y}
      OBVIOUS
    <3>3. V \in SUBSET H /\ V \subseteq T /\ V # T /\ IsFiniteSet(V) /\ y \in H
      BY <2>1, <2>4, <3>1, <3>2
    <3>4. <<V, T>> \in StrictSubsetOrdering(H)
      BY <2>4, <3>3 DEF StrictSubsetOrdering
    <3>5. Total(f, V) = Total(g, Union(part, V))
      BY <2>3, <3>3, <3>4 DEF Bad
    <3>6. Total(f, T) = Total(f, V) + f[y]
      <4>1. \A x \in T : f[x] \in Nat
        BY <1>1, <2>4
      <4> QED
        BY <2>4, <3>1, <3>2, <4>1, TotalWithout
    <3>7. Union(part, T) = Union(part, V) \cup part[y]
      BY <3>1, <3>2 DEF Union
    <3>8. Union(part, V) \cap part[y] = {}
      BY <2>4, <3>1, <3>2, <3>3 DEF Union
    <3>9. IsFiniteSet(Union(part, V))
      <4> DEFINE r == [h \in V |-> part[h]]
                 P == {part[h] : h \in V}
      <4>1. r \in Surjection(V, P)
        BY DEF Surjection
      <4>2. \A X \in P : IsFiniteSet(X)
        BY <3>3
      <4>3. Union(part, V) = UNION P
        BY DEF Union
      <4> HIDE DEF r, P
      <4>4. IsFiniteSet(P)
        BY <3>3, <4>1, FS_Surjection
      <4> QED
        BY <4>2, <4>3, <4>4, FS_UNION
    <3>10. \A x \in Union(part, V) \cup part[y] : g[x] \in Nat
      BY <3>3 DEF Union
    <3>11. Total(g, Union(part, T)) = Total(g, Union(part, V)) + Total(g, part[y])
      BY <3>3, <3>7, <3>8, <3>9, <3>10, TotalApart
    <3> QED
      BY <2>4, <3>3, <3>5, <3>6, <3>11
  <2> QED
    BY <2>5, <2>6
<1>4. H \in SUBSET H
  OBVIOUS
<1> QED
  BY <1>3, <1>4

-----------------------------------------------------------------------------
(* Numbers. *)

(* A set of numbers has a least one. *)
LEMMA Least ==
  ASSUME NEW S \in SUBSET Nat, S # {}
  PROVE  \E x \in S : \A y \in S : x <= y
<1> DEFINE Upto(x) == {y \in S : y <= x}
<1>0. \A y \in S : y \in Nat
  OBVIOUS
<1>1. PICK m \in S : TRUE
  OBVIOUS
<1> DEFINE F == Upto(m)
<1>2. IsFiniteSet(F)
  <2>1. IsFiniteSet(0..m)
    BY FS_Interval
  <2>2. \A y \in F : y \in 0..m
    BY <1>0
  <2>3. F \in SUBSET (0..m)
    BY <2>2
  <2> QED
    BY <2>1, <2>3, FS_Subset
<1>3. IsWellFoundedOn(StrictSubsetOrdering(F), FiniteSubsetsOf(F))
  BY FS_StrictSubsetOrderingWellFounded
<1> DEFINE T == {Upto(x) : x \in F}
<1>4. \A x \in F : Upto(x) \in SUBSET F /\ Upto(x) \in FiniteSubsetsOf(F)
  <2> SUFFICES ASSUME NEW x \in F PROVE Upto(x) \in SUBSET F /\ Upto(x) \in FiniteSubsetsOf(F)
    OBVIOUS
  <2>0. \A y \in Upto(x) : y \in F
    BY <1>0
  <2>1. Upto(x) \in SUBSET F
    BY <2>0
  <2>2. IsFiniteSet(Upto(x))
    BY <1>2, <2>1, FS_Subset
  <2> QED BY <2>1, <2>2 DEF FiniteSubsetsOf
<1>5. T \subseteq FiniteSubsetsOf(F) /\ T # {}
  <2>1. m \in F
    OBVIOUS
  <2> QED BY <1>4, <2>1
<1>h. HIDE DEF T
<1>6. PICK U \in T : \A V \in T : ~(<<V, U>> \in StrictSubsetOrdering(F))
  BY <1>3, <1>5, WFMin
<1>7. PICK x \in F : U = Upto(x)
  BY <1>6 DEF T
<1>8. ASSUME NEW y \in S, y < x PROVE FALSE
  <2>0. x \in Nat /\ y \in Nat /\ m \in Nat /\ x <= m /\ x \in S
    BY <1>7
  <2>1. y \in F 
    BY <1>8, <2>0
  <2>a. \A z \in Upto(y) : z \in Upto(x)
    BY <1>0, <1>8, <2>0
  <2>b. Upto(y) \subseteq Upto(x)
    BY <2>a
  <2>c. x \in Upto(x) /\ x \notin Upto(y)
    BY <1>8, <2>0
  <2>2. Upto(y) \subseteq Upto(x) /\ x \in Upto(x) /\ x \notin Upto(y)
    BY <2>b, <2>c
  <2>3. Upto(y) \in T
    BY <2>1 DEF T
  <2>4. Upto(y) \in SUBSET F /\ Upto(x) \in SUBSET F /\ Upto(x) # Upto(y)
    BY <1>4, <2>1, <2>2
  <2> HIDE DEF Upto, F
  <2>5. <<Upto(y), Upto(x)>> \in StrictSubsetOrdering(F)
    BY <2>2, <2>4 DEF StrictSubsetOrdering
  <2> QED BY <1>6, <1>7, <2>3, <2>5
<1> QED BY <1>8

(* Division with remainder. *)
LEMMA Division ==
  ASSUME NEW a \in Int, NEW m \in Nat \ {0}
  PROVE  a = ((a \div m) * m) + (a % m) /\ a \div m \in Int /\ a % m \in 0..m - 1
  OBVIOUS

(* The remainder is the only one. *)
LEMMA Remainder ==
  ASSUME NEW k \in Int, NEW m \in Nat \ {0}, NEW r \in 0..m - 1
  PROVE  (k * m + r) % m = r
  OBVIOUS

(* The remainder of a sum. *)
LEMMA Shifted ==
  ASSUME NEW a \in Int, NEW m \in Nat \ {0}, NEW n \in 0..m - 1
  PROVE  (a + n) % m = IF (a % m) + n < m THEN (a % m) + n ELSE (a % m) + n - m
<1>1. PICK k \in Int : a = (k * m) + (a % m)
  BY Division
<1>2. PICK b \in 0..m - 1 : b = a % m
  OBVIOUS
<1>3. CASE b + n < m
  <2>1. a + n = (k * m) + (b + n) /\ b + n \in 0..m - 1
    BY <1>1, <1>2, <1>3
  <2> QED
    BY <1>2, <1>3, <2>1, Remainder
<1>4. CASE b + n >= m
  <2>1. a + n = ((k + 1) * m) + (b + n - m) /\ b + n - m \in 0..m - 1
    BY <1>1, <1>2, <1>4
  <2> QED
    BY <1>2, <1>4, <2>1, Remainder
<1> QED
  BY <1>2, <1>3, <1>4
=============================================================================
