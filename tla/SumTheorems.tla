------------------------------ MODULE SumTheorems --------------------------------
(***************************************************************************)
(* What the proofs need to know of Sum: it is a natural number, it splits  *)
(* into one summand and the others, it depends on the summands only, it is *)
(* at least each summand, and it is 0 when all of them are.                *)
(***************************************************************************)
EXTENDS Sums, FiniteSetTheorems, FunctionTheorems, TLAPS

(* The tokens of a finite set are finitely many, so their number is one.   *)
LEMMA SumType ==
    ASSUME NEW S, IsFiniteSet(S), NEW f, \A x \in S : f[x] \in Nat
    PROVE  IsFiniteSet(Tokens(f, S)) /\ Sum(f, S) \in Nat
<1> DEFINE Of(x) == {x} \X (1 .. f[x])
           Q == {Of(x) : x \in S}
           g == [x \in S |-> Of(x)]
<1>1. g \in Surjection(S, Q)
  <2>1. g \in [S -> Q]
    OBVIOUS
  <2>2. \A q \in Q : \E x \in S : g[x] = q
    OBVIOUS
  <2> QED BY <2>1, <2>2, Fun_IsSurj
<1>2. IsFiniteSet(Q)
  BY <1>1, FS_Surjection
<1>3. \A q \in Q : IsFiniteSet(q)
  <2> SUFFICES ASSUME NEW x \in S PROVE IsFiniteSet(Of(x))
    OBVIOUS
  <2>1. IsFiniteSet(1 .. f[x])
    BY FS_Interval
  <2>2. IsFiniteSet({x})
    BY FS_Singleton
  <2> QED BY <2>1, <2>2, FS_Product
<1>4. IsFiniteSet(UNION Q)
  BY <1>2, <1>3, FS_UNION
<1>5. Tokens(f, S) = UNION Q
  BY DEF Tokens
<1> QED BY <1>4, <1>5, FS_CardinalityType DEF Sum

(* One summand can be taken out.                                           *)
LEMMA SumSplit ==
    ASSUME NEW S, IsFiniteSet(S), NEW f, \A x \in S : f[x] \in Nat, NEW y \in S
    PROVE  Sum(f, S) = Sum(f, S \ {y}) + f[y]
<1> DEFINE T == S \ {y}
           Y == {y} \X (1 .. f[y])
<1>1. IsFiniteSet(T)
  BY FS_RemoveElement
<1>2. IsFiniteSet(Tokens(f, T)) /\ Cardinality(Tokens(f, T)) \in Nat
  BY <1>1, SumType DEF Sum
<1>3. IsFiniteSet(Y) /\ Cardinality(Y) = f[y]
  <2>1. IsFiniteSet(1 .. f[y]) /\ Cardinality(1 .. f[y]) = f[y]
    BY FS_Interval
  <2>2. IsFiniteSet({y}) /\ Cardinality({y}) = 1
    BY FS_Singleton
  <2>3. IsFiniteSet(Y) /\ Cardinality(Y) = 1 * f[y]
    BY <2>1, <2>2, FS_Product
  <2> QED BY <2>3
<1>4. Tokens(f, S) = Tokens(f, T) \cup Y
  BY DEF Tokens
<1>5. Tokens(f, T) \cap Y = {}
  BY DEF Tokens
<1>6. Cardinality(Tokens(f, S)) =
          Cardinality(Tokens(f, T)) + Cardinality(Y) - Cardinality({})
  <2> HIDE DEF T, Y
  <2>1. Cardinality(Tokens(f, T) \cup Y) =
            Cardinality(Tokens(f, T)) + Cardinality(Y) - Cardinality(Tokens(f, T) \cap Y)
    BY <1>2, <1>3, FS_Union
  <2> QED BY <2>1, <1>4, <1>5
<1>7. Cardinality({}) = 0
  BY FS_EmptySet
<1> QED BY <1>2, <1>3, <1>6, <1>7 DEF Sum

(* A sum depends on the summands only.                                     *)
LEMMA SumSame ==
    ASSUME NEW S, NEW f, NEW g, \A x \in S : f[x] = g[x]
    PROVE  Sum(f, S) = Sum(g, S)
BY DEF Sum, Tokens

(* A sum is at least each of its summands.                                 *)
LEMMA SumMember ==
    ASSUME NEW S, IsFiniteSet(S), NEW f, \A x \in S : f[x] \in Nat, NEW y \in S
    PROVE  f[y] <= Sum(f, S)
<1>1. IsFiniteSet(S \ {y})
  BY FS_RemoveElement
<1>2. Sum(f, S \ {y}) \in Nat
  BY <1>1, SumType
<1>3. Sum(f, S) = Sum(f, S \ {y}) + f[y]
  BY SumSplit
<1> QED BY <1>2, <1>3

(* A sum of zeros is zero.                                                 *)
LEMMA SumZero ==
    ASSUME NEW S, NEW f, \A x \in S : f[x] = 0
    PROVE  Sum(f, S) = 0
<1>1. \A x \in S : 1 .. f[x] = {}
  OBVIOUS
<1>2. Tokens(f, S) = {}
  BY <1>1 DEF Tokens
<1> QED BY <1>2, FS_EmptySet DEF Sum

==================================================================================
