-------------------------- MODULE RegexCacheProofs --------------------------
(***************************************************************************)
(* Proofs about RegexCache, for every set of expressions, strings, nodes   *)
(* and addresses: the heap has the compiled expressions of the cached keys,*)
(* the list has the cached expressions by last use, no call writes past    *)
(* the buffer, and a match of a glob answers what the glob means.          *)
(***************************************************************************)
EXTENDS RegexCache, TLAPS, FiniteSetTheorems, SequenceTheorems, WellFoundedInduction

(***************************************************************************)
(* Induction, without an operator as a parameter                           *)
(***************************************************************************)

(* A set of natural numbers has a least one.                               *)
LEMMA LeastNumber ==
    ASSUME NEW S \in SUBSET Nat, S # {}
    PROVE  \E n \in S : \A m \in S : n <= m
<1> DEFINE R == OpToRel(<, Nat)
<1>1. IsWellFoundedOn(R, Nat)
  BY NatLessThanWellFounded
<1>2. PICK n \in S : \A m \in S : ~(<<m, n>> \in R)
  <2> HIDE DEF R
  <2> QED
    BY <1>1, WFMin
<1>3. ASSUME NEW m \in S PROVE n <= m
  <2>1. m < n => <<m, n>> \in R
    BY DEF OpToRel
  <2> HIDE DEF R
  <2>2. ~(m < n)
    BY <1>2, <2>1
  <2> QED
    BY <2>2
<1> QED
  BY <1>3

(* Induction from 0 to n.                                                  *)
LEMMA Induct ==
    ASSUME NEW n \in Nat, NEW S, 0 \in S, \A i \in 1..n : i - 1 \in S => i \in S
    PROVE  \A i \in 0..n : i \in S
<1> DEFINE B == {i \in 0..n : i \notin S}
<1> SUFFICES ASSUME B # {} PROVE FALSE
  OBVIOUS
<1>1. B \in SUBSET Nat
  OBVIOUS
<1>2. PICK m \in B : \A k \in B : m <= k
  <2> HIDE DEF B
  <2> QED
    BY <1>1, LeastNumber
<1>3. m \in 1..n /\ m - 1 \in 0..n /\ ~(m <= m - 1)
  OBVIOUS
<1>4. m - 1 \in S
  BY <1>2, <1>3
<1> QED
  BY <1>3, <1>4

(* The functions that are computed by n steps st from a in a set T.        *)
Steps(T, n) == [(1..n) \X T -> T]

Computed(T, a, n, st) ==
    {f \in [0..n -> T] :
        f[0] = a /\ \A i \in 1..n : f[i] = st[<<i, f[i - 1]>>]}

(* There is one.                                                           *)
LEMMA Recursion ==
    ASSUME NEW T, NEW a \in T, NEW n \in Nat, NEW st \in Steps(T, n)
    PROVE  \E f : f \in Computed(T, a, n, st)
<1> DEFINE R(f, k) == /\ f \in [0..k -> T]
                      /\ f[0] = a
                      /\ \A i \in 1..k : f[i] = st[<<i, f[i - 1]>>]
           S == {k \in 0..n : \E f : R(f, k)}
<1> USE DEF Steps
<1>1. 0 \in S
  <2> DEFINE f == [i \in 0..0 |-> a]
  <2>1. R(f, 0)
    OBVIOUS
  <2>2. 0 \in 0..n
    OBVIOUS
  <2> HIDE DEF R, f
  <2> QED
    BY <2>1, <2>2
<1>2. ASSUME NEW k \in 1..n, k - 1 \in S PROVE k \in S
  <2>1. PICK f : R(f, k - 1)
    BY <1>2
  <2> DEFINE g == [i \in 0..k |-> IF i = k THEN st[<<k, f[k - 1]>>] ELSE f[i]]
  <2>2. f[k - 1] \in T /\ st[<<k, f[k - 1]>>] \in T
    BY <2>1
  <2>3. \A i \in 0..k : i # k => i \in 0..(k - 1) /\ f[i] \in T
    BY <2>1
  <2>4. g \in [0..k -> T]
    BY <2>2, <2>3
  <2>5. g[0] = a
    BY <2>1
  <2>6. ASSUME NEW i \in 1..k PROVE g[i] = st[<<i, g[i - 1]>>]
    <3>1. g[i - 1] = f[i - 1]
      OBVIOUS
    <3>2. CASE i = k
      <4>1. g[k] = st[<<k, f[k - 1]>>]
        OBVIOUS
      <4> HIDE DEF g
      <4> QED
        BY <3>1, <3>2, <4>1
    <3>3. CASE i # k
      <4>1. i \in 1..(k - 1) /\ g[i] = f[i]
        BY <3>3
      <4> HIDE DEF g
      <4> QED
        BY <2>1, <3>1, <4>1
    <3> QED
      BY <3>2, <3>3
  <2>7. R(g, k)
    BY <2>4, <2>5, <2>6
  <2> HIDE DEF g, R
  <2> QED
    BY <2>7
<1>3. n \in S
  <2> HIDE DEF S
  <2> QED
    BY <1>1, <1>2, Induct
<1>4. PICK f : R(f, n)
  BY <1>3
<1> QED
  BY <1>4 DEF Computed

(***************************************************************************)
(* Caches                                                                  *)
(***************************************************************************)

Links == Nodes \cup {null}

Texts == {stripped(e, glob).text : e \in Exprs, glob \in BOOLEAN} \cup {null}

Caches ==
    [hash : [Exprs -> Links],
     node : [Nodes -> [key : Exprs \cup {null}, data : Handles \cup {null},
                       prev : Links, next : Links]],
     begin : Links, end : Links,
     heap : [Handles -> Texts],
     broken : {"no", "null", "hangs"}]

Roots(c) == ({c.hash[e] : e \in keys(c)} \cup {c.begin, c.end}) \ {null}

Neighbours(c, S) == ({c.node[n].prev : n \in S} \cup {c.node[n].next : n \in S}) \ {null}

Closed(c, S) == Neighbours(c, S) \subseteq S

(* What is referenced contains the roots and whatever its nodes lead to:   *)
(* after as many steps as there are nodes nothing more is reached.         *)
LEMMA ReferencedClosed ==
    ASSUME NEW c \in Caches
    PROVE  /\ Roots(c) \subseteq Referenced(c) /\ Referenced(c) \subseteq Nodes
           /\ Closed(c, Referenced(c))
<1> DEFINE roots == Roots(c)
           N == Cardinality(Nodes)
           more(S) == S \cup Neighbours(c, S)
           IsReach(r) == r = [i \in 0..N |-> IF i = 0 THEN roots ELSE more(r[i - 1])]
           reach == CHOOSE r : IsReach(r)
<1>1. Referenced(c) = reach[N]
  BY DEF Referenced, Roots, Neighbours
<1>2. IsFiniteSet(Nodes) /\ N \in Nat
  BY CacheAssumption, FS_CardinalityType
<1>3. roots \in SUBSET Nodes
  BY DEF Roots, Caches, keys, Links
<1>4. \A S \in SUBSET Nodes : more(S) \in SUBSET Nodes
  BY DEF Neighbours, Caches, Links
<1>5. IsReach(reach)
  <2> DEFINE T == SUBSET Nodes
             st == [p \in (1..N) \X T |-> more(p[2])]
  <2>1. st \in Steps(T, N)
    BY <1>4 DEF Steps
  <2>2. \E f : f \in Computed(T, roots, N, st)
    <3>1. roots \in T /\ N \in Nat
      BY <1>2, <1>3
    <3> HIDE DEF st, more, roots, N, T
    <3> QED
      BY <2>1, <3>1, Recursion
  <2>3. PICK f \in [0..N -> T] :
          f[0] = roots /\ \A i \in 1..N : f[i] = st[<<i, f[i - 1]>>]
    BY <2>2 DEF Computed
  <2>4. ASSUME NEW i \in 1..N PROVE f[i] = more(f[i - 1])
    <3>1. i - 1 \in 0..N /\ i \in 0..N /\ i # 0
      BY <1>2
    <3>2. f[i - 1] \in T /\ st[<<i, f[i - 1]>>] = more(f[i - 1])
      BY <3>1
    <3> HIDE DEF st, more
    <3> QED
      BY <2>3, <3>1, <3>2
  <2>5. IsReach(f)
    <3> HIDE DEF st, more, roots, N
    <3>1. ASSUME NEW i \in 0..N PROVE f[i] = IF i = 0 THEN roots ELSE more(f[i - 1])
      <4>1. i = 0 \/ i \in 1..N
        BY <1>2
      <4>2. CASE i = 0
        BY <2>3, <4>2
      <4>3. CASE i # 0
        BY <2>4, <4>1, <4>3
      <4> QED
        BY <4>2, <4>3
    <3> QED
      BY <3>1
  <2> HIDE DEF IsReach
  <2> QED
    BY <2>5
<1> DEFINE Reached(i) == /\ roots \subseteq reach[i] /\ reach[i] \subseteq Nodes
                         /\ Closed(c, reach[i]) \/ Cardinality(reach[i]) >= i
           S == {i \in 0..N : Reached(i)}
<1> HIDE DEF reach
<1>6. 0 \in S
  <2>1. reach[0] = roots
    <3> HIDE DEF roots, more, N
    <3> QED
      BY <1>2, <1>5
  <2>2. IsFiniteSet(roots) /\ Cardinality(roots) \in Nat
    BY <1>2, <1>3, FS_Subset, FS_CardinalityType
  <2> HIDE DEF roots, N, IsReach
  <2> QED
    BY <1>2, <1>3, <2>1, <2>2
<1>7. ASSUME NEW i \in 1..N, i - 1 \in S PROVE i \in S
  <2>1. i \in 0..N /\ i # 0 /\ i - 1 \in 0..N /\ i \in Nat
    BY <1>2
  <2>2. reach[i] = more(reach[i - 1])
    <3> HIDE DEF more, roots, N
    <3> QED
      BY <1>5, <2>1
  <2> DEFINE A == reach[i - 1]
  <2>3. Reached(i - 1)
    BY <1>7
  <2>4. A \subseteq Nodes /\ roots \subseteq A /\ more(A) \in SUBSET Nodes
    BY <1>4, <2>3
  <2>5. CASE Closed(c, A)
    <3>1. reach[i] = A
      BY <2>2, <2>5 DEF Closed
    <3> HIDE DEF A, N, roots
    <3> QED
      BY <2>1, <2>4, <2>5, <3>1
  <2>6. CASE ~Closed(c, A)
    <3>1. Cardinality(A) >= i - 1
      BY <2>3, <2>6
    <3>2. IsFiniteSet(more(A))
      BY <1>2, <2>4, FS_Subset
    <3>3. A \subseteq more(A) /\ A # more(A)
      BY <2>6 DEF Closed
    <3>4. IsFiniteSet(A) /\ Cardinality(A) \in Nat /\ Cardinality(more(A)) \in Nat
      BY <3>2, <3>3, FS_Subset, FS_CardinalityType
    <3>5. Cardinality(A) <= Cardinality(more(A)) /\ Cardinality(A) # Cardinality(more(A))
      BY <3>2, <3>3, FS_Subset
    <3>6. Cardinality(reach[i]) >= i
      <4> HIDE DEF A, more
      <4> QED
        BY <2>1, <3>1, <3>4, <3>5, <2>2 DEF A
    <3>7. roots \subseteq reach[i] /\ reach[i] \subseteq Nodes
      BY <2>2, <2>4, <3>3
    <3> HIDE DEF A, N, roots, more
    <3> QED
      BY <2>1, <3>6, <3>7
  <2> QED
    BY <2>5, <2>6
<1>8. Reached(N)
  <2>1. \A i \in 0..N : i \in S
    <3> HIDE DEF S
    <3> QED
      BY <1>2, <1>6, <1>7, Induct
  <2> QED
    BY <1>2, <2>1
<1>9. CASE Closed(c, reach[N])
  BY <1>1, <1>8, <1>9
<1>10. CASE Cardinality(reach[N]) >= N
  <2>1. IsFiniteSet(reach[N]) /\ Cardinality(reach[N]) \in Nat
        /\ Cardinality(reach[N]) <= N
    BY <1>2, <1>8, FS_Subset, FS_CardinalityType
  <2>2. Cardinality(reach[N]) = N
    <3> HIDE DEF N
    <3> QED
      BY <1>2, <1>10, <2>1
  <2>3. reach[N] = Nodes
    BY <1>2, <1>8, <2>2, FS_Subset
  <2>4. Closed(c, Nodes)
    BY <1>4 DEF Closed
  <2> QED
    BY <1>1, <1>8, <2>3, <2>4
<1> QED
  BY <1>8, <1>9, <1>10

(* The nodes that are or were of an expression.                            *)
Real(c) == {n \in Nodes : c.node[n].key \in Exprs}

HashOK(c) == \A e \in keys(c) : c.node[c.hash[e]].key = e

LinksOK(c) ==
    /\ c.begin \in Real(c) \cup {null} /\ c.end \in Real(c) \cup {null}
    /\ \A n \in Real(c) : /\ c.node[n].prev \in Real(c) \cup {null}
                          /\ c.node[n].next \in Real(c) \cup {null}

(* The heap has the compiled expressions of the cached keys.               *)
HeapOK(c) ==
    /\ \A e \in keys(c) : /\ c.node[c.hash[e]].data \in Handles
                          /\ c.heap[c.node[c.hash[e]].data] # null
    /\ \A e, f \in keys(c) :
          c.node[c.hash[e]].data = c.node[c.hash[f]].data => e = f
    /\ \A h \in Handles :
          c.heap[h] # null => \E e \in keys(c) : c.node[c.hash[e]].data = h

Good(c) == HashOK(c) /\ LinksOK(c) /\ HeapOK(c)

GoodCaches == {c \in Caches : c.broken = "no" => Good(c)}

NodeRecs == [key : Exprs \cup {null}, data : Handles \cup {null}, prev : Links, next : Links]

(* What is compiled for a cached key, and that d has it as c does.         *)
Holds(c, e) == c.heap[c.node[c.hash[e]].data]

SameTexts(c, d) ==
    keys(d) \subseteq keys(c) /\ \A e \in keys(d) : Holds(d, e) = Holds(c, e)

(* The nodes m with other links among R.                                   *)
Relinks(m, R) ==
    {k \in [Nodes -> NodeRecs] :
        /\ \A n \in Nodes : k[n].key = m[n].key /\ k[n].data = m[n].data
        /\ \A n \in R : k[n].prev \in R \cup {null} /\ k[n].next \in R \cup {null}}

(* What setting one link changes.                                          *)
LEMMA PrevSet ==
    ASSUME NEW k \in [Nodes -> NodeRecs], NEW a \in Nodes, NEW b \in Links
    PROVE  /\ [k EXCEPT ![a].prev = b] \in [Nodes -> NodeRecs]
           /\ \A n \in Nodes :
                 LET l == [k EXCEPT ![a].prev = b][n]
                 IN  /\ l.key = k[n].key /\ l.data = k[n].data /\ l.next = k[n].next
                     /\ l.prev = IF n = a THEN b ELSE k[n].prev
<1> DEFINE l == [k EXCEPT ![a].prev = b]
<1>1. k \in [Nodes -> NodeRecs] /\ b \in Links
  OBVIOUS
<1>2. l = [n \in Nodes |-> IF n = a THEN [k[a] EXCEPT !.prev = b] ELSE k[n]]
  BY <1>1
<1>3. [k[a] EXCEPT !.prev = b] = [key |-> k[a].key, data |-> k[a].data,
                                  prev |-> b, next |-> k[a].next]
  BY <1>1 DEF NodeRecs
<1>4. ASSUME NEW n \in Nodes
      PROVE  /\ l[n] \in NodeRecs
             /\ l[n].key = k[n].key /\ l[n].data = k[n].data /\ l[n].next = k[n].next
             /\ l[n].prev = IF n = a THEN b ELSE k[n].prev
  <2>1. k[n] \in NodeRecs
    BY <1>1
  <2>2. CASE n = a
    <3>1. l[n] = [key |-> k[n].key, data |-> k[n].data, prev |-> b, next |-> k[n].next]
      BY <1>2, <1>3, <2>2
    <3> HIDE DEF l
    <3> QED
      BY <1>1, <2>1, <2>2, <3>1 DEF NodeRecs
  <2>3. CASE n # a
    <3>1. l[n] = k[n]
      BY <1>2, <2>3
    <3> HIDE DEF l
    <3> QED
      BY <2>1, <2>3, <3>1
  <2> QED
    BY <2>2, <2>3
<1>5. l \in [Nodes -> NodeRecs]
  BY <1>2, <1>4
<1> QED
  BY <1>4, <1>5

(* The same for next.                                                      *)
LEMMA NextSet ==
    ASSUME NEW k \in [Nodes -> NodeRecs], NEW a \in Nodes, NEW b \in Links
    PROVE  /\ [k EXCEPT ![a].next = b] \in [Nodes -> NodeRecs]
           /\ \A n \in Nodes :
                 LET l == [k EXCEPT ![a].next = b][n]
                 IN  /\ l.key = k[n].key /\ l.data = k[n].data /\ l.prev = k[n].prev
                     /\ l.next = IF n = a THEN b ELSE k[n].next
<1> DEFINE l == [k EXCEPT ![a].next = b]
<1>1. k \in [Nodes -> NodeRecs] /\ b \in Links
  OBVIOUS
<1>2. l = [n \in Nodes |-> IF n = a THEN [k[a] EXCEPT !.next = b] ELSE k[n]]
  BY <1>1
<1>3. [k[a] EXCEPT !.next = b] = [key |-> k[a].key, data |-> k[a].data,
                                  prev |-> k[a].prev, next |-> b]
  BY <1>1 DEF NodeRecs
<1>4. ASSUME NEW n \in Nodes
      PROVE  /\ l[n] \in NodeRecs
             /\ l[n].key = k[n].key /\ l[n].data = k[n].data /\ l[n].prev = k[n].prev
             /\ l[n].next = IF n = a THEN b ELSE k[n].next
  <2>1. k[n] \in NodeRecs
    BY <1>1
  <2>2. CASE n = a
    <3>1. l[n] = [key |-> k[n].key, data |-> k[n].data, prev |-> k[n].prev, next |-> b]
      BY <1>2, <1>3, <2>2
    <3> HIDE DEF l
    <3> QED
      BY <1>1, <2>1, <2>2, <3>1 DEF NodeRecs
  <2>3. CASE n # a
    <3>1. l[n] = k[n]
      BY <1>2, <2>3
    <3> HIDE DEF l
    <3> QED
      BY <2>1, <2>3, <3>1
  <2> QED
    BY <2>2, <2>3
<1>5. l \in [Nodes -> NodeRecs]
  BY <1>2, <1>4
<1> QED
  BY <1>4, <1>5

(* A link to a node of R.                                                  *)
LEMMA SetPrev ==
    ASSUME NEW m, NEW R \in SUBSET Nodes, NEW k \in Relinks(m, R),
           NEW a \in Nodes, NEW b \in R \cup {null}
    PROVE  [k EXCEPT ![a].prev = b] \in Relinks(m, R)
<1> DEFINE l == [k EXCEPT ![a].prev = b]
<1>1. k \in [Nodes -> NodeRecs] /\ b \in Links
  BY DEF Relinks, Links
<1>2. /\ l \in [Nodes -> NodeRecs]
      /\ \A n \in Nodes :
            /\ l[n].key = k[n].key /\ l[n].data = k[n].data /\ l[n].next = k[n].next
            /\ l[n].prev = IF n = a THEN b ELSE k[n].prev
  BY <1>1, PrevSet
<1> HIDE DEF l
<1>3. l \in Relinks(m, R)
  BY <1>2 DEF Relinks
<1> QED
  BY <1>3 DEF l

(* The same for next.                                                      *)
LEMMA SetNext ==
    ASSUME NEW m, NEW R \in SUBSET Nodes, NEW k \in Relinks(m, R),
           NEW a \in Nodes, NEW b \in R \cup {null}
    PROVE  [k EXCEPT ![a].next = b] \in Relinks(m, R)
<1> DEFINE l == [k EXCEPT ![a].next = b]
<1>1. k \in [Nodes -> NodeRecs] /\ b \in Links
  BY DEF Relinks, Links
<1>2. /\ l \in [Nodes -> NodeRecs]
      /\ \A n \in Nodes :
            /\ l[n].key = k[n].key /\ l[n].data = k[n].data /\ l[n].prev = k[n].prev
            /\ l[n].next = IF n = a THEN b ELSE k[n].next
  BY <1>1, NextSet
<1> HIDE DEF l
<1>3. l \in Relinks(m, R)
  BY <1>2 DEF Relinks
<1> QED
  BY <1>3 DEF l

(* What no relinking changes.                                              *)
LEMMA Relinked ==
    ASSUME NEW c \in Caches, Good(c), NEW d \in Caches,
           d.hash = c.hash, d.heap = c.heap, d.node \in Relinks(c.node, Real(c)),
           d.begin \in Real(c) \cup {null}, d.end \in Real(c) \cup {null}
    PROVE  Good(d)
<1>1. keys(d) = keys(c) /\ \A e \in keys(c) : c.hash[e] \in Nodes /\ e \in Exprs
  BY DEF keys, Caches, Links
<1>2. \A n \in Nodes : d.node[n].key = c.node[n].key /\ d.node[n].data = c.node[n].data
  BY DEF Relinks
<1>3. Real(d) = Real(c)
  BY <1>2 DEF Real
<1>4. HashOK(d)
  BY <1>1, <1>2 DEF Good, HashOK
<1>5. LinksOK(d)
  BY <1>3 DEF LinksOK, Relinks
<1>6. \A e \in keys(d) : d.hash[e] = c.hash[e] /\ d.node[d.hash[e]].data = c.node[c.hash[e]].data
  BY <1>1, <1>2
<1>7. HeapOK(d)
  BY <1>1, <1>6 DEF Good, HeapOK
<1> QED
  BY <1>4, <1>5, <1>7 DEF Good

(* The nodes of a good cache relink among themselves, and its cached keys  *)
(* are of real nodes.                                                      *)
LEMMA Relinkable ==
    ASSUME NEW c \in Caches, Good(c)
    PROVE  /\ Real(c) \in SUBSET Nodes /\ c.node \in Relinks(c.node, Real(c))
           /\ c.begin \in Real(c) \cup {null} /\ c.end \in Real(c) \cup {null}
           /\ \A n \in Real(c) : /\ c.node[n].prev \in Real(c) \cup {null}
                                 /\ c.node[n].next \in Real(c) \cup {null}
           /\ \A e \in keys(c) : c.hash[e] \in Real(c)
<1>1. Real(c) \in SUBSET Nodes
  BY DEF Real
<1>2. c.node \in [Nodes -> NodeRecs]
  BY DEF Caches, NodeRecs
<1>3. LinksOK(c)
  BY DEF Good
<1>4. c.node \in Relinks(c.node, Real(c))
  BY <1>2, <1>3 DEF Relinks, LinksOK
<1>5. ASSUME NEW e \in keys(c) PROVE c.hash[e] \in Real(c)
  <2>1. e \in Exprs /\ c.hash[e] \in Nodes
    BY DEF keys, Caches, Links
  <2>2. c.node[c.hash[e]].key = e
    BY DEF Good, HashOK
  <2> QED
    BY <2>1, <2>2 DEF Real
<1> QED
  BY <1>1, <1>3, <1>4, <1>5 DEF LinksOK

(* m_update keeps a cache good.                                            *)
LEMMA UpdateGood ==
    ASSUME NEW c \in Caches, Good(c), c.broken = "no", NEW n \in Real(c)
    PROVE  m_update(c, n) \in GoodCaches /\ SameTexts(c, m_update(c, n))
<1> DEFINE R == Real(c)
           t == c.node[n]
           out == [c.node EXCEPT ![t.prev].next = t.next]
           back == IF t.next = null THEN out ELSE [out EXCEPT ![t.next].prev = t.prev]
           a == [back EXCEPT ![n].next = c.begin]
           b == [a EXCEPT ![n].prev = null]
           k == [b EXCEPT ![c.begin].prev = n]
           d == m_update(c, n)
<1>1. CASE c.begin = n
  BY <1>1 DEF m_update, GoodCaches, SameTexts
<1>2. CASE c.begin # n /\ (t.prev = null \/ c.begin = null)
  <2>1. d = [c EXCEPT !.broken = "null"]
    BY <1>2 DEF m_update
  <2>2. d \in Caches /\ d.broken = "null"
    BY <2>1 DEF Caches
  <2>3. d.hash = c.hash /\ d.node = c.node /\ d.heap = c.heap
    BY <2>1 DEF Caches
  <2> HIDE DEF d
  <2>4. SameTexts(c, d)
    BY <2>3 DEF SameTexts, Holds, keys
  <2> QED
    BY <2>2, <2>4 DEF GoodCaches, d
<1>3. CASE c.begin # n /\ ~(t.prev = null \/ c.begin = null)
  <2>1. /\ R \in SUBSET Nodes /\ c.node \in Relinks(c.node, R)
        /\ c.begin \in R /\ t.prev \in R /\ t.next \in R \cup {null} /\ n \in R
        /\ c.end \in R \cup {null}
    BY <1>3, Relinkable
  <2> HIDE DEF R, t
  <2>2. out \in Relinks(c.node, R)
    <3> t.prev \in Nodes
      BY <2>1
    <3> QED
      BY <2>1, SetNext
  <2>3. back \in Relinks(c.node, R)
    <3> HIDE DEF out
    <3>1. CASE t.next = null
      BY <2>2, <3>1
    <3>2. CASE t.next # null
      <4>1. t.next \in Nodes /\ t.prev \in R \cup {null}
        BY <2>1, <3>2
      <4>2. [out EXCEPT ![t.next].prev = t.prev] \in Relinks(c.node, R)
        BY <2>1, <2>2, <4>1, SetPrev
      <4> QED
        BY <3>2, <4>2
    <3> QED
      BY <3>1, <3>2
  <2>4. a \in Relinks(c.node, R)
    <3> HIDE DEF back
    <3>1. n \in Nodes /\ c.begin \in R \cup {null}
      BY <2>1
    <3> QED
      BY <2>1, <2>3, <3>1, SetNext
  <2>5. b \in Relinks(c.node, R)
    <3> HIDE DEF a
    <3>1. n \in Nodes /\ null \in R \cup {null}
      BY <2>1
    <3> QED
      BY <2>1, <2>4, <3>1, SetPrev
  <2>6. k \in Relinks(c.node, R)
    <3> HIDE DEF b
    <3>1. c.begin \in Nodes /\ n \in R \cup {null}
      BY <2>1
    <3> QED
      BY <2>1, <2>5, <3>1, SetPrev
  <2>7. k = [back EXCEPT ![n].next = c.begin, ![n].prev = null, ![c.begin].prev = n]
    OBVIOUS
  <2>8. d = [c EXCEPT !.node = k, !.begin = n]
    <3> HIDE DEF k
    <3> QED
      BY <1>3, <2>7 DEF m_update, t, out, back
  <2> HIDE DEF k
  <2>9. /\ d.hash = c.hash /\ d.heap = c.heap /\ d.node = k /\ d.begin = n
        /\ d.end = c.end /\ d.broken = "no"
        /\ d \in [hash : {c.hash}, node : {k}, begin : {n}, end : {c.end},
                  heap : {c.heap}, broken : {"no"}]
    <3> HIDE DEF d
    <3> QED
      BY <2>8 DEF Caches
  <2>10. k \in [Nodes -> NodeRecs] /\ n \in Links
    BY <2>1, <2>6 DEF Relinks, Links
  <2> HIDE DEF d
  <2>11. d \in Caches
    BY <2>9, <2>10 DEF Caches, NodeRecs
  <2>12. n \in R \cup {null}
    BY <2>1
  <2>13. Good(d)
    BY <2>1, <2>6, <2>9, <2>11, <2>12, Relinked DEF R
  <2>14. SameTexts(c, d)
    <3>1. \A x \in Nodes : d.node[x].data = c.node[x].data
      BY <2>6, <2>9 DEF Relinks
    <3>2. keys(d) = keys(c) /\ \A e \in keys(c) : c.hash[e] \in Nodes
      BY <2>9 DEF keys, Caches, Links
    <3> QED
      BY <2>9, <3>1, <3>2 DEF SameTexts, Holds
  <2> QED
    BY <2>11, <2>13, <2>14 DEF GoodCaches, d
<1> QED
  BY <1>1, <1>2, <1>3

(* evict does, too.                                                        *)
LEMMA EvictGood ==
    ASSUME NEW c \in Caches, Good(c), c.broken = "no", NEW e \in Exprs
    PROVE  evict(c, e) \in GoodCaches /\ SameTexts(c, evict(c, e))
<1> DEFINE R == Real(c)
           n == c.hash[e]
           t == c.node[n]
           front == IF c.begin = n THEN c.node ELSE [c.node EXCEPT ![t.prev].next = t.next]
           both == IF c.end = n THEN front ELSE [front EXCEPT ![t.next].prev = t.prev]
           gone == [c EXCEPT !.hash[e] = null]
           bad == (c.begin # n /\ t.prev = null) \/ (c.end # n /\ t.next = null)
           d == evict(c, e)
<1>1. CASE n = null
  BY <1>1 DEF evict, GoodCaches, SameTexts
<1>2. CASE n # null /\ bad
  <2>1. d = [gone EXCEPT !.broken = "null"]
    BY <1>2 DEF evict
  <2>2. [c.hash EXCEPT ![e] = null] \in [Exprs -> Links]
    BY DEF Caches, Links
  <2>3. d \in Caches /\ d.broken = "null"
    <3> HIDE DEF d
    <3> QED
      BY <2>1, <2>2 DEF Caches
  <2>4. d.hash = [c.hash EXCEPT ![e] = null] /\ d.node = c.node /\ d.heap = c.heap
    <3> HIDE DEF d
    <3> QED
      BY <2>1, <2>2 DEF Caches
  <2> HIDE DEF d
  <2>5. \A f \in Exprs : d.hash[f] = IF f = e THEN null ELSE c.hash[f]
    BY <2>4 DEF Caches
  <2>6. SameTexts(c, d)
    BY <2>4, <2>5 DEF SameTexts, Holds, keys
  <2> QED
    BY <2>3, <2>6 DEF GoodCaches, d
<1>3. CASE n # null /\ ~bad
  <2>1. e \in keys(c)
    BY <1>3 DEF keys
  <2>2. /\ R \in SUBSET Nodes /\ c.node \in Relinks(c.node, R)
        /\ c.begin \in R \cup {null} /\ c.end \in R \cup {null} /\ n \in R
        /\ t.prev \in R \cup {null} /\ t.next \in R \cup {null}
    BY <2>1, Relinkable
  <2>3. t.data \in Handles
    BY <2>1 DEF Good, HeapOK
  <2>4. (c.begin = n \/ t.prev # null) /\ (c.end = n \/ t.next # null)
    BY <1>3
  <2>5. d = [gone EXCEPT !.node = both, !.begin = IF @ = n THEN t.next ELSE @,
                         !.end = IF @ = n THEN t.prev ELSE @, !.heap[t.data] = null]
    BY <1>3 DEF evict
  <2> HIDE DEF R, t, n, bad
  <2>6. front \in Relinks(c.node, R)
    <3>1. CASE c.begin = n
      BY <2>2, <3>1
    <3>2. CASE c.begin # n
      <4>1. t.prev \in Nodes
        BY <2>2, <2>4, <3>2
      <4>2. [c.node EXCEPT ![t.prev].next = t.next] \in Relinks(c.node, R)
        BY <2>2, <4>1, SetNext
      <4> QED
        BY <3>2, <4>2
    <3> QED
      BY <3>1, <3>2
  <2>7. both \in Relinks(c.node, R)
    <3> HIDE DEF front
    <3>1. CASE c.end = n
      BY <2>6, <3>1
    <3>2. CASE c.end # n
      <4>1. t.next \in Nodes
        BY <2>2, <2>4, <3>2
      <4>2. [front EXCEPT ![t.next].prev = t.prev] \in Relinks(c.node, R)
        BY <2>2, <2>6, <4>1, SetPrev
      <4> QED
        BY <3>2, <4>2
    <3> QED
      BY <3>1, <3>2
  <2> DEFINE begin == IF c.begin = n THEN t.next ELSE c.begin
             end == IF c.end = n THEN t.prev ELSE c.end
             hash == [c.hash EXCEPT ![e] = null]
             heap == [c.heap EXCEPT ![t.data] = null]
  <2>8. begin \in R \cup {null} /\ end \in R \cup {null} /\ begin \in Links /\ end \in Links
    BY <2>2 DEF Links
  <2>9. hash \in [Exprs -> Links] /\ heap \in [Handles -> Texts]
    <3>1. null \in Texts /\ null \in Links
      BY DEF Texts, Links
    <3>2. c.heap \in [Handles -> Texts] /\ c.hash \in [Exprs -> Links]
      BY DEF Caches
    <3> QED
      BY <3>1, <3>2
  <2>10. both \in [Nodes -> NodeRecs]
    BY <2>7 DEF Relinks
  <2>11. /\ d.hash = hash /\ d.node = both /\ d.begin = begin /\ d.end = end
         /\ d.heap = heap /\ d.broken = "no"
         /\ d = [hash |-> hash, node |-> both, begin |-> begin, end |-> end,
                 heap |-> heap, broken |-> "no"]
    <3> HIDE DEF d, both
    <3> QED
      BY <2>5 DEF Caches
  <2> DEFINE m == [hash |-> c.hash, node |-> both, begin |-> begin, end |-> end,
                   heap |-> c.heap, broken |-> c.broken]
  <2>12. /\ m.hash = c.hash /\ m.heap = c.heap /\ m.node = both /\ m.begin = begin
         /\ m.end = end
         /\ m = [hash |-> c.hash, node |-> both, begin |-> begin, end |-> end,
                 heap |-> c.heap, broken |-> c.broken]
    <3> HIDE DEF both, begin, end
    <3> QED
      OBVIOUS
  <2> HIDE DEF d, both, begin, end, m
  <2>13. m \in Caches /\ d \in Caches
    <3> HIDE DEF hash, heap
    <3> QED
      BY <2>8, <2>9, <2>10, <2>11, <2>12 DEF Caches, NodeRecs
  <2>14. Good(m)
    BY <2>2, <2>7, <2>8, <2>12, <2>13, Relinked DEF R
  <2>15. /\ keys(d) = keys(c) \ {e} /\ keys(m) = keys(c) /\ e \in keys(m)
         /\ \A f \in keys(d) : d.hash[f] = c.hash[f] /\ f # e /\ f \in keys(m)
    BY <2>1, <2>11, <2>12 DEF keys, Caches
  <2>16. HashOK(d)
    BY <2>11, <2>12, <2>14, <2>15 DEF Good, HashOK
  <2>17. LinksOK(d)
    BY <2>11, <2>12, <2>14 DEF Good, LinksOK, Real
  <2>18. \A f \in keys(d) : d.node[d.hash[f]].data = m.node[m.hash[f]].data
    BY <2>11, <2>12, <2>15
  <2>19. m.node[m.hash[e]].data = t.data
    <3>1. m.node[n].data = c.node[n].data
      BY <2>2, <2>7, <2>12 DEF Relinks
    <3> QED
      BY <2>12, <3>1 DEF n, t
  <2>20. HeapOK(m) /\ \A h \in Handles : d.heap[h] = IF h = t.data THEN null ELSE m.heap[h]
    BY <2>3, <2>11, <2>12, <2>14 DEF Good, Caches
  <2>21. HeapOK(d)
    <3>1. ASSUME NEW f \in keys(d)
          PROVE  d.node[d.hash[f]].data \in Handles /\ d.heap[d.node[d.hash[f]].data] # null
      <4>1. m.node[m.hash[f]].data # t.data
        BY <2>15, <2>19, <2>20 DEF HeapOK
      <4> QED
        BY <2>15, <2>18, <2>20, <4>1 DEF HeapOK
    <3>2. ASSUME NEW f \in keys(d), NEW g \in keys(d),
                 d.node[d.hash[f]].data = d.node[d.hash[g]].data
          PROVE  f = g
      BY <2>15, <2>18, <2>20, <3>2 DEF HeapOK
    <3>3. ASSUME NEW h \in Handles, d.heap[h] # null
          PROVE  \E f \in keys(d) : d.node[d.hash[f]].data = h
      <4>1. h # t.data /\ m.heap[h] # null
        BY <2>20, <3>3
      <4>2. PICK f \in keys(m) : m.node[m.hash[f]].data = h
        BY <2>20, <4>1 DEF HeapOK
      <4>3. f # e
        BY <2>19, <4>1, <4>2
      <4> QED
        BY <2>15, <2>18, <4>2, <4>3
    <3> QED
      BY <3>1, <3>2, <3>3 DEF HeapOK
  <2>22. SameTexts(c, d)
    <3>1. ASSUME NEW f \in keys(d)
          PROVE  /\ f \in keys(c) /\ d.node[d.hash[f]].data = c.node[c.hash[f]].data
                 /\ d.node[d.hash[f]].data \in Handles /\ d.node[d.hash[f]].data # t.data
      <4>1. d.hash[f] = c.hash[f] /\ f \in keys(m) /\ f \in keys(c) /\ f # e
        BY <2>15
      <4>2. c.hash[f] \in Nodes
        BY <4>1 DEF keys, Caches, Links
      <4>3. d.node[c.hash[f]].data = c.node[c.hash[f]].data
        BY <2>7, <2>11, <4>2 DEF Relinks
      <4>4. m.node[m.hash[f]].data # t.data /\ m.node[m.hash[f]].data \in Handles
        BY <2>15, <2>19, <2>20, <4>1 DEF HeapOK
      <4> QED
        BY <2>18, <4>1, <4>3, <4>4
    <3>2. \A h \in Handles : d.heap[h] = IF h = t.data THEN null ELSE c.heap[h]
      BY <2>12, <2>20
    <3> QED
      BY <3>1, <3>2 DEF SameTexts, Holds
  <2> QED
    BY <2>13, <2>16, <2>17, <2>21, <2>22 DEF GoodCaches, Good, d
<1> QED
  BY <1>1, <1>2, <1>3

(* What is referenced can be collected around.                             *)
LEMMA CollectGood ==
    ASSUME NEW c \in GoodCaches
    PROVE  Collect(c) \in GoodCaches /\ SameTexts(c, Collect(c))
<1> DEFINE F == Referenced(c)
           nodes == [n \in Nodes |-> IF n \in F THEN c.node[n] ELSE NoNode]
           d == Collect(c)
<1>1. c \in Caches
  BY DEF GoodCaches
<1>2. /\ Roots(c) \subseteq F /\ F \subseteq Nodes /\ Closed(c, F)
  BY <1>1, ReferencedClosed
<1>3. d = [c EXCEPT !.node = nodes]
  BY DEF Collect
<1> HIDE DEF F
<1>4. NoNode \in NodeRecs
  BY DEF NoNode, NodeRecs, Links
<1>5. nodes \in [Nodes -> NodeRecs]
  <2>1. c.node \in [Nodes -> NodeRecs]
    BY <1>1 DEF Caches, NodeRecs
  <2> QED
    BY <1>4, <2>1
<1>6. \A n \in Nodes : nodes[n] = IF n \in F THEN c.node[n] ELSE NoNode
  OBVIOUS
<1>7. /\ d.hash = c.hash /\ d.node = nodes /\ d.begin = c.begin /\ d.end = c.end
      /\ d.heap = c.heap /\ d.broken = c.broken
      /\ d = [hash |-> c.hash, node |-> nodes, begin |-> c.begin, end |-> c.end,
              heap |-> c.heap, broken |-> c.broken]
  <2> HIDE DEF d, nodes
  <2> QED
    BY <1>1, <1>3 DEF Caches
<1> HIDE DEF d, nodes
<1>8. d \in Caches
  BY <1>1, <1>5, <1>7 DEF Caches, NodeRecs
<1>9. ASSUME c.broken = "no" PROVE Good(d)
  <2>1. Good(c)
    BY <1>9 DEF GoodCaches
  <2>2. Real(d) = Real(c) \cap F
    <3>1. NoNode.key \notin Exprs
      BY CacheAssumption DEF NoNode
    <3> QED
      BY <1>2, <1>6, <1>7, <3>1 DEF Real
  <2>3. keys(d) = keys(c) /\ \A e \in keys(c) : c.hash[e] \in F /\ c.hash[e] \in Nodes
    BY <1>1, <1>2, <1>7 DEF keys, Roots, Caches, Links
  <2>4. \A e \in keys(c) : d.node[d.hash[e]] = c.node[c.hash[e]]
    BY <1>6, <1>7, <2>3
  <2>5. HashOK(d)
    BY <2>1, <2>3, <2>4 DEF Good, HashOK
  <2>6. c.begin \in F \cup {null} /\ c.end \in F \cup {null}
    BY <1>2 DEF Roots
  <2>7. ASSUME NEW n \in F
        PROVE  c.node[n].prev \in F \cup {null} /\ c.node[n].next \in F \cup {null}
    BY <1>2 DEF Closed, Neighbours
  <2>8. LinksOK(c)
    BY <2>1 DEF Good
  <2>9. LinksOK(d)
    <3>1. ASSUME NEW n \in Real(d)
          PROVE  d.node[n].prev \in Real(d) \cup {null} /\ d.node[n].next \in Real(d) \cup {null}
      <4>1. n \in F /\ n \in Real(c) /\ n \in Nodes
        BY <1>2, <2>2
      <4>2. d.node[n] = c.node[n]
        BY <1>6, <1>7, <4>1
      <4>3. c.node[n].prev \in F \cup {null} /\ c.node[n].next \in F \cup {null}
        BY <2>7, <4>1
      <4>4. c.node[n].prev \in Real(c) \cup {null} /\ c.node[n].next \in Real(c) \cup {null}
        BY <2>8, <4>1 DEF LinksOK
      <4> QED
        BY <2>2, <4>2, <4>3, <4>4
    <3>2. d.begin \in Real(d) \cup {null} /\ d.end \in Real(d) \cup {null}
      BY <1>7, <2>2, <2>6, <2>8 DEF LinksOK
    <3> QED
      BY <3>1, <3>2 DEF LinksOK
  <2>10. HeapOK(d)
    BY <1>7, <2>1, <2>3, <2>4 DEF Good, HeapOK
  <2> QED
    BY <2>5, <2>9, <2>10 DEF Good
<1>10. d \in GoodCaches
  BY <1>7, <1>8, <1>9 DEF GoodCaches
<1>11. SameTexts(c, d)
  <2>1. keys(d) = keys(c) /\ \A e \in keys(c) : c.hash[e] \in F /\ c.hash[e] \in Nodes
    BY <1>1, <1>2, <1>7 DEF keys, Roots, Caches, Links
  <2>2. \A e \in keys(c) : d.node[d.hash[e]] = c.node[c.hash[e]]
    BY <1>6, <1>7, <2>1
  <2> QED
    BY <1>7, <2>1, <2>2 DEF SameTexts, Holds
<1> QED
  BY <1>10, <1>11 DEF d

(* A new node for a new expression at a free address.                      *)
LEMMA PutGood ==
    ASSUME NEW c \in Caches, Good(c), c.broken = "no",
           NEW e \in Exprs, c.hash[e] = null, Referenced(c) # Nodes,
           NEW h \in Handles, c.heap[h] = null, NEW text \in Texts, text # null
    PROVE  LET d == [put_new(c, e, h) EXCEPT !.heap[h] = text]
           IN  /\ d \in GoodCaches /\ keys(d) = keys(c) \cup {e} /\ Holds(d, e) = text
               /\ \A f \in keys(c) : Holds(d, f) = Holds(c, f)
<1> DEFINE n == CHOOSE x \in Nodes : x \notin Referenced(c)
           R == Real(c) \cup {n}
           new == [key |-> e, data |-> h, prev |-> null, next |-> c.begin]
           with == [c.node EXCEPT ![n] = new]
           k == IF c.begin = null THEN with ELSE [with EXCEPT ![c.begin].prev = n]
           end == IF c.begin = null THEN n ELSE c.end
           hash == [c.hash EXCEPT ![e] = n]
           heap == [c.heap EXCEPT ![h] = text]
           p == put_new(c, e, h)
           d == [p EXCEPT !.heap[h] = text]
<1>1. Roots(c) \subseteq Referenced(c) /\ Referenced(c) \subseteq Nodes
  BY ReferencedClosed
<1>2. n \in Nodes /\ n \notin Referenced(c)
  BY <1>1
<1>3. p = [c EXCEPT !.node = k, !.begin = n, !.end = IF c.begin = null THEN n ELSE @,
                    !.hash[e] = n]
  BY DEF put_new
<1> HIDE DEF n
<1>4. c \in [hash : {c.hash}, node : {c.node}, begin : {c.begin}, end : {c.end},
             heap : {c.heap}, broken : {c.broken}]
  BY DEF Caches
<1>5. p = [hash |-> hash, node |-> k, begin |-> n, end |-> end,
           heap |-> c.heap, broken |-> c.broken]
  <2> HIDE DEF p, k
  <2> QED
    BY <1>3, <1>4
<1>6. d = [hash |-> hash, node |-> k, begin |-> n, end |-> end,
           heap |-> heap, broken |-> c.broken]
  <2> HIDE DEF p, k, hash
  <2> QED
    BY <1>5
<1>7. /\ d.hash = hash /\ d.node = k /\ d.begin = n /\ d.end = end
      /\ d.heap = heap /\ d.broken = c.broken
  <2> HIDE DEF d, k, hash, heap, end
  <2> QED
    BY <1>6
<1>8. /\ Real(c) \in SUBSET Nodes /\ c.node \in [Nodes -> NodeRecs]
      /\ c.begin \in Real(c) \cup {null} /\ c.end \in Real(c) \cup {null}
      /\ \A x \in Real(c) : /\ c.node[x].prev \in Real(c) \cup {null}
                            /\ c.node[x].next \in Real(c) \cup {null}
  BY Relinkable DEF Relinks
<1>9. R \in SUBSET Nodes /\ new \in NodeRecs
  BY <1>2, <1>8 DEF NodeRecs, Links
<1>10. /\ with \in [Nodes -> NodeRecs] /\ with[n] = new
       /\ \A x \in Nodes : x # n => with[x] = c.node[x]
  <2> HIDE DEF new
  <2> QED
    BY <1>2, <1>8, <1>9
<1> HIDE DEF with
<1>11. with \in Relinks(with, R)
  <2>1. ASSUME NEW x \in R
        PROVE  with[x].prev \in R \cup {null} /\ with[x].next \in R \cup {null}
    <3>1. CASE x = n
      BY <1>8, <1>10, <3>1
    <3>2. CASE x # n
      BY <1>8, <1>10, <3>2
    <3> QED
      BY <3>1, <3>2
  <2> HIDE DEF R
  <2> QED
    BY <1>10, <2>1 DEF Relinks
<1>12. k \in Relinks(with, R)
  <2>1. CASE c.begin = null
    BY <1>11, <2>1
  <2>2. CASE c.begin # null
    <3>1. c.begin \in Nodes /\ n \in R \cup {null}
      BY <1>8, <2>2
    <3>2. [with EXCEPT ![c.begin].prev = n] \in Relinks(with, R)
      <4> HIDE DEF R
      <4> QED
        BY <1>9, <1>11, <3>1, SetPrev
    <3> QED
      BY <2>2, <3>2
  <2> QED
    BY <2>1, <2>2
<1> HIDE DEF k
<1>13. /\ k \in [Nodes -> NodeRecs]
       /\ \A x \in Nodes : k[x].key = with[x].key /\ k[x].data = with[x].data
       /\ \A x \in R : k[x].prev \in R \cup {null} /\ k[x].next \in R \cup {null}
  BY <1>12 DEF Relinks
<1>14. /\ hash \in [Exprs -> Links] /\ hash[e] = n
       /\ \A f \in Exprs : f # e => hash[f] = c.hash[f]
  <2>1. c.hash \in [Exprs -> Links] /\ n \in Links
    BY <1>2 DEF Caches, Links
  <2> QED
    BY <2>1
<1>15. /\ heap \in [Handles -> Texts] /\ heap[h] = text
       /\ \A x \in Handles : x # h => heap[x] = c.heap[x]
  <2>1. c.heap \in [Handles -> Texts]
    BY DEF Caches
  <2> QED
    BY <2>1
<1>16. end \in R \cup {null} /\ n \in Links /\ end \in Links
  BY <1>2, <1>8 DEF Links
<1> HIDE DEF d, hash, heap, end
<1>17. d \in Caches
  <2>1. c.broken \in {"no", "null", "hangs"}
    BY DEF Caches
  <2> QED
    BY <1>6, <1>13, <1>14, <1>15, <1>16, <2>1 DEF Caches, NodeRecs
<1>18. Real(d) = R
  <2>1. \A x \in Nodes : x # n => d.node[x].key = c.node[x].key
    BY <1>7, <1>10, <1>13
  <2>2. d.node[n].key = e
    BY <1>2, <1>7, <1>10, <1>13
  <2> QED
    BY <1>2, <2>1, <2>2 DEF Real
<1>19. n # null /\ e \notin keys(c)
  BY <1>2, CacheAssumption DEF keys
<1>20. keys(d) = keys(c) \cup {e} /\ keys(c) \subseteq Exprs
  BY <1>7, <1>14, <1>19 DEF keys
<1>21. ASSUME NEW f \in keys(c)
       PROVE  /\ f # e /\ d.hash[f] = c.hash[f]
              /\ d.node[d.hash[f]].key = c.node[c.hash[f]].key
              /\ d.node[d.hash[f]].data = c.node[c.hash[f]].data
  <2>1. f # e /\ d.hash[f] = c.hash[f]
    BY <1>7, <1>14, <1>19, <1>20
  <2>2. c.hash[f] \in Roots(c)
    BY DEF Roots, keys
  <2>3. c.hash[f] \in Nodes /\ c.hash[f] # n
    BY <1>1, <1>2, <2>2
  <2> QED
    BY <1>7, <1>10, <1>13, <2>1, <2>3
<1>22. d.hash[e] = n /\ d.node[n].key = e /\ d.node[n].data = h
  BY <1>2, <1>7, <1>10, <1>13, <1>14
<1>23. HashOK(d)
  BY <1>20, <1>21, <1>22 DEF Good, HashOK
<1>24. LinksOK(d)
  <2>1. \A x \in R : d.node[x].prev \in R \cup {null} /\ d.node[x].next \in R \cup {null}
    BY <1>7, <1>13
  <2>2. d.begin \in R \cup {null} /\ d.end \in R \cup {null}
    BY <1>7, <1>16
  <2> HIDE DEF R
  <2> QED
    BY <1>18, <2>1, <2>2 DEF LinksOK
<1>25. HeapOK(c)
  BY DEF Good
<1>26. \A f \in keys(c) : c.node[c.hash[f]].data \in Handles /\ c.node[c.hash[f]].data # h
  BY <1>25 DEF HeapOK
<1>27. HeapOK(d)
  <2>1. ASSUME NEW f \in keys(d)
        PROVE  d.node[d.hash[f]].data \in Handles /\ d.heap[d.node[d.hash[f]].data] # null
    <3>1. CASE f = e
      BY <1>7, <1>15, <1>22, <3>1
    <3>2. CASE f \in keys(c)
      BY <1>7, <1>15, <1>21, <1>25, <1>26, <3>2 DEF HeapOK
    <3> QED
      BY <1>20, <3>1, <3>2
  <2>2. ASSUME NEW f \in keys(d), NEW g \in keys(d),
               d.node[d.hash[f]].data = d.node[d.hash[g]].data
        PROVE  f = g
    BY <1>20, <1>21, <1>22, <1>25, <1>26, <2>2 DEF HeapOK
  <2>3. ASSUME NEW x \in Handles, d.heap[x] # null
        PROVE  \E f \in keys(d) : d.node[d.hash[f]].data = x
    <3>1. CASE x = h
      BY <1>20, <1>22, <3>1
    <3>2. CASE x # h
      <4>1. c.heap[x] # null
        BY <1>7, <1>15, <2>3, <3>2
      <4> QED
        BY <1>20, <1>21, <1>25, <4>1 DEF HeapOK
    <3> QED
      BY <3>1, <3>2
  <2> QED
    BY <2>1, <2>2, <2>3 DEF HeapOK
<1>28. d \in GoodCaches
  BY <1>17, <1>23, <1>24, <1>27 DEF GoodCaches, Good
<1>29. Holds(d, e) = text /\ \A f \in keys(c) : Holds(d, f) = Holds(c, f)
  BY <1>7, <1>15, <1>21, <1>22, <1>26 DEF Holds
<1> QED
  BY <1>20, <1>28, <1>29 DEF d

(* A set of caches that no eviction leaves.                                *)
KeptByEvict(T) ==
    /\ T \subseteq GoodCaches
    /\ \A d \in GoodCaches : d.broken # "no" => d \in T
    /\ \A d \in T, e \in Exprs : d.broken = "no" => evict(d, e) \in T

(* No eviction leaves the good caches.                                     *)
LEMMA GoodKeptByEvict == KeptByEvict(GoodCaches)
  BY EvictGood DEF KeptByEvict, GoodCaches

(* evict_to_max does not leave it.                                         *)
LEMMA EvictToMaxKeeps ==
    ASSUME NEW T, KeptByEvict(T), NEW c \in T, NEW max
    PROVE  evict_to_max(c, max) \in T
<1> DEFINE Full(d) == max # 0 /\ Cardinality(keys(d)) > max /\ d.broken = "no"
           step(d) == IF ~Full(d) THEN d
                      ELSE IF d.end = null THEN [d EXCEPT !.broken = "null"]
                      ELSE IF d.hash[d.node[d.end].key] = null
                           THEN [d EXCEPT !.broken = "hangs"]
                      ELSE evict(d, d.node[d.end].key)
           N == Cardinality(Exprs)
           IsLoop(r) == r = [i \in 0..N |-> IF i = 0 THEN c ELSE step(r[i - 1])]
           loop == CHOOSE r : IsLoop(r)
<1>1. evict_to_max(c, max) = loop[N]
  BY DEF evict_to_max
<1>2. N \in Nat
  BY CacheAssumption, FS_CardinalityType
<1>3. ASSUME NEW d \in T PROVE step(d) \in T
  <2>1. d \in GoodCaches /\ d \in Caches
    BY DEF KeptByEvict, GoodCaches
  <2>2. ASSUME NEW b \in {"null", "hangs"} PROVE [d EXCEPT !.broken = b] \in T
    <3> DEFINE x == [d EXCEPT !.broken = b]
    <3>1. x \in Caches /\ x.broken = b
      BY <2>1 DEF Caches
    <3> HIDE DEF x
    <3>2. x \in T
      BY <3>1 DEF GoodCaches, KeptByEvict
    <3> QED
      BY <3>2 DEF x
  <2>3. CASE Full(d) /\ d.end # null
    <3>1. d.broken = "no" /\ Good(d)
      BY <2>1, <2>3 DEF GoodCaches
    <3>2. d.end \in Real(d)
      BY <2>1, <2>3, <3>1, Relinkable
    <3>3. d.node[d.end].key \in Exprs
      BY <3>2 DEF Real
    <3>4. evict(d, d.node[d.end].key) \in T
      BY <3>1, <3>3 DEF KeptByEvict
    <3> HIDE DEF Full
    <3> QED
      BY <2>2, <2>3, <3>4
  <2> HIDE DEF Full
  <2> QED
    BY <2>2, <2>3
<1> HIDE DEF step
<1>4. \E r : IsLoop(r)
  <2> DEFINE st == [p \in (1..N) \X T |-> step(p[2])]
  <2>1. st \in Steps(T, N)
    BY <1>3 DEF Steps
  <2>2. \E f : f \in Computed(T, c, N, st)
    <3> HIDE DEF st, N
    <3> QED
      BY <1>2, <2>1, Recursion
  <2>3. PICK f \in [0..N -> T] :
          f[0] = c /\ \A i \in 1..N : f[i] = st[<<i, f[i - 1]>>]
    BY <2>2 DEF Computed
  <2>4. ASSUME NEW i \in 0..N PROVE f[i] = IF i = 0 THEN c ELSE step(f[i - 1])
    <3>1. CASE i = 0
      BY <2>3, <3>1
    <3>2. CASE i # 0
      <4>1. i \in 1..N /\ i - 1 \in 0..N
        BY <1>2, <3>2
      <4>2. f[i - 1] \in T /\ st[<<i, f[i - 1]>>] = step(f[i - 1])
        BY <4>1
      <4> HIDE DEF st
      <4> QED
        BY <2>3, <3>2, <4>1, <4>2
    <3> QED
      BY <3>1, <3>2
  <2>5. IsLoop(f)
    <3> HIDE DEF N
    <3> QED
      BY <2>3, <2>4
  <2> HIDE DEF IsLoop
  <2> QED
    BY <2>5
<1>5. IsLoop(loop)
  <2> HIDE DEF IsLoop
  <2> QED
    BY <1>4
<1> HIDE DEF loop
<1>6. \A i \in 0..N : loop[i] = IF i = 0 THEN c ELSE step(loop[i - 1])
  <2> HIDE DEF N
  <2> QED
    BY <1>5
<1> DEFINE S == {i \in 0..N : loop[i] \in T}
<1>7. 0 \in S
  <2> HIDE DEF N
  <2> QED
    BY <1>2, <1>6
<1>8. ASSUME NEW i \in 1..N, i - 1 \in S PROVE i \in S
  <2> HIDE DEF N
  <2>1. i \in 0..N /\ i # 0
    BY <1>2
  <2> QED
    BY <1>3, <1>6, <1>8, <2>1
<1>9. \A i \in 0..N : i \in S
  <2> HIDE DEF S, N
  <2> QED
    BY <1>2, <1>7, <1>8, Induct
<1>10. loop[N] \in T
  <2> HIDE DEF N
  <2> QED
    BY <1>2, <1>9
<1> QED
  BY <1>1, <1>10

(* Neither do the evictions of flush, in an order of the keys.             *)
LEMMA FlushKeeps ==
    ASSUME NEW T, KeptByEvict(T), NEW a \in T, NEW n \in Nat, NEW order \in [1..n -> Exprs]
    PROVE  LET c[i \in 0..n] ==
                   IF i = 0 THEN a
                   ELSE IF c[i - 1].broken # "no" THEN c[i - 1] ELSE evict(c[i - 1], order[i])
           IN  c[n] \in T
<1> DEFINE step(i, d) == IF d.broken # "no" THEN d ELSE evict(d, order[i])
           IsLoop(r) == r = [i \in 0..n |-> IF i = 0 THEN a ELSE step(i, r[i - 1])]
           loop == CHOOSE r : IsLoop(r)
<1> SUFFICES loop[n] \in T
  OBVIOUS
<1>1. ASSUME NEW d \in T, NEW i \in 1..n PROVE step(i, d) \in T
  <2>1. CASE d.broken = "no"
    <3>1. order[i] \in Exprs
      OBVIOUS
    <3>2. evict(d, order[i]) \in T
      BY <2>1, <3>1 DEF KeptByEvict
    <3> QED
      BY <2>1, <3>2
  <2>2. CASE d.broken # "no"
    BY <2>2
  <2> QED
    BY <2>1, <2>2
<1> HIDE DEF step
<1>2. \E r : IsLoop(r)
  <2> DEFINE st == [p \in (1..n) \X T |-> step(p[1], p[2])]
  <2>1. st \in Steps(T, n)
    BY <1>1 DEF Steps
  <2>2. \E f : f \in Computed(T, a, n, st)
    <3> HIDE DEF st
    <3> QED
      BY <2>1, Recursion
  <2>3. PICK f \in [0..n -> T] :
          f[0] = a /\ \A i \in 1..n : f[i] = st[<<i, f[i - 1]>>]
    BY <2>2 DEF Computed
  <2>4. ASSUME NEW i \in 0..n PROVE f[i] = IF i = 0 THEN a ELSE step(i, f[i - 1])
    <3>1. CASE i = 0
      BY <2>3, <3>1
    <3>2. CASE i # 0
      <4>1. i \in 1..n /\ i - 1 \in 0..n
        BY <3>2
      <4>2. f[i - 1] \in T /\ st[<<i, f[i - 1]>>] = step(i, f[i - 1])
        BY <4>1
      <4> HIDE DEF st
      <4> QED
        BY <2>3, <3>2, <4>1, <4>2
    <3> QED
      BY <3>1, <3>2
  <2>5. IsLoop(f)
    BY <2>3, <2>4
  <2> HIDE DEF IsLoop
  <2> QED
    BY <2>5
<1>3. IsLoop(loop)
  <2> HIDE DEF IsLoop
  <2> QED
    BY <1>2
<1> HIDE DEF loop
<1>4. \A i \in 0..n : loop[i] = IF i = 0 THEN a ELSE step(i, loop[i - 1])
  BY <1>3
<1> DEFINE S == {i \in 0..n : loop[i] \in T}
<1>5. 0 \in S
  BY <1>4
<1>6. ASSUME NEW i \in 1..n, i - 1 \in S PROVE i \in S
  BY <1>1, <1>4, <1>6
<1>7. \A i \in 0..n : i \in S
  <2> HIDE DEF S
  <2> QED
    BY <1>5, <1>6, Induct
<1> QED
  BY <1>7

----------------------------------------------------------------------------
(***************************************************************************)
(* The compiled expressions on the heap                                    *)
(***************************************************************************)

CacheInv == Here \in GoodCaches

(* What Install leaves.                                                    *)
LEMMA InstalledIs ==
    ASSUME NEW c \in GoodCaches, Install(c)
    PROVE  Here' = Collect(c)
<1> DEFINE d == Collect(c)
<1>1. d \in GoodCaches
  BY CollectGood
<1>2. d = [hash |-> d.hash, node |-> d.node, begin |-> d.begin, end |-> d.end,
           heap |-> d.heap, broken |-> d.broken]
  <2> HIDE DEF d
  <2> QED
    BY <1>1 DEF GoodCaches, Caches
<1>3. /\ m_hash' = d.hash /\ node' = d.node /\ m_begin' = d.begin /\ m_end' = d.end
      /\ compiled' = d.heap /\ broken' = d.broken
  BY DEF Install
<1> HIDE DEF d
<1>4. Here' = d
  BY <1>2, <1>3 DEF Here
<1> QED
  BY <1>4 DEF d

(* An action that installs a good cache keeps CacheInv.                    *)
LEMMA InstallGood ==
    ASSUME NEW c \in GoodCaches, Install(c)
    PROVE  CacheInv'
  BY InstalledIs, CollectGood DEF CacheInv

(* The empty cache is good.                                                *)
LEMMA InitGood ==
    ASSUME Init PROVE CacheInv
<1>1. /\ Here.hash = [e \in Exprs |-> null] /\ Here.node = [n \in Nodes |-> NoNode]
      /\ Here.begin = null /\ Here.end = null /\ Here.broken = "no"
      /\ Here.heap = [h \in Handles |-> null]
  BY DEF Init, Here
<1>2. null \in Links /\ null \in Texts /\ NoNode \in NodeRecs
  BY DEF Links, Texts, NodeRecs, NoNode
<1>3. [n \in Nodes |-> NoNode] \in [Nodes -> NodeRecs]
  BY <1>2
<1>4. Here \in Caches
  BY <1>2, <1>3 DEF Init, Here, Caches, NodeRecs
<1>5. keys(Here) = {}
  BY <1>1 DEF keys
<1>6. Real(Here) = {}
  BY <1>1, CacheAssumption DEF Real, NoNode
<1>7. Good(Here)
  BY <1>1, <1>5, <1>6 DEF Good, HashOK, LinksOK, HeapOK
<1> QED
  BY <1>4, <1>7 DEF CacheInv, GoodCaches

(* Every step keeps CacheInv.                                              *)
LEMMA NextGood ==
    ASSUME CacheInv, [Next]_vars
    PROVE  CacheInv'
<1> USE DEF CacheInv
<1>1. Here \in Caches /\ Here.broken = broken /\ (broken = "no" => Good(Here))
  BY DEF GoodCaches, Here
<1>2. /\ Here.hash = m_hash /\ Here.node = node /\ Here.begin = m_begin
      /\ Here.end = m_end /\ Here.heap = compiled
  BY DEF Here
<1>3. ASSUME UNCHANGED <<lru, compiled, broken>> PROVE CacheInv'
  <2>1. Here' = Here
    BY <1>3 DEF Here, lru
  <2> QED
    BY <2>1
<1>4. ASSUME UNCHANGED vars PROVE CacheInv'
  BY <1>3, <1>4 DEF vars
<1>5. ASSUME returns PROVE CacheInv'
  BY <1>3, <1>5 DEF returns
<1>6. ASSUME NEW e, uvm_glob_to_re(e) PROVE CacheInv'
  BY <1>3, <1>6 DEF uvm_glob_to_re
<1>7. ASSUME NEW e, NEW s, NEW glob, match_uncached(e, s, glob) PROVE CacheInv'
  BY <1>3, <1>7 DEF match_uncached
<1>8. ASSUME NEW e \in Exprs, NEW s, NEW glob, Idle, match_hit(e, s, glob)
      PROVE  CacheInv'
  <2>1. m_hash[e] # null /\ broken = "no" /\ Install(m_update(Here, m_hash[e]))
    BY <1>8 DEF match_hit, Idle
  <2>2. e \in keys(Here)
    BY <1>2, <2>1 DEF keys
  <2>3. m_hash[e] \in Real(Here)
    BY <1>1, <1>2, <2>1, <2>2, Relinkable
  <2>4. m_update(Here, m_hash[e]) \in GoodCaches
    BY <1>1, <2>1, <2>3, UpdateGood
  <2> QED
    BY <2>1, <2>4, InstallGood
<1>9. ASSUME NEW e \in Exprs, NEW s, NEW glob \in BOOLEAN, Idle, match_miss(e, s, glob)
      PROVE  CacheInv'
  <2>1. CASE uvm_re_comp(e, glob) = null
    BY <1>3, <1>9, <2>1 DEF match_miss
  <2>2. CASE uvm_re_comp(e, glob) # null
    <3> DEFINE h == CHOOSE x \in Handles : compiled[x] = null
               text == uvm_re_comp(e, glob)
    <3>1. /\ m_hash[e] = null /\ broken = "no" /\ Referenced(Here) # Nodes
          /\ \E x \in Handles : compiled[x] = null
          /\ Install([put_new(Here, e, h) EXCEPT !.heap[h] = text])
      BY <1>9, <2>2 DEF match_miss, Idle
    <3>2. h \in Handles /\ compiled[h] = null
      BY <3>1
    <3>3. text \in Texts
      BY <2>2 DEF uvm_re_comp, Texts
    <3> HIDE DEF h, text
    <3>4. text # null
      BY <2>2 DEF text
    <3>5. [put_new(Here, e, h) EXCEPT !.heap[h] = text] \in GoodCaches
      BY <1>1, <1>2, <3>1, <3>2, <3>3, <3>4, PutGood
    <3> QED
      BY <3>1, <3>5, InstallGood
  <2> QED
    BY <2>1, <2>2
<1>10. ASSUME NEW max \in Sizes, Idle, set_max_size(max) PROVE CacheInv'
  <2>1. Install(evict_to_max(Here, max))
    BY <1>10 DEF set_max_size
  <2>2. evict_to_max(Here, max) \in GoodCaches
    BY EvictToMaxKeeps, GoodKeptByEvict
  <2> QED
    BY <2>1, <2>2, InstallGood
<1>11. ASSUME NEW e \in Exprs, Idle, evict_key(e) PROVE CacheInv'
  <2>1. Install(evict(Here, e)) /\ broken = "no"
    BY <1>11 DEF evict_key, Idle
  <2>2. evict(Here, e) \in GoodCaches
    BY <1>1, <2>1, EvictGood
  <2> QED
    BY <2>1, <2>2, InstallGood
<1>12. ASSUME Idle, flush PROVE CacheInv'
  <2>1. PICK order \in SetToSeqs(keys(Here)) :
          LET c[i \in 0..Len(order)] ==
                  IF i = 0 THEN Here
                  ELSE IF c[i - 1].broken # "no" THEN c[i - 1] ELSE evict(c[i - 1], order[i])
          IN  Install(c[Len(order)])
    BY <1>12 DEF flush
  <2>2. Len(order) \in Nat /\ order \in [1..Len(order) -> Exprs]
    <3>1. keys(Here) \subseteq Exprs
      BY DEF keys
    <3>2. IsFiniteSet(keys(Here)) /\ Cardinality(keys(Here)) \in Nat
      BY <3>1, CacheAssumption, FS_Subset, FS_CardinalityType
    <3>3. order \in [1..Cardinality(keys(Here)) -> keys(Here)]
      BY DEF SetToSeqs
    <3> QED
      BY <3>1, <3>2, <3>3
  <2> DEFINE IsLoop(r) == r = [i \in 0..Len(order) |->
                                 IF i = 0 THEN Here
                                 ELSE IF r[i - 1].broken # "no" THEN r[i - 1]
                                 ELSE evict(r[i - 1], order[i])]
             loop == CHOOSE r : IsLoop(r)
  <2>3. Install(loop[Len(order)])
    BY <2>1
  <2>4. loop[Len(order)] \in GoodCaches
    BY <2>2, FlushKeeps, GoodKeptByEvict
  <2> HIDE DEF loop
  <2> QED
    BY <2>3, <2>4, InstallGood
<1> QED
  BY <1>4, <1>5, <1>6, <1>7, <1>8, <1>9, <1>10, <1>11, <1>12 DEF Next

(* The heap of the C code has exactly the compiled expressions of the      *)
(* cached keys, one for each: uvm_regex_cache::evict frees what it takes   *)
(* out of the cache and nothing else, and uvm_re_match puts there what it  *)
(* compiled, in each order of matches, evictions, changes of the size and  *)
(* flushes, also when m_update has left m_end behind (HandlesExact).       *)
THEOREM NoLeakNoDangling == Spec => []HandlesExact
<1>1. CacheInv => HandlesExact
  <2> SUFFICES ASSUME CacheInv, broken = "no" PROVE HandlesExact
    BY DEF HandlesExact
  <2>1. HeapOK(Here)
    BY DEF CacheInv, GoodCaches, Good, Here
  <2>2. Here.node = node /\ Here.hash = m_hash /\ Here.heap = compiled
    BY DEF Here
  <2>3. \A e, f \in keys(Here) : node[m_hash[e]].data = node[m_hash[f]].data => e = f
    BY <2>1, <2>2 DEF HeapOK
  <2>4. \A e \in keys(Here) : /\ node[m_hash[e]].data \in Handles
                              /\ compiled[node[m_hash[e]].data] # null
    BY <2>1, <2>2 DEF HeapOK
  <2>5. \A h \in Handles :
          compiled[h] # null => \E e \in keys(Here) : node[m_hash[e]].data = h
    BY <2>1, <2>2 DEF HeapOK
  <2> QED
    BY <2>3, <2>4, <2>5 DEF HandlesExact
<1> QED
  BY <1>1, InitGood, NextGood, PTL DEF Spec

(***************************************************************************)
(* The buffer of uvm_re_deglobbed                                          *)
(***************************************************************************)

MAX == UVM_REGEX_MAX_LENGTH

Buffers == [len : Nat, ok : BOOLEAN, text : Seq(Chars)]

(* What is counted is enough for what has been written and r characters of *)
(* the glob.                                                               *)
Counts(b, r) ==
    b \in Buffers /\ Len(b.text) <= MAX /\ (b.ok => Len(b.text) + r <= b.len)

(* And it is in the limit.                                                 *)
Room(b, r) == Counts(b, r) /\ (b.ok => b.len <= MAX)

(* What Emit counts is enough for what it writes.                          *)
LEMMA EmitRoom ==
    ASSUME NEW b, NEW r \in Nat, NEW k \in Nat, NEW cs \in Seq(Chars), NEW q \in Nat,
           Counts(b, r), Len(cs) + q <= k + r
    PROVE  Room(Emit(b, k, cs), q)
<1> DEFINE d == Emit(b, k, cs)
<1>1. /\ b \in Buffers /\ b.len \in Nat /\ b.ok \in BOOLEAN /\ b.text \in Seq(Chars)
      /\ b = [len |-> b.len, ok |-> b.ok, text |-> b.text]
      /\ Len(b.text) \in Nat /\ Len(cs) \in Nat /\ Len(b.text) <= MAX
  BY DEF Counts, Buffers
<1>2. MAX \in Nat
  BY RegexAssumption DEF MAX
<1>3. CASE ~b.ok
  <2>1. d = b
    BY <1>3 DEF Emit
  <2> HIDE DEF d
  <2>2. Room(d, q)
    BY <1>1, <1>3, <2>1 DEF Room, Counts
  <2> QED
    BY <2>2 DEF d
<1>4. CASE b.ok /\ b.len + k > MAX
  <2>1. d = [len |-> b.len, ok |-> FALSE, text |-> b.text]
    BY <1>1, <1>4 DEF Emit, MAX
  <2> HIDE DEF d
  <2>2. d \in Buffers /\ d.text = b.text /\ ~d.ok
    BY <1>1, <2>1 DEF Buffers
  <2>3. Room(d, q)
    BY <1>1, <2>2 DEF Room, Counts
  <2> QED
    BY <2>3 DEF d
<1>5. CASE b.ok /\ ~(b.len + k > MAX)
  <2> DEFINE text == b.text \o cs
  <2>1. d = [len |-> b.len + k, ok |-> b.ok, text |-> text]
    BY <1>1, <1>5 DEF Emit, MAX
  <2>2. text \in Seq(Chars) /\ Len(text) = Len(b.text) + Len(cs)
    BY <1>1
  <2>3. b.len + k \in Nat
    BY <1>1
  <2> HIDE DEF d, text
  <2>4. d \in Buffers /\ d.text = text /\ d.len = b.len + k
    BY <1>1, <2>1, <2>2, <2>3 DEF Buffers
  <2>5. Len(b.text) + r <= b.len
    BY <1>5 DEF Counts
  <2>6. Len(text) + q <= b.len + k /\ b.len + k <= MAX /\ Len(text) <= MAX
    BY <1>1, <1>2, <1>5, <2>2, <2>5
  <2>7. Room(d, q)
    BY <2>4, <2>6 DEF Room, Counts
  <2> QED
    BY <2>7 DEF d
<1> QED
  BY <1>1, <1>3, <1>4, <1>5

(* A character that Copy writes had been counted in the length of the      *)
(* glob.                                                                   *)
LEMMA CopyRoom ==
    ASSUME NEW b, NEW r \in Nat, NEW c \in Chars, Room(b, r + 1)
    PROVE  Room(Copy(b, c), r)
<1> DEFINE d == Copy(b, c)
<1>1. /\ b \in Buffers /\ b.len \in Nat /\ b.ok \in BOOLEAN /\ b.text \in Seq(Chars)
      /\ b = [len |-> b.len, ok |-> b.ok, text |-> b.text]
      /\ Len(b.text) \in Nat /\ Len(b.text) <= MAX
  BY DEF Room, Counts, Buffers
<1>2. MAX \in Nat
  BY RegexAssumption DEF MAX
<1>3. CASE ~b.ok
  <2>1. d = b
    BY <1>3 DEF Copy
  <2> HIDE DEF d
  <2>2. Room(d, r)
    BY <1>1, <1>3, <2>1 DEF Room, Counts
  <2> QED
    BY <2>2 DEF d
<1>4. CASE b.ok
  <2> DEFINE text == Append(b.text, c)
  <2>1. d = [len |-> b.len, ok |-> b.ok, text |-> text]
    BY <1>1, <1>4 DEF Copy
  <2>2. text \in Seq(Chars) /\ Len(text) = Len(b.text) + 1
    BY <1>1
  <2> HIDE DEF d, text
  <2>3. d \in Buffers /\ d.text = text /\ d.len = b.len
    BY <1>1, <2>1, <2>2 DEF Buffers
  <2>4. Len(b.text) + (r + 1) <= b.len /\ b.len <= MAX
    BY <1>4 DEF Room, Counts
  <2>5. Len(text) + r <= b.len /\ Len(text) <= MAX
    BY <1>1, <1>2, <2>2, <2>4
  <2>6. Room(d, r)
    BY <2>3, <2>4, <2>5 DEF Room, Counts
  <2> QED
    BY <2>6 DEF d
<1> QED
  BY <1>1, <1>3, <1>4

(* So has expand_char room for each character of the glob ...              *)
LEMMA ExpandCharRoom ==
    ASSUME NEW b, NEW r \in Nat, NEW c \in Chars, Room(b, r + 1)
    PROVE  Room(expand_char(b, c), r)
<1>1. Counts(b, r + 1) /\ r + 1 \in Nat /\ 2 \in Nat
  BY DEF Room
<1>2. "." \in Chars /\ "\\" \in Chars
  BY RegexAssumption
<1>3. <<".", c>> \in Seq(Chars) /\ Len(<<".", c>>) = 2
  BY <1>2
<1>4. <<"\\", c>> \in Seq(Chars) /\ Len(<<"\\", c>>) = 2
  BY <1>2
<1>5. Room(Emit(b, 2, <<".", c>>), r)
  <2>1. Len(<<".", c>>) + r <= 2 + (r + 1)
    BY <1>3
  <2> QED
    BY <1>1, <1>3, <2>1, EmitRoom
<1>6. Room(Emit(b, 2, <<"\\", c>>), r)
  <2>1. Len(<<"\\", c>>) + r <= 2 + (r + 1)
    BY <1>4
  <2> QED
    BY <1>1, <1>4, <2>1, EmitRoom
<1>7. Room(Copy(b, "."), r) /\ Room(Copy(b, c), r)
  BY <1>2, CopyRoom
<1> QED
  BY <1>5, <1>6, <1>7 DEF expand_char

(* ... and expand for all of them.                                         *)
LEMMA ExpandRoom ==
    ASSUME NEW glob \in Seq(Chars), NEW b0, Room(b0, Len(glob))
    PROVE  Room(expand(glob, b0), 0)
<1> DEFINE n == Len(glob)
           T == {b \in Buffers : b.ok => b.len <= MAX}
           R(i) == {b \in Buffers : Room(b, n - i)}
           IsLoop(r) == r = [i \in 0..n |->
                               IF i = 0 THEN b0 ELSE expand_char(r[i - 1], glob[i])]
           loop == CHOOSE r : IsLoop(r)
<1>1. expand(glob, b0) = loop[n]
  BY DEF expand
<1>2. n \in Nat /\ \A i \in 1..n : glob[i] \in Chars
  OBVIOUS
<1> HIDE DEF n
<1>3. b0 \in R(0)
  BY <1>2 DEF Room, Counts, n
<1>4. ASSUME NEW i \in 1..n, NEW b \in R(i - 1) PROVE expand_char(b, glob[i]) \in R(i)
  <2>1. n - i \in Nat /\ n - (i - 1) = (n - i) + 1
    BY <1>2
  <2>2. Room(b, (n - i) + 1)
    BY <2>1
  <2>3. Room(expand_char(b, glob[i]), n - i)
    BY <1>2, <2>1, <2>2, ExpandCharRoom
  <2> QED
    BY <2>3 DEF Room, Counts
<1> HIDE DEF R
<1>5. \E r : IsLoop(r)
  <2> DEFINE U == UNION {R(i) : i \in 0..n}
             V == U \cup {b0}
             st == [p \in (1..n) \X V |->
                      IF p[2] \in R(p[1] - 1) THEN expand_char(p[2], glob[p[1]]) ELSE b0]
  <2>1. st \in Steps(V, n)
    <3>1. ASSUME NEW p \in (1..n) \X V PROVE st[p] \in V
      <4>1. p[1] \in 1..n /\ p[1] \in 0..n
        BY <1>2
      <4>2. CASE p[2] \in R(p[1] - 1)
        <5>1. expand_char(p[2], glob[p[1]]) \in R(p[1])
          BY <1>4, <4>1, <4>2
        <5>2. expand_char(p[2], glob[p[1]]) \in U
          BY <4>1, <5>1
        <5> QED
          BY <4>2, <5>2
      <4>3. CASE p[2] \notin R(p[1] - 1)
        BY <4>3
      <4> QED
        BY <4>2, <4>3
    <3> HIDE DEF V
    <3> QED
      BY <3>1 DEF Steps
  <2>2. \E f : f \in Computed(V, b0, n, st)
    <3>1. b0 \in V
      OBVIOUS
    <3> HIDE DEF st, V
    <3> QED
      BY <1>2, <2>1, <3>1, Recursion
  <2>3. PICK f \in [0..n -> V] :
          f[0] = b0 /\ \A i \in 1..n : f[i] = st[<<i, f[i - 1]>>]
    BY <2>2 DEF Computed
  <2> DEFINE S == {i \in 0..n : f[i] \in R(i)}
  <2>4. ASSUME NEW i \in 1..n, f[i - 1] \in R(i - 1)
        PROVE  f[i] = expand_char(f[i - 1], glob[i])
    <3>1. i - 1 \in 0..n /\ f[i - 1] \in V
      BY <1>2, <2>3
    <3>2. st[<<i, f[i - 1]>>] = expand_char(f[i - 1], glob[i])
      <4> HIDE DEF V
      <4> QED
        BY <2>4, <3>1
    <3> HIDE DEF st
    <3> QED
      BY <2>3, <3>2
  <2>5. 0 \in S
    BY <1>2, <1>3, <2>3
  <2>6. ASSUME NEW i \in 1..n, i - 1 \in S PROVE i \in S
    <3>1. f[i - 1] \in R(i - 1) /\ i \in 0..n
      BY <1>2, <2>6
    <3>2. f[i] \in R(i)
      BY <1>4, <2>4, <3>1
    <3> QED
      BY <3>1, <3>2
  <2>7. \A i \in 0..n : i \in S
    <3> HIDE DEF S
    <3> QED
      BY <1>2, <2>5, <2>6, Induct
  <2>8. ASSUME NEW i \in 0..n
        PROVE  f[i] = IF i = 0 THEN b0 ELSE expand_char(f[i - 1], glob[i])
    <3>1. CASE i = 0
      BY <2>3, <3>1
    <3>2. CASE i # 0
      <4>1. i \in 1..n /\ i - 1 \in 0..n
        BY <1>2, <3>2
      <4>2. f[i - 1] \in R(i - 1)
        BY <2>7, <4>1
      <4> QED
        BY <2>4, <3>2, <4>1, <4>2
    <3> QED
      BY <3>1, <3>2
  <2>9. IsLoop(f)
    BY <2>3, <2>8
  <2> HIDE DEF IsLoop
  <2> QED
    BY <2>9
<1>6. IsLoop(loop)
  <2> HIDE DEF IsLoop
  <2> QED
    BY <1>5
<1> HIDE DEF loop
<1>7. \A i \in 0..n : loop[i] = IF i = 0 THEN b0 ELSE expand_char(loop[i - 1], glob[i])
  BY <1>6
<1> DEFINE S == {i \in 0..n : loop[i] \in R(i)}
<1>8. 0 \in S
  BY <1>2, <1>3, <1>7
<1>9. ASSUME NEW i \in 1..n, i - 1 \in S PROVE i \in S
  <2>1. i \in 0..n /\ i # 0 /\ loop[i - 1] \in R(i - 1)
    BY <1>2, <1>9
  <2> QED
    BY <1>4, <1>7, <2>1
<1>10. \A i \in 0..n : i \in S
  <2> HIDE DEF S
  <2> QED
    BY <1>2, <1>8, <1>9, Induct
<1>11. loop[n] \in R(n)
  BY <1>2, <1>10
<1>12. n - n = 0
  BY <1>2
<1> QED
  BY <1>1, <1>11, <1>12 DEF R

(* What uvm_re_deglobbed makes of a glob that is not empty fits, unless no *)
(* write is counted before the end of the glob.                            *)
LEMMA DeglobRoom ==
    ASSUME NEW glob \in Seq(Chars), glob # <<>>, NEW brackets \in BOOLEAN,
           brackets \/ glob[1] # "^" \/ Len(glob) <= MAX
    PROVE  Room(deglob(glob, brackets), 0)
<1> DEFINE n == Len(glob)
           slash(b) == IF brackets THEN Emit(b, 1, <<"/">>) ELSE b
           start == [len |-> n, ok |-> TRUE, text |-> <<>>]
           opened == slash(start)
           caret == IF glob[1] = "^" THEN opened ELSE Emit(opened, 1, <<"^">>)
           body == expand(glob, caret)
           dollar == IF body.ok /\ body.text[Len(body.text)] = "$" THEN body
                     ELSE Emit(body, 1, <<"$">>)
<1>1. deglob(glob, brackets) = Emit(slash(dollar), 1, <<>>)
  BY DEF deglob
<1>2. n \in Nat /\ MAX \in Nat
  BY RegexAssumption DEF MAX
<1>3. /\ <<"/">> \in Seq(Chars) /\ Len(<<"/">>) <= 1
      /\ <<"^">> \in Seq(Chars) /\ Len(<<"^">>) <= 1
      /\ <<"$">> \in Seq(Chars) /\ Len(<<"$">>) <= 1
  <2>1. "/" \in Chars /\ "^" \in Chars /\ "$" \in Chars
    BY RegexAssumption
  <2> QED
    BY <2>1
<1>4. <<>> \in Seq(Chars) /\ Len(<<>>) <= 1 /\ 0 \in Nat
  OBVIOUS
<1>5. Counts(start, n) /\ (n <= MAX => Room(start, n))
  <2>1. start \in Buffers /\ start.text = <<>> /\ start.len = n /\ Len(start.text) = 0
    BY <1>2 DEF Buffers
  <2> HIDE DEF start, n
  <2> QED
    BY <1>2, <2>1 DEF Counts, Room
<1> HIDE DEF n, start
<1>6. ASSUME NEW b, NEW r \in Nat, Counts(b, r), NEW cs \in Seq(Chars), Len(cs) <= 1
      PROVE  Room(Emit(b, 1, cs), r)
  <2>1. Len(cs) \in Nat /\ Len(cs) + r <= 1 + r /\ 1 \in Nat
    BY <1>6
  <2> QED
    BY <1>6, <2>1, EmitRoom
<1>7. ASSUME NEW b, NEW r \in Nat, Room(b, r) PROVE Room(slash(b), r)
  <2>1. Counts(b, r)
    BY <1>7 DEF Room
  <2>2. Room(Emit(b, 1, <<"/">>), r)
    BY <1>3, <1>6, <2>1, Zenon
  <2> QED
    BY <1>7, <2>2
<1>8. Counts(opened, n) /\ (brackets \/ n <= MAX => Room(opened, n))
  <2>1. CASE brackets
    <3>1. Room(Emit(start, 1, <<"/">>), n)
      BY <1>2, <1>3, <1>5, <1>6
    <3> QED
      BY <2>1, <3>1 DEF Room
  <2>2. CASE ~brackets
    BY <1>5, <2>2
  <2> QED
    BY <2>1, <2>2
<1> HIDE DEF opened
<1>9. Room(caret, n)
  <2>1. CASE glob[1] = "^"
    BY <1>8, <2>1 DEF n
  <2>2. CASE glob[1] # "^"
    <3>1. Room(Emit(opened, 1, <<"^">>), n)
      BY <1>2, <1>3, <1>6, <1>8
    <3> QED
      BY <2>2, <3>1
  <2> QED
    BY <2>1, <2>2
<1> HIDE DEF caret
<1>10. Room(body, 0)
  BY <1>9, ExpandRoom DEF n
<1> HIDE DEF body
<1>11. Room(dollar, 0)
  <2>1. Room(Emit(body, 1, <<"$">>), 0)
    BY <1>3, <1>4, <1>6, <1>10 DEF Room
  <2> QED
    BY <1>10, <2>1
<1> HIDE DEF dollar
<1>12. Room(slash(dollar), 0)
  BY <1>7, <1>11
<1> HIDE DEF slash
<1>13. Room(Emit(slash(dollar), 1, <<>>), 0)
  BY <1>4, <1>6, <1>12 DEF Room
<1> QED
  BY <1>1, <1>13

(* A text that is not longer than the maximum fits, with its zero.         *)
LEMMA ResultFits ==
    ASSUME NEW ok \in BOOLEAN, NEW text, Len(text) \in Nat, Len(text) <= MAX + 3
    PROVE  ~Result(ok, text).over
<1>1. MAX \in Nat
  BY RegexAssumption DEF MAX
<1> DEFINE full == Len(text) + (IF ok THEN 1 ELSE 0) > MAX + 4
<1>2. Result(ok, text).over = full
  BY DEF Result, MAX
<1>3. full = FALSE
  <2>1. CASE ok
    BY <1>1, <2>1
  <2>2. CASE ~ok
    BY <1>1, <2>2
  <2> QED
    BY <2>1, <2>2
<1> HIDE DEF full
<1> QED
  BY <1>2, <1>3

(* uvm_re_deglobbed writes past its buffer only for a long glob that begins*)
(* with '^' and is wanted without brackets.                                *)
LEMMA DeglobbedFits ==
    ASSUME NEW glob \in Seq(Chars), NEW brackets \in BOOLEAN,
           uvm_re_deglobbed(glob, brackets).over
    PROVE  ~brackets /\ glob[1] = "^" /\ Len(glob) > MAX
<1> DEFINE d == deglob(glob, brackets)
           u == uvm_re_deglobbed(glob, brackets)
<1>1. MAX \in Nat \ {0} /\ Len(glob) \in Nat
  BY RegexAssumption DEF MAX
<1>2. CASE glob = <<>> \/ glob = <<"/">>
  <2> DEFINE text == IF brackets THEN <<"/", "^", "$", "/">> ELSE <<"^", "$">>
  <2>1. u = Result(TRUE, text)
    BY <1>2 DEF uvm_re_deglobbed
  <2>2. Len(text) \in Nat /\ Len(text) <= 4
    OBVIOUS
  <2> HIDE DEF text
  <2> Len(text) <= MAX + 3
    BY <1>1, <2>2
  <2>3. ~Result(TRUE, text).over
    BY <1>1, <2>2, ResultFits
  <2> QED
    BY <2>1, <2>3
<1>3. CASE ~(glob = <<>> \/ glob = <<"/">>) /\ Bracketed(glob)
  <2>1. CASE Len(glob) > MAX
    <3>1. u = Result(FALSE, <<>>)
      BY <1>3, <2>1 DEF uvm_re_deglobbed, MAX
    <3>2. ~Result(FALSE, <<>>).over
      <4>1. Len(<<>>) \in Nat /\ Len(<<>>) <= MAX + 3
        BY <1>1
      <4> QED
        BY <4>1, ResultFits
    <3> QED
      BY <3>1, <3>2
  <2>2. CASE ~(Len(glob) > MAX)
    <3> DEFINE inner == SubSeq(glob, 2, Len(glob) - 1)
               text == IF brackets THEN glob ELSE inner
    <3>1. u = Result(TRUE, text)
      BY <1>3, <2>2 DEF uvm_re_deglobbed, MAX
    <3>2. Len(glob) # 1
      <4>1. Len(glob) = 1 => glob = <<"/">>
        BY <1>3 DEF Bracketed
      <4> QED
        BY <1>3, <4>1
    <3>3. Len(glob) # 0
      BY <1>3
    <3>4. Len(inner) \in Nat /\ Len(inner) <= Len(glob)
      BY <1>1, <3>2, <3>3
    <3>5. Len(text) \in Nat /\ Len(text) <= MAX + 3
      <4> HIDE DEF inner
      <4> QED
        BY <1>1, <2>2, <3>4
    <3> HIDE DEF text
    <3>6. ~Result(TRUE, text).over
      BY <3>5, ResultFits
    <3> QED
      BY <3>1, <3>6
  <2> QED
    BY <2>1, <2>2
<1>4. CASE ~(glob = <<>> \/ glob = <<"/">>) /\ ~Bracketed(glob)
  <2>1. u = Result(d.ok, d.text)
    BY <1>4 DEF uvm_re_deglobbed
  <2>2. CASE brackets \/ glob[1] # "^" \/ Len(glob) <= MAX
    <3>1. Room(d, 0)
      BY <1>4, <2>2, DeglobRoom
    <3> HIDE DEF d
    <3>2. d.ok \in BOOLEAN /\ Len(d.text) \in Nat /\ Len(d.text) <= MAX
      BY <3>1 DEF Room, Counts, Buffers
    <3>3. ~Result(d.ok, d.text).over
      BY <1>1, <3>2, ResultFits
    <3> QED
      BY <2>1, <3>3
  <2>3. CASE ~(brackets \/ glob[1] # "^" \/ Len(glob) <= MAX)
    BY <1>1, <2>3
  <2> QED
    BY <2>2, <2>3
<1> QED
  BY <1>2, <1>3, <1>4

(* What is handed to regcomp fits, with the two exceptions of BufferKept.  *)
LEMMA StrippedFits ==
    ASSUME NEW re \in Seq(Chars), NEW glob \in BOOLEAN, stripped(re, glob).over
    PROVE  IF glob THEN re[1] = "^" /\ Len(re) > MAX ELSE re = <<"/">>
<1>1. MAX \in Nat /\ Len(re) \in Nat
  BY RegexAssumption DEF MAX
<1>2. CASE glob
  <2>1. uvm_re_deglobbed(re, FALSE).over
    BY <1>2 DEF stripped
  <2>2. re[1] = "^" /\ Len(re) > MAX
    BY <2>1, DeglobbedFits
  <2> QED
    BY <1>2, <2>2
<1>3. CASE ~glob /\ Len(re) > MAX
  <2>1. stripped(re, glob) = Result(FALSE, <<>>)
    BY <1>3 DEF stripped, MAX
  <2>2. Len(<<>>) \in Nat /\ Len(<<>>) <= MAX + 3
    BY <1>1
  <2>3. ~Result(FALSE, <<>>).over
    BY <2>2, ResultFits
  <2> QED
    BY <2>1, <2>3
<1>4. CASE ~glob /\ ~(Len(re) > MAX) /\ re # <<"/">> /\ Bracketed(re)
  <2> DEFINE inner == SubSeq(re, 2, Len(re) - 1)
  <2>1. stripped(re, glob) = Result(TRUE, inner)
    BY <1>4 DEF stripped, MAX
  <2>2. Len(re) # 1 /\ Len(re) # 0
    <3>1. Len(re) = 1 => re = <<"/">>
      BY <1>4 DEF Bracketed
    <3>2. Len(re) > 0
      BY <1>4 DEF Bracketed
    <3> QED
      BY <1>1, <1>4, <3>1, <3>2
  <2>3. Len(inner) \in Nat /\ Len(inner) <= Len(re)
    BY <1>1, <2>2
  <2> HIDE DEF inner
  <2>4. Len(inner) <= MAX + 3
    BY <1>1, <1>4, <2>3
  <2>5. ~Result(TRUE, inner).over
    BY <2>3, <2>4, ResultFits
  <2> QED
    BY <2>1, <2>5
<1>5. CASE ~glob /\ ~(Len(re) > MAX) /\ re # <<"/">> /\ ~Bracketed(re)
  <2>1. stripped(re, glob) = [ok |-> TRUE, text |-> re, over |-> FALSE]
    BY <1>5 DEF stripped, MAX
  <2> QED
    BY <2>1
<1>6. CASE ~glob /\ re = <<"/">>
  BY <1>6
<1> QED
  BY <1>2, <1>3, <1>4, <1>5, <1>6

(* No call writes past uvm_re_buffer: glob_len, which uvm_re_deglobbed     *)
(* adds to before it writes, bounds what it has written, for every         *)
(* expression, with the two exceptions that BufferKept names: a long glob  *)
(* that begins with '^', and "/" as an expression.                         *)
THEOREM BufferIsKept == Spec => []BufferKept
<1>1. Init => BufferKept
  BY DEF Init, BufferKept, NoCall
<1>2. ASSUME BufferKept, [Next]_vars PROVE BufferKept'
  <2>1. ASSUME call' = call PROVE BufferKept'
    BY <1>2, <2>1 DEF BufferKept
  <2>2. ASSUME call' = NoCall PROVE BufferKept'
    BY <2>2 DEF BufferKept, NoCall
  <2>3. ASSUME NEW re, NEW s, NEW glob, NEW hit, NEW ret, NEW ub,
               Answer(re, s, glob, hit, ret, ub)
        PROVE  /\ call'.ub = ub /\ call'.op = "match" /\ call'.re = re
               /\ call'.deglob = glob
    BY <2>3 DEF Answer, NoCall
  <2>4. ASSUME NEW re \in Seq(Chars), NEW s, NEW glob \in BOOLEAN, NEW ret,
               Answer(re, s, glob, FALSE, ret, stripped(re, glob).over)
        PROVE  BufferKept'
    <3>1. /\ call'.ub = stripped(re, glob).over /\ call'.op = "match" /\ call'.re = re
          /\ call'.deglob = glob
      BY <2>3, <2>4
    <3>2. stripped(re, glob).over =>
            IF glob THEN re[1] = "^" /\ Len(re) > MAX ELSE re = <<"/">>
      BY StrippedFits
    <3> QED
      BY <3>1, <3>2, Zenon DEF BufferKept, MAX
  <2>5. ASSUME NEW re, NEW s, NEW glob, NEW ret, Answer(re, s, glob, TRUE, ret, FALSE)
        PROVE  BufferKept'
    BY <2>3, <2>5 DEF BufferKept
  <2>6. Exprs \subseteq Seq(Chars) /\ Others \subseteq Seq(Chars)
    BY CacheAssumption
  <2>7. CASE UNCHANGED vars
    BY <2>1, <2>7 DEF vars
  <2>8. CASE returns
    BY <2>2, <2>8 DEF returns
  <2>9. ASSUME NEW e \in Exprs \cup Others, uvm_glob_to_re(e) PROVE BufferKept'
    <3>1. ~uvm_re_deglobbed(e, TRUE).over
      BY <2>6, DeglobbedFits
    <3>2. call'.ub = uvm_re_deglobbed(e, TRUE).over
      BY <2>9 DEF uvm_glob_to_re, NoCall
    <3> QED
      BY <3>1, <3>2 DEF BufferKept
  <2>10. ASSUME NEW e \in Exprs \cup Others, NEW s, NEW glob \in BOOLEAN,
                match_uncached(e, s, glob)
         PROVE  BufferKept'
    BY <2>4, <2>6, <2>10 DEF match_uncached
  <2>11. ASSUME NEW e \in Exprs, NEW s, NEW glob \in BOOLEAN, match_hit(e, s, glob)
         PROVE  BufferKept'
    BY <2>2, <2>5, <2>11 DEF match_hit
  <2>12. ASSUME NEW e \in Exprs, NEW s, NEW glob \in BOOLEAN, match_miss(e, s, glob)
         PROVE  BufferKept'
    BY <2>4, <2>6, <2>12 DEF match_miss
  <2>13. ASSUME NEW e, evict_key(e) PROVE BufferKept'
    BY <2>1, <2>13 DEF evict_key
  <2>14. ASSUME NEW max, set_max_size(max) PROVE BufferKept'
    BY <2>1, <2>14 DEF set_max_size
  <2>15. CASE flush
    BY <2>1, <2>15 DEF flush
  <2> QED
    BY <1>2, <2>7, <2>8, <2>9, <2>10, <2>11, <2>12, <2>13, <2>14, <2>15 DEF Next
<1> QED
  BY <1>1, <1>2, PTL DEF Spec

(***************************************************************************)
(* Kept: the elements of a sequence that are in a set                      *)
(***************************************************************************)

(* q without its element at p.                                             *)
Less(q, p) == [i \in 1..(Len(q) - 1) |-> IF i < p THEN q[i] ELSE q[i + 1]]

(* The steps of Kept.                                                      *)
LEMMA KeptSteps ==
    ASSUME NEW s \in Seq(Exprs), NEW K
    PROVE  \E f \in [0..Len(s) -> Seq(Exprs)] :
              /\ f[0] = <<>>
              /\ \A i \in 1..Len(s) :
                    f[i] = IF s[i] \in K THEN Append(f[i - 1], s[i]) ELSE f[i - 1]
              /\ Kept(s, K) = f[Len(s)]
<1> DEFINE n == Len(s)
           T == Seq(Exprs)
           step(i, q) == IF s[i] \in K THEN Append(q, s[i]) ELSE q
           IsLoop(r) == r = [i \in 0..n |-> IF i = 0 THEN <<>> ELSE step(i, r[i - 1])]
           loop == CHOOSE r : IsLoop(r)
<1>1. Kept(s, K) = loop[n]
  BY DEF Kept
<1>2. n \in Nat /\ \A i \in 1..n : s[i] \in Exprs
  OBVIOUS
<1>3. <<>> \in T
  OBVIOUS
<1>4. ASSUME NEW i \in 1..n, NEW q \in T PROVE step(i, q) \in T
  BY <1>2
<1> HIDE DEF n, T, step
<1>5. \E r : IsLoop(r)
  <2> DEFINE st == [p \in (1..n) \X T |-> step(p[1], p[2])]
  <2>1. st \in Steps(T, n)
    BY <1>4 DEF Steps
  <2>2. \E f : f \in Computed(T, <<>>, n, st)
    <3> HIDE DEF st
    <3> QED
      BY <1>2, <1>3, <2>1, Recursion
  <2>3. PICK f \in [0..n -> T] :
          f[0] = <<>> /\ \A i \in 1..n : f[i] = st[<<i, f[i - 1]>>]
    BY <2>2 DEF Computed
  <2>4. ASSUME NEW i \in 0..n PROVE f[i] = IF i = 0 THEN <<>> ELSE step(i, f[i - 1])
    <3>1. CASE i = 0
      BY <2>3, <3>1
    <3>2. CASE i # 0
      <4>1. i \in 1..n /\ i - 1 \in 0..n
        BY <1>2, <3>2
      <4>2. f[i - 1] \in T /\ st[<<i, f[i - 1]>>] = step(i, f[i - 1])
        BY <4>1
      <4> HIDE DEF st
      <4> QED
        BY <2>3, <3>2, <4>1, <4>2
    <3> QED
      BY <3>1, <3>2
  <2>5. IsLoop(f)
    BY <2>3, <2>4
  <2> HIDE DEF IsLoop
  <2> QED
    BY <2>5
<1>6. IsLoop(loop)
  <2> HIDE DEF IsLoop
  <2> QED
    BY <1>5
<1>7. loop = [i \in 0..n |-> loop[i]]
  BY <1>6
<1> HIDE DEF loop
<1>8. \A i \in 0..n : loop[i] = IF i = 0 THEN <<>> ELSE step(i, loop[i - 1])
  BY <1>6
<1> DEFINE S == {i \in 0..n : loop[i] \in T}
<1>9. 0 \in S
  BY <1>2, <1>3, <1>8
<1>10. ASSUME NEW i \in 1..n, i - 1 \in S PROVE i \in S
  <2>1. i \in 0..n /\ i # 0 /\ loop[i - 1] \in T
    BY <1>2, <1>10
  <2> QED
    BY <1>4, <1>8, <2>1
<1>11. \A i \in 0..n : i \in S
  <2> HIDE DEF S
  <2> QED
    BY <1>2, <1>9, <1>10, Induct
<1>12. loop \in [0..n -> T]
  BY <1>7, <1>11
<1>13. loop[0] = <<>> /\ \A i \in 1..n : loop[i] = step(i, loop[i - 1])
  BY <1>2, <1>8
<1> QED
  BY <1>1, <1>12, <1>13 DEF n, T, step

(* Everything is kept.                                                     *)
LEMMA KeptAll ==
    ASSUME NEW s \in Seq(Exprs), NEW K, \A i \in 1..Len(s) : s[i] \in K
    PROVE  Kept(s, K) = s
<1> DEFINE n == Len(s)
<1>1. n \in Nat /\ \A i \in 1..n : s[i] \in Exprs
  OBVIOUS
<1>2. PICK f \in [0..n -> Seq(Exprs)] :
        /\ f[0] = <<>>
        /\ \A i \in 1..n : f[i] = IF s[i] \in K THEN Append(f[i - 1], s[i]) ELSE f[i - 1]
        /\ Kept(s, K) = f[n]
  BY KeptSteps
<1> DEFINE S == {i \in 0..n : Len(f[i]) = i /\ \A j \in 1..i : f[i][j] = s[j]}
<1>3. 0 \in S
  BY <1>1, <1>2
<1>4. ASSUME NEW i \in 1..n, i - 1 \in S PROVE i \in S
  <2>1. i - 1 \in 0..n /\ i \in 0..n /\ f[i - 1] \in Seq(Exprs) /\ s[i] \in Exprs
    <3>1. i - 1 \in 0..n /\ i \in 0..n
      BY <1>1
    <3> HIDE DEF n
    <3> QED
      BY <1>1, <3>1
  <2>2. f[i] = Append(f[i - 1], s[i])
    BY <1>2
  <2>3. Len(f[i - 1]) = i - 1 /\ \A j \in 1..(i - 1) : f[i - 1][j] = s[j]
    BY <1>4
  <2>4. Len(f[i]) = i /\ f[i][i] = s[i] /\ \A j \in 1..(i - 1) : f[i][j] = f[i - 1][j]
    BY <2>1, <2>2, <2>3
  <2>5. ASSUME NEW j \in 1..i PROVE f[i][j] = s[j]
    <3>1. CASE j = i
      BY <2>4, <3>1
    <3>2. CASE j # i
      BY <2>3, <2>4, <3>2
    <3> QED
      BY <3>1, <3>2
  <2> QED
    BY <2>1, <2>4, <2>5
<1>5. \A i \in 0..n : i \in S
  <2> HIDE DEF S, n
  <2> QED
    BY <1>1, <1>3, <1>4, Induct
<1>6. f[n] \in Seq(Exprs) /\ Len(f[n]) = n /\ \A j \in 1..n : f[n][j] = s[j]
  BY <1>1, <1>5
<1>7. f[n] = s
  BY <1>6
<1> QED
  BY <1>2, <1>7

(* The elements of Append.                                                 *)
LEMMA AppendIs ==
    ASSUME NEW v \in Seq(Exprs), NEW x \in Exprs, NEW m \in Nat, m = Len(v) + 1
    PROVE  Append(v, x) = [j \in 1..m |-> IF j < m THEN v[j] ELSE x]
<1> DEFINE w == Append(v, x)
<1>1. w \in Seq(Exprs) /\ Len(w) = m
  OBVIOUS
<1>2. \A j \in 1..m : w[j] = IF j < m THEN v[j] ELSE x
  <2>1. w[m] = x
    OBVIOUS
  <2>2. \A j \in 1..Len(v) : w[j] = v[j]
    OBVIOUS
  <2>3. \A j \in 1..m : j = m \/ (j < m /\ j \in 1..Len(v))
    OBVIOUS
  <2> HIDE DEF w
  <2> QED
    BY <2>1, <2>2, <2>3
<1> HIDE DEF w
<1>3. w = [j \in 1..m |-> w[j]]
  BY <1>1
<1>4. w = [j \in 1..m |-> IF j < m THEN v[j] ELSE x]
  BY <1>2, <1>3
<1> QED
  BY <1>4 DEF w

Distinct(s) == \A i, j \in 1..Len(s) : s[i] = s[j] => i = j

(* One element less is kept.                                               *)
LEMMA KeptLess ==
    ASSUME NEW s \in Seq(Exprs), Distinct(s),
           NEW K, NEW e, NEW p \in 1..Len(Kept(s, K)), Kept(s, K)[p] = e
    PROVE  Kept(s, K \ {e}) = Less(Kept(s, K), p)
<1> DEFINE n == Len(s)
           L == K \ {e}
<1>1. n \in Nat /\ \A i \in 1..n : s[i] \in Exprs
  OBVIOUS
<1>2. PICK f \in [0..n -> Seq(Exprs)] :
        /\ f[0] = <<>>
        /\ \A i \in 1..n : f[i] = IF s[i] \in K THEN Append(f[i - 1], s[i]) ELSE f[i - 1]
        /\ Kept(s, K) = f[n]
  BY KeptSteps
<1>3. PICK g \in [0..n -> Seq(Exprs)] :
        /\ g[0] = <<>>
        /\ \A i \in 1..n : g[i] = IF s[i] \in L THEN Append(g[i - 1], s[i]) ELSE g[i - 1]
        /\ Kept(s, L) = g[n]
  <2> HIDE DEF L
  <2> QED
    BY KeptSteps
<1> DEFINE Before(i) == /\ \A j \in 1..i : s[j] # e
                        /\ g[i] = f[i]
                        /\ \A k \in 1..Len(f[i]) : f[i][k] # e
           After(i) == /\ \E j \in 1..i : s[j] = e
                       /\ \A k \in 1..Len(f[i]) : f[i][k] = e => g[i] = Less(f[i], k)
           S == {i \in 0..n : Before(i) \/ After(i)}
<1>4. 0 \in S
  BY <1>1, <1>2, <1>3
<1>5. ASSUME NEW i \in 1..n, i - 1 \in S PROVE i \in S
  <2> DEFINE u == f[i - 1]
             v == g[i - 1]
             x == s[i]
  <2>1. i - 1 \in 0..n /\ i \in 0..n /\ u \in Seq(Exprs) /\ v \in Seq(Exprs) /\ x \in Exprs
    <3>1. i - 1 \in 0..n /\ i \in 0..n
      BY <1>1
    <3> HIDE DEF n
    <3> QED
      BY <1>1, <3>1
  <2>2. /\ f[i] = IF x \in K THEN Append(u, x) ELSE u
        /\ g[i] = IF x \in L THEN Append(v, x) ELSE v
    BY <1>2, <1>3
  <2>3. \A j \in 1..i : j = i \/ j \in 1..(i - 1)
    OBVIOUS
  <2>4. Before(i - 1) \/ After(i - 1)
    BY <1>5
  <2>5. CASE x = e /\ x \in K
    <3>1. ASSUME NEW j \in 1..(i - 1) PROVE s[j] # e
      <4>1. j \in 1..n /\ j # i
        BY <1>1
      <4> QED
        BY <2>5, <4>1 DEF Distinct
    <3>2. Before(i - 1)
      BY <2>4, <3>1
    <3>3. f[i] = Append(u, e) /\ g[i] = u /\ \A k \in 1..Len(u) : u[k] # e
      BY <2>2, <2>5, <3>2
    <3> HIDE DEF u, v, x
    <3>4. /\ Len(f[i]) = Len(u) + 1 /\ f[i][Len(u) + 1] = e /\ Len(u) \in Nat
          /\ \A k \in 1..Len(u) : f[i][k] = u[k]
      <4>1. f[i] \in Seq(Exprs)
        BY <2>1
      <4>2. e \in Exprs
        BY <2>1, <2>5
      <4> QED
        BY <2>1, <3>3, <4>2
    <3>5. ASSUME NEW k \in 1..Len(f[i]), f[i][k] = e PROVE g[i] = Less(f[i], k)
      <4>1. k = Len(u) + 1
        <5>1. k = Len(u) + 1 \/ k \in 1..Len(u)
          BY <3>4
        <5> QED
          BY <3>3, <3>4, <3>5, <5>1
      <4>2. Less(f[i], k) = [j \in 1..Len(u) |-> u[j]]
        BY <3>4, <4>1 DEF Less
      <4>3. u = [j \in 1..Len(u) |-> u[j]]
        BY <2>1
      <4> QED
        BY <3>3, <4>2, <4>3
    <3>6. After(i)
      BY <2>5, <3>5 DEF x
    <3> QED
      BY <2>1, <3>6
  <2>6. CASE x = e /\ x \notin K
    <3>1. ASSUME NEW j \in 1..(i - 1) PROVE s[j] # e
      <4>1. j \in 1..n /\ j # i
        BY <1>1
      <4> QED
        BY <2>6, <4>1 DEF Distinct
    <3>2. Before(i - 1)
      BY <2>4, <3>1
    <3>3. f[i] = u /\ g[i] = u /\ \A k \in 1..Len(u) : u[k] # e
      BY <2>2, <2>6, <3>2
    <3>4. After(i)
      BY <2>6, <3>3
    <3> QED
      BY <2>1, <3>4
  <2>7. CASE x # e /\ x \notin K
    <3>1. f[i] = u /\ g[i] = v
      BY <2>2, <2>7
    <3>2. CASE Before(i - 1)
      <4>1. Before(i)
        BY <2>3, <2>7, <3>1, <3>2
      <4> QED
        BY <2>1, <4>1
    <3>3. CASE After(i - 1)
      <4>1. After(i)
        BY <3>1, <3>3
      <4> QED
        BY <2>1, <4>1
    <3> QED
      BY <2>4, <3>2, <3>3
  <2>8. CASE x # e /\ x \in K
    <3>1. f[i] = Append(u, x) /\ g[i] = Append(v, x)
      BY <2>2, <2>8
    <3>2. /\ Len(f[i]) = Len(u) + 1 /\ Len(u) \in Nat
          /\ f[i][Len(u) + 1] = x /\ \A k \in 1..Len(u) : f[i][k] = u[k]
      <4> HIDE DEF u, x
      <4> QED
        BY <2>1, <3>1
    <3>3. CASE Before(i - 1)
      <4>1. g[i] = f[i]
        BY <3>1, <3>3
      <4>2. \A j \in 1..i : s[j] # e
        BY <2>3, <2>8, <3>3
      <4>3. ASSUME NEW k \in 1..Len(f[i]) PROVE f[i][k] # e
        <5>1. \A j \in 1..Len(u) : u[j] # e
          BY <3>3
        <5> HIDE DEF u, x
        <5>2. k = Len(u) + 1 \/ k \in 1..Len(u)
          BY <3>2
        <5> QED
          BY <2>8, <3>2, <5>1, <5>2
      <4>4. Before(i)
        BY <4>1, <4>2, <4>3
      <4> QED
        BY <2>1, <4>4
    <3>4. CASE After(i - 1)
      <4>1. \E j \in 1..i : s[j] = e
        BY <3>4
      <4>2. ASSUME NEW k \in 1..Len(f[i]), f[i][k] = e PROVE g[i] = Less(f[i], k)
        <5>1. \A j \in 1..Len(u) : u[j] = e => v = Less(u, j)
          BY <3>4
        <5> HIDE DEF u, v, x
        <5>2. k \in 1..Len(u) /\ u[k] = e
          BY <2>8, <3>2, <4>2
        <5>3. v = Less(u, k)
          BY <5>1, <5>2
        <5>4. Len(v) = Len(u) - 1
          BY <2>1, <5>2, <5>3 DEF Less
        <5>5. g[i] = [j \in 1..Len(u) |-> IF j < Len(u) THEN v[j] ELSE x]
          <6>1. Len(u) = Len(v) + 1
            BY <3>2, <5>4
          <6> QED
            BY <2>1, <3>1, <3>2, <6>1, AppendIs
        <5>6. ASSUME NEW j \in 1..Len(u)
              PROVE  (IF j < Len(u) THEN v[j] ELSE x) =
                        IF j < k THEN f[i][j] ELSE f[i][j + 1]
          <6>1. CASE j < Len(u)
            <7>1. v[j] = IF j < k THEN u[j] ELSE u[j + 1]
              BY <3>2, <5>3, <6>1 DEF Less
            <7>2. f[i][j] = u[j]
              BY <3>2
            <7>3. f[i][j + 1] = u[j + 1]
              <8>1. j + 1 \in 1..Len(u)
                BY <3>2, <6>1
              <8> QED
                BY <3>2, <8>1
            <7> QED
              BY <6>1, <7>1, <7>2, <7>3
          <6>2. CASE ~(j < Len(u))
            <7>1. j = Len(u) /\ ~(j < k)
              BY <3>2, <5>2, <6>2
            <7> QED
              BY <3>2, <6>2, <7>1
          <6> QED
            BY <6>1, <6>2
        <5>7. Less(f[i], k) = [j \in 1..Len(u) |-> IF j < k THEN f[i][j] ELSE f[i][j + 1]]
          BY <3>2 DEF Less
        <5> QED
          BY <5>5, <5>6, <5>7
      <4>3. After(i)
        BY <4>1, <4>2
      <4> QED
        BY <2>1, <4>3
    <3> QED
      BY <2>4, <3>3, <3>4
  <2> QED
    BY <2>5, <2>6, <2>7, <2>8
<1>6. \A i \in 0..n : i \in S
  <2> HIDE DEF S, n
  <2> QED
    BY <1>1, <1>4, <1>5, Induct
<1>7. Before(n) \/ After(n)
  BY <1>1, <1>6
<1>8. g[n] = Less(f[n], p)
  BY <1>2, <1>7
<1> QED
  BY <1>2, <1>3, <1>8

(***************************************************************************)
(* The list                                                                *)
(***************************************************************************)

(* L is what begin leads to.                                               *)
Chain(c, L) ==
    /\ \A i, j \in 1..Len(L) : L[i] = L[j] => i = j
    /\ c.begin = IF Len(L) = 0 THEN null ELSE L[1]
    /\ c.end = IF Len(L) = 0 THEN null ELSE L[Len(L)]
    /\ \A i \in 1..Len(L) :
          /\ c.node[L[i]].prev = IF i = 1 THEN null ELSE L[i - 1]
          /\ c.node[L[i]].next = IF i = Len(L) THEN null ELSE L[i + 1]

NodesOf(c, r) == [i \in 1..Len(r) |-> c.hash[r[i]]]

(* r has the cached expressions in the order of their nodes.               *)
ListOK(c, r) ==
    /\ r \in Seq(Exprs)
    /\ \A i, j \in 1..Len(r) : r[i] = r[j] => i = j
    /\ \A e \in Exprs : e \in keys(c) <=> \E i \in 1..Len(r) : r[i] = e
    /\ Chain(c, NodesOf(c, r))

(* The nodes of the expressions are nodes, one for each.                   *)
LEMMA NodesType ==
    ASSUME NEW c \in Caches, NEW r, ListOK(c, r)
    PROVE  /\ NodesOf(c, r) \in Seq(Nodes) /\ Len(NodesOf(c, r)) = Len(r)
           /\ Len(r) \in Nat
           /\ \A i \in 1..Len(r) : /\ r[i] \in keys(c) /\ r[i] \in Exprs
                                   /\ NodesOf(c, r)[i] = c.hash[r[i]]
                                   /\ NodesOf(c, r)[i] \in Nodes
<1>1. Len(r) \in Nat /\ \A i \in 1..Len(r) : r[i] \in Exprs
  BY DEF ListOK
<1>2. \A i \in 1..Len(r) : r[i] \in keys(c)
  BY <1>1 DEF ListOK
<1>3. \A i \in 1..Len(r) : c.hash[r[i]] \in Nodes
  BY <1>1, <1>2 DEF keys, Caches, Links
<1>4. NodesOf(c, r) \in [1..Len(r) -> Nodes]
  BY <1>3 DEF NodesOf
<1>5. NodesOf(c, r) \in Seq(Nodes) /\ Len(NodesOf(c, r)) = Len(r)
  BY <1>1, <1>4
<1>6. \A i \in 1..Len(r) : NodesOf(c, r)[i] = c.hash[r[i]]
  BY DEF NodesOf
<1> QED
  BY <1>1, <1>2, <1>3, <1>5, <1>6

(* An element is added in front.                                           *)
LEMMA ConsIs ==
    ASSUME NEW T, NEW q \in Seq(T), NEW e \in T
    PROVE  /\ <<e>> \o q \in Seq(T) /\ Len(<<e>> \o q) = Len(q) + 1
           /\ \A i \in 1..(Len(q) + 1) :
                 (<<e>> \o q)[i] = IF i = 1 THEN e ELSE q[i - 1]
<1>1. <<e>> \in Seq(T) /\ Len(<<e>>) = 1
  OBVIOUS
<1> QED
  BY <1>1

(* One is left out.                                                        *)
LEMMA LessIs ==
    ASSUME NEW T, NEW q \in Seq(T), NEW p \in 1..Len(q)
    PROVE  /\ Less(q, p) \in Seq(T) /\ Len(Less(q, p)) = Len(q) - 1
           /\ \A i \in 1..(Len(q) - 1) :
                 Less(q, p)[i] = IF i < p THEN q[i] ELSE q[i + 1]
<1>1. Len(q) - 1 \in Nat
  OBVIOUS
<1>2. Less(q, p) \in [1..(Len(q) - 1) -> T]
  BY DEF Less
<1> QED
  BY <1>1, <1>2 DEF Less

(* Collecting leaves the list alone.                                       *)
LEMMA CollectList ==
    ASSUME NEW c \in Caches, NEW r, ListOK(c, r)
    PROVE  ListOK(Collect(c), r)
<1> DEFINE F == Referenced(c)
           d == Collect(c)
           L == NodesOf(c, r)
<1>1. Roots(c) \subseteq F
  BY ReferencedClosed
<1>2. d.hash = c.hash /\ d.begin = c.begin /\ d.end = c.end
  BY DEF Collect, Caches
<1>3. d.node = [n \in Nodes |-> IF n \in F THEN c.node[n] ELSE NoNode]
  BY DEF Collect, Caches
<1> HIDE DEF F, d
<1>4. ASSUME NEW i \in 1..Len(L) PROVE d.node[L[i]] = c.node[L[i]]
  <2>1. L[i] \in Roots(c) /\ L[i] \in Nodes
    BY NodesType DEF Roots, keys
  <2> HIDE DEF L
  <2> QED
    BY <1>1, <1>3, <2>1
<1>5. NodesOf(d, r) = L /\ keys(d) = keys(c)
  BY <1>2 DEF NodesOf, keys
<1> HIDE DEF L
<1>6. Chain(d, L)
  BY <1>2, <1>4, <1>5 DEF ListOK, Chain, L
<1> QED
  BY <1>5, <1>6 DEF ListOK, d

(* How evict links the neighbours of a node.                               *)
Unlinked(c, e) ==
    LET n == c.hash[e]
        t == c.node[n]
        d == evict(c, e)
    IN  /\ d.hash = [c.hash EXCEPT ![e] = null]
        /\ d.begin = IF c.begin = n THEN t.next ELSE c.begin
        /\ d.end = IF c.end = n THEN t.prev ELSE c.end
        /\ \A x \in Nodes :
              /\ d.node[x].next = IF c.begin # n /\ x = t.prev THEN t.next
                                  ELSE c.node[x].next
              /\ d.node[x].prev = IF c.end # n /\ x = t.next THEN t.prev
                                  ELSE c.node[x].prev

(* evict links them in this way.                                           *)
LEMMA EvictLinks ==
    ASSUME NEW c \in Caches, Good(c), c.broken = "no", NEW e \in keys(c),
           evict(c, e).broken = "no"
    PROVE  Unlinked(c, e)
<1> DEFINE n == c.hash[e]
           t == c.node[n]
           front == IF c.begin = n THEN c.node ELSE [c.node EXCEPT ![t.prev].next = t.next]
           both == IF c.end = n THEN front ELSE [front EXCEPT ![t.next].prev = t.prev]
           gone == [c EXCEPT !.hash[e] = null]
           bad == (c.begin # n /\ t.prev = null) \/ (c.end # n /\ t.next = null)
           d == evict(c, e)
<1>1. n # null /\ e \in Exprs
  BY DEF keys
<1>2. ~bad
  <2> SUFFICES ASSUME bad PROVE FALSE
    OBVIOUS
  <2>1. d = [gone EXCEPT !.broken = "null"]
    BY <1>1 DEF evict
  <2>2. d.broken = "null"
    BY <2>1 DEF Caches
  <2> QED
    BY <2>2
<1>3. d = [gone EXCEPT !.node = both, !.begin = IF @ = n THEN t.next ELSE @,
                       !.end = IF @ = n THEN t.prev ELSE @, !.heap[t.data] = null]
  BY <1>1, <1>2 DEF evict
<1>4. /\ d.hash = [c.hash EXCEPT ![e] = null] /\ d.node = both
      /\ d.begin = IF c.begin = n THEN t.next ELSE c.begin
      /\ d.end = IF c.end = n THEN t.prev ELSE c.end
  <2> HIDE DEF d, both
  <2> QED
    BY <1>3 DEF Caches
<1>5. c.node \in [Nodes -> NodeRecs] /\ n \in Nodes /\ t.prev \in Links /\ t.next \in Links
  <2>1. c.node \in [Nodes -> NodeRecs] /\ n \in Nodes
    BY <1>1 DEF Caches, NodeRecs, Links
  <2> QED
    BY <2>1 DEF NodeRecs
<1>6. (c.begin = n \/ t.prev \in Nodes) /\ (c.end = n \/ t.next \in Nodes)
  BY <1>2, <1>5 DEF Links
<1> HIDE DEF n, t, bad
<1>7. /\ front \in [Nodes -> NodeRecs]
      /\ \A x \in Nodes :
            /\ front[x].prev = c.node[x].prev
            /\ front[x].next = IF c.begin # n /\ x = t.prev THEN t.next ELSE c.node[x].next
  <2>1. CASE c.begin = n
    BY <1>5, <2>1
  <2>2. CASE c.begin # n
    <3> DEFINE l == [c.node EXCEPT ![t.prev].next = t.next]
    <3>1. /\ l \in [Nodes -> NodeRecs]
          /\ \A x \in Nodes : /\ l[x].prev = c.node[x].prev
                              /\ l[x].next = IF x = t.prev THEN t.next ELSE c.node[x].next
      BY <1>5, <1>6, <2>2, NextSet
    <3>2. front = l
      BY <2>2
    <3> HIDE DEF l, front
    <3> QED
      BY <2>2, <3>1, <3>2
  <2> QED
    BY <2>1, <2>2
<1> HIDE DEF front
<1>8. \A x \in Nodes :
         /\ both[x].next = front[x].next
         /\ both[x].prev = IF c.end # n /\ x = t.next THEN t.prev ELSE front[x].prev
  <2>1. CASE c.end = n
    BY <2>1
  <2>2. CASE c.end # n
    <3> DEFINE l == [front EXCEPT ![t.next].prev = t.prev]
    <3>1. \A x \in Nodes : /\ l[x].next = front[x].next
                           /\ l[x].prev = IF x = t.next THEN t.prev ELSE front[x].prev
      BY <1>5, <1>6, <1>7, <2>2, PrevSet
    <3>2. both = l
      BY <2>2
    <3> HIDE DEF l, both
    <3> QED
      BY <2>2, <3>1, <3>2
  <2> QED
    BY <2>1, <2>2
<1> HIDE DEF both, d
<1>9. \A x \in Nodes :
         /\ d.node[x].next = IF c.begin # n /\ x = t.prev THEN t.next ELSE c.node[x].next
         /\ d.node[x].prev = IF c.end # n /\ x = t.next THEN t.prev ELSE c.node[x].prev
  BY <1>4, <1>7, <1>8
<1> QED
  BY <1>4, <1>9 DEF n, t, d, Unlinked

(* evict takes an expression out of the list.                              *)
LEMMA EvictList ==
    ASSUME NEW c \in Caches, Good(c), c.broken = "no", NEW r, ListOK(c, r),
           NEW p \in 1..Len(r), evict(c, r[p]).broken = "no"
    PROVE  ListOK(evict(c, r[p]), Less(r, p))
<1> DEFINE e == r[p]
           d == evict(c, e)
           q == Less(r, p)
           L == NodesOf(c, r)
           M == NodesOf(d, q)
           N == Len(r)
           n == L[p]
           before == IF p = 1 THEN null ELSE L[p - 1]
           next == IF p = N THEN null ELSE L[p + 1]
<1>1. /\ N \in Nat /\ Len(L) = N /\ r \in Seq(Exprs)
      /\ \A i \in 1..N : r[i] \in keys(c) /\ r[i] \in Exprs /\ L[i] = c.hash[r[i]] /\ L[i] \in Nodes
  BY NodesType DEF ListOK
<1>2. /\ \A i, j \in 1..N : L[i] = L[j] => i = j
      /\ c.begin = IF N = 0 THEN null ELSE L[1]
      /\ c.end = IF N = 0 THEN null ELSE L[N]
      /\ \A i \in 1..N : /\ c.node[L[i]].prev = IF i = 1 THEN null ELSE L[i - 1]
                         /\ c.node[L[i]].next = IF i = N THEN null ELSE L[i + 1]
  BY <1>1 DEF ListOK, Chain
<1>3. \A i, j \in 1..N : r[i] = r[j] => i = j
  BY DEF ListOK
<1>4. n = c.hash[e] /\ c.node[n].prev = before /\ c.node[n].next = next
  BY <1>1, <1>2
<1>5. c.begin = L[1] /\ c.end = L[N] /\ (c.begin = n <=> p = 1) /\ (c.end = n <=> p = N)
  <2>1. 1 \in 1..N /\ N \in 1..N /\ p \in 1..N /\ N # 0
    BY <1>1
  <2> HIDE DEF L, N
  <2> QED
    BY <1>2, <2>1
<1>6. /\ d.hash = [c.hash EXCEPT ![e] = null]
      /\ d.begin = IF p = 1 THEN next ELSE L[1]
      /\ d.end = IF p = N THEN before ELSE L[N]
      /\ \A x \in Nodes :
            /\ d.node[x].next = IF p # 1 /\ x = before THEN next ELSE c.node[x].next
            /\ d.node[x].prev = IF p # N /\ x = next THEN before ELSE c.node[x].prev
  <2>1. e \in keys(c)
    BY <1>1
  <2> DEFINE m == c.hash[e]
             t == c.node[m]
  <2> HIDE DEF L, N
  <2>2. /\ d.hash = [c.hash EXCEPT ![e] = null]
        /\ d.begin = IF c.begin = m THEN t.next ELSE c.begin
        /\ d.end = IF c.end = m THEN t.prev ELSE c.end
        /\ \A x \in Nodes :
              /\ d.node[x].next = IF c.begin # m /\ x = t.prev THEN t.next
                                  ELSE c.node[x].next
              /\ d.node[x].prev = IF c.end # m /\ x = t.next THEN t.prev
                                  ELSE c.node[x].prev
    <3>1. Unlinked(c, e)
      BY <2>1, EvictLinks
    <3> QED
      BY <3>1 DEF Unlinked
  <2>3. m = n /\ t.prev = before /\ t.next = next
    BY <1>4
  <2> HIDE DEF d, m, t, n, before, next, e
  <2> QED
    BY <1>5, <2>2, <2>3
<1>7. /\ q \in Seq(Exprs) /\ Len(q) = N - 1
      /\ \A i \in 1..(N - 1) : q[i] = IF i < p THEN r[i] ELSE r[i + 1]
  <2> HIDE DEF q
  <2> QED
    BY <1>1, LessIs DEF q
<1> HIDE DEF d, q, L
<1>8. \A i \in 1..(N - 1) : /\ i < p => i \in 1..N /\ i # p
                            /\ ~(i < p) => i + 1 \in 1..N /\ i + 1 # p
  BY <1>1
<1>9. \A i, j \in 1..Len(q) : q[i] = q[j] => i = j
  <2> HIDE DEF N
  <2>1. ASSUME NEW i \in 1..(N - 1), NEW j \in 1..(N - 1), q[i] = q[j] PROVE i = j
    <3>1. i \in Int /\ j \in Int /\ p \in Int
      BY <1>1
    <3>2. CASE i < p /\ j < p
      BY <1>3, <1>7, <1>8, <2>1, <3>1, <3>2
    <3>3. CASE i < p /\ ~(j < p)
      <4>1. i = j + 1
        BY <1>3, <1>7, <1>8, <2>1, <3>1, <3>3
      <4> QED
        BY <3>1, <3>3, <4>1
    <3>4. CASE ~(i < p) /\ j < p
      <4>1. i + 1 = j
        BY <1>3, <1>7, <1>8, <2>1, <3>1, <3>4
      <4> QED
        BY <3>1, <3>4, <4>1
    <3>5. CASE ~(i < p) /\ ~(j < p)
      <4>1. i + 1 = j + 1
        BY <1>3, <1>7, <1>8, <2>1, <3>1, <3>5
      <4> QED
        BY <3>1, <4>1
    <3> QED
      BY <3>2, <3>3, <3>4, <3>5
  <2> QED
    BY <1>7, <2>1
<1>10. keys(d) = keys(c) \ {e} /\ \A f \in keys(d) : d.hash[f] = c.hash[f]
  <2>1. c.hash \in [Exprs -> Links] /\ e \in Exprs
    BY <1>1 DEF Caches
  <2> HIDE DEF e
  <2> QED
    BY <1>6, <2>1 DEF keys
<1>11. \A i \in 1..Len(q) : q[i] \in keys(d)
  <2>1. ASSUME NEW i \in 1..(N - 1) PROVE q[i] \in keys(c) /\ q[i] # e
    <3>1. CASE i < p
      BY <1>1, <1>3, <1>7, <1>8, <3>1
    <3>2. CASE ~(i < p)
      BY <1>1, <1>3, <1>7, <1>8, <3>2
    <3> QED
      BY <3>1, <3>2
  <2> HIDE DEF N, e
  <2> QED
    BY <1>7, <1>10, <2>1
<1>12. ASSUME NEW f \in keys(d) PROVE \E i \in 1..Len(q) : q[i] = f
  <2>1. f \in keys(c) /\ f # e /\ f \in Exprs
    BY <1>10 DEF keys
  <2>2. PICK k \in 1..N : r[k] = f
    BY <2>1 DEF ListOK
  <2>3. k # p /\ k \in Int /\ p \in Int
    BY <1>1, <2>1, <2>2
  <2>4. CASE k < p
    <3>1. k \in 1..(N - 1)
      BY <1>1, <2>3, <2>4
    <3> HIDE DEF N
    <3> QED
      BY <1>7, <2>2, <2>4, <3>1
  <2>5. CASE k > p
    <3>1. k - 1 \in 1..(N - 1) /\ ~(k - 1 < p) /\ (k - 1) + 1 = k
      BY <1>1, <2>3, <2>5
    <3> HIDE DEF N
    <3> QED
      BY <1>7, <2>2, <3>1
  <2> QED
    BY <2>3, <2>4, <2>5
<1>13. /\ Len(M) = N - 1
       /\ \A i \in 1..(N - 1) : M[i] = IF i < p THEN L[i] ELSE L[i + 1]
  <2>1. N - 1 \in Nat
    BY <1>1
  <2>2. M = [i \in 1..(N - 1) |-> d.hash[q[i]]]
    BY <1>7 DEF NodesOf
  <2>3. Len(M) = N - 1
    <3> HIDE DEF N, M
    <3> QED
      BY <2>1, <2>2
  <2>4. ASSUME NEW i \in 1..(N - 1) PROVE M[i] = IF i < p THEN L[i] ELSE L[i + 1]
    <3>1. M[i] = c.hash[q[i]]
      BY <1>7, <1>10, <1>11, <2>2
    <3> HIDE DEF M, N
    <3> QED
      BY <1>1, <1>7, <1>8, <3>1
  <2> QED
    BY <2>3, <2>4
<1> HIDE DEF M
<1>14. \A i, j \in 1..(N - 1) : M[i] = M[j] => i = j
  <2> HIDE DEF N
  <2>1. ASSUME NEW i \in 1..(N - 1), NEW j \in 1..(N - 1), M[i] = M[j] PROVE i = j
    <3>1. i \in Int /\ j \in Int /\ p \in Int
      BY <1>1
    <3>2. CASE i < p /\ j < p
      BY <1>2, <1>8, <1>13, <2>1, <3>1, <3>2
    <3>3. CASE i < p /\ ~(j < p)
      <4>1. i = j + 1
        BY <1>2, <1>8, <1>13, <2>1, <3>1, <3>3
      <4> QED
        BY <3>1, <3>3, <4>1
    <3>4. CASE ~(i < p) /\ j < p
      <4>1. i + 1 = j
        BY <1>2, <1>8, <1>13, <2>1, <3>1, <3>4
      <4> QED
        BY <3>1, <3>4, <4>1
    <3>5. CASE ~(i < p) /\ ~(j < p)
      <4>1. i + 1 = j + 1
        BY <1>2, <1>8, <1>13, <2>1, <3>1, <3>5
      <4> QED
        BY <3>1, <4>1
    <3> QED
      BY <3>2, <3>3, <3>4, <3>5
  <2> QED
    BY <2>1
<1>15. d.begin = IF N - 1 = 0 THEN null ELSE M[1]
  <2>1. CASE p = 1
    BY <1>1, <1>6, <1>13, <2>1
  <2>2. CASE p # 1
    BY <1>1, <1>6, <1>13, <2>2
  <2> QED
    BY <2>1, <2>2
<1>16. d.end = IF N - 1 = 0 THEN null ELSE M[N - 1]
  <2>1. CASE p = N
    BY <1>1, <1>6, <1>13, <2>1
  <2>2. CASE p # N
    BY <1>1, <1>6, <1>13, <2>2
  <2> QED
    BY <2>1, <2>2
<1>17. ASSUME NEW i \in 1..(N - 1)
       PROVE  /\ d.node[M[i]].prev = IF i = 1 THEN null ELSE M[i - 1]
              /\ d.node[M[i]].next = IF i = N - 1 THEN null ELSE M[i + 1]
  <2>1. i \in Int /\ p \in Int /\ N \in Int /\ p >= 1 /\ p <= N /\ i >= 1 /\ i <= N - 1
    BY <1>1
  <2>2. CASE i < p
    <3>1. M[i] = L[i] /\ L[i] \in Nodes /\ i \in 1..N
      BY <1>1, <1>8, <1>13, <2>2
    <3>2. d.node[L[i]].prev = c.node[L[i]].prev
      <4>1. p # N => L[i] # next
        <5>1. p # N => p + 1 \in 1..N /\ i # p + 1
          BY <2>1, <2>2
        <5> QED
          BY <1>2, <3>1, <5>1
      <4> QED
        BY <1>6, <3>1, <4>1
    <3>3. i # 1 => M[i - 1] = L[i - 1]
      <4>1. i # 1 => i - 1 \in 1..(N - 1) /\ i - 1 < p
        BY <2>1, <2>2
      <4> QED
        BY <1>13, <4>1
    <3>4. CASE i = p - 1
      <4>1. p # 1 /\ L[i] = before
        BY <2>1, <3>4
      <4>2. d.node[L[i]].next = next
        BY <1>6, <3>1, <4>1
      <4>3. i # N - 1 => M[i + 1] = L[p + 1] /\ p # N
        <5>1. i # N - 1 => i + 1 \in 1..(N - 1) /\ i + 1 = p /\ p # N
          BY <2>1, <3>4
        <5> QED
          BY <1>13, <5>1
      <4>4. i = N - 1 <=> p = N
        BY <2>1, <3>4
      <4> QED
        BY <1>2, <3>1, <3>2, <3>3, <4>2, <4>3, <4>4
    <3>5. CASE i # p - 1
      <4>1. p # 1 => L[i] # before
        <5>1. p # 1 => p - 1 \in 1..N
          BY <2>1
        <5> QED
          BY <1>2, <3>1, <3>5, <5>1
      <4>2. d.node[L[i]].next = c.node[L[i]].next
        BY <1>6, <3>1, <4>1
      <4>3. i # N - 1 /\ i # N /\ M[i + 1] = L[i + 1]
        <5>1. i # N - 1 /\ i # N /\ i + 1 \in 1..(N - 1) /\ i + 1 < p
          BY <2>1, <2>2, <3>5
        <5> QED
          BY <1>13, <5>1
      <4> QED
        BY <1>2, <3>1, <3>2, <3>3, <4>2, <4>3
    <3> QED
      BY <3>4, <3>5
  <2>3. CASE ~(i < p)
    <3>1. M[i] = L[i + 1] /\ L[i + 1] \in Nodes /\ i + 1 \in 1..N
      BY <1>1, <1>8, <1>13, <2>3
    <3>2. d.node[L[i + 1]].next = c.node[L[i + 1]].next
      <4>1. p # 1 => L[i + 1] # before
        <5>1. p # 1 => p - 1 \in 1..N /\ p - 1 # i + 1
          BY <2>1, <2>3
        <5> QED
          BY <1>2, <3>1, <5>1
      <4> QED
        BY <1>6, <3>1, <4>1
    <3>3. d.node[L[i + 1]].next = IF i = N - 1 THEN null ELSE M[i + 1]
      <4>1. i # N - 1 => M[i + 1] = L[i + 2]
        <5>1. i # N - 1 => i + 1 \in 1..(N - 1) /\ ~(i + 1 < p) /\ (i + 1) + 1 = i + 2
          BY <2>1, <2>3
        <5> QED
          BY <1>13, <5>1
      <4>2. (i = N - 1 <=> i + 1 = N) /\ (i + 1) + 1 = i + 2
        BY <2>1
      <4> QED
        BY <1>2, <3>1, <3>2, <4>1, <4>2
    <3>4. CASE i = p
      <4>1. p # N /\ L[i + 1] = next
        BY <2>1, <3>4
      <4>2. d.node[L[i + 1]].prev = before
        BY <1>6, <3>1, <4>1
      <4>3. i # 1 => M[i - 1] = L[p - 1]
        <5>1. i # 1 => i - 1 \in 1..(N - 1) /\ i - 1 < p
          BY <2>1, <3>4
        <5> QED
          BY <1>13, <3>4, <5>1
      <4> QED
        BY <3>1, <3>3, <3>4, <4>2, <4>3
    <3>5. CASE i # p
      <4>1. p # N => L[i + 1] # next
        <5>1. p # N => p + 1 \in 1..N /\ p + 1 # i + 1
          BY <2>1, <3>5
        <5> QED
          BY <1>2, <3>1, <5>1
      <4>2. d.node[L[i + 1]].prev = c.node[L[i + 1]].prev
        BY <1>6, <3>1, <4>1
      <4>3. i # 1 /\ M[i - 1] = L[i]
        <5>1. i # 1 /\ i - 1 \in 1..(N - 1) /\ ~(i - 1 < p) /\ (i - 1) + 1 = i
          BY <2>1, <2>3, <3>5
        <5> QED
          BY <1>13, <5>1
      <4>4. i + 1 # 1 /\ (i + 1) - 1 = i
        BY <2>1
      <4> QED
        BY <1>2, <3>1, <3>3, <4>2, <4>3, <4>4
    <3> QED
      BY <3>4, <3>5
  <2> QED
    BY <2>2, <2>3
<1>18. Chain(d, M)
  <2> HIDE DEF N
  <2> QED
    BY <1>13, <1>14, <1>15, <1>16, <1>17 DEF Chain
<1>19. \A f \in Exprs : f \in keys(d) <=> \E i \in 1..Len(q) : q[i] = f
  BY <1>11, <1>12
<1> QED
  BY <1>7, <1>9, <1>18, <1>19 DEF ListOK, M, d, q

(* How m_update links a node that was not the first.                       *)
Moved(c, n) ==
    LET t == c.node[n]
        d == m_update(c, n)
    IN  /\ d.hash = c.hash /\ d.begin = n /\ d.end = c.end
        /\ \A x \in Nodes :
              /\ d.node[x].next = IF x = n THEN c.begin
                                  ELSE IF x = t.prev THEN t.next ELSE c.node[x].next
              /\ d.node[x].prev = IF x = c.begin THEN n
                                  ELSE IF x = n THEN null
                                  ELSE IF x = t.next THEN t.prev ELSE c.node[x].prev

(* m_update links in this way.                                             *)
LEMMA UpdateLinks ==
    ASSUME NEW c \in Caches, Good(c), c.broken = "no", NEW n \in Real(c), c.begin # n,
           m_update(c, n).broken = "no"
    PROVE  Moved(c, n)
<1> DEFINE t == c.node[n]
           out == [c.node EXCEPT ![t.prev].next = t.next]
           back == IF t.next = null THEN out ELSE [out EXCEPT ![t.next].prev = t.prev]
           a == [back EXCEPT ![n].next = c.begin]
           b == [a EXCEPT ![n].prev = null]
           k == [b EXCEPT ![c.begin].prev = n]
           d == m_update(c, n)
<1>1. t.prev # null /\ c.begin # null
  <2> SUFFICES ASSUME t.prev = null \/ c.begin = null PROVE FALSE
    OBVIOUS
  <2>1. d = [c EXCEPT !.broken = "null"]
    BY DEF m_update
  <2>2. d.broken = "null"
    BY <2>1 DEF Caches
  <2> QED
    BY <2>2
<1>2. k = [back EXCEPT ![n].next = c.begin, ![n].prev = null, ![c.begin].prev = n]
  OBVIOUS
<1>3. d = [c EXCEPT !.node = k, !.begin = n]
  <2> HIDE DEF k
  <2> QED
    BY <1>1, <1>2 DEF m_update
<1>4. d.hash = c.hash /\ d.node = k /\ d.begin = n /\ d.end = c.end
  <2> HIDE DEF d, k
  <2> QED
    BY <1>3 DEF Caches
<1>5. /\ c.node \in [Nodes -> NodeRecs] /\ n \in Nodes /\ c.begin \in Nodes
      /\ t.prev \in Nodes /\ t.next \in Links /\ null \in Links
  <2>1. c.node \in [Nodes -> NodeRecs] /\ n \in Nodes /\ c.begin \in Links
    BY Relinkable DEF Caches, NodeRecs
  <2> QED
    BY <1>1, <2>1 DEF NodeRecs, Links
<1> HIDE DEF t
<1>6. /\ out \in [Nodes -> NodeRecs]
      /\ \A x \in Nodes : /\ out[x].prev = c.node[x].prev
                          /\ out[x].next = IF x = t.prev THEN t.next ELSE c.node[x].next
  BY <1>5, NextSet
<1> HIDE DEF out
<1>7. /\ back \in [Nodes -> NodeRecs]
      /\ \A x \in Nodes : /\ back[x].next = out[x].next
                          /\ back[x].prev = IF x = t.next THEN t.prev ELSE out[x].prev
  <2>1. CASE t.next = null
    <3>1. back = out /\ t.next \notin Nodes
      BY <2>1, CacheAssumption
    <3> HIDE DEF back
    <3> QED
      BY <1>6, <3>1
  <2>2. CASE t.next # null
    <3> DEFINE l == [out EXCEPT ![t.next].prev = t.prev]
    <3>1. t.next \in Nodes /\ t.prev \in Links
      BY <1>5, <2>2 DEF Links
    <3>2. /\ l \in [Nodes -> NodeRecs]
          /\ \A x \in Nodes : /\ l[x].next = out[x].next
                              /\ l[x].prev = IF x = t.next THEN t.prev ELSE out[x].prev
      BY <1>6, <3>1, PrevSet
    <3>3. back = l
      BY <2>2
    <3> HIDE DEF l, back
    <3> QED
      BY <3>2, <3>3
  <2> QED
    BY <2>1, <2>2
<1> HIDE DEF back
<1>8. n \in Links /\ c.begin \in Links
  BY <1>5 DEF Links
<1>9. /\ a \in [Nodes -> NodeRecs]
      /\ \A x \in Nodes : /\ a[x].prev = back[x].prev
                          /\ a[x].next = IF x = n THEN c.begin ELSE back[x].next
  BY <1>5, <1>7, <1>8, NextSet
<1> HIDE DEF a
<1>10. /\ b \in [Nodes -> NodeRecs]
       /\ \A x \in Nodes : /\ b[x].next = a[x].next
                           /\ b[x].prev = IF x = n THEN null ELSE a[x].prev
  BY <1>5, <1>9, PrevSet
<1> HIDE DEF b
<1>11. \A x \in Nodes : /\ k[x].next = b[x].next
                        /\ k[x].prev = IF x = c.begin THEN n ELSE b[x].prev
  BY <1>5, <1>8, <1>10, PrevSet
<1> HIDE DEF k, d
<1>12. \A x \in Nodes :
          /\ d.node[x].next = IF x = n THEN c.begin
                              ELSE IF x = t.prev THEN t.next ELSE c.node[x].next
          /\ d.node[x].prev = IF x = c.begin THEN n
                              ELSE IF x = n THEN null
                              ELSE IF x = t.next THEN t.prev ELSE c.node[x].prev
  BY <1>4, <1>6, <1>7, <1>9, <1>10, <1>11
<1> QED
  BY <1>4, <1>12 DEF t, d, Moved

(* m_update moves an expression to the front of the list, unless its node  *)
(* is the last and not the first.                                          *)
LEMMA UpdateList ==
    ASSUME NEW c \in Caches, Good(c), c.broken = "no", NEW r, ListOK(c, r),
           NEW p \in 1..Len(r), p = 1 \/ p < Len(r),
           m_update(c, c.hash[r[p]]).broken = "no"
    PROVE  ListOK(m_update(c, c.hash[r[p]]), <<r[p]>> \o Less(r, p))
<1> DEFINE e == r[p]
           n == c.hash[e]
           d == m_update(c, n)
           q == <<e>> \o Less(r, p)
           L == NodesOf(c, r)
           M == NodesOf(d, q)
           N == Len(r)
<1>1. /\ N \in Nat /\ Len(L) = N /\ r \in Seq(Exprs)
      /\ \A i \in 1..N : r[i] \in keys(c) /\ r[i] \in Exprs /\ L[i] = c.hash[r[i]] /\ L[i] \in Nodes
  BY NodesType DEF ListOK
<1>2. /\ \A i, j \in 1..N : L[i] = L[j] => i = j
      /\ c.begin = IF N = 0 THEN null ELSE L[1]
      /\ c.end = IF N = 0 THEN null ELSE L[N]
      /\ \A i \in 1..N : /\ c.node[L[i]].prev = IF i = 1 THEN null ELSE L[i - 1]
                         /\ c.node[L[i]].next = IF i = N THEN null ELSE L[i + 1]
  BY <1>1 DEF ListOK, Chain
<1>3. \A i, j \in 1..N : r[i] = r[j] => i = j
  BY DEF ListOK
<1>4. n = L[p] /\ p \in 1..N /\ p \in Int /\ N \in Int /\ N # 0
  BY <1>1
<1>5. /\ q \in Seq(Exprs) /\ Len(q) = N
      /\ \A i \in 1..N : q[i] = IF i = 1 THEN e ELSE IF i <= p THEN r[i - 1] ELSE r[i]
  <2> DEFINE s == Less(r, p)
  <2>1. /\ s \in Seq(Exprs) /\ Len(s) = N - 1
        /\ \A i \in 1..(N - 1) : s[i] = IF i < p THEN r[i] ELSE r[i + 1]
    <3> HIDE DEF s
    <3> QED
      BY <1>1, LessIs DEF s
  <2> HIDE DEF s
  <2>2. e \in Exprs
    BY <1>1
  <2> HIDE DEF e
  <2>3. /\ <<e>> \o s \in Seq(Exprs) /\ Len(<<e>> \o s) = Len(s) + 1
        /\ \A i \in 1..(Len(s) + 1) : (<<e>> \o s)[i] = IF i = 1 THEN e ELSE s[i - 1]
    BY <2>1, <2>2, ConsIs
  <2>4. (N - 1) + 1 = N
    BY <1>1
  <2>5. q = <<e>> \o s
    BY DEF s
  <2> HIDE DEF q, N
  <2>6. q \in Seq(Exprs) /\ Len(q) = N /\ \A i \in 1..N : q[i] = IF i = 1 THEN e ELSE s[i - 1]
    BY <2>1, <2>3, <2>4, <2>5
  <2>7. ASSUME NEW i \in 1..N, i # 1 PROVE s[i - 1] = IF i <= p THEN r[i - 1] ELSE r[i]
    <3>1. i - 1 \in 1..(N - 1) /\ (i - 1 < p <=> i <= p) /\ (i - 1) + 1 = i
      BY <1>4, <2>7
    <3> QED
      BY <2>1, <3>1
  <2> QED
    BY <2>6, <2>7
<1> HIDE DEF q
<1>6. CASE p = 1
  <2>1. \A i \in 1..N : q[i] = r[i]
    <3>1. ASSUME NEW i \in 1..N PROVE q[i] = r[i]
      <4>1. i = 1 \/ ~(i <= p)
        BY <1>4, <1>6
      <4> HIDE DEF N
      <4> QED
        BY <1>5, <1>6, <4>1
    <3> QED
      BY <3>1
  <2>2. q = r
    BY <1>1, <1>5, <2>1
  <2>3. c.begin = n
    BY <1>2, <1>4, <1>6
  <2>4. d = c
    BY <2>3 DEF m_update
  <2> QED
    BY <2>2, <2>4 DEF q
<1>7. CASE p # 1
  <2> DEFINE begin == L[1]
             before == L[p - 1]
             next == L[p + 1]
  <2>1. 1 \in 1..N /\ p - 1 \in 1..N /\ p + 1 \in 1..N /\ p # N /\ p > 1 /\ p < N
    BY <1>4, <1>7
  <2>2. c.begin = begin /\ c.begin # n /\ c.end = L[N]
    BY <1>2, <1>4, <2>1
  <2>3. c.node[n].prev = before /\ c.node[n].next = next
    BY <1>2, <1>4, <2>1
  <2>4. n \in Real(c)
    BY <1>1, Relinkable
  <2>5. /\ d.hash = c.hash /\ d.begin = n /\ d.end = L[N]
        /\ \A x \in Nodes :
              /\ d.node[x].next = IF x = n THEN begin
                                  ELSE IF x = before THEN next ELSE c.node[x].next
              /\ d.node[x].prev = IF x = begin THEN n
                                  ELSE IF x = n THEN null
                                  ELSE IF x = next THEN before ELSE c.node[x].prev
    <3>1. Moved(c, n)
      BY <2>2, <2>4, UpdateLinks
    <3> HIDE DEF n, begin, before, next, L, N
    <3> QED
      BY <2>2, <2>3, <3>1 DEF Moved
  <2> HIDE DEF d
  <2>6. keys(d) = keys(c)
    BY <2>5 DEF keys
  <2>7. \A i, j \in 1..N : q[i] = q[j] => i = j
    <3>1. ASSUME NEW i \in 1..N
          PROVE  \E k \in 1..N : q[i] = r[k] /\ k = IF i = 1 THEN p ELSE IF i <= p THEN i - 1 ELSE i
      <4>1. CASE i = 1
        BY <1>4, <1>5, <4>1
      <4>2. CASE i # 1 /\ i <= p
        <5>1. i - 1 \in 1..N
          BY <1>4, <4>2
        <5> HIDE DEF N, e
        <5> QED
          BY <1>5, <4>2, <5>1
      <4>3. CASE i # 1 /\ ~(i <= p)
        <5> HIDE DEF N, e
        <5> QED
          BY <1>5, <4>3
      <4> QED
        BY <4>1, <4>2, <4>3
    <3>2. ASSUME NEW i \in 1..N, NEW j \in 1..N, q[i] = q[j] PROVE i = j
      <4>1. PICK k \in 1..N :
              q[i] = r[k] /\ k = IF i = 1 THEN p ELSE IF i <= p THEN i - 1 ELSE i
        BY <3>1
      <4>2. PICK l \in 1..N :
              q[j] = r[l] /\ l = IF j = 1 THEN p ELSE IF j <= p THEN j - 1 ELSE j
        BY <3>1
      <4>3. k = l
        BY <1>3, <3>2, <4>1, <4>2
      <4> QED
        BY <1>4, <4>1, <4>2, <4>3
    <3> QED
      BY <3>2
  <2>8. \A i \in 1..N : q[i] \in keys(c)
    <3>1. ASSUME NEW i \in 1..N PROVE q[i] \in keys(c)
      <4>1. i # 1 => i - 1 \in 1..N
        BY <1>4
      <4> HIDE DEF N
      <4> QED
        BY <1>1, <1>4, <1>5, <4>1
    <3> QED
      BY <3>1
  <2>9. ASSUME NEW f \in keys(c) PROVE \E i \in 1..N : q[i] = f
    <3>1. f \in Exprs
      BY DEF keys
    <3>2. PICK k \in 1..N : r[k] = f
      BY <3>1 DEF ListOK
    <3>3. CASE k = p
      BY <1>5, <2>1, <3>2, <3>3
    <3>4. CASE k < p
      <4>1. k + 1 \in 1..N /\ k + 1 # 1 /\ k + 1 <= p /\ (k + 1) - 1 = k
        BY <1>4, <3>4
      <4> HIDE DEF N, e
      <4> QED
        BY <1>5, <3>2, <4>1
    <3>5. CASE k > p
      <4>1. k # 1 /\ ~(k <= p)
        BY <1>4, <3>5
      <4> HIDE DEF N, e
      <4> QED
        BY <1>5, <3>2, <4>1
    <3> QED
      BY <1>4, <3>3, <3>4, <3>5
  <2>10. /\ Len(M) = N
         /\ \A i \in 1..N : M[i] = IF i = 1 THEN n ELSE IF i <= p THEN L[i - 1] ELSE L[i]
    <3>1. M = [i \in 1..N |-> c.hash[q[i]]]
      BY <1>5, <2>5 DEF NodesOf
    <3>2. Len(M) = N
      <4> HIDE DEF N, M
      <4> QED
        BY <1>1, <3>1
    <3>3. ASSUME NEW i \in 1..N
          PROVE  M[i] = IF i = 1 THEN n ELSE IF i <= p THEN L[i - 1] ELSE L[i]
      <4>1. M[i] = c.hash[q[i]]
        BY <3>1
      <4>2. i # 1 => i - 1 \in 1..N
        BY <1>4
      <4> HIDE DEF M, N
      <4> QED
        BY <1>1, <1>5, <4>1, <4>2
    <3> QED
      BY <3>2, <3>3
  <2> HIDE DEF M, N, n
  <2>11. \A i, j \in 1..N : M[i] = M[j] => i = j
    <3>1. ASSUME NEW i \in 1..N
          PROVE  \E k \in 1..N : M[i] = L[k] /\ k = IF i = 1 THEN p ELSE IF i <= p THEN i - 1 ELSE i
      <4>1. i # 1 => i - 1 \in 1..N
        BY <1>4
      <4> HIDE DEF L
      <4> QED
        BY <1>4, <2>10, <4>1
    <3>2. ASSUME NEW i \in 1..N, NEW j \in 1..N, M[i] = M[j] PROVE i = j
      <4>1. PICK k \in 1..N :
              M[i] = L[k] /\ k = IF i = 1 THEN p ELSE IF i <= p THEN i - 1 ELSE i
        BY <3>1
      <4>2. PICK l \in 1..N :
              M[j] = L[l] /\ l = IF j = 1 THEN p ELSE IF j <= p THEN j - 1 ELSE j
        BY <3>1
      <4>3. L[k] = L[l]
        BY <3>2, <4>1, <4>2, Zenon
      <4>4. k = l
        BY <1>2, <4>3, Zenon
      <4> QED
        BY <1>4, <4>1, <4>2, <4>4
    <3> QED
      BY <3>2
  <2>12. d.begin = M[1] /\ d.end = M[N]
    <3>1. N \in 1..N /\ N # 1 /\ ~(N <= p)
      BY <1>4, <2>1
    <3> HIDE DEF L
    <3> QED
      BY <2>1, <2>5, <2>10, <3>1
  <2> HIDE DEF L
  <2>13. ASSUME NEW i \in 1..N
         PROVE  /\ d.node[M[i]].prev = IF i = 1 THEN null ELSE M[i - 1]
                /\ d.node[M[i]].next = IF i = N THEN null ELSE M[i + 1]
    <3>1. i \in Int /\ i >= 1 /\ i <= N
      BY <1>4
    <3>2. CASE i = 1
      <4>1. M[1] = n /\ n \in Nodes /\ n # begin
        BY <1>1, <1>2, <1>4, <1>7, <2>1, <2>10
      <4>2. d.node[n].prev = null /\ d.node[n].next = begin
        BY <2>5, <4>1
      <4>3. 2 \in 1..N /\ 2 # 1 /\ 2 <= p /\ 2 - 1 = 1 /\ 1 + 1 = 2 /\ 1 # N
        BY <1>4, <2>1
      <4>4. M[2] = begin
        BY <2>10, <4>3
      <4> QED
        BY <3>2, <4>1, <4>2, <4>3, <4>4
    <3>3. CASE i # 1 /\ i <= p
      <4>1. i - 1 \in 1..N /\ i - 1 # p /\ i - 1 # p + 1 /\ (i - 1) + 1 = i /\ i # N /\ i - 1 # N
        BY <1>4, <2>1, <3>1, <3>3
      <4>2. M[i] = L[i - 1] /\ L[i - 1] \in Nodes /\ L[i - 1] # n /\ L[i - 1] # next
        BY <1>1, <1>2, <1>4, <2>1, <2>10, <3>3, <4>1
      <4>3. d.node[L[i - 1]].prev = M[i - 1]
        <5>1. CASE i = 2
          <6>1. L[i - 1] = begin /\ M[i - 1] = n
            BY <2>1, <2>10, <5>1
          <6> QED
            BY <2>5, <4>2, <6>1
        <5>2. CASE i # 2
          <6>1. i - 1 # 1 /\ i - 1 <= p
            BY <1>4, <3>1, <3>3, <5>2
          <6>2. L[i - 1] # begin
            BY <1>2, <2>1, <4>1, <6>1
          <6>3. d.node[L[i - 1]].prev = c.node[L[i - 1]].prev
            BY <2>5, <4>2, <6>2
          <6>4. M[i - 1] = L[(i - 1) - 1]
            BY <2>10, <4>1, <6>1
          <6> QED
            BY <1>2, <4>1, <6>1, <6>3, <6>4
        <5> QED
          BY <5>1, <5>2
      <4>4. d.node[L[i - 1]].next = M[i + 1]
        <5>1. CASE i = p
          <6>1. L[i - 1] = before /\ i + 1 = p + 1 /\ p + 1 # 1 /\ ~(p + 1 <= p)
            BY <1>4, <5>1
          <6>2. M[i + 1] = next
            BY <2>1, <2>10, <6>1
          <6> QED
            BY <2>5, <4>2, <6>1, <6>2
        <5>2. CASE i # p
          <6>1. i + 1 \in 1..N /\ i + 1 # 1 /\ i + 1 <= p /\ (i + 1) - 1 = i /\ i - 1 # p - 1
            BY <1>4, <2>1, <3>1, <3>3, <5>2
          <6>2. L[i - 1] # before
            BY <1>2, <2>1, <4>1, <6>1
          <6>3. d.node[L[i - 1]].next = c.node[L[i - 1]].next
            BY <2>5, <4>2, <6>2
          <6>4. M[i + 1] = L[i]
            BY <2>10, <6>1
          <6> QED
            BY <1>2, <4>1, <6>3, <6>4
        <5> QED
          BY <5>1, <5>2
      <4> QED
        BY <3>3, <4>1, <4>2, <4>3, <4>4
    <3>4. CASE ~(i <= p)
      <4>1. i # p /\ i # 1 /\ i # p - 1
        BY <1>4, <2>1, <3>1, <3>4
      <4>2. M[i] = L[i] /\ L[i] \in Nodes /\ L[i] # n /\ L[i] # begin /\ L[i] # before
        BY <1>1, <1>2, <1>4, <2>1, <2>10, <3>4, <4>1
      <4>3. d.node[L[i]].prev = M[i - 1]
        <5>1. CASE i = p + 1
          <6>1. L[i] = next /\ i - 1 = p /\ p <= p
            BY <1>4, <5>1
          <6>2. M[i - 1] = before
            BY <1>4, <1>7, <2>10, <6>1
          <6> QED
            BY <2>5, <4>2, <6>1, <6>2
        <5>2. CASE i # p + 1
          <6>1. i - 1 \in 1..N /\ i - 1 # 1 /\ ~(i - 1 <= p)
            BY <1>4, <2>1, <3>1, <3>4, <5>2
          <6>2. L[i] # next
            BY <1>2, <2>1, <5>2
          <6>3. d.node[L[i]].prev = c.node[L[i]].prev
            BY <2>5, <4>2, <6>2
          <6>4. M[i - 1] = L[i - 1]
            BY <2>10, <6>1
          <6> QED
            BY <1>2, <4>1, <6>3, <6>4
        <5> QED
          BY <5>1, <5>2
      <4>4. d.node[L[i]].next = c.node[L[i]].next
        BY <2>5, <4>2
      <4>5. i # N => M[i + 1] = L[i + 1]
        <5>1. i # N => i + 1 \in 1..N /\ i + 1 # 1 /\ ~(i + 1 <= p)
          BY <1>4, <3>1, <3>4
        <5> QED
          BY <2>10, <5>1
      <4> QED
        BY <1>2, <4>1, <4>2, <4>3, <4>4, <4>5
    <3> QED
      BY <3>2, <3>3, <3>4
  <2>14. Chain(d, M)
    BY <1>4, <2>10, <2>11, <2>12, <2>13 DEF Chain
  <2>15. \A f \in Exprs : f \in keys(d) <=> \E i \in 1..Len(q) : q[i] = f
    BY <1>5, <2>6, <2>8, <2>9
  <2>16. ListOK(d, q)
    BY <1>5, <2>7, <2>14, <2>15 DEF ListOK, M
  <2> QED
    BY <2>16 DEF d, n, q
<1> QED
  BY <1>6, <1>7

(* How put_new links its node n to the rest.                               *)
Added(c, e, d, n) ==
    /\ n \in Nodes \ Referenced(c)
    /\ d.hash = [c.hash EXCEPT ![e] = n]
    /\ d.begin = n /\ d.end = IF c.begin = null THEN n ELSE c.end
    /\ \A x \in Nodes :
          /\ d.node[x].next = IF x = n THEN c.begin ELSE c.node[x].next
          /\ d.node[x].prev = IF x = c.begin THEN n
                              ELSE IF x = n THEN null ELSE c.node[x].prev

(* put links in this way.                                                  *)
LEMMA PutLinks ==
    ASSUME NEW c \in Caches, NEW e \in Exprs, Referenced(c) # Nodes,
           NEW h \in Handles, NEW text
    PROVE  \E n : Added(c, e, [put_new(c, e, h) EXCEPT !.heap[h] = text], n)
<1> DEFINE n == CHOOSE x \in Nodes : x \notin Referenced(c)
           new == [key |-> e, data |-> h, prev |-> null, next |-> c.begin]
           with == [c.node EXCEPT ![n] = new]
           k == IF c.begin = null THEN with ELSE [with EXCEPT ![c.begin].prev = n]
           end == IF c.begin = null THEN n ELSE c.end
           hash == [c.hash EXCEPT ![e] = n]
           heap == [c.heap EXCEPT ![h] = text]
           p == put_new(c, e, h)
           d == [p EXCEPT !.heap[h] = text]
<1>1. Roots(c) \subseteq Referenced(c) /\ Referenced(c) \subseteq Nodes
  BY ReferencedClosed
<1>2. n \in Nodes /\ n \notin Referenced(c)
  BY <1>1
<1>3. p = [c EXCEPT !.node = k, !.begin = n, !.end = IF c.begin = null THEN n ELSE @,
                    !.hash[e] = n]
  BY DEF put_new
<1> HIDE DEF n
<1>4. c \in [hash : {c.hash}, node : {c.node}, begin : {c.begin}, end : {c.end},
             heap : {c.heap}, broken : {c.broken}]
  BY DEF Caches
<1>5. p = [hash |-> hash, node |-> k, begin |-> n, end |-> end,
           heap |-> c.heap, broken |-> c.broken]
  <2> HIDE DEF p, k
  <2> QED
    BY <1>3, <1>4
<1>6. d = [hash |-> hash, node |-> k, begin |-> n, end |-> end,
           heap |-> heap, broken |-> c.broken]
  <2> HIDE DEF p, k, hash
  <2> QED
    BY <1>5
<1>7. d.hash = hash /\ d.node = k /\ d.begin = n /\ d.end = end
  <2> HIDE DEF d, k, hash, heap, end
  <2> QED
    BY <1>6
<1>8. c.node \in [Nodes -> NodeRecs] /\ c.begin \in Links /\ n \in Links /\ new \in NodeRecs
  BY <1>2 DEF Caches, NodeRecs, Links
<1>9. c.begin # n
  BY <1>1, <1>2, CacheAssumption DEF Roots
<1>10. /\ with \in [Nodes -> NodeRecs] /\ with[n] = new
       /\ \A x \in Nodes : x # n => with[x] = c.node[x]
  <2> HIDE DEF new
  <2> QED
    BY <1>2, <1>8
<1> HIDE DEF with
<1>11. \A x \in Nodes : /\ k[x].next = with[x].next
                        /\ k[x].prev = IF x = c.begin THEN n ELSE with[x].prev
  <2>1. CASE c.begin = null
    BY <2>1, CacheAssumption
  <2>2. CASE c.begin # null
    <3> DEFINE l == [with EXCEPT ![c.begin].prev = n]
    <3>1. c.begin \in Nodes
      BY <1>8, <2>2 DEF Links
    <3>2. \A x \in Nodes : /\ l[x].next = with[x].next
                           /\ l[x].prev = IF x = c.begin THEN n ELSE with[x].prev
      BY <1>8, <1>10, <3>1, PrevSet
    <3>3. k = l
      BY <2>2
    <3> HIDE DEF l, k
    <3> QED
      BY <3>2, <3>3
  <2> QED
    BY <2>1, <2>2
<1> HIDE DEF k, d
<1>12. \A x \in Nodes :
          /\ d.node[x].next = IF x = n THEN c.begin ELSE c.node[x].next
          /\ d.node[x].prev = IF x = c.begin THEN n
                              ELSE IF x = n THEN null ELSE c.node[x].prev
  <2>1. new.next = c.begin /\ new.prev = null
    OBVIOUS
  <2> HIDE DEF new
  <2> QED
    BY <1>7, <1>10, <1>11, <2>1
<1>13. Added(c, e, d, n)
  BY <1>2, <1>7, <1>12 DEF Added
<1> QED
  BY <1>13 DEF d

(* put_new has the new expression in front.                                *)
LEMMA PutList ==
    ASSUME NEW c \in Caches, NEW r, ListOK(c, r), NEW e \in Exprs, c.hash[e] = null,
           NEW d, NEW n, Added(c, e, d, n)
    PROVE  ListOK(d, <<e>> \o r)
<1> DEFINE q == <<e>> \o r
           L == NodesOf(c, r)
           M == NodesOf(d, q)
           N == Len(r)
<1>1. /\ N \in Nat /\ Len(L) = N /\ r \in Seq(Exprs)
      /\ \A i \in 1..N : r[i] \in keys(c) /\ r[i] \in Exprs /\ L[i] = c.hash[r[i]] /\ L[i] \in Nodes
  BY NodesType DEF ListOK
<1>2. /\ \A i, j \in 1..N : L[i] = L[j] => i = j
      /\ c.begin = IF N = 0 THEN null ELSE L[1]
      /\ c.end = IF N = 0 THEN null ELSE L[N]
      /\ \A i \in 1..N : /\ c.node[L[i]].prev = IF i = 1 THEN null ELSE L[i - 1]
                         /\ c.node[L[i]].next = IF i = N THEN null ELSE L[i + 1]
  BY <1>1 DEF ListOK, Chain
<1>3. \A i, j \in 1..N : r[i] = r[j] => i = j
  BY DEF ListOK
<1>4. /\ q \in Seq(Exprs) /\ Len(q) = N + 1
      /\ \A i \in 1..(N + 1) : q[i] = IF i = 1 THEN e ELSE r[i - 1]
  BY <1>1, ConsIs
<1> HIDE DEF q
<1>5. n \in Nodes /\ n # null /\ e \notin keys(c)
  BY CacheAssumption DEF Added, keys
<1>6. \A i \in 1..N : L[i] # n
  <2>1. ASSUME NEW i \in 1..N PROVE L[i] \in Roots(c)
    BY <1>1, <1>5, CacheAssumption DEF Roots
  <2> QED
    BY <2>1, ReferencedClosed DEF Added
<1>7. /\ d.hash[e] = n /\ \A f \in Exprs : f # e => d.hash[f] = c.hash[f]
      /\ keys(d) = keys(c) \cup {e}
  <2>1. c.hash \in [Exprs -> Links]
    BY DEF Caches
  <2>2. d.hash[e] = n /\ \A f \in Exprs : f # e => d.hash[f] = c.hash[f]
    BY <2>1 DEF Added
  <2> QED
    BY <1>5, <2>2 DEF keys
<1>8. \A i \in 1..(N + 1) : i # 1 => i - 1 \in 1..N
  BY <1>1
<1>9. \A i \in 1..N : r[i] # e
  BY <1>1, <1>5
<1>10. ASSUME NEW i \in 1..(N + 1), NEW j \in 1..(N + 1), q[i] = q[j] PROVE i = j
  <2>1. CASE i # 1 /\ j # 1
    <3>1. i - 1 = j - 1
      <4> HIDE DEF N
      <4> QED
        BY <1>3, <1>4, <1>8, <1>10, <2>1
    <3> QED
      BY <1>1, <3>1
  <2>2. CASE i = 1 \/ j = 1
    <3> HIDE DEF N
    <3> QED
      BY <1>4, <1>8, <1>9, <1>10, <2>2
  <2> QED
    BY <2>1, <2>2
<1>11. \A i \in 1..(N + 1) : q[i] \in keys(d)
  <2> HIDE DEF N
  <2> QED
    BY <1>1, <1>4, <1>7, <1>8
<1>12. ASSUME NEW f \in keys(d) PROVE \E i \in 1..(N + 1) : q[i] = f
  <2>1. CASE f = e
    <3>1. 1 \in 1..(N + 1)
      BY <1>1
    <3> QED
      BY <1>4, <2>1, <3>1
  <2>2. CASE f # e
    <3>1. f \in keys(c) /\ f \in Exprs
      BY <1>7, <2>2 DEF keys
    <3>2. PICK k \in 1..N : r[k] = f
      BY <3>1 DEF ListOK
    <3>3. k + 1 \in 1..(N + 1) /\ k + 1 # 1 /\ (k + 1) - 1 = k
      BY <1>1
    <3> HIDE DEF N
    <3> QED
      BY <1>4, <3>2, <3>3
  <2> QED
    BY <2>1, <2>2
<1>13. /\ Len(M) = N + 1
       /\ \A i \in 1..(N + 1) : M[i] = IF i = 1 THEN n ELSE L[i - 1]
  <2>1. M = [i \in 1..(N + 1) |-> d.hash[q[i]]]
    BY <1>4 DEF NodesOf
  <2>2. Len(M) = N + 1
    <3> HIDE DEF M
    <3> QED
      BY <1>1, <2>1
  <2>3. ASSUME NEW i \in 1..(N + 1) PROVE M[i] = IF i = 1 THEN n ELSE L[i - 1]
    <3>1. M[i] = d.hash[q[i]]
      BY <2>1
    <3> HIDE DEF M, N
    <3>2. CASE i = 1
      BY <1>4, <1>7, <3>1, <3>2
    <3>3. CASE i # 1
      <4>1. i - 1 \in 1..N /\ q[i] = r[i - 1]
        BY <1>4, <1>8, <3>3
      <4>2. r[i - 1] # e /\ r[i - 1] \in Exprs /\ L[i - 1] = c.hash[r[i - 1]]
        BY <1>1, <1>9, <4>1
      <4> QED
        BY <1>7, <3>1, <3>3, <4>1, <4>2
    <3> QED
      BY <3>2, <3>3
  <2> QED
    BY <2>2, <2>3
<1> HIDE DEF M, L
<1>14. ASSUME NEW i \in 1..(N + 1), NEW j \in 1..(N + 1), M[i] = M[j] PROVE i = j
  <2>1. CASE i # 1 /\ j # 1
    <3>1. i - 1 = j - 1
      <4> HIDE DEF N
      <4> QED
        BY <1>2, <1>8, <1>13, <1>14, <2>1
    <3> QED
      BY <1>1, <3>1
  <2>2. CASE i = 1 \/ j = 1
    <3> HIDE DEF N
    <3> QED
      BY <1>6, <1>8, <1>13, <1>14, <2>2
  <2> QED
    BY <2>1, <2>2
<1>15. d.begin = M[1] /\ d.end = M[N + 1]
  <2>1. 1 \in 1..(N + 1) /\ N + 1 \in 1..(N + 1) /\ (N + 1) - 1 = N
    BY <1>1
  <2>2. M[1] = n /\ M[N + 1] = IF N + 1 = 1 THEN n ELSE L[N]
    <3> HIDE DEF N
    <3> QED
      BY <1>13, <2>1
  <2>3. N = 0 <=> N + 1 = 1
    BY <1>1
  <2>4. d.begin = n /\ d.end = IF c.begin = null THEN n ELSE c.end
    BY DEF Added
  <2>5. c.begin = null <=> N = 0
    <3>1. N # 0 => 1 \in 1..N
      BY <1>1
    <3> QED
      BY <1>1, <1>2, <3>1, CacheAssumption
  <2> QED
    BY <1>2, <2>2, <2>3, <2>4, <2>5
<1>16. ASSUME NEW i \in 1..(N + 1)
       PROVE  /\ d.node[M[i]].prev = IF i = 1 THEN null ELSE M[i - 1]
              /\ d.node[M[i]].next = IF i = N + 1 THEN null ELSE M[i + 1]
  <2>1. \A x \in Nodes :
           /\ d.node[x].next = IF x = n THEN c.begin ELSE c.node[x].next
           /\ d.node[x].prev = IF x = c.begin THEN n
                               ELSE IF x = n THEN null ELSE c.node[x].prev
    BY DEF Added
  <2>2. i # N + 1 => i + 1 \in 1..(N + 1) /\ i + 1 # 1 /\ (i + 1) - 1 = i /\ i \in 1..N
    BY <1>1
  <2>3. i # N + 1 => M[i + 1] = L[i]
    <3> HIDE DEF N
    <3> QED
      BY <1>13, <2>2
  <2>4. CASE i = 1
    <3>1. M[i] = n
      BY <1>13, <2>4
    <3>2. c.begin # n
      <4>1. N # 0 => 1 \in 1..N
        BY <1>1
      <4> QED
        BY <1>2, <1>5, <1>6, <4>1
    <3>3. d.node[n].prev = null /\ d.node[n].next = c.begin
      BY <1>5, <2>1, <3>2
    <3>4. c.begin = IF i = N + 1 THEN null ELSE M[i + 1]
      <4>1. i = N + 1 <=> N = 0
        BY <1>1, <2>4
      <4> QED
        BY <1>2, <2>3, <2>4, <4>1
    <3> QED
      BY <2>4, <3>1, <3>3, <3>4
  <2>5. CASE i # 1
    <3>1. /\ i - 1 \in 1..N /\ (i - 1) + 1 = i /\ (i = N + 1 <=> i - 1 = N) /\ N # 0
          /\ 1 \in 1..N
      BY <1>1, <2>5
    <3>2. M[i] = L[i - 1] /\ L[i - 1] \in Nodes /\ L[i - 1] # n
      BY <1>1, <1>6, <1>13, <2>5, <3>1
    <3>3. d.node[L[i - 1]].next = IF i = N + 1 THEN null ELSE M[i + 1]
      BY <1>2, <2>1, <2>3, <3>1, <3>2
    <3>4. d.node[L[i - 1]].prev = M[i - 1]
      <4>1. CASE i - 1 = 1
        <5>1. L[i - 1] = c.begin /\ M[i - 1] = n
          <6>1. 1 \in 1..(N + 1)
            BY <1>1
          <6> QED
            BY <1>2, <1>13, <3>1, <4>1, <6>1
        <5> QED
          BY <2>1, <3>2, <5>1
      <4>2. CASE i - 1 # 1
        <5>1. L[i - 1] # c.begin
          BY <1>2, <3>1, <4>2
        <5>2. i - 1 \in 1..(N + 1)
          BY <1>1, <3>1
        <5>3. M[i - 1] = L[(i - 1) - 1]
          BY <1>13, <4>2, <5>2
        <5> QED
          BY <1>2, <2>1, <3>1, <3>2, <4>2, <5>1, <5>3
      <4> QED
        BY <4>1, <4>2
    <3> QED
      BY <2>5, <3>2, <3>3, <3>4
  <2> QED
    BY <2>4, <2>5
<1>17. Chain(d, M)
  <2>1. N + 1 # 0
    BY <1>1
  <2> HIDE DEF N
  <2> QED
    BY <1>13, <1>14, <1>15, <1>16, <2>1 DEF Chain
<1>18. \A f \in Exprs : f \in keys(d) <=> \E i \in 1..Len(q) : q[i] = f
  <2> HIDE DEF N
  <2> QED
    BY <1>4, <1>11, <1>12
<1>19. \A i, j \in 1..Len(q) : q[i] = q[j] => i = j
  <2> HIDE DEF N
  <2> QED
    BY <1>4, <1>10
<1>20. ListOK(d, q)
  BY <1>4, <1>17, <1>18, <1>19 DEF ListOK, M
<1> QED
  BY <1>20 DEF q

(* The caches whose list has what is left of r.                            *)
ListCaches(r) ==
    {d \in GoodCaches : d.broken = "no" => ListOK(d, Kept(r, keys(d)))}

(* No eviction leaves them.                                                *)
LEMMA ListKeptByEvict ==
    ASSUME NEW r \in Seq(Exprs), Distinct(r)
    PROVE  KeptByEvict(ListCaches(r))
<1>1. ASSUME NEW d \in ListCaches(r), NEW e \in Exprs, d.broken = "no"
      PROVE  evict(d, e) \in ListCaches(r)
  <2> DEFINE x == evict(d, e)
             q == Kept(r, keys(d))
  <2>1. d \in Caches /\ Good(d) /\ ListOK(d, q)
    BY <1>1 DEF ListCaches, GoodCaches
  <2>2. x \in GoodCaches
    BY <1>1, <2>1, EvictGood
  <2>3. CASE d.hash[e] = null
    <3>1. x = d
      BY <2>3 DEF evict
    <3> QED
      BY <3>1
  <2>4. CASE d.hash[e] # null /\ x.broken = "no"
    <3>1. e \in keys(d)
      BY <2>4 DEF keys
    <3>2. PICK p \in 1..Len(q) : q[p] = e
      BY <2>1, <3>1 DEF ListOK
    <3> HIDE DEF x, q
    <3>3. ListOK(evict(d, q[p]), Less(q, p))
      <4>1. evict(d, q[p]).broken = "no"
        BY <2>4, <3>2 DEF x
      <4> QED
        BY <1>1, <2>1, <4>1, EvictList
    <3>4. Kept(r, keys(d) \ {e}) = Less(q, p)
      BY <3>2, KeptLess DEF q
    <3>5. keys(x) = keys(d) \ {e}
      <4>1. Unlinked(d, e)
        BY <1>1, <2>1, <2>4, <3>1, EvictLinks DEF x
      <4>2. x.hash = [d.hash EXCEPT ![e] = null] /\ d.hash \in [Exprs -> Links]
        BY <2>1, <4>1 DEF Unlinked, x, Caches
      <4> QED
        BY <4>2 DEF keys
    <3>6. ListOK(x, Kept(r, keys(x)))
      BY <3>2, <3>3, <3>4, <3>5 DEF x
    <3> QED
      BY <2>2, <3>6 DEF ListCaches, x
  <2>5. CASE x.broken # "no"
    BY <2>2, <2>5 DEF ListCaches
  <2> QED
    BY <2>3, <2>4, <2>5
<1>2. \A d \in GoodCaches : d.broken # "no" => d \in ListCaches(r)
  BY DEF ListCaches
<1>3. ListCaches(r) \subseteq GoodCaches
  BY DEF ListCaches
<1> QED
  BY <1>1, <1>2, <1>3 DEF KeptByEvict

(* Touch takes one expression out of the list.                             *)
LEMMA KeptOfList ==
    ASSUME NEW c \in Caches, NEW r, ListOK(c, r)
    PROVE  /\ Kept(r, keys(c)) = r
           /\ \A p \in 1..Len(r) : Kept(r, Exprs \ {r[p]}) = Less(r, p)
           /\ \A e \in Exprs : e \notin keys(c) => Kept(r, Exprs \ {e}) = r
<1>1. /\ r \in Seq(Exprs) /\ Distinct(r)
      /\ \A i \in 1..Len(r) : r[i] \in keys(c) /\ r[i] \in Exprs
  BY NodesType DEF ListOK, Distinct
<1>2. Kept(r, keys(c)) = r
  BY <1>1, KeptAll
<1>3. ASSUME NEW p \in 1..Len(r) PROVE Kept(r, Exprs \ {r[p]}) = Less(r, p)
  <2>1. Kept(r, Exprs) = r
    BY <1>1, KeptAll
  <2>2. p \in 1..Len(Kept(r, Exprs)) /\ Kept(r, Exprs)[p] = r[p]
    BY <2>1
  <2>3. Kept(r, Exprs \ {r[p]}) = Less(Kept(r, Exprs), p)
    BY <1>1, <2>2, KeptLess
  <2> QED
    BY <2>1, <2>3
<1>4. ASSUME NEW e \in Exprs, e \notin keys(c) PROVE Kept(r, Exprs \ {e}) = r
  <2>1. \A i \in 1..Len(r) : r[i] \in Exprs \ {e}
    BY <1>1, <1>4
  <2> QED
    BY <1>1, <2>1, KeptAll
<1> QED
  BY <1>2, <1>3, <1>4

(* What Along finds.                                                       *)
LEMMA AlongList ==
    ASSUME Here \in Caches, ListOK(Here, recent)
    PROVE  Along(m_begin) = NodesOf(Here, recent)
<1> DEFINE N == Cardinality(Nodes)
           L == NodesOf(Here, recent)
           n == Len(recent)
           start == IF m_begin = null THEN <<>> ELSE <<m_begin>>
           after(p) == IF p = <<>> THEN null ELSE node[p[Len(p)]].next
           step(p) == IF after(p) = null THEN p ELSE Append(p, after(p))
           IsLoop(r) == r = [i \in 0..N |-> IF i = 0 THEN start ELSE step(r[i - 1])]
           loop == CHOOSE r : IsLoop(r)
           T == Seq(Nodes)
<1>1. Along(m_begin) = loop[N]
  BY DEF Along
<1>2. IsFiniteSet(Nodes) /\ N \in Nat
  BY CacheAssumption, FS_CardinalityType
<1>3. /\ L \in Seq(Nodes) /\ Len(L) = n /\ n \in Nat
      /\ \A i \in 1..n : L[i] \in Nodes
  BY NodesType
<1>4. /\ \A i, j \in 1..n : L[i] = L[j] => i = j
      /\ m_begin = IF n = 0 THEN null ELSE L[1]
      /\ \A i \in 1..n : node[L[i]].next = IF i = n THEN null ELSE L[i + 1]
  BY <1>3 DEF ListOK, Chain, Here
<1>5. node \in [Nodes -> NodeRecs] /\ m_begin \in Links
  BY DEF Caches, NodeRecs, Here
<1> HIDE DEF L, n
<1>6. n <= N
  <2> DEFINE f == [i \in 1..n |-> L[i]]
  <2>1. f \in Injection(1..n, Nodes)
    <3>1. f \in [1..n -> Nodes] /\ \A i, j \in 1..n : f[i] = f[j] => i = j
      BY <1>3, <1>4
    <3> HIDE DEF f
    <3> QED
      BY <3>1 DEF Injection, IsInjective
  <2>2. IsFiniteSet(1..n) /\ Cardinality(1..n) = n
    <3>1. 1 \in Int /\ n \in Int /\ IsFiniteSet(1..n)
          /\ Cardinality(1..n) = IF 1 > n THEN 0 ELSE n - 1 + 1
      BY <1>3, FS_Interval
    <3> QED
      BY <1>3, <3>1
  <2>3. Cardinality(1..n) <= Cardinality(Nodes)
    BY <1>2, <2>1, FS_Injection
  <2> QED
    BY <2>2, <2>3
<1>7. start \in T
  BY <1>5 DEF Links
<1>8. ASSUME NEW p \in T PROVE step(p) \in T
  <2>1. CASE p = <<>>
    BY <2>1
  <2>2. CASE p # <<>>
    <3>1. p[Len(p)] \in Nodes
      BY <2>2
    <3>2. after(p) \in Links
      BY <1>5, <2>2, <3>1 DEF NodeRecs
    <3> HIDE DEF after
    <3> QED
      BY <3>2 DEF Links
  <2> QED
    BY <2>1, <2>2
<1> HIDE DEF start, step, T, N
<1>9. \E r : IsLoop(r)
  <2> DEFINE st == [p \in (1..N) \X T |-> step(p[2])]
  <2>1. st \in Steps(T, N)
    BY <1>8 DEF Steps
  <2>2. \E f : f \in Computed(T, start, N, st)
    <3> HIDE DEF st
    <3> QED
      BY <1>2, <1>7, <2>1, Recursion
  <2>3. PICK f \in [0..N -> T] :
          f[0] = start /\ \A i \in 1..N : f[i] = st[<<i, f[i - 1]>>]
    BY <2>2 DEF Computed
  <2>4. ASSUME NEW i \in 0..N PROVE f[i] = IF i = 0 THEN start ELSE step(f[i - 1])
    <3>1. CASE i = 0
      BY <2>3, <3>1
    <3>2. CASE i # 0
      <4>1. i \in 1..N /\ i - 1 \in 0..N
        BY <1>2, <3>2
      <4>2. f[i - 1] \in T /\ st[<<i, f[i - 1]>>] = step(f[i - 1])
        BY <4>1
      <4> HIDE DEF st
      <4> QED
        BY <2>3, <3>2, <4>1, <4>2
    <3> QED
      BY <3>1, <3>2
  <2>5. IsLoop(f)
    BY <2>3, <2>4
  <2> HIDE DEF IsLoop
  <2> QED
    BY <2>5
<1>10. IsLoop(loop)
  <2> HIDE DEF IsLoop
  <2> QED
    BY <1>9
<1> HIDE DEF loop
<1>11. \A i \in 0..N : loop[i] = IF i = 0 THEN start ELSE step(loop[i - 1])
  BY <1>10
<1> DEFINE K(i) == IF i < n THEN i + 1 ELSE n
           Found(i) == /\ loop[i] \in T /\ Len(loop[i]) = K(i)
                       /\ \A j \in 1..K(i) : loop[i][j] = L[j]
           S == {i \in 0..N : Found(i)}
<1>12. 0 \in S
  <2>1. loop[0] = start /\ 0 \in 0..N
    BY <1>2, <1>11
  <2>2. CASE n = 0
    <3>1. start = <<>>
      BY <1>4, <2>2 DEF start
    <3>2. Len(<<>>) = 0 /\ K(0) = 0
      BY <2>2
    <3> HIDE DEF K
    <3> QED
      BY <1>7, <2>1, <3>1, <3>2
  <2>3. CASE n # 0
    <3>1. 1 \in 1..n /\ K(0) = 1
      BY <1>3, <2>3
    <3>2. m_begin = L[1] /\ L[1] \in Nodes
      BY <1>3, <1>4, <2>3, <3>1
    <3>3. start = <<L[1]>>
      BY <3>2, CacheAssumption DEF start
    <3>4. Len(start) = 1 /\ start[1] = L[1]
      BY <3>3
    <3>5. \A j \in 1..1 : start[j] = L[j]
      BY <3>4
    <3> HIDE DEF K
    <3> QED
      BY <1>7, <2>1, <3>1, <3>4, <3>5
  <2> QED
    BY <2>2, <2>3
<1>13. ASSUME NEW i \in 1..N, i - 1 \in S PROVE i \in S
  <2> DEFINE p == loop[i - 1]
  <2>1. i \in 0..N /\ i # 0 /\ i - 1 \in 0..N /\ i \in Int /\ n \in Int
    BY <1>2, <1>3
  <2>2. loop[i] = step(p)
    BY <1>11, <2>1
  <2>3. p \in T /\ Len(p) = K(i - 1) /\ \A j \in 1..K(i - 1) : p[j] = L[j]
    BY <1>13
  <2>4. step(p) \in T
    BY <1>8, <2>3
  <2> HIDE DEF p
  <2>5. CASE i < n
    <3>1. K(i - 1) = i /\ K(i) = i + 1 /\ i \in 1..n
      BY <2>1, <2>5
    <3>2. p # <<>> /\ p[Len(p)] = L[i]
      BY <2>1, <2>3, <3>1
    <3>3. node[L[i]].next = L[i + 1] /\ L[i + 1] \in Nodes
      <4>1. i + 1 \in 1..n /\ i # n
        BY <2>1, <2>5
      <4> QED
        BY <1>3, <1>4, <3>1, <4>1
    <3>4. step(p) = Append(p, L[i + 1])
      BY <3>2, <3>3, CacheAssumption DEF step
    <3>5. Len(step(p)) = i + 1 /\ step(p)[i + 1] = L[i + 1] /\ \A j \in 1..i : step(p)[j] = p[j]
      BY <2>1, <2>3, <3>1, <3>3, <3>4 DEF T
    <3>6. \A j \in 1..(i + 1) : step(p)[j] = L[j]
      <4>1. \A j \in 1..(i + 1) : j = i + 1 \/ j \in 1..i
        BY <2>1
      <4> QED
        BY <2>3, <3>1, <3>5, <4>1
    <3>7. Found(i)
      BY <2>2, <2>4, <3>1, <3>5, <3>6
    <3> QED
      BY <2>1, <3>7
  <2>6. CASE ~(i < n)
    <3>1. K(i - 1) = n /\ K(i) = n
      BY <2>1, <2>6
    <3>2. after(p) = null
      <4>1. CASE n = 0
        <5>1. Len(p) = 0
          BY <2>3, <3>1, <4>1
        <5>2. p = <<>>
          BY <2>3, <5>1 DEF T
        <5> QED
          BY <5>2
      <4>2. CASE n # 0
        <5>1. n \in 1..n
          BY <1>3, <4>2
        <5>2. p # <<>> /\ p[Len(p)] = L[n]
          BY <2>3, <3>1, <4>2, <5>1
        <5>3. node[L[n]].next = null
          BY <1>4, <5>1
        <5> QED
          BY <5>2, <5>3
      <4> QED
        BY <4>1, <4>2
    <3>3. step(p) = p
      BY <3>2 DEF step
    <3>4. Found(i)
      BY <2>2, <2>3, <3>1, <3>3
    <3> QED
      BY <2>1, <3>4
  <2> QED
    BY <2>5, <2>6
<1>14. \A i \in 0..N : i \in S
  <2> HIDE DEF S
  <2> QED
    BY <1>2, <1>12, <1>13, Induct
<1>15. Found(N)
  BY <1>2, <1>14
<1>16. K(N) = n
  BY <1>2, <1>3, <1>6
<1>17. loop[N] \in Seq(Nodes) /\ Len(loop[N]) = n /\ \A j \in 1..n : loop[N][j] = L[j]
  BY <1>15, <1>16 DEF T
<1>18. loop[N] = L
  BY <1>3, <1>17
<1> QED
  BY <1>1, <1>18 DEF L

(* As long as no hit has moved the last node to the front, recent has the  *)
(* cached expressions in the order of the list.                            *)
ListInv ==
    /\ stale \in Nat
    /\ broken = "no" /\ stale = 0 => ListOK(Here, recent)

(* The empty cache has an empty list.                                      *)
LEMMA InitList ==
    ASSUME Init PROVE ListInv
<1>1. /\ Here.begin = null /\ Here.end = null /\ keys(Here) = {}
      /\ recent = <<>> /\ stale = 0
  BY DEF Init, Here, keys
<1>2. Len(recent) = 0 /\ Len(NodesOf(Here, recent)) = 0 /\ recent \in Seq(Exprs)
  <2>1. Len(<<>>) = 0 /\ <<>> \in Seq(Exprs)
    OBVIOUS
  <2>2. NodesOf(Here, <<>>) = [i \in 1..0 |-> Here.hash[<<>>[i]]]
    BY DEF NodesOf
  <2>3. Len([i \in 1..0 |-> Here.hash[<<>>[i]]]) = 0
    OBVIOUS
  <2> QED
    BY <1>1, <2>1, <2>2, <2>3
<1>3. Chain(Here, NodesOf(Here, recent))
  BY <1>1, <1>2 DEF Chain
<1>4. ListOK(Here, recent)
  BY <1>1, <1>2, <1>3 DEF ListOK
<1> QED
  BY <1>1, <1>4 DEF ListInv

(* Installing a cache with the list r gives ListOK for the next state.     *)
LEMMA InstallList ==
    ASSUME NEW c \in GoodCaches, Install(c), NEW r, c.broken = "no" => ListOK(c, r),
           recent' = r
    PROVE  broken' = "no" => ListOK(Here, recent)'
<1>1. Here' = Collect(c)
  BY InstalledIs
<1>2. broken' = c.broken
  <2>1. Here'.broken = broken'
    BY DEF Here
  <2>2. Collect(c).broken = c.broken
    BY DEF Collect, GoodCaches, Caches
  <2> QED
    BY <1>1, <2>1, <2>2
<1>3. ASSUME broken' = "no" PROVE ListOK(Here, recent)'
  <2>1. ListOK(c, r) /\ c \in Caches
    BY <1>2, <1>3 DEF GoodCaches
  <2>2. ListOK(Collect(c), r)
    BY <2>1, CollectList
  <2>3. ListOK(Here', recent')
    BY <1>1, <2>2
  <2> QED
    BY <2>3 DEF ListOK, Chain, NodesOf, keys
<1> QED
  BY <1>3

(* A step that leaves the cache alone keeps ListInv.                       *)
LEMMA SameList ==
    ASSUME Here' = Here, recent' = recent, stale' \in Nat, stale' = 0 => stale = 0,
           broken' = broken, ListInv
    PROVE  ListInv'
<1>1. ASSUME broken' = "no", stale' = 0 PROVE ListOK(Here, recent)'
  <2>1. ListOK(Here, recent)
    BY <1>1 DEF ListInv
  <2>2. ListOK(Here', recent')
    BY <2>1
  <2> QED
    BY <2>2 DEF ListOK, Chain, NodesOf, keys
<1> QED
  BY <1>1 DEF ListInv

(* Every step keeps ListInv.                                               *)
LEMMA NextList ==
    ASSUME CacheInv, ListInv, [Next]_vars
    PROVE  ListInv'
<1>1. Here \in GoodCaches /\ Here \in Caches /\ Here.broken = broken
      /\ (broken = "no" => Good(Here))
  BY DEF CacheInv, GoodCaches, Here
<1>2. Here.hash = m_hash /\ Here.begin = m_begin /\ Here.end = m_end /\ Here.heap = compiled
  BY DEF Here
<1>3. ASSUME UNCHANGED <<lru, compiled, broken, recent, stale>> PROVE ListInv'
  <2>1. Here' = Here
    BY <1>3 DEF Here, lru
  <2>2. recent' = recent /\ broken' = broken /\ stale' = stale /\ stale \in Nat
    BY <1>3 DEF ListInv
  <2> QED
    BY <2>1, <2>2, SameList
<1>4. ASSUME NEW leaves \in BOOLEAN, Counted(leaves)
      PROVE  stale' \in Nat /\ (stale' = 0 => stale = 0 /\ ~leaves)
  BY <1>4 DEF Counted, ListInv
<1>5. ASSUME NEW leaves \in BOOLEAN, Counted(leaves), Idle,
             NEW c \in GoodCaches, Install(c),
             ~leaves /\ ListOK(Here, recent) /\ c.broken = "no" => ListOK(c, recent')
      PROVE  ListInv'
  <2>1. stale' \in Nat
    BY <1>4, <1>5
  <2>2. ASSUME broken' = "no", stale' = 0 PROVE ListOK(Here, recent)'
    <3>1. ~leaves /\ stale = 0
      BY <1>4, <1>5, <2>2
    <3>2. ListOK(Here, recent)
      BY <1>5, <3>1 DEF ListInv, Idle
    <3>3. c.broken = "no" => ListOK(c, recent')
      BY <1>5, <3>1, <3>2
    <3> QED
      BY <1>5, <2>2, <3>3, InstallList
  <2> QED
    BY <2>1, <2>2 DEF ListInv
<1>6. ASSUME UNCHANGED vars PROVE ListInv'
  BY <1>3, <1>6 DEF vars
<1>7. ASSUME returns PROVE ListInv'
  BY <1>3, <1>7 DEF returns
<1>8. ASSUME NEW e, uvm_glob_to_re(e) PROVE ListInv'
  BY <1>3, <1>8 DEF uvm_glob_to_re
<1>9. ASSUME NEW e, NEW s, NEW glob, match_uncached(e, s, glob) PROVE ListInv'
  BY <1>3, <1>9 DEF match_uncached
<1>10. ASSUME NEW e \in Exprs, NEW s, NEW glob, Idle, match_hit(e, s, glob)
       PROVE  ListInv'
  <2> DEFINE n == m_hash[e]
             c == m_update(Here, n)
             leaves == n = m_end /\ m_begin # m_end
  <2>1. /\ n # null /\ broken = "no" /\ Install(c) /\ Counted(leaves) /\ recent' = Touch(e)
    BY <1>10 DEF match_hit, Idle
  <2>2. e \in keys(Here)
    BY <1>2, <2>1 DEF keys
  <2>3. c \in GoodCaches
    <3>1. n \in Real(Here)
      BY <1>1, <1>2, <2>1, <2>2, Relinkable
    <3> QED
      BY <1>1, <2>1, <3>1, UpdateGood
  <2>4. ASSUME ~leaves, ListOK(Here, recent), c.broken = "no" PROVE ListOK(c, recent')
    <3>1. PICK p \in 1..Len(recent) : recent[p] = e
      BY <2>2, <2>4 DEF ListOK
    <3> DEFINE L == NodesOf(Here, recent)
               N == Len(recent)
    <3>2. N \in Nat /\ Len(L) = N /\ L[p] = n /\ Chain(Here, L)
      <4>1. Len(L) = N /\ N \in Nat /\ L[p] = Here.hash[recent[p]]
        BY <1>1, <2>4, NodesType
      <4>2. Chain(Here, L)
        BY <2>4 DEF ListOK
      <4> HIDE DEF L
      <4> QED
        BY <1>2, <3>1, <4>1, <4>2
    <3> HIDE DEF L
    <3>3. p = 1 \/ p < N
      <4> SUFFICES ASSUME p # 1, p = N PROVE FALSE
        BY <3>2
      <4>1. 1 \in 1..N /\ N \in 1..N /\ N # 0
        BY <3>2
      <4>2. m_end = L[N] /\ m_begin = L[1] /\ L[1] # L[N]
        BY <1>2, <3>2, <4>1 DEF Chain
      <4> QED
        BY <2>4, <3>2, <4>2
    <3>4. n = Here.hash[recent[p]]
      BY <1>2, <3>1
    <3> HIDE DEF n, leaves
    <3>5. m_update(Here, Here.hash[recent[p]]).broken = "no"
      BY <2>4, <3>4
    <3>6. ListOK(m_update(Here, Here.hash[recent[p]]), <<recent[p]>> \o Less(recent, p))
      <4>1. broken = "no"
        BY <2>1
      <4> QED
        BY <1>1, <2>4, <3>3, <3>5, <4>1, UpdateList
    <3>7. recent' = <<e>> \o Kept(recent, Exprs \ {e})
      BY <2>1 DEF Touch
    <3>8. Kept(recent, Exprs \ {e}) = Less(recent, p)
      BY <1>1, <2>4, <3>1, KeptOfList
    <3>9. recent' = <<recent[p]>> \o Less(recent, p)
      BY <3>1, <3>7, <3>8
    <3> QED
      BY <3>4, <3>6, <3>9
  <2>5. leaves \in BOOLEAN
    OBVIOUS
  <2> HIDE DEF c, leaves
  <2> QED
    BY <1>5, <1>10, <2>1, <2>3, <2>4, <2>5
<1>11. ASSUME NEW e \in Exprs, NEW s, NEW glob \in BOOLEAN, Idle, match_miss(e, s, glob)
       PROVE  ListInv'
  <2>1. CASE uvm_re_comp(e, glob) = null
    <3>1. UNCHANGED <<lru, compiled, broken, recent>> /\ Counted(FALSE)
      BY <1>11, <2>1 DEF match_miss
    <3>2. stale' \in Nat /\ (stale' = 0 => stale = 0)
      BY <1>4, <3>1
    <3>3. Here' = Here
      BY <3>1 DEF Here, lru
    <3> QED
      BY <3>1, <3>2, <3>3, SameList
  <2>2. CASE uvm_re_comp(e, glob) # null
    <3> DEFINE h == CHOOSE x \in Handles : compiled[x] = null
               text == uvm_re_comp(e, glob)
               c == [put_new(Here, e, h) EXCEPT !.heap[h] = text]
    <3>1. /\ m_hash[e] = null /\ broken = "no" /\ Referenced(Here) # Nodes
          /\ \E x \in Handles : compiled[x] = null
          /\ Install(c) /\ recent' = Touch(e) /\ Counted(FALSE)
      BY <1>11, <2>2 DEF match_miss, Idle
    <3>2. h \in Handles /\ compiled[h] = null
      BY <3>1
    <3>3. text \in Texts
      BY <2>2 DEF uvm_re_comp, Texts
    <3> HIDE DEF h, text
    <3>4. text # null
      BY <2>2 DEF text
    <3>5. c \in GoodCaches
      BY <1>1, <1>2, <3>1, <3>2, <3>3, <3>4, PutGood
    <3>6. ASSUME ListOK(Here, recent) PROVE ListOK(c, recent')
      <4>1. \E n : Added(Here, e, c, n)
        BY <1>1, <3>1, <3>2, PutLinks
      <4>2. PICK n : Added(Here, e, c, n)
        BY <4>1
      <4> HIDE DEF c
      <4>3. ListOK(c, <<e>> \o recent)
        <5>1. Here.hash[e] = null
          BY <1>2, <3>1
        <5> QED
          BY <1>1, <3>6, <4>2, <5>1, PutList
      <4>4. e \notin keys(Here)
        BY <1>2, <3>1 DEF keys
      <4>5. Kept(recent, Exprs \ {e}) = recent
        BY <1>1, <3>6, <4>4, KeptOfList
      <4> QED
        BY <3>1, <4>3, <4>5 DEF Touch
    <3> HIDE DEF c
    <3> QED
      BY <1>5, <1>11, <3>1, <3>5, <3>6
  <2> QED
    BY <2>1, <2>2
<1>12. ASSUME ListOK(Here, recent)
       PROVE  Here \in ListCaches(recent) /\ KeptByEvict(ListCaches(recent))
  <2>1. recent \in Seq(Exprs) /\ Distinct(recent)
    BY <1>12 DEF ListOK, Distinct
  <2>2. Kept(recent, keys(Here)) = recent
    BY <1>1, <1>12, KeptOfList
  <2> QED
    BY <1>1, <1>12, <2>1, <2>2, ListKeptByEvict DEF ListCaches
<1>13. ASSUME NEW c \in ListCaches(recent), c.broken = "no", recent' = Left(c)
       PROVE  ListOK(c, recent')
  BY <1>13 DEF ListCaches, Left
<1>14. ASSUME NEW max \in Sizes, Idle, set_max_size(max) PROVE ListInv'
  <2> DEFINE c == evict_to_max(Here, max)
  <2>1. Install(c) /\ recent' = Left(c) /\ Counted(FALSE)
    BY <1>14 DEF set_max_size
  <2>2. c \in GoodCaches
    BY <1>1, EvictToMaxKeeps, GoodKeptByEvict
  <2>3. ASSUME ListOK(Here, recent) PROVE c \in ListCaches(recent)
    BY <1>12, <2>3, EvictToMaxKeeps
  <2> HIDE DEF c
  <2> QED
    BY <1>5, <1>13, <1>14, <2>1, <2>2, <2>3
<1>15. ASSUME NEW e \in Exprs, Idle, evict_key(e) PROVE ListInv'
  <2> DEFINE c == evict(Here, e)
  <2>1. Install(c) /\ recent' = Left(c) /\ Counted(FALSE) /\ broken = "no"
    BY <1>15 DEF evict_key, Idle
  <2>2. c \in GoodCaches
    BY <1>1, <2>1, EvictGood
  <2>3. ASSUME ListOK(Here, recent) PROVE c \in ListCaches(recent)
    BY <1>1, <1>12, <2>1, <2>3 DEF KeptByEvict
  <2> HIDE DEF c
  <2> QED
    BY <1>5, <1>13, <1>15, <2>1, <2>2, <2>3
<1>16. ASSUME Idle, flush PROVE ListInv'
  <2>1. PICK order \in SetToSeqs(keys(Here)) :
          LET c[i \in 0..Len(order)] ==
                  IF i = 0 THEN Here
                  ELSE IF c[i - 1].broken # "no" THEN c[i - 1] ELSE evict(c[i - 1], order[i])
          IN  Install(c[Len(order)]) /\ recent' = Left(c[Len(order)])
    BY <1>16 DEF flush
  <2>2. Len(order) \in Nat /\ order \in [1..Len(order) -> Exprs]
    <3>1. keys(Here) \subseteq Exprs
      BY DEF keys
    <3>2. IsFiniteSet(keys(Here)) /\ Cardinality(keys(Here)) \in Nat
      BY <3>1, CacheAssumption, FS_Subset, FS_CardinalityType
    <3>3. order \in [1..Cardinality(keys(Here)) -> keys(Here)]
      BY DEF SetToSeqs
    <3> QED
      BY <3>1, <3>2, <3>3
  <2> DEFINE IsLoop(r) == r = [i \in 0..Len(order) |->
                                 IF i = 0 THEN Here
                                 ELSE IF r[i - 1].broken # "no" THEN r[i - 1]
                                 ELSE evict(r[i - 1], order[i])]
             loop == CHOOSE r : IsLoop(r)
             c == loop[Len(order)]
  <2>3. Install(c) /\ recent' = Left(c)
    BY <2>1
  <2>4. Counted(FALSE)
    BY <1>16 DEF flush
  <2>5. c \in GoodCaches
    BY <1>1, <2>2, FlushKeeps, GoodKeptByEvict
  <2>6. ASSUME ListOK(Here, recent) PROVE c \in ListCaches(recent)
    BY <1>12, <2>2, <2>6, FlushKeeps
  <2> HIDE DEF c
  <2> QED
    BY <1>5, <1>13, <1>16, <2>3, <2>4, <2>5, <2>6
<1> QED
  BY <1>6, <1>7, <1>8, <1>9, <1>10, <1>11, <1>14, <1>15, <1>16 DEF Next

(* As long as no hit has moved the last node of uvm_lru_cache to the       *)
(* front, its list has the cached expressions by last use, in both         *)
(* directions, with m_end at the last node, and the hash leads to its      *)
(* nodes, whatever was put, hit, evicted and flushed before (ListExact).   *)
THEOREM ListIsExact == Spec => []ListExact
<1>1. ASSUME CacheInv, ListInv PROVE ListExact
  <2> SUFFICES ASSUME broken = "no", stale = 0 PROVE ListExact
    BY DEF ListExact
  <2> DEFINE L == NodesOf(Here, recent)
             n == Len(recent)
  <2>1. Here \in Caches /\ Good(Here) /\ ListOK(Here, recent)
    BY <1>1 DEF CacheInv, GoodCaches, ListInv, Here
  <2>2. /\ Here.hash = m_hash /\ Here.node = node /\ Here.begin = m_begin /\ Here.end = m_end
    BY DEF Here
  <2>3. Along(m_begin) = L
    BY <2>1, AlongList
  <2>4. /\ Len(L) = n /\ n \in Nat
        /\ \A i \in 1..n : recent[i] \in keys(Here) /\ L[i] = m_hash[recent[i]]
    BY <2>1, <2>2, NodesType
  <2>5. \A i \in 1..n : node[L[i]].key = recent[i]
    BY <2>1, <2>2, <2>4 DEF Good, HashOK
  <2>6. Chain(Here, L)
    BY <2>1 DEF ListOK
  <2>7. recent \in Seq(Exprs)
    BY <2>1 DEF ListOK
  <2> HIDE DEF L
  <2>8. [i \in 1..n |-> node[L[i]].key] = recent
    BY <2>5, <2>7
  <2>9. \A i \in 1..n : m_hash[node[L[i]].key] = L[i]
    BY <2>4, <2>5
  <2>10. /\ m_end = IF n = 0 THEN null ELSE L[n]
         /\ \A i \in 1..n : node[L[i]].prev = IF i = 1 THEN null ELSE L[i - 1]
    BY <2>2, <2>4, <2>6 DEF Chain
  <2> HIDE DEF n
  <2> QED
    BY <2>3, <2>4, <2>8, <2>9, <2>10 DEF ListExact
<1>2. Init => CacheInv /\ ListInv
  BY InitGood, InitList
<1>3. (CacheInv /\ ListInv) /\ [Next]_vars => (CacheInv /\ ListInv)'
  BY NextGood, NextList
<1> QED
  BY <1>1, <1>2, <1>3, PTL DEF Spec

(***************************************************************************)
(* What a glob means                                                       *)
(***************************************************************************)

(* A function of 1..n whose values are computed from those of later        *)
(* arguments.                                                              *)
Later(T, n, B) ==
    \A f, g \in [1..n -> T], i \in 1..n :
        (\A k \in 1..n : k > i => f[k] = g[k]) => B[<<f, i>>] = B[<<g, i>>]

Bodies(T, n) == [[1..n -> T] \X (1..n) -> T]

(* Such a function there is, whatever the values are computed from.        *)
LEMMA Downward ==
    ASSUME NEW n \in Nat, NEW T, T # {}, NEW B \in Bodies(T, n), Later(T, n, B)
    PROVE  \E f \in [1..n -> T] : \A i \in 1..n : f[i] = B[<<f, i>>]
<1> USE DEF Bodies
<1> DEFINE U == [1..n -> T]
           a == [i \in 1..n |-> CHOOSE x \in T : TRUE]
           st == [p \in (1..n) \X U |-> [i \in 1..n |-> B[<<p[2], i>>]]]
<1>1. a \in U
  OBVIOUS
<1>2. st \in Steps(U, n)
  <2>1. ASSUME NEW p \in (1..n) \X U PROVE st[p] \in U
    <3>1. p[2] \in U
      OBVIOUS
    <3>2. \A i \in 1..n : <<p[2], i>> \in U \X (1..n) /\ B[<<p[2], i>>] \in T
      BY <3>1
    <3> QED
      BY <3>2
  <2> HIDE DEF U
  <2> QED
    BY <2>1 DEF Steps
<1>3. \E h : h \in Computed(U, a, n, st)
  <2> HIDE DEF U, a, st
  <2> QED
    BY <1>1, <1>2, Recursion
<1>4. PICK h \in [0..n -> U] : h[0] = a /\ \A L \in 1..n : h[L] = st[<<L, h[L - 1]>>]
  BY <1>3 DEF Computed
<1> HIDE DEF a
<1>5. \A L \in 0..n : h[L] \in U
  OBVIOUS
<1>6. \A L \in 1..n, i \in 1..n : h[L][i] = B[<<h[L - 1], i>>]
  <2> TAKE L \in 1..n, i \in 1..n
  <2>1. L - 1 \in 0..n
    OBVIOUS
  <2>2. <<L, h[L - 1]>> \in (1..n) \X U
    BY <1>5, <2>1
  <2>3. st[<<L, h[L - 1]>>] = [k \in 1..n |-> B[<<h[L - 1], k>>]]
    BY <2>2
  <2> HIDE DEF st, U
  <2> QED
    BY <1>4, <2>3
<1> HIDE DEF st
<1> DEFINE S == {L \in 0..n : \A i \in 1..n : n - i < L =>
                    h[L][i] = B[<<h[L], i>>]}
<1>7. 0 \in S
  OBVIOUS
<1>8. ASSUME NEW L \in 1..n, L - 1 \in S PROVE L \in S
  <2>1. L - 1 \in 0..n /\ L \in 0..n
    OBVIOUS
  <2>2. ASSUME NEW i \in 1..n, n - i < L PROVE h[L][i] = B[<<h[L], i>>]
    <3>1. ASSUME NEW k \in 1..n, k > i PROVE h[L - 1][k] = h[L][k]
      <4>1. n - k < L - 1
        BY <2>2, <3>1
      <4>2. h[L - 1][k] = B[<<h[L - 1], k>>]
        BY <1>8, <4>1
      <4> QED
        BY <1>6, <4>2
    <3>2. h[L - 1] \in U /\ h[L] \in U
      BY <1>5, <2>1
    <3>3. B[<<h[L - 1], i>>] = B[<<h[L], i>>]
      BY <3>1, <3>2 DEF Later
    <3> QED
      BY <1>6, <3>3
  <2> QED
    BY <2>1, <2>2
<1>9. \A L \in 0..n : L \in S
  <2> HIDE DEF S
  <2> QED
    BY <1>7, <1>8, Induct
<1>10. n \in 0..n
  OBVIOUS
<1>11. \A i \in 1..n : h[n][i] = B[<<h[n], i>>]
  <2>1. n \in S
    <3> HIDE DEF S
    <3> QED
      BY <1>9, <1>10
  <2>2. \A i \in 1..n : n - i < n
    OBVIOUS
  <2> QED
    BY <2>1, <2>2
<1> QED
  BY <1>5, <1>10, <1>11

(* The places that regexec computes.                                       *)
LEMMA RegexecIs ==
    ASSUME NEW rx \in Seq(Chars), NEW s \in Seq(Chars)
    PROVE  \E f \in [1..(Len(rx) + 1) -> SUBSET (1..(Len(s) + 1))] :
              /\ \A i \in 1..(Len(rx) + 1) : f[i] = Places(rx, s, i, f)
              /\ regexec(rx, s) <=> f[1] # {}
<1> DEFINE n == Len(rx) + 1
           T == SUBSET (1..(Len(s) + 1))
           IsMatch(f) == f = [i \in 1..n |-> Places(rx, s, i, f)]
           match == CHOOSE f : IsMatch(f)
           B == [p \in [1..n -> T] \X (1..n) |-> Places(rx, s, p[2], p[1])]
<1>1. regexec(rx, s) <=> match[1] # {}
  BY DEF regexec
<1>2. n \in Nat \ {0} /\ Len(rx) \in Nat /\ Len(s) \in Nat /\ n = Len(rx) + 1
  OBVIOUS
<1> HIDE DEF n
<1>3. ASSUME NEW f, NEW i \in 1..n
      PROVE  /\ Places(rx, s, i, f) \in T
             /\ \A g \in [1..n -> T] : (\A k \in 1..n : k > i => f[k] = g[k]) =>
                   Places(rx, s, i, f) = Places(rx, s, i, g)
  <2>1. CASE i > Len(rx)
    BY <1>2, <2>1 DEF Places
  <2>2. CASE ~(i > Len(rx))
    <3>1. /\ i + 1 \in 1..n /\ i + 1 > i
          /\ PastAtom(rx, i) \in 1..n /\ PastAtom(rx, i) > i
      BY <1>2, <2>2 DEF PastAtom, Escaped
    <3>2. Quantifier(rx, i) \in {"*", "+"} =>
             PastAtom(rx, i) + 1 \in 1..n /\ PastAtom(rx, i) + 1 > i
      BY <1>2, <3>1 DEF Quantifier
    <3> DEFINE P(later) == Places(rx, s, i, later)
               end == Len(s) + 1
               Run(j, k) == \A l \in j..(k - 1) : Fits(rx, i, s[l])
    <3>3. ASSUME NEW later
          PROVE  P(later) =
                    CASE rx[i] = "^" -> {1} \cap later[i + 1]
                      [] rx[i] = "$" -> {end} \cap later[i + 1]
                      [] Quantifier(rx, i) = "*" ->
                           {j \in 1..end : \E k \in j..end :
                                             Run(j, k) /\ k \in later[PastAtom(rx, i) + 1]}
                      [] Quantifier(rx, i) = "+" ->
                           {j \in 1..end : \E k \in (j + 1)..end :
                                             Run(j, k) /\ k \in later[PastAtom(rx, i) + 1]}
                      [] OTHER -> {j \in 1..Len(s) : /\ Fits(rx, i, s[j])
                                                    /\ j + 1 \in later[PastAtom(rx, i)]}
      BY <2>2 DEF Places
    <3> DEFINE a == PastAtom(rx, i)
               Stars(later) == {j \in 1..end : \E k \in j..end : Run(j, k) /\ k \in later[a + 1]}
               Pluses(later) == {j \in 1..end : \E k \in (j + 1)..end : Run(j, k) /\ k \in later[a + 1]}
               Ones(later) == {j \in 1..Len(s) : Fits(rx, i, s[j]) /\ j + 1 \in later[a]}
    <3>4. ASSUME NEW g
          PROVE  /\ {1} \cap g[i + 1] \in T /\ {end} \cap g[i + 1] \in T
                 /\ Stars(g) \in T /\ Pluses(g) \in T /\ Ones(g) \in T
      BY <1>2, <3>1
    <3>5. ASSUME NEW g \in [1..n -> T], \A k \in 1..n : k > i => f[k] = g[k]
          PROVE  /\ f[i + 1] = g[i + 1] /\ Ones(f) = Ones(g)
                 /\ Quantifier(rx, i) \in {"*", "+"} => Stars(f) = Stars(g) /\ Pluses(f) = Pluses(g)
      <4>1. f[i + 1] = g[i + 1] /\ f[a] = g[a]
        BY <3>1, <3>5
      <4>2. Quantifier(rx, i) \in {"*", "+"} => f[a + 1] = g[a + 1]
        BY <3>2, <3>5
      <4> QED
        BY <4>1, <4>2
    <3>6. ASSUME NEW g
          PROVE  P(g) = CASE rx[i] = "^" -> {1} \cap g[i + 1]
                      [] rx[i] = "$" -> {end} \cap g[i + 1]
                      [] Quantifier(rx, i) = "*" -> Stars(g)
                      [] Quantifier(rx, i) = "+" -> Pluses(g)
                      [] OTHER -> Ones(g)
      BY <3>3
    <3> HIDE DEF P, Run, T, end, Stars, Pluses, Ones, a
    <3>7. P(f) \in T
      BY <3>4, <3>6
    <3>8. ASSUME NEW g \in [1..n -> T], \A k \in 1..n : k > i => f[k] = g[k]
          PROVE  P(f) = P(g)
      BY <3>5, <3>6, <3>8
    <3> QED
      BY <3>7, <3>8 DEF P, T
  <2> QED
    BY <2>1, <2>2
<1> HIDE DEF T
<1>4. B \in Bodies(T, n)
  BY <1>3 DEF Bodies
<1>5. ASSUME NEW f \in [1..n -> T], NEW i \in 1..n PROVE B[<<f, i>>] = Places(rx, s, i, f)
  OBVIOUS
<1>6. Later(T, n, B)
  <2>1. ASSUME NEW f \in [1..n -> T], NEW g \in [1..n -> T], NEW i \in 1..n,
               \A k \in 1..n : k > i => f[k] = g[k]
        PROVE  B[<<f, i>>] = B[<<g, i>>]
    <3>1. Places(rx, s, i, f) = Places(rx, s, i, g)
      BY <1>3, <2>1
    <3> HIDE DEF B
    <3> QED
      BY <1>5, <3>1
  <2> HIDE DEF B
  <2> QED
    BY <2>1 DEF Later
<1>7. T # {}
  BY DEF T
<1>8. \E f : IsMatch(f)
  <2>1. PICK f \in [1..n -> T] : \A i \in 1..n : f[i] = B[<<f, i>>]
    <3>1. n \in Nat
      BY <1>2
    <3> HIDE DEF B, match
    <3> QED
      BY <1>4, <1>6, <1>7, <3>1, Downward
  <2>2. \A i \in 1..n : f[i] = Places(rx, s, i, f)
    BY <1>5, <2>1
  <2> QED
    BY <2>2
<1>9. IsMatch(match)
  <2> HIDE DEF IsMatch
  <2> QED
    BY <1>8
<1> HIDE DEF match
<1>10. match = [i \in 1..n |-> Places(rx, s, i, match)]
  BY <1>9
<1>11. \A i \in 1..n : match[i] = Places(rx, s, i, match) /\ match[i] \in T
  BY <1>3, <1>10
<1>12. match \in [1..n -> T]
  BY <1>10, <1>11
<1> QED
  BY <1>1, <1>11, <1>12 DEF n, T

(* The places that GlobMatches computes.                                   *)
LEMMA GlobMatchesIs ==
    ASSUME NEW glob \in Seq(Chars), NEW s \in Seq(Chars)
    PROVE  \E f \in [1..(Len(glob) + 1) -> SUBSET (1..(Len(s) + 1))] :
              /\ \A i \in 1..(Len(glob) + 1) : f[i] = GlobPlaces(glob, s, i, f)
              /\ GlobMatches(glob, s) <=> 1 \in f[1]
<1> DEFINE n == Len(glob) + 1
           T == SUBSET (1..(Len(s) + 1))
           IsMatch(f) == f = [i \in 1..n |-> GlobPlaces(glob, s, i, f)]
           match == CHOOSE f : IsMatch(f)
           B == [p \in [1..n -> T] \X (1..n) |-> GlobPlaces(glob, s, p[2], p[1])]
<1>1. GlobMatches(glob, s) <=> 1 \in match[1]
  BY DEF GlobMatches
<1>2. n \in Nat \ {0} /\ Len(glob) \in Nat /\ Len(s) \in Nat /\ n = Len(glob) + 1
  OBVIOUS
<1> HIDE DEF n
<1>3. ASSUME NEW f, NEW i \in 1..n
      PROVE  /\ GlobPlaces(glob, s, i, f) \in T
             /\ \A g \in [1..n -> T] : (\A k \in 1..n : k > i => f[k] = g[k]) =>
                   GlobPlaces(glob, s, i, f) = GlobPlaces(glob, s, i, g)
  <2>1. CASE i > Len(glob)
    BY <1>2, <2>1 DEF GlobPlaces
  <2>2. CASE ~(i > Len(glob))
    <3>1. i + 1 \in 1..n /\ i + 1 > i
      BY <1>2, <2>2
    <3>2. ASSUME NEW g PROVE GlobPlaces(glob, s, i, g) \in T
      BY <1>2, <2>2 DEF GlobPlaces
    <3>3. ASSUME NEW g \in [1..n -> T], \A k \in 1..n : k > i => f[k] = g[k]
          PROVE  GlobPlaces(glob, s, i, f) = GlobPlaces(glob, s, i, g)
      <4>1. f[i + 1] = g[i + 1]
        BY <3>1, <3>3
      <4> QED
        BY <2>2, <4>1 DEF GlobPlaces
    <3> QED
      BY <3>2, <3>3
  <2> QED
    BY <1>2, <2>1, <2>2
<1> HIDE DEF T
<1>4. B \in Bodies(T, n)
  BY <1>3 DEF Bodies
<1>5. ASSUME NEW f \in [1..n -> T], NEW i \in 1..n PROVE B[<<f, i>>] = GlobPlaces(glob, s, i, f)
  OBVIOUS
<1>6. Later(T, n, B)
  <2>1. ASSUME NEW f \in [1..n -> T], NEW g \in [1..n -> T], NEW i \in 1..n,
               \A k \in 1..n : k > i => f[k] = g[k]
        PROVE  B[<<f, i>>] = B[<<g, i>>]
    <3>1. GlobPlaces(glob, s, i, f) = GlobPlaces(glob, s, i, g)
      BY <1>3, <2>1
    <3> HIDE DEF B
    <3> QED
      BY <1>5, <3>1
  <2> HIDE DEF B
  <2> QED
    BY <2>1 DEF Later
<1>7. T # {}
  BY DEF T
<1>8. \E f : IsMatch(f)
  <2>1. PICK f \in [1..n -> T] : \A i \in 1..n : f[i] = B[<<f, i>>]
    <3>1. n \in Nat
      BY <1>2
    <3> HIDE DEF B, match
    <3> QED
      BY <1>4, <1>6, <1>7, <3>1, Downward
  <2>2. \A i \in 1..n : f[i] = GlobPlaces(glob, s, i, f)
    BY <1>5, <2>1
  <2> QED
    BY <2>2
<1>9. IsMatch(match)
  <2> HIDE DEF IsMatch
  <2> QED
    BY <1>8
<1> HIDE DEF match
<1>10. match = [i \in 1..n |-> GlobPlaces(glob, s, i, match)]
  BY <1>9
<1>11. \A i \in 1..n : match[i] = GlobPlaces(glob, s, i, match) /\ match[i] \in T
  BY <1>3, <1>10
<1>12. match \in [1..n -> T]
  BY <1>10, <1>11
<1> QED
  BY <1>1, <1>11, <1>12 DEF n, T

(* What expand_char makes of a character.                                  *)
Expansion(c) ==
    CASE c \in {"*", "+"}                 -> <<".", c>>
      [] c \in {".", "[", "]", "(", ")"}  -> <<"\\", c>>
      [] c = "?"                          -> <<".">>
      [] OTHER                            -> <<c>>

(* It has one or two characters.                                           *)
LEMMA ExpansionIs ==
    ASSUME NEW c \in Chars
    PROVE  Expansion(c) \in Seq(Chars) /\ Len(Expansion(c)) \in 1..2
  BY RegexAssumption DEF Expansion

(* Emit writes cs after the text, unless it fails.                         *)
LEMMA EmitText ==
    ASSUME NEW b \in Buffers, NEW k \in Nat, NEW cs \in Seq(Chars)
    PROVE  /\ Emit(b, k, cs) \in Buffers
           /\ Emit(b, k, cs).ok => b.ok /\ Emit(b, k, cs).text = b.text \o cs
<1> DEFINE d == Emit(b, k, cs)
<1>1. /\ b.len \in Nat /\ b.ok \in BOOLEAN /\ b.text \in Seq(Chars)
      /\ b = [len |-> b.len, ok |-> b.ok, text |-> b.text]
  BY DEF Buffers
<1>2. CASE ~b.ok
  <2>1. d = b
    BY <1>2 DEF Emit
  <2> QED
    BY <1>2, <2>1
<1>3. CASE b.ok /\ b.len + k > UVM_REGEX_MAX_LENGTH
  <2>1. d = [len |-> b.len, ok |-> FALSE, text |-> b.text]
    BY <1>1, <1>3 DEF Emit
  <2> HIDE DEF d
  <2>2. d \in Buffers /\ ~d.ok
    BY <1>1, <2>1 DEF Buffers
  <2> QED
    BY <2>2 DEF d
<1>4. CASE b.ok /\ ~(b.len + k > UVM_REGEX_MAX_LENGTH)
  <2> DEFINE text == b.text \o cs
  <2>1. d = [len |-> b.len + k, ok |-> b.ok, text |-> text]
    BY <1>1, <1>4 DEF Emit
  <2>2. text \in Seq(Chars) /\ b.len + k \in Nat
    BY <1>1
  <2> HIDE DEF d, text
  <2>3. d \in Buffers /\ d.text = text
    BY <1>1, <2>1, <2>2 DEF Buffers
  <2> QED
    BY <1>4, <2>3 DEF d, text
<1> QED
  BY <1>1, <1>2, <1>3, <1>4

(* Copy writes a character.                                                *)
LEMMA CopyText ==
    ASSUME NEW b \in Buffers, NEW c \in Chars
    PROVE  /\ Copy(b, c) \in Buffers
           /\ Copy(b, c).ok => b.ok /\ Copy(b, c).text = b.text \o <<c>>
<1> DEFINE d == Copy(b, c)
<1>1. /\ b.len \in Nat /\ b.ok \in BOOLEAN /\ b.text \in Seq(Chars)
      /\ b = [len |-> b.len, ok |-> b.ok, text |-> b.text]
  BY DEF Buffers
<1>2. CASE ~b.ok
  <2>1. d = b
    BY <1>2 DEF Copy
  <2> QED
    BY <1>2, <2>1
<1>3. CASE b.ok
  <2> DEFINE text == Append(b.text, c)
  <2>1. d = [len |-> b.len, ok |-> b.ok, text |-> text]
    BY <1>1, <1>3 DEF Copy
  <2>2. text \in Seq(Chars) /\ text = b.text \o <<c>>
    BY <1>1
  <2> HIDE DEF d, text
  <2>3. d \in Buffers /\ d.text = text
    BY <1>1, <2>1, <2>2 DEF Buffers
  <2> QED
    BY <1>3, <2>2, <2>3 DEF d
<1> QED
  BY <1>1, <1>2, <1>3

(* expand_char writes the expansion.                                       *)
LEMMA ExpandCharText ==
    ASSUME NEW b \in Buffers, NEW c \in Chars
    PROVE  /\ expand_char(b, c) \in Buffers
           /\ expand_char(b, c).ok =>
                 b.ok /\ expand_char(b, c).text = b.text \o Expansion(c)
<1>1. "." \in Chars /\ "\\" \in Chars /\ 2 \in Nat
  BY RegexAssumption
<1>2. <<".", c>> \in Seq(Chars) /\ <<"\\", c>> \in Seq(Chars)
  BY <1>1
<1>3. CASE c \in {"*", "+"}
  <2>1. expand_char(b, c) = Emit(b, 2, <<".", c>>) /\ Expansion(c) = <<".", c>>
    BY <1>3 DEF expand_char, Expansion
  <2>2. /\ Emit(b, 2, <<".", c>>) \in Buffers
        /\ Emit(b, 2, <<".", c>>).ok =>
              b.ok /\ Emit(b, 2, <<".", c>>).text = b.text \o <<".", c>>
    BY <1>1, <1>2, EmitText
  <2> QED
    BY <2>1, <2>2
<1>4. CASE c \in {".", "[", "]", "(", ")"}
  <2>1. expand_char(b, c) = Emit(b, 2, <<"\\", c>>) /\ Expansion(c) = <<"\\", c>>
    BY <1>4 DEF expand_char, Expansion
  <2> QED
    BY <1>1, <1>2, <2>1, EmitText
<1>5. CASE c = "?"
  <2>1. expand_char(b, c) = Copy(b, ".") /\ Expansion(c) = <<".">>
    BY <1>5 DEF expand_char, Expansion
  <2>2. /\ Copy(b, ".") \in Buffers
        /\ Copy(b, ".").ok => b.ok /\ Copy(b, ".").text = b.text \o <<".">>
    BY <1>1, CopyText
  <2> QED
    BY <2>1, <2>2
<1>6. CASE c \notin {"*", "+", ".", "[", "]", "(", ")", "?"}
  <2>1. expand_char(b, c) = Copy(b, c) /\ Expansion(c) = <<c>>
    BY <1>6 DEF expand_char, Expansion
  <2> QED
    BY <2>1, CopyText
<1> QED
  BY <1>3, <1>4, <1>5, <1>6

(* What expand makes of a glob is the beginning and the expansions of its  *)
(* characters: T[k] is what there is after k of them.                      *)
Texted(glob, t0, T) ==
    /\ T \in [0..Len(glob) -> Seq(Chars)]
    /\ T[0] = t0
    /\ \A k \in 1..Len(glob) : T[k] = T[k - 1] \o Expansion(glob[k])

(* expand writes those of all characters.                                  *)
LEMMA ExpandText ==
    ASSUME NEW glob \in Seq(Chars), NEW b0 \in Buffers
    PROVE  /\ expand(glob, b0) \in Buffers
           /\ expand(glob, b0).ok =>
                 b0.ok /\ \E T : /\ Texted(glob, b0.text, T)
                                 /\ expand(glob, b0).text = T[Len(glob)]
<1> DEFINE n == Len(glob)
           IsLoop(r) == r = [i \in 0..n |->
                               IF i = 0 THEN b0 ELSE expand_char(r[i - 1], glob[i])]
           loop == CHOOSE r : IsLoop(r)
<1>1. expand(glob, b0) = loop[n]
  BY DEF expand
<1>2. n \in Nat /\ n \in 0..n /\ \A i \in 1..n : glob[i] \in Chars
  OBVIOUS
<1> HIDE DEF n
<1>3. \E r : IsLoop(r)
  <2> DEFINE st == [p \in (1..n) \X Buffers |-> expand_char(p[2], glob[p[1]])]
  <2>1. st \in Steps(Buffers, n)
    BY <1>2, ExpandCharText DEF Steps
  <2>2. \E f : f \in Computed(Buffers, b0, n, st)
    <3> HIDE DEF st
    <3> QED
      BY <1>2, <2>1, Recursion
  <2>3. PICK f \in [0..n -> Buffers] :
          f[0] = b0 /\ \A i \in 1..n : f[i] = st[<<i, f[i - 1]>>]
    BY <2>2 DEF Computed
  <2>4. ASSUME NEW i \in 0..n
        PROVE  f[i] = IF i = 0 THEN b0 ELSE expand_char(f[i - 1], glob[i])
    <3>1. CASE i = 0
      BY <2>3, <3>1
    <3>2. CASE i # 0
      <4>1. i \in 1..n /\ i - 1 \in 0..n
        BY <1>2, <3>2
      <4>2. f[i - 1] \in Buffers
        BY <4>1
      <4>3. st[<<i, f[i - 1]>>] = expand_char(f[i - 1], glob[i])
        BY <4>1, <4>2
      <4> HIDE DEF st
      <4> QED
        BY <2>3, <3>2, <4>1, <4>3
    <3> QED
      BY <3>1, <3>2
  <2>5. IsLoop(f)
    BY <2>3, <2>4
  <2> HIDE DEF IsLoop
  <2> QED
    BY <2>5
<1>4. IsLoop(loop)
  <2> HIDE DEF IsLoop
  <2> QED
    BY <1>3
<1>5. loop = [i \in 0..n |-> loop[i]]
  BY <1>4
<1> HIDE DEF loop
<1>6. loop[0] = b0 /\ \A i \in 1..n : loop[i] = expand_char(loop[i - 1], glob[i])
  BY <1>2, <1>4
<1> DEFINE S == {i \in 0..n : loop[i] \in Buffers}
<1>7. \A i \in 0..n : i \in S
  <2>1. 0 \in S
    BY <1>2, <1>6
  <2>2. ASSUME NEW i \in 1..n, i - 1 \in S PROVE i \in S
    <3>1. i \in 0..n
      BY <1>2
    <3> QED
      BY <1>2, <1>6, <2>2, <3>1, ExpandCharText
  <2> HIDE DEF S
  <2> QED
    BY <1>2, <2>1, <2>2, Induct
<1>8. ASSUME loop[n].ok
      PROVE  b0.ok /\ \E T : Texted(glob, b0.text, T) /\ loop[n].text = T[n]
  <2> DEFINE V == {i \in 0..n : loop[n - i].ok}
  <2>1. \A i \in 0..n : i \in V
    <3>1. 0 \in V
      BY <1>2, <1>8
    <3>2. ASSUME NEW i \in 1..n, i - 1 \in V PROVE i \in V
      <4>1. /\ n - (i - 1) \in 1..n /\ n - i = (n - (i - 1)) - 1 /\ i \in 0..n
            /\ n - i \in 0..n
        BY <1>2
      <4>2. loop[n - (i - 1)] = expand_char(loop[n - i], glob[n - (i - 1)])
        BY <1>6, <4>1
      <4>3. loop[n - i] \in Buffers /\ glob[n - (i - 1)] \in Chars
        BY <1>2, <1>7, <4>1
      <4> QED
        BY <3>2, <4>1, <4>2, <4>3, ExpandCharText
    <3> HIDE DEF V
    <3> QED
      BY <1>2, <3>1, <3>2, Induct
  <2>2. \A i \in 0..n : loop[i].ok
    <3> TAKE i \in 0..n
    <3>1. n - i \in 0..n /\ n - (n - i) = i
      BY <1>2
    <3> QED
      BY <2>1, <3>1
  <2> DEFINE T == [i \in 0..n |-> loop[i].text]
  <2>3. \A i \in 0..n : loop[i].text \in Seq(Chars)
    BY <1>7 DEF Buffers
  <2>4. T \in [0..n -> Seq(Chars)] /\ T[0] = b0.text /\ T[n] = loop[n].text
    BY <1>2, <1>6, <2>3
  <2>5. ASSUME NEW k \in 1..n PROVE T[k] = T[k - 1] \o Expansion(glob[k])
    <3>1. k \in 0..n /\ k - 1 \in 0..n
      BY <1>2
    <3>2. loop[k - 1] \in Buffers /\ loop[k] = expand_char(loop[k - 1], glob[k]) /\ loop[k].ok
      BY <1>6, <1>7, <2>2, <3>1
    <3>3. loop[k].text = loop[k - 1].text \o Expansion(glob[k])
      BY <1>2, <3>2, ExpandCharText
    <3> QED
      BY <3>1, <3>3
  <2> HIDE DEF T
  <2>6. Texted(glob, b0.text, T)
    BY <2>4, <2>5 DEF Texted, n
  <2> QED
    BY <1>2, <1>6, <2>2, <2>4, <2>6
<1> QED
  BY <1>1, <1>2, <1>7, <1>8 DEF n

(* The characters of the globs that ResultRight is about.                  *)
Plain == Chars \ {"^", "$", "\\", "/"}

(* The text after k characters is a beginning of the whole.                *)
LEMMA TextedIs ==
    ASSUME NEW glob \in Seq(Chars), NEW t0, NEW T, Texted(glob, t0, T)
    PROVE  \A k \in 0..Len(glob) :
              /\ Len(T[k]) <= Len(T[Len(glob)])
              /\ \A x \in 1..Len(T[k]) : T[Len(glob)][x] = T[k][x]
<1> DEFINE g == Len(glob)
<1>1. g \in Nat /\ g \in 0..g /\ \A k \in 1..g : glob[k] \in Chars /\ k \in 0..g /\ k - 1 \in 0..g
  OBVIOUS
<1>2. \A k \in 0..g : T[k] \in Seq(Chars) /\ Len(T[k]) \in Nat
  BY DEF Texted
<1>3. \A k \in 1..g : T[k] = T[k - 1] \o Expansion(glob[k])
  BY DEF Texted
<1>4. \A k \in 1..g : Expansion(glob[k]) \in Seq(Chars)
  BY <1>1, ExpansionIs
<1> DEFINE S == {m \in 0..g : \A k \in 0..m :
                    /\ Len(T[k]) <= Len(T[m])
                    /\ \A x \in 1..Len(T[k]) : T[m][x] = T[k][x]}
<1> HIDE DEF g
<1>5. 0 \in S
  BY <1>1, <1>2
<1>6. ASSUME NEW m \in 1..g, m - 1 \in S PROVE m \in S
  <2>1. m \in 0..g /\ m - 1 \in 0..g
    BY <1>1
  <2> DEFINE u == T[m - 1]
             w == T[m]
  <2>2. /\ u \in Seq(Chars) /\ w \in Seq(Chars) /\ Len(u) <= Len(w)
        /\ \A x \in 1..Len(u) : w[x] = u[x]
    <3>1. u \in Seq(Chars) /\ w \in Seq(Chars) /\ w = u \o Expansion(glob[m])
      BY <1>2, <1>3, <2>1
    <3>2. Expansion(glob[m]) \in Seq(Chars)
      BY <1>4
    <3> HIDE DEF u, w
    <3> QED
      BY <3>1, <3>2
  <2>3. ASSUME NEW k \in 0..m
        PROVE  /\ Len(T[k]) <= Len(w)
               /\ \A x \in 1..Len(T[k]) : w[x] = T[k][x]
    <3>1. CASE k = m
      BY <1>2, <2>1, <3>1
    <3>2. CASE k # m
      <4>1. k \in 0..(m - 1)
        BY <1>1, <3>2
      <4>2. Len(T[k]) <= Len(u) /\ \A x \in 1..Len(T[k]) : u[x] = T[k][x]
        BY <1>6, <4>1
      <4>3. k \in 0..g
        BY <1>1, <2>1
      <4>4. Len(T[k]) \in Nat /\ Len(u) \in Nat /\ Len(w) \in Nat
        BY <1>2, <2>2, <4>3
      <4> HIDE DEF u, w
      <4> QED
        BY <2>2, <4>2, <4>4
    <3> QED
      BY <3>1, <3>2
  <2> QED
    BY <2>1, <2>3
<1>7. \A m \in 0..g : m \in S
  <2> HIDE DEF S
  <2> QED
    BY <1>1, <1>5, <1>6, Induct
<1>8. g \in S
  <2> HIDE DEF S
  <2> QED
    BY <1>1, <1>7
<1> QED
  BY <1>8 DEF g

(* Two sequences of one character, one after the other.                    *)
LEMMA TwoCharacters ==
    ASSUME NEW x \in Chars, NEW y \in Chars
    PROVE  <<x>> \o <<y>> = <<x, y>>
<1> DEFINE u == <<x>>
           w == <<y>>
           uw == u \o w
           xy == <<x, y>>
<1>1. u \in Seq(Chars) /\ w \in Seq(Chars) /\ Len(u) = 1 /\ Len(w) = 1 /\ u[1] = x /\ w[1] = y
  OBVIOUS
<1>2. xy \in Seq(Chars) /\ Len(xy) = 2 /\ xy[1] = x /\ xy[2] = y
  OBVIOUS
<1>3. uw \in Seq(Chars) /\ Len(uw) = 2 /\ uw[1] = x /\ uw[2] = y
  <2> HIDE DEF u, w
  <2>1. /\ u \o w \in Seq(Chars)
        /\ Len(u \o w) = Len(u) + Len(w)
        /\ \A i \in 1 .. Len(u) + Len(w) : (u \o w)[i] =
                     IF i <= Len(u) THEN u[i] ELSE w[i - Len(u)]
    BY <1>1, ConcatProperties
  <2> HIDE DEF uw
  <2>2. /\ uw \in Seq(Chars)
        /\ Len(uw) = 2
        /\ \A i \in 1..2 : uw[i] = IF i <= 1 THEN u[i] ELSE w[i - 1]
    BY <1>1, <2>1 DEF uw
  <2>3. uw[1] = u[1] /\ uw[2] = w[1]
    BY <2>2
  <2> QED
    BY <1>1, <2>2, <2>3
<1> HIDE DEF uw, xy
<1>4. Len(uw) = Len(xy) /\ \A i \in 1..Len(uw) : uw[i] = xy[i]
  <2>1. \A i \in 1..2 : i = 1 \/ i = 2
    OBVIOUS
  <2> QED
    BY <1>2, <1>3, <2>1
<1>5. uw = xy
  BY <1>2, <1>3, <1>4, SeqEqual
<1> QED
  BY <1>5 DEF uw, xy

(* What is made of a glob of plain characters.                             *)
LEMMA DeglobText ==
    ASSUME NEW glob \in Seq(Plain), uvm_re_deglobbed(glob, FALSE).ok
    PROVE  \E T : /\ Texted(glob, <<"^">>, T)
                  /\ uvm_re_deglobbed(glob, FALSE).text = T[Len(glob)] \o <<"$">>
<1> DEFINE g == Len(glob)
           d == uvm_re_deglobbed(glob, FALSE)
<1>1. glob \in Seq(Chars) /\ g \in Nat /\ \A k \in 1..g : glob[k] \in Plain
  BY DEF Plain
<1>2. "^" \in Chars /\ "$" \in Chars /\ "." \in Chars
  BY RegexAssumption
<1>3. CASE glob = <<>>
  <2> DEFINE T == [k \in 0..0 |-> <<"^">>]
  <2>1. d.text = <<"^", "$">>
    BY <1>3 DEF uvm_re_deglobbed, Result
  <2>2. <<"^">> \in Seq(Chars) /\ <<"^">> \o <<"$">> = <<"^", "$">> /\ Len(glob) = 0
    BY <1>2, <1>3, TwoCharacters
  <2>3. T \in [0..0 -> Seq(Chars)] /\ T[0] = <<"^">>
    BY <2>2
  <2> HIDE DEF T, d
  <2>4. Texted(glob, <<"^">>, T)
    BY <2>2, <2>3 DEF Texted
  <2>5. d.text = T[Len(glob)] \o <<"$">>
    BY <2>1, <2>2, <2>3
  <2> QED
    BY <2>4, <2>5 DEF d
<1>4. CASE glob # <<>>
  <2>1. g \in Nat \ {0} /\ 1 \in 1..g /\ g \in 1..g /\ g - 1 \in 0..g
    BY <1>4
  <2>2. glob[1] \notin {"^", "/"} /\ glob[g] # "$"
    BY <1>1, <2>1 DEF Plain
  <2> DEFINE opened == [len |-> g, ok |-> TRUE, text |-> <<>>]
             caret == Emit(opened, 1, <<"^">>)
             body == expand(glob, caret)
             dollar == Emit(body, 1, <<"$">>)
             last == body.ok /\ body.text[Len(body.text)] = "$"
             whole == Emit(IF last THEN body ELSE dollar, 1, <<>>)
  <2>3. d = Result(whole.ok, whole.text)
    <3>1. glob # <<"/">> /\ ~Bracketed(glob)
      BY <2>2 DEF Bracketed
    <3>2. deglob(glob, FALSE) = whole
      BY <2>2 DEF deglob
    <3> HIDE DEF whole
    <3> QED
      BY <1>4, <3>1, <3>2 DEF uvm_re_deglobbed
  <2>4. whole.ok /\ d.text = whole.text
    <3>1. d.ok
      OBVIOUS
    <3> HIDE DEF d, whole
    <3> QED
      BY <2>3, <3>1 DEF Result
  <2>5. opened \in Buffers /\ opened.text = <<>>
    BY <1>1 DEF Buffers
  <2>6. <<"^">> \in Seq(Chars) /\ <<"$">> \in Seq(Chars) /\ <<>> \in Seq(Chars)
        /\ <<>> \o <<"^">> = <<"^">> /\ 1 \in Nat
    BY <1>2
  <2>7. caret \in Buffers /\ (caret.ok => caret.text = <<"^">>)
    <3> HIDE DEF opened
    <3>1. /\ caret \in Buffers
          /\ caret.ok => caret.text = opened.text \o <<"^">>
      BY <2>5, <2>6, EmitText
    <3> HIDE DEF caret
    <3> QED
      BY <2>5, <2>6, <3>1
  <2> HIDE DEF opened, caret
  <2>8. /\ body \in Buffers
        /\ body.ok => caret.ok /\ \E T : Texted(glob, caret.text, T) /\ body.text = T[g]
    BY <1>1, <2>7, ExpandText
  <2> HIDE DEF body
  <2>9. dollar \in Buffers /\ (dollar.ok => body.ok /\ dollar.text = body.text \o <<"$">>)
    BY <2>6, <2>8, EmitText
  <2> HIDE DEF dollar
  <2>10. /\ last \/ dollar.ok
         /\ d.text = IF last THEN body.text ELSE dollar.text
    <3> DEFINE b == IF last THEN body ELSE dollar
    <3>1. b \in Buffers
      BY <2>8, <2>9
    <3> HIDE DEF b
    <3>2. whole.ok => b.ok /\ whole.text = b.text \o <<>>
      BY <2>6, <3>1, EmitText DEF b
    <3>3. b.text \in Seq(Chars)
      BY <3>1 DEF Buffers
    <3>4. b.ok /\ d.text = b.text
      <4> HIDE DEF whole, d
      <4> QED
        BY <2>4, <3>2, <3>3
    <3> HIDE DEF d, whole
    <3> QED
      BY <3>4 DEF b
  <2> HIDE DEF whole, d
  <2>11. body.ok
    BY <2>9, <2>10 DEF last
  <2>12. PICK T : Texted(glob, <<"^">>, T) /\ body.text = T[g]
    BY <2>7, <2>8, <2>11
  <2>13. ~last
    <3> DEFINE u == T[g - 1]
               w == Expansion(glob[g])
    <3>1. u \in Seq(Chars) /\ T[g] = u \o w
      BY <2>1, <2>12 DEF Texted
    <3>2. glob[g] \in Chars
      BY <1>1, <2>1
    <3>3. w \in Seq(Chars) /\ Len(w) \in 1..2
      BY <3>2, ExpansionIs
    <3>4. w[Len(w)] # "$"
      BY <2>2 DEF Expansion
    <3> HIDE DEF u, w
    <3>5. T[g][Len(T[g])] = w[Len(w)]
      <4>1. Len(u) \in Nat /\ Len(w) \in Nat \ {0} /\ Len(T[g]) = Len(u) + Len(w)
        <5>1. Len(u \o w) = Len(u) + Len(w) /\ Len(u) \in Nat
          BY <3>1, <3>3
        <5>2. Len(w) \in Nat \ {0}
          <6>1. \A k \in 1..2 : k \in Nat \ {0}
            OBVIOUS
          <6> QED
            BY <3>3, <6>1, Zenon
        <5> QED
          BY <3>1, <5>1, <5>2
      <4>2. \A x \in 1..(Len(u) + Len(w)) : x > Len(u) => T[g][x] = w[x - Len(u)]
        BY <3>1, <3>3
      <4>3. Len(u) + Len(w) \in 1..(Len(u) + Len(w)) /\ Len(u) + Len(w) > Len(u)
            /\ (Len(u) + Len(w)) - Len(u) = Len(w)
        BY <4>1
      <4> QED
        BY <4>1, <4>2, <4>3
    <3> QED
      BY <2>12, <3>4, <3>5 DEF last
  <2>14. d.text = T[g] \o <<"$">>
    BY <2>9, <2>10, <2>12, <2>13
  <2> QED
    BY <2>12, <2>14 DEF d
<1> QED
  BY <1>3, <1>4

(* Where the text t has the characters of the glob: that of the k-th from  *)
(* P[k] on.                                                                *)
Layout(t, glob, P) ==
    /\ t \in Seq(Chars) /\ P \in [1..(Len(glob) + 1) -> Nat]
    /\ t[1] = "^" /\ P[1] = 2 /\ P[Len(glob) + 1] = Len(t) /\ t[Len(t)] = "$"
    /\ \A k \in 1..Len(glob) :
          /\ 2 <= P[k] /\ P[k + 1] <= Len(t)
          /\ P[k + 1] = P[k] + Len(Expansion(glob[k]))
          /\ \A x \in 1..Len(Expansion(glob[k])) :
                t[P[k] + x - 1] = Expansion(glob[k])[x]

(* A deglobbed glob has such a layout.                                     *)
LEMMA LayoutExists ==
    ASSUME NEW glob \in Seq(Chars), NEW T, Texted(glob, <<"^">>, T), NEW t,
           t = T[Len(glob)] \o <<"$">>
    PROVE  \E P : Layout(t, glob, P)
<1> DEFINE g == Len(glob)
           P == [k \in 1..(g + 1) |-> Len(T[k - 1]) + 1]
           w(k) == Expansion(glob[k])
<1>1. g \in Nat /\ g \in 0..g /\ 0 \in 0..g
      /\ \A k \in 1..g : glob[k] \in Chars /\ k \in 0..g /\ k - 1 \in 0..g
  OBVIOUS
<1>2. \A k \in 0..g : T[k] \in Seq(Chars) /\ Len(T[k]) \in Nat
  BY DEF Texted
<1>3. \A k \in 1..g : T[k] = T[k - 1] \o w(k)
  BY DEF Texted
<1>4. \A k \in 1..g : w(k) \in Seq(Chars) /\ Len(w(k)) \in Nat
  BY <1>1, ExpansionIs
<1>5. \A k \in 0..g : /\ Len(T[k]) <= Len(T[g])
                      /\ \A x \in 1..Len(T[k]) : T[g][x] = T[k][x]
  BY TextedIs
<1>6. Len(T[0]) = 1 /\ T[0][1] = "^"
  <2>1. T[0] = <<"^">>
    BY DEF Texted
  <2>2. Len(<<"^">>) = 1 /\ <<"^">>[1] = "^"
    OBVIOUS
  <2> QED
    BY <2>1, <2>2
<1> HIDE DEF g, w
<1>7. ASSUME NEW k \in 1..g
      PROVE  /\ Len(T[k]) = Len(T[k - 1]) + Len(w(k))
             /\ \A x \in 1..Len(w(k)) : T[k][Len(T[k - 1]) + x] = w(k)[x]
  <2> DEFINE u == T[k - 1]
             v == w(k)
             uv == T[k]
  <2>1. u \in Seq(Chars) /\ v \in Seq(Chars) /\ uv = u \o v
    BY <1>1, <1>2, <1>3, <1>4
  <2> HIDE DEF u, v, uv
  <2>2. /\ Len(uv) = Len(u) + Len(v)
        /\ \A i \in 1 .. Len(u) + Len(v) : uv[i] =
                IF i <= Len(u) THEN u[i] ELSE v[i - Len(u)]
    BY <2>1, ConcatProperties
  <2>3. ASSUME NEW x \in 1..Len(v) PROVE uv[Len(u) + x] = v[x]
    <3>1. Len(u) \in Nat /\ Len(v) \in Nat
      BY <2>1
    <3>2. Len(u) + x \in 1 .. Len(u) + Len(v) /\ ~(Len(u) + x <= Len(u))
          /\ (Len(u) + x) - Len(u) = x
      BY <3>1
    <3> QED
      BY <2>2, <3>2
  <2> QED
    BY <2>2, <2>3 DEF u, v, uv
<1>8. \A k \in 0..g : Len(T[k]) >= 1
  <2> DEFINE S == {k \in 0..g : Len(T[k]) >= 1}
  <2>1. 0 \in S
    BY <1>1, <1>6
  <2>2. ASSUME NEW k \in 1..g, k - 1 \in S PROVE k \in S
    <3>1. k \in 0..g /\ k - 1 \in 0..g
      BY <1>1
    <3> QED
      BY <1>2, <1>4, <1>7, <2>2, <3>1
  <2>3. \A k \in 0..g : k \in S
    <3> HIDE DEF S
    <3> QED
      BY <1>1, <2>1, <2>2, Induct
  <2> QED
    BY <2>3
<1>9. /\ t \in Seq(Chars) /\ Len(t) = Len(T[g]) + 1 /\ t[Len(t)] = "$"
      /\ \A x \in 1..Len(T[g]) : t[x] = T[g][x]
  <2> DEFINE u == T[g]
             v == <<"$">>
  <2>1. u \in Seq(Chars) /\ v \in Seq(Chars) /\ t = u \o v /\ Len(v) = 1 /\ v[1] = "$"
    BY <1>1, <1>2, RegexAssumption DEF g
  <2> HIDE DEF u, v
  <2>2. /\ t \in Seq(Chars)
        /\ Len(t) = Len(u) + Len(v)
        /\ \A i \in 1 .. Len(u) + Len(v) : t[i] =
                IF i <= Len(u) THEN u[i] ELSE v[i - Len(u)]
    <3>1. /\ u \o v \in Seq(Chars)
          /\ Len(u \o v) = Len(u) + Len(v)
          /\ \A i \in 1 .. Len(u) + Len(v) : (u \o v)[i] =
                  IF i <= Len(u) THEN u[i] ELSE v[i - Len(u)]
      BY <2>1, ConcatProperties
    <3> QED
      BY <2>1, <3>1
  <2>3. Len(u) \in Nat /\ Len(u) + 1 \in 1 .. Len(u) + 1 /\ ~(Len(u) + 1 <= Len(u))
        /\ (Len(u) + 1) - Len(u) = 1
    BY <2>1
  <2>4. Len(t) = Len(u) + 1 /\ t[Len(u) + 1] = "$"
    BY <2>1, <2>2, <2>3
  <2>5. \A x \in 1..Len(u) : t[x] = u[x]
    BY <2>1, <2>2, <2>3
  <2> QED
    BY <2>2, <2>4, <2>5 DEF u
<1>10. \A k \in 1..(g + 1) : k - 1 \in 0..g
  BY <1>1
<1>11. P \in [1..(g + 1) -> Nat]
  BY <1>2, <1>10
<1>12. ASSUME NEW k \in 0..g PROVE P[k + 1] = Len(T[k]) + 1
  <2>1. k + 1 \in 1..(g + 1) /\ (k + 1) - 1 = k
    BY <1>1
  <2> QED
    BY <2>1
<1>13. ASSUME NEW k \in 1..g PROVE P[k] = Len(T[k - 1]) + 1
  BY <1>1
<1> HIDE DEF P
<1>14. P[1] = 2 /\ P[g + 1] = Len(t) /\ t[1] = "^"
  <2>1. Len(T[0]) = 1 /\ T[0][1] = "^" /\ P[1] = Len(T[0]) + 1
    <3>1. P[0 + 1] = Len(T[0]) + 1 /\ 0 + 1 = 1
      BY <1>1, <1>12
    <3> QED
      BY <1>6, <3>1
  <2>2. 1 \in 1..Len(T[0]) /\ 1 \in 1..Len(T[g])
    BY <1>1, <1>2, <1>8, <2>1
  <2>3. t[1] = T[g][1] /\ T[g][1] = T[0][1]
    BY <1>1, <1>5, <1>9, <2>2
  <2>4. P[g + 1] = Len(t)
    BY <1>1, <1>9, <1>12
  <2> QED
    BY <2>1, <2>3, <2>4
<1>15. ASSUME NEW k \in 1..g
       PROVE  /\ 2 <= P[k] /\ P[k + 1] <= Len(t)
              /\ P[k + 1] = P[k] + Len(w(k))
              /\ \A x \in 1..Len(w(k)) : t[P[k] + x - 1] = w(k)[x]
  <2>1. k \in 0..g /\ k - 1 \in 0..g
    BY <1>1
  <2>2. /\ P[k] = Len(T[k - 1]) + 1 /\ P[k + 1] = Len(T[k]) + 1
        /\ Len(T[k]) = Len(T[k - 1]) + Len(w(k))
    BY <1>7, <1>12, <1>13, <2>1
  <2>3. /\ Len(T[k]) \in Nat /\ Len(T[k - 1]) \in Nat /\ Len(w(k)) \in Nat
        /\ Len(T[g]) \in Nat /\ Len(T[k - 1]) >= 1 /\ Len(T[k]) <= Len(T[g])
    BY <1>1, <1>2, <1>4, <1>5, <1>8, <2>1
  <2>4. 2 <= P[k] /\ P[k + 1] <= Len(t) /\ P[k + 1] = P[k] + Len(w(k))
    BY <1>9, <2>2, <2>3
  <2>5. ASSUME NEW x \in 1..Len(w(k)) PROVE t[P[k] + x - 1] = w(k)[x]
    <3> DEFINE i == Len(T[k - 1]) + x
    <3>1. i = P[k] + x - 1 /\ i \in 1..Len(T[k]) /\ i \in 1..Len(T[g])
      BY <2>2, <2>3
    <3>2. T[k][i] = w(k)[x]
      BY <1>7
    <3> HIDE DEF i
    <3>3. t[i] = T[g][i] /\ T[g][i] = T[k][i]
      BY <1>5, <1>9, <2>1, <3>1
    <3> QED
      BY <3>1, <3>2, <3>3
  <2> QED
    BY <2>4, <2>5
<1>16. Layout(t, glob, P)
  BY <1>9, <1>11, <1>14, <1>15 DEF Layout, g, w
<1> QED
  BY <1>16

(* Layout gives the first characters of each place.                        *)
LEMMA LayoutAt ==
    ASSUME NEW glob \in Seq(Plain), NEW t, NEW P, Layout(t, glob, P)
    PROVE  /\ \A k \in 1..Len(glob) :
                 LET c == glob[k]
                     p == P[k]
                 IN  /\ c \in {"*", "+"} => P[k + 1] = p + 2 /\ t[p] = "." /\ t[p + 1] = c
                     /\ c \in {".", "[", "]", "(", ")"} =>
                           P[k + 1] = p + 2 /\ t[p] = "\\" /\ t[p + 1] = c
                     /\ c = "?" => P[k + 1] = p + 1 /\ t[p] = "."
                     /\ c \notin {"*", "+", ".", "[", "]", "(", ")", "?"} =>
                           P[k + 1] = p + 1 /\ t[p] = c
           /\ \A k \in 1..(Len(glob) + 1) : t[P[k]] \notin {"*", "+", "^"}
<1> DEFINE g == Len(glob)
<1>1. g \in Nat /\ \A k \in 1..g : glob[k] \in Plain /\ k \in 1..(g + 1)
  OBVIOUS
<1>2. ASSUME NEW k \in 1..g
      PROVE  /\ P[k] \in Nat
             /\ P[k + 1] = P[k] + Len(Expansion(glob[k]))
             /\ t[P[k]] = Expansion(glob[k])[1]
             /\ Len(Expansion(glob[k])) = 2 => t[P[k] + 1] = Expansion(glob[k])[2]
  <2> DEFINE w == Expansion(glob[k])
  <2>1. P[k] \in Nat
    BY <1>1 DEF Layout
  <2>2. P[k + 1] = P[k] + Len(w) /\ \A x \in 1..Len(w) : t[P[k] + x - 1] = w[x]
    BY DEF Layout
  <2>3. Len(w) \in 1..2
    BY <1>1, ExpansionIs DEF Plain
  <2> HIDE DEF w
  <2>4. P[k] + 1 - 1 = P[k] /\ P[k] + 2 - 1 = P[k] + 1
    BY <2>1
  <2>5. t[P[k]] = w[1]
    <3>1. 1 \in 1..Len(w)
      BY <2>3
    <3> QED
      BY <2>2, <2>4, <3>1
  <2>6. Len(w) = 2 => t[P[k] + 1] = w[2]
    <3>1. Len(w) = 2 => 2 \in 1..Len(w)
      OBVIOUS
    <3> QED
      BY <2>2, <2>4, <3>1
  <2> QED
    BY <2>1, <2>2, <2>5, <2>6 DEF w
<1>3. ASSUME NEW k \in 1..g
      PROVE  /\ glob[k] \in {"*", "+"} =>
                   P[k + 1] = P[k] + 2 /\ t[P[k]] = "." /\ t[P[k] + 1] = glob[k]
             /\ glob[k] \in {".", "[", "]", "(", ")"} =>
                   P[k + 1] = P[k] + 2 /\ t[P[k]] = "\\" /\ t[P[k] + 1] = glob[k]
             /\ glob[k] = "?" => P[k + 1] = P[k] + 1 /\ t[P[k]] = "."
             /\ glob[k] \notin {"*", "+", ".", "[", "]", "(", ")", "?"} =>
                   P[k + 1] = P[k] + 1 /\ t[P[k]] = glob[k]
  <2> DEFINE c == glob[k]
             w == Expansion(c)
  <2>1. CASE c \in {"*", "+"}
    <3>1. w = <<".", c>>
      BY <2>1 DEF Expansion
    <3>2. Len(w) = 2 /\ w[1] = "." /\ w[2] = c
      BY <3>1
    <3> HIDE DEF w
    <3>3. P[k + 1] = P[k] + 2 /\ t[P[k]] = "." /\ t[P[k] + 1] = c
      BY <1>2, <3>2 DEF w
    <3> QED
      BY <2>1, <3>3
  <2>2. CASE c \in {".", "[", "]", "(", ")"}
    <3>1. w = <<"\\", c>>
      BY <2>2 DEF Expansion
    <3>2. Len(w) = 2 /\ w[1] = "\\" /\ w[2] = c
      BY <3>1
    <3> HIDE DEF w
    <3>3. P[k + 1] = P[k] + 2 /\ t[P[k]] = "\\" /\ t[P[k] + 1] = c
      BY <1>2, <3>2 DEF w
    <3> QED
      BY <2>2, <3>3
  <2>3. CASE c = "?"
    <3>1. w = <<".">>
      BY <2>3 DEF Expansion
    <3>2. Len(w) = 1 /\ w[1] = "."
      BY <3>1
    <3> HIDE DEF w
    <3>3. P[k + 1] = P[k] + 1 /\ t[P[k]] = "."
      BY <1>2, <3>2 DEF w
    <3> QED
      BY <2>3, <3>3
  <2>4. CASE c \notin {"*", "+", ".", "[", "]", "(", ")", "?"}
    <3>1. w = <<c>>
      BY <2>4 DEF Expansion
    <3>2. Len(w) = 1 /\ w[1] = c
      BY <3>1
    <3> HIDE DEF w
    <3>3. P[k + 1] = P[k] + 1 /\ t[P[k]] = c
      BY <1>2, <3>2 DEF w
    <3> QED
      BY <2>4, <3>3
  <2> QED
    BY <2>1, <2>2, <2>3, <2>4
<1>4. ASSUME NEW k \in 1..(g + 1) PROVE t[P[k]] \notin {"*", "+", "^"}
  <2>1. CASE k = g + 1
    <3>1. P[g + 1] = Len(t) /\ t[Len(t)] = "$"
      BY DEF Layout
    <3> QED
      BY <2>1, <3>1
  <2>2. CASE k # g + 1
    <3>1. k \in 1..g
      BY <1>1, <2>2
    <3>2. glob[k] # "^"
      BY <1>1, <3>1 DEF Plain
    <3> QED
      BY <1>3, <3>1, <3>2
  <2> QED
    BY <2>1, <2>2
<1> QED
  BY <1>3, <1>4

(* At the k-th character the places of the expression are those of the     *)
(* glob, where they are so at the next.                                    *)
SamePlaces(t, glob, P, s, f, h, k) ==
    f[P[k + 1]] = h[k + 1] => Places(t, s, P[k], f) = GlobPlaces(glob, s, k, h)

(* So has the place of a character of the glob.                            *)
LEMMA PlacesAt ==
    ASSUME NEW glob \in Seq(Plain), NEW t, NEW P, Layout(t, glob, P), NEW s \in Seq(Chars),
           NEW f, NEW h, NEW k \in 1..Len(glob)
    PROVE  SamePlaces(t, glob, P, s, f, h, k)
<1> SUFFICES ASSUME f[P[k + 1]] = h[k + 1]
             PROVE  Places(t, s, P[k], f) = GlobPlaces(glob, s, k, h)
  BY DEF SamePlaces
<1> DEFINE p == P[k]
           c == glob[k]
           e == Len(s) + 1
           n == Len(t)
<1>1. /\ Len(glob) \in Nat /\ k \in 1..(Len(glob) + 1) /\ k + 1 \in 1..(Len(glob) + 1)
      /\ ~(k > Len(glob)) /\ c \in Plain
  OBVIOUS
<1>2. /\ p \in Nat /\ P[k + 1] \in Nat /\ P[k + 1] <= n /\ n \in Nat /\ t \in Seq(Chars)
  <2>1. P \in [1..(Len(glob) + 1) -> Nat] /\ t \in Seq(Chars)
    BY DEF Layout
  <2>2. P[k + 1] <= n
    BY DEF Layout
  <2>3. p \in Nat /\ P[k + 1] \in Nat
    BY <1>1, <2>1
  <2>4. n \in Nat
    BY <2>1
  <2> HIDE DEF p, n
  <2> QED
    BY <2>1, <2>2, <2>3, <2>4
<1>3. /\ c \in {"*", "+"} => P[k + 1] = p + 2 /\ t[p] = "." /\ t[p + 1] = c
      /\ c \in {".", "[", "]", "(", ")"} =>
            P[k + 1] = p + 2 /\ t[p] = "\\" /\ t[p + 1] = c
      /\ c = "?" => P[k + 1] = p + 1 /\ t[p] = "."
      /\ c \notin {"*", "+", ".", "[", "]", "(", ")", "?"} =>
            P[k + 1] = p + 1 /\ t[p] = c
  BY LayoutAt
<1>4. t[P[k + 1]] \notin {"*", "+"}
  BY <1>1, LayoutAt
<1> HIDE DEF p, c, n
<1>5. ~(p > n) /\ t[p] \notin {"^", "$"}
  <2>1. p + 1 <= P[k + 1]
    BY <1>2, <1>3
  <2>2. c \notin {"^", "$"}
    BY <1>1 DEF Plain
  <2> QED
    BY <1>2, <1>3, <2>1, <2>2
<1>6. CASE c \in {"*", "+"}
  <2>1. /\ ~Escaped(t, p) /\ PastAtom(t, p) = p + 1 /\ Quantifier(t, p) = c
        /\ \A x : Fits(t, p, x)
    <3>1. ~Escaped(t, p)
      BY <1>3, <1>6 DEF Escaped
    <3>2. PastAtom(t, p) = p + 1
      BY <3>1 DEF PastAtom
    <3>3. Quantifier(t, p) = c
      <4>1. p + 1 <= Len(t)
        BY <1>2, <1>3, <1>6 DEF n
      <4> QED
        BY <1>3, <1>6, <3>2, <4>1 DEF Quantifier
    <3>4. \A x : Fits(t, p, x)
      BY <1>3, <1>6, <3>1 DEF Fits
    <3> QED
      BY <3>1, <3>2, <3>3, <3>4
  <2>2. f[PastAtom(t, p) + 1] = h[k + 1]
    BY <1>2, <1>3, <1>6, <2>1
  <2>3. CASE c = "*"
    <3>1. Places(t, s, p, f) =
            {j \in 1..e : \E i \in j..e :
                 (\A l \in j..(i - 1) : Fits(t, p, s[l])) /\ i \in f[PastAtom(t, p) + 1]}
      BY <1>5, <2>1, <2>3 DEF Places, n
    <3>2. GlobPlaces(glob, s, k, h) = {j \in 1..e : \E i \in j..e : i \in h[k + 1]}
      BY <1>1, <2>3 DEF GlobPlaces, c
    <3> QED
      BY <2>1, <2>2, <3>1, <3>2 DEF p
  <2>4. CASE c = "+"
    <3>1. Places(t, s, p, f) =
            {j \in 1..e : \E i \in (j + 1)..e :
                 (\A l \in j..(i - 1) : Fits(t, p, s[l])) /\ i \in f[PastAtom(t, p) + 1]}
      BY <1>5, <2>1, <2>4 DEF Places, n
    <3>2. GlobPlaces(glob, s, k, h) = {j \in 1..e : \E i \in (j + 1)..e : i \in h[k + 1]}
      BY <1>1, <2>4 DEF GlobPlaces, c
    <3> QED
      BY <2>1, <2>2, <3>1, <3>2 DEF p
  <2> QED
    BY <1>6, <2>3, <2>4
<1>7. CASE c \notin {"*", "+"}
  <2>1. /\ PastAtom(t, p) = P[k + 1]
        /\ \A x : Fits(t, p, x) <=> c \in {"?", x}
    <3>1. CASE c \in {".", "[", "]", "(", ")"}
      <4>1. Escaped(t, p)
        BY <1>2, <1>3, <3>1 DEF Escaped, n
      <4>2. PastAtom(t, p) = P[k + 1]
        BY <1>3, <3>1, <4>1 DEF PastAtom
      <4>3. \A x : Fits(t, p, x) <=> c \in {"?", x}
        BY <1>3, <3>1, <4>1 DEF Fits
      <4> QED
        BY <4>2, <4>3
    <3>2. CASE c = "?"
      <4>1. ~Escaped(t, p)
        BY <1>3, <3>2 DEF Escaped
      <4>2. PastAtom(t, p) = P[k + 1]
        BY <1>3, <3>2, <4>1 DEF PastAtom
      <4>3. \A x : Fits(t, p, x) <=> c \in {"?", x}
        BY <1>3, <3>2, <4>1 DEF Fits
      <4> QED
        BY <4>2, <4>3
    <3>3. CASE c \notin {".", "[", "]", "(", ")", "?"}
      <4>1. P[k + 1] = p + 1 /\ t[p] = c /\ c # "\\"
        BY <1>1, <1>3, <1>7, <3>3 DEF Plain
      <4>2. ~Escaped(t, p)
        BY <4>1 DEF Escaped
      <4>3. PastAtom(t, p) = P[k + 1]
        BY <4>1, <4>2 DEF PastAtom
      <4>4. \A x : Fits(t, p, x) <=> c \in {"?", x}
        BY <3>3, <4>1, <4>2 DEF Fits
      <4> QED
        BY <4>3, <4>4
    <3> QED
      BY <3>1, <3>2, <3>3
  <2>2. Quantifier(t, p) \notin {"*", "+"}
    BY <1>2, <1>4, <2>1 DEF Quantifier, n
  <2>3. Places(t, s, p, f) = {j \in 1..Len(s) : Fits(t, p, s[j]) /\ j + 1 \in f[PastAtom(t, p)]}
    BY <1>5, <2>2 DEF Places, n
  <2>4. GlobPlaces(glob, s, k, h) =
            {j \in 1..Len(s) : glob[k] \in {"?", s[j]} /\ j + 1 \in h[k + 1]}
    BY <1>1, <1>7 DEF GlobPlaces, c
  <2> QED
    BY <2>1, <2>3, <2>4 DEF p, c
<1> QED
  BY <1>6, <1>7

(* A compiled glob matches what the glob means.                            *)
LEMMA LayoutMatches ==
    ASSUME NEW glob \in Seq(Plain), NEW t, NEW P, Layout(t, glob, P), NEW s \in Seq(Chars)
    PROVE  regexec(t, s) <=> GlobMatches(glob, s)
<1> DEFINE g == Len(glob)
           n == Len(t)
           e == Len(s) + 1
<1>1. g \in Nat /\ t \in Seq(Chars) /\ n \in Nat /\ e \in Nat /\ glob \in Seq(Chars)
      /\ Len(s) \in Nat
  BY DEF Layout, Plain
<1>2. /\ P \in [1..(g + 1) -> Nat] /\ P[1] = 2 /\ P[g + 1] = n /\ t[1] = "^" /\ t[n] = "$"
  BY DEF Layout
<1>3. PICK f \in [1..(n + 1) -> SUBSET (1..e)] :
        /\ \A i \in 1..(n + 1) : f[i] = Places(t, s, i, f)
        /\ regexec(t, s) <=> f[1] # {}
  BY <1>1, RegexecIs
<1>4. PICK h \in [1..(g + 1) -> SUBSET (1..e)] :
        /\ \A k \in 1..(g + 1) : h[k] = GlobPlaces(glob, s, k, h)
        /\ GlobMatches(glob, s) <=> 1 \in h[1]
  BY <1>1, GlobMatchesIs
<1>5. \A k \in 1..(g + 1) : P[k] \in 2..n
  <2> DEFINE S == {i \in 0..g : P[i + 1] \in 2..n}
  <2>1. ASSUME NEW k \in 1..g
        PROVE  P[k] \in Nat /\ 2 <= P[k] /\ P[k + 1] <= n /\ P[k + 1] \in Nat
    <3>1. k \in 1..(g + 1) /\ k + 1 \in 1..(g + 1)
      BY <1>1
    <3>2. P[k] \in Nat /\ P[k + 1] \in Nat
      BY <1>2, <3>1
    <3>3. 2 <= P[k] /\ P[k + 1] <= n
      BY DEF Layout
    <3> QED
      BY <3>2, <3>3
  <2>2. \A k \in 1..g : P[k + 1] >= P[k]
    <3> TAKE k \in 1..g
    <3>1. glob[k] \in Chars
      BY <1>1
    <3>2. P[k + 1] = P[k] + Len(Expansion(glob[k])) /\ Len(Expansion(glob[k])) \in 1..2
      BY <3>1, ExpansionIs DEF Layout
    <3> QED
      BY <2>1, <3>2
  <2>3. \A k \in 1..g : P[k] \in 2..n
    BY <1>1, <2>1, <2>2
  <2>4. n >= 2
    <3>1. CASE g = 0
      BY <1>2, <3>1
    <3>2. CASE g # 0
      <4>1. 1 \in 1..g
        BY <1>1, <3>2
      <4> QED
        BY <1>1, <2>3, <4>1
    <3> QED
      BY <3>1, <3>2
  <2>5. \A k \in 1..(g + 1) : k \in 1..g \/ k = g + 1
    BY <1>1
  <2> QED
    BY <1>1, <1>2, <2>3, <2>4, <2>5
<1>6. 1 \in 1..(g + 1) /\ g + 1 \in 1..(g + 1) /\ 1 \in 1..(n + 1) /\ n + 1 \in 1..(n + 1)
      /\ n \in 2..n
  BY <1>1, <1>2, <1>5
<1> HIDE DEF g, n, e
<1>7. f[n + 1] = 1..e
  <2>1. Places(t, s, n + 1, f) = 1..e
    BY <1>1 DEF Places, n, e
  <2> QED
    BY <1>3, <1>6, <2>1
<1>8. f[n] = {e}
  <2>1. n \in 1..(n + 1) /\ ~(n > n)
    BY <1>1, <1>6
  <2>2. Quantifier(t, n) = ""
    <3>1. PastAtom(t, n) = n + 1
      BY <1>1, <1>2 DEF PastAtom, Escaped
    <3>2. ~(PastAtom(t, n) <= n)
      BY <1>1, <3>1
    <3> QED
      BY <3>2 DEF Quantifier, n
  <2>3. Places(t, s, n, f) = {e} \cap f[n + 1]
    BY <1>2, <2>1, <2>2 DEF Places, n, e
  <2> QED
    BY <1>1, <1>3, <1>7, <2>1, <2>3 DEF e
<1>9. h[g + 1] = {e}
  <2>1. GlobPlaces(glob, s, g + 1, h) = {e}
    BY <1>1 DEF GlobPlaces, g, e
  <2> QED
    BY <1>4, <1>6, <2>1
<1> DEFINE S == {i \in 0..g : f[P[g + 1 - i]] = h[g + 1 - i]}
<1>10. \A i \in 0..g : i \in S
  <2>1. 0 \in S
    <3>1. g + 1 - 0 = g + 1 /\ 0 \in 0..g
      BY <1>1
    <3> QED
      BY <1>2, <1>8, <1>9, <3>1
  <2>2. ASSUME NEW i \in 1..g, i - 1 \in S PROVE i \in S
    <3> DEFINE k == g + 1 - i
    <3>1. k \in 1..g /\ k \in 1..(g + 1) /\ g + 1 - (i - 1) = k + 1 /\ i \in 0..g
      BY <1>1
    <3> HIDE DEF k
    <3>2. f[P[k + 1]] = h[k + 1]
      BY <2>2, <3>1
    <3>3. Places(t, s, P[k], f) = GlobPlaces(glob, s, k, h)
      <4>1. k \in 1..Len(glob)
        BY <3>1 DEF g
      <4>2. SamePlaces(t, glob, P, s, f, h, k)
        BY <4>1, PlacesAt
      <4> QED
        BY <3>2, <4>2 DEF SamePlaces
    <3>4. P[k] \in 1..(n + 1)
      BY <1>1, <1>5, <3>1
    <3>5. f[P[k]] = h[k]
      BY <1>3, <1>4, <3>1, <3>3, <3>4
    <3> QED
      BY <3>1, <3>5 DEF k
  <2> HIDE DEF S
  <2> QED
    BY <1>1, <2>1, <2>2, Induct
<1>11. f[2] = h[1]
  <2>1. g \in S /\ g + 1 - g = 1
    <3> HIDE DEF S
    <3> QED
      BY <1>1, <1>10
  <2> QED
    BY <1>2, <2>1
<1>12. f[1] = {1} \cap f[2]
  <2>1. t[2] \notin {"*", "+", "^"}
    <3>1. t[P[1]] \notin {"*", "+", "^"}
      BY <1>6, LayoutAt DEF g
    <3> QED
      BY <1>2, <3>1
  <2>2. ~(1 > n) /\ 2 <= n
    BY <1>1, <1>6
  <2>3. Quantifier(t, 1) \notin {"*", "+"}
    <3>1. PastAtom(t, 1) = 2
      BY <1>2 DEF PastAtom, Escaped
    <3> QED
      BY <2>1, <2>2, <3>1 DEF Quantifier, n
  <2>4. Places(t, s, 1, f) = {1} \cap f[1 + 1]
    BY <1>2, <2>2, <2>3 DEF Places, n
  <2> QED
    BY <1>3, <1>6, <2>4
<1> QED
  BY <1>3, <1>4, <1>11, <1>12

(* And it compiles.                                                        *)
LEMMA LayoutCompiles ==
    ASSUME NEW glob \in Seq(Plain), NEW t, NEW P, Layout(t, glob, P)
    PROVE  regcomp_ok(t)
<1> DEFINE g == Len(glob)
           n == Len(t)
           S == {i \in 0..g : \A x \in 1..n : x < P[i + 1] /\ t[x] = "(" =>
                    x > 1 /\ t[x - 1] = "\\"}
<1>1. g \in Nat /\ t \in Seq(Chars) /\ n \in Nat /\ glob \in Seq(Chars)
  BY DEF Layout, Plain
<1>2. P \in [1..(g + 1) -> Nat] /\ P[1] = 2 /\ P[g + 1] = n /\ t[1] = "^" /\ t[n] = "$"
  BY DEF Layout
<1> HIDE DEF g, n
<1>3. 0 \in S
  <2>1. \A x \in 1..n : x < P[0 + 1] => x = 1
    BY <1>1, <1>2
  <2> QED
    BY <1>1, <1>2, <2>1
<1>4. ASSUME NEW k \in 1..g, k - 1 \in S PROVE k \in S
  <2> DEFINE c == glob[k]
             p == P[k]
  <2>1. k \in 0..g /\ (k - 1) + 1 = k
    BY <1>1
  <2>2. p \in Nat /\ p >= 2
    <3>1. k \in 1..(g + 1) /\ 2 <= P[k]
      BY <1>1 DEF Layout, g
    <3> QED
      BY <1>2, <3>1
  <2>3. /\ c \in {"*", "+"} => P[k + 1] = p + 2 /\ t[p] = "." /\ t[p + 1] = c
        /\ c \in {".", "[", "]", "(", ")"} =>
              P[k + 1] = p + 2 /\ t[p] = "\\" /\ t[p + 1] = c
        /\ c = "?" => P[k + 1] = p + 1 /\ t[p] = "."
        /\ c \notin {"*", "+", ".", "[", "]", "(", ")", "?"} =>
              P[k + 1] = p + 1 /\ t[p] = c
    BY LayoutAt DEF g
  <2> HIDE DEF c
  <2>4. ASSUME NEW x \in 1..n, x < P[k + 1], t[x] = "(" PROVE x > 1 /\ t[x - 1] = "\\"
    <3>1. CASE x < p
      BY <1>4, <2>1, <2>4, <3>1
    <3>2. CASE ~(x < p)
      <4> HIDE DEF p
      <4>1. P[k + 1] = p + 1 \/ P[k + 1] = p + 2
        BY <2>3
      <4>2. x = p \/ (P[k + 1] = p + 2 /\ x = p + 1)
        BY <1>1, <2>2, <2>4, <3>2, <4>1
      <4>3. t[p] # "("
        BY <2>3
      <4>4. x = p + 1 /\ P[k + 1] = p + 2 /\ p + 1 - 1 = p
        BY <2>2, <2>4, <4>2, <4>3
      <4>5. t[p + 1] = c /\ c = "("
        BY <2>2, <2>3, <2>4, <4>4
      <4> QED
        BY <2>2, <2>3, <4>4, <4>5
    <3> QED
      BY <3>1, <3>2
  <2> QED
    BY <2>1, <2>4
<1>5. \A i \in 0..g : i \in S
  <2> HIDE DEF S
  <2> QED
    BY <1>1, <1>3, <1>4, Induct
<1>6. g \in S
  <2> HIDE DEF S
  <2> QED
    BY <1>1, <1>5
<1>7. ASSUME NEW x \in 1..n, t[x] = "(" PROVE x > 1 /\ t[x - 1] = "\\"
  <2>1. x # n
    BY <1>2, <1>7
  <2>2. x < P[g + 1]
    BY <1>1, <1>2, <2>1
  <2> QED
    BY <1>6, <1>7, <2>2
<1> QED
  BY <1>7 DEF regcomp_ok, n

(* What uvm_re_comp makes of a glob matches what the glob means.           *)
LEMMA GlobRight ==
    ASSUME NEW e \in Seq(Chars), NEW s \in Seq(Chars),
           uvm_re_deglobbed(e, FALSE).ok,
           \A i \in DOMAIN e : e[i] \notin {"^", "$", "\\", "/"}
    PROVE  /\ uvm_re_comp(e, TRUE) # null
           /\ Matches(uvm_re_comp(e, TRUE), s) = 0 <=> GlobMatches(e, s)
<1> DEFINE t == uvm_re_deglobbed(e, FALSE).text
<1>1. e \in Seq(Plain)
  <2>1. Len(e) \in Nat /\ e \in [1..Len(e) -> Chars] /\ DOMAIN e = 1..Len(e)
    OBVIOUS
  <2>2. e \in [1..Len(e) -> Plain]
    BY <2>1 DEF Plain
  <2> QED
    BY <2>1, <2>2
<1>2. PICK T : Texted(e, <<"^">>, T) /\ t = T[Len(e)] \o <<"$">>
  BY <1>1, DeglobText
<1> HIDE DEF t
<1>3. PICK P : Layout(t, e, P)
  BY <1>2, LayoutExists
<1>4. regcomp_ok(t) /\ (regexec(t, s) <=> GlobMatches(e, s)) /\ t \in Seq(Chars)
  <2>1. regcomp_ok(t)
    BY <1>1, <1>3, LayoutCompiles
  <2>2. regexec(t, s) <=> GlobMatches(e, s)
    BY <1>1, <1>3, LayoutMatches
  <2>3. t \in Seq(Chars)
    BY <1>3 DEF Layout
  <2> QED
    BY <2>1, <2>2, <2>3
<1>5. stripped(e, TRUE) = uvm_re_deglobbed(e, FALSE)
  BY DEF stripped
<1>6. ~stripped(e, TRUE).over
  <2> SUFFICES ASSUME stripped(e, TRUE).over PROVE FALSE
    OBVIOUS
  <2>1. e[1] = "^" /\ Len(e) > MAX
    BY StrippedFits
  <2>2. 1 \in DOMAIN e
    BY <2>1, RegexAssumption DEF MAX
  <2> QED
    BY <2>1, <2>2
<1>7. uvm_re_comp(e, TRUE) = t
  BY <1>4, <1>5, <1>6 DEF uvm_re_comp, t
<1>8. t # null
  BY <1>4, CacheAssumption
<1>9. Matches(t, s) = 0 <=> regexec(t, s)
  BY DEF Matches, REG_NOMATCH
<1> QED
  BY <1>4, <1>7, <1>8, <1>9

(***************************************************************************)
(* Which expression was compiled as a glob                                 *)
(***************************************************************************)

(* What the cache has for a key is what uvm_re_comp makes of it, as a glob *)
(* or not as m says.                                                       *)
ModeOK(c, m) == \A e \in keys(c) : Holds(c, e) = uvm_re_comp(e, m[e])

ModeCaches(m) == {c \in GoodCaches : c.broken = "no" => ModeOK(c, m)}

ModeInv == mode \in [Exprs -> BOOLEAN] /\ Here \in ModeCaches(mode)

(* A cache that has fewer keys and the same for them.                      *)
LEMMA SameMode ==
    ASSUME NEW m, NEW c, NEW d, ModeOK(c, m), SameTexts(c, d)
    PROVE  ModeOK(d, m)
  BY DEF ModeOK, SameTexts

(* No eviction leaves these caches.                                        *)
LEMMA ModeKeptByEvict ==
    ASSUME NEW m
    PROVE  KeptByEvict(ModeCaches(m))
<1>1. ASSUME NEW d \in ModeCaches(m), NEW e \in Exprs, d.broken = "no"
      PROVE  evict(d, e) \in ModeCaches(m)
  <2>1. d \in Caches /\ Good(d) /\ ModeOK(d, m)
    BY <1>1 DEF ModeCaches, GoodCaches
  <2>2. evict(d, e) \in GoodCaches /\ SameTexts(d, evict(d, e))
    BY <1>1, <2>1, EvictGood
  <2>3. ModeOK(evict(d, e), m)
    BY <2>1, <2>2, SameMode
  <2> QED
    BY <2>2, <2>3 DEF ModeCaches
<1>2. ModeCaches(m) \subseteq GoodCaches
  BY DEF ModeCaches
<1>3. \A d \in GoodCaches : d.broken # "no" => d \in ModeCaches(m)
  BY DEF ModeCaches
<1> QED
  BY <1>1, <1>2, <1>3 DEF KeptByEvict

(* Nor does the collection of nodes leave them.                            *)
LEMMA InstallMode ==
    ASSUME mode' \in [Exprs -> BOOLEAN], NEW c \in ModeCaches(mode'), Install(c)
    PROVE  ModeInv'
<1>1. c \in GoodCaches /\ (c.broken = "no" => ModeOK(c, mode'))
  BY DEF ModeCaches
<1>2. Here' = Collect(c) /\ Collect(c) \in GoodCaches /\ SameTexts(c, Collect(c))
  BY <1>1, InstalledIs, CollectGood
<1>3. Collect(c).broken = c.broken
  BY <1>1 DEF Collect, GoodCaches, Caches
<1>4. ASSUME Collect(c).broken = "no" PROVE ModeOK(Collect(c), mode')
  BY <1>1, <1>2, <1>3, <1>4, SameMode
<1>5. Collect(c) \in ModeCaches(mode')
  BY <1>2, <1>4 DEF ModeCaches
<1>6. Here' \in ModeCaches(mode')
  BY <1>2, <1>5
<1> QED
  BY <1>6 DEF ModeInv, ModeCaches, ModeOK

(* An empty cache has nothing that was compiled.                           *)
LEMMA InitMode ==
    ASSUME Init PROVE ModeInv
<1>1. Here \in GoodCaches
  BY InitGood DEF CacheInv
<1>2. keys(Here) = {}
  BY DEF Init, Here, keys
<1>3. mode \in [Exprs -> BOOLEAN]
  BY DEF Init
<1> QED
  BY <1>1, <1>2, <1>3 DEF ModeInv, ModeCaches, ModeOK

(* Every step keeps ModeInv.                                               *)
LEMMA NextMode ==
    ASSUME ModeInv, [Next]_vars
    PROVE  ModeInv'
<1>1. /\ mode \in [Exprs -> BOOLEAN] /\ Here \in ModeCaches(mode)
      /\ Here \in Caches /\ Here.broken = broken
      /\ broken = "no" => Good(Here) /\ ModeOK(Here, mode)
  BY DEF ModeInv, ModeCaches, GoodCaches, Here
<1>2. /\ Here.hash = m_hash /\ Here.node = node /\ Here.begin = m_begin
      /\ Here.end = m_end /\ Here.heap = compiled
  BY DEF Here
<1>3. ASSUME UNCHANGED <<lru, compiled, broken, mode>> PROVE ModeInv'
  <2>1. Here' = Here /\ mode' = mode
    BY <1>3 DEF Here, lru
  <2>2. Here' \in ModeCaches(mode')
    BY <1>1, <2>1
  <2> QED
    BY <1>1, <2>1, <2>2 DEF ModeInv
<1>4. ASSUME NEW c \in ModeCaches(mode), Install(c), mode' = mode PROVE ModeInv'
  BY <1>1, <1>4, InstallMode
<1>5. ASSUME UNCHANGED vars PROVE ModeInv'
  BY <1>3, <1>5 DEF vars
<1>6. ASSUME returns PROVE ModeInv'
  BY <1>3, <1>6 DEF returns
<1>7. ASSUME NEW e, uvm_glob_to_re(e) PROVE ModeInv'
  BY <1>3, <1>7 DEF uvm_glob_to_re
<1>8. ASSUME NEW e, NEW s, NEW glob, match_uncached(e, s, glob) PROVE ModeInv'
  BY <1>3, <1>8 DEF match_uncached
<1>9. ASSUME NEW e \in Exprs, NEW s, NEW glob, Idle, match_hit(e, s, glob)
      PROVE  ModeInv'
  <2> DEFINE c == m_update(Here, m_hash[e])
  <2>1. m_hash[e] # null /\ broken = "no" /\ Install(c) /\ mode' = mode
    BY <1>9 DEF match_hit, Idle
  <2>2. e \in keys(Here)
    BY <1>2, <2>1 DEF keys
  <2>3. m_hash[e] \in Real(Here)
    BY <1>1, <1>2, <2>1, <2>2, Relinkable
  <2>4. c \in GoodCaches /\ SameTexts(Here, c)
    BY <1>1, <2>1, <2>3, UpdateGood
  <2> HIDE DEF c
  <2>5. ModeOK(c, mode)
    BY <1>1, <2>1, <2>4, SameMode
  <2>6. c \in ModeCaches(mode)
    BY <2>4, <2>5 DEF ModeCaches
  <2> QED
    BY <1>4, <2>1, <2>6
<1>10. ASSUME NEW e \in Exprs, NEW s, NEW glob \in BOOLEAN, Idle, match_miss(e, s, glob)
       PROVE  ModeInv'
  <2>1. CASE uvm_re_comp(e, glob) = null
    BY <1>3, <1>10, <2>1 DEF match_miss
  <2>2. CASE uvm_re_comp(e, glob) # null
    <3> DEFINE h == CHOOSE x \in Handles : compiled[x] = null
               text == uvm_re_comp(e, glob)
               c == [put_new(Here, e, h) EXCEPT !.heap[h] = text]
    <3>1. /\ m_hash[e] = null /\ broken = "no" /\ Referenced(Here) # Nodes
          /\ \E x \in Handles : compiled[x] = null
          /\ Install(c) /\ mode' = [mode EXCEPT ![e] = glob]
      BY <1>10, <2>2 DEF match_miss, Idle
    <3>2. h \in Handles /\ compiled[h] = null
      BY <3>1
    <3>3. text \in Texts
      BY <2>2 DEF uvm_re_comp, Texts
    <3> HIDE DEF h, text
    <3>4. text # null
      BY <2>2 DEF text
    <3>5. /\ c \in GoodCaches /\ keys(c) = keys(Here) \cup {e} /\ Holds(c, e) = text
          /\ \A f \in keys(Here) : Holds(c, f) = Holds(Here, f)
      BY <1>1, <1>2, <3>1, <3>2, <3>3, <3>4, PutGood
    <3> HIDE DEF c
    <3>6. mode' \in [Exprs -> BOOLEAN] /\ mode'[e] = glob
      BY <1>1, <3>1
    <3>7. e \notin keys(Here) /\ keys(Here) \subseteq Exprs
      BY <1>2, <3>1 DEF keys
    <3>8. ASSUME NEW f \in keys(c) PROVE Holds(c, f) = uvm_re_comp(f, mode'[f])
      <4>1. CASE f = e
        BY <3>5, <3>6, <4>1 DEF text
      <4>2. CASE f # e
        <5>1. f \in keys(Here) /\ f \in Exprs
          BY <3>5, <3>7, <4>2
        <5>2. mode'[f] = mode[f]
          BY <1>1, <3>1, <4>2, <5>1
        <5>3. Holds(Here, f) = uvm_re_comp(f, mode[f])
          BY <1>1, <3>1, <5>1 DEF ModeOK
        <5> QED
          BY <3>5, <5>1, <5>2, <5>3
      <4> QED
        BY <4>1, <4>2
    <3>9. c \in ModeCaches(mode')
      BY <3>5, <3>8 DEF ModeCaches, ModeOK
    <3> QED
      BY <3>1, <3>6, <3>9, InstallMode
  <2> QED
    BY <2>1, <2>2
<1>11. ASSUME NEW max \in Sizes, Idle, set_max_size(max) PROVE ModeInv'
  <2>1. Install(evict_to_max(Here, max)) /\ mode' = mode
    BY <1>11 DEF set_max_size
  <2>2. evict_to_max(Here, max) \in ModeCaches(mode)
    BY <1>1, EvictToMaxKeeps, ModeKeptByEvict
  <2> QED
    BY <1>4, <2>1, <2>2
<1>12. ASSUME NEW e \in Exprs, Idle, evict_key(e) PROVE ModeInv'
  <2>1. Install(evict(Here, e)) /\ broken = "no" /\ mode' = mode
    BY <1>12 DEF evict_key, Idle
  <2>2. evict(Here, e) \in ModeCaches(mode)
    BY <1>1, <2>1, ModeKeptByEvict DEF KeptByEvict
  <2> QED
    BY <1>4, <2>1, <2>2
<1>13. ASSUME Idle, flush PROVE ModeInv'
  <2>1. PICK order \in SetToSeqs(keys(Here)) :
          LET c[i \in 0..Len(order)] ==
                  IF i = 0 THEN Here
                  ELSE IF c[i - 1].broken # "no" THEN c[i - 1] ELSE evict(c[i - 1], order[i])
          IN  Install(c[Len(order)])
    BY <1>13 DEF flush
  <2>2. Len(order) \in Nat /\ order \in [1..Len(order) -> Exprs]
    <3>1. keys(Here) \subseteq Exprs
      BY DEF keys
    <3>2. IsFiniteSet(keys(Here)) /\ Cardinality(keys(Here)) \in Nat
      BY <3>1, CacheAssumption, FS_Subset, FS_CardinalityType
    <3>3. order \in [1..Cardinality(keys(Here)) -> keys(Here)]
      BY DEF SetToSeqs
    <3> QED
      BY <3>1, <3>2, <3>3
  <2> DEFINE IsLoop(r) == r = [i \in 0..Len(order) |->
                                 IF i = 0 THEN Here
                                 ELSE IF r[i - 1].broken # "no" THEN r[i - 1]
                                 ELSE evict(r[i - 1], order[i])]
             loop == CHOOSE r : IsLoop(r)
  <2>3. Install(loop[Len(order)]) /\ mode' = mode
    BY <1>13, <2>1 DEF flush
  <2>4. loop[Len(order)] \in ModeCaches(mode)
    BY <1>1, <2>2, FlushKeeps, ModeKeptByEvict
  <2> HIDE DEF loop
  <2> QED
    BY <1>4, <2>3, <2>4
<1> QED
  BY <1>5, <1>6, <1>7, <1>8, <1>9, <1>10, <1>11, <1>12, <1>13 DEF Next

(* A match of a glob answers what the glob means, for every glob of        *)
(* ordinary characters, wildcards and escaped characters and every string, *)
(* whether uvm_re_deglobbed made the expression now or the cache gives     *)
(* back what it made earlier (ResultRight).  What regexec matches of the   *)
(* expression, and what the glob matches, are functions of a place         *)
(* computed from the last place down.                                      *)
THEOREM MatchIsRight == Spec => []ResultRight
<1>1. Init => ResultRight
  BY DEF Init, ResultRight, NoCall
<1>2. ASSUME ModeInv, ResultRight, [Next]_vars PROVE ResultRight'
  <2>1. ASSUME call' = call, mode' = mode PROVE ResultRight'
    BY <1>2, <2>1 DEF ResultRight
  <2>2. ASSUME call'.op # "match" PROVE ResultRight'
    BY <2>2 DEF ResultRight
  <2>3. ASSUME call' = NoCall PROVE ResultRight'
    BY <2>2, <2>3 DEF NoCall
  <2>4. ASSUME NEW re, NEW s, NEW glob, NEW hit, NEW ret, NEW ub,
               Answer(re, s, glob, hit, ret, ub)
        PROVE  /\ call'.re = re /\ call'.str = s /\ call'.deglob = glob
               /\ call'.hit = hit /\ call'.ret = ret
    BY <2>4 DEF Answer, NoCall
  <2>5. ASSUME NEW re \in Seq(Chars), NEW s \in Seq(Chars), NEW glob, NEW hit, NEW ret, NEW ub,
               Answer(re, s, glob, hit, ret, ub),
               (hit => mode'[re]) /\ glob => ret = uvm_re_compexec(re, s, TRUE)
        PROVE  ResultRight'
    <3>1. /\ call'.re = re /\ call'.str = s /\ call'.deglob = glob
          /\ call'.hit = hit /\ call'.ret = ret
      BY <2>4, <2>5
    <3> SUFFICES ASSUME call'.deglob, call'.hit => mode'[call'.re],
                        uvm_re_deglobbed(call'.re, FALSE).ok,
                        \A i \in DOMAIN call'.re : call'.re[i] \notin {"^", "$", "\\", "/"}
                 PROVE  call'.ret = 0 <=> GlobMatches(call'.re, call'.str)
      BY DEF ResultRight
    <3>2. ret = uvm_re_compexec(re, s, TRUE)
      BY <2>5, <3>1
    <3>3. /\ uvm_re_comp(re, TRUE) # null
          /\ Matches(uvm_re_comp(re, TRUE), s) = 0 <=> GlobMatches(re, s)
      BY <3>1, GlobRight
    <3>4. ret = 0 <=> GlobMatches(re, s)
      BY <3>2, <3>3 DEF uvm_re_compexec
    <3> QED
      BY <3>1, <3>4
  <2>6. Exprs \subseteq Seq(Chars) /\ Others \subseteq Seq(Chars) /\ Strs \subseteq Seq(Chars)
    BY CacheAssumption
  <2>7. CASE UNCHANGED vars
    BY <2>1, <2>7 DEF vars
  <2>8. CASE returns
    BY <2>3, <2>8 DEF returns
  <2>9. ASSUME NEW e, uvm_glob_to_re(e) PROVE ResultRight'
    BY <2>2, <2>9 DEF uvm_glob_to_re, NoCall
  <2>10. ASSUME NEW e \in Exprs \cup Others, NEW s \in Strs, NEW glob \in BOOLEAN,
                match_uncached(e, s, glob)
         PROVE  ResultRight'
    <3>1. Answer(e, s, glob, FALSE, uvm_re_compexec(e, s, glob), stripped(e, glob).over)
      BY <2>10 DEF match_uncached
    <3>2. glob => uvm_re_compexec(e, s, glob) = uvm_re_compexec(e, s, TRUE)
      OBVIOUS
    <3> QED
      BY <2>5, <2>6, <3>1, <3>2
  <2>11. ASSUME NEW e \in Exprs, NEW s \in Strs, NEW glob \in BOOLEAN, Idle,
                match_hit(e, s, glob)
         PROVE  ResultRight'
    <3> DEFINE h == node[m_hash[e]].data
    <3>1. /\ m_hash[e] # null /\ broken = "no" /\ mode' = mode
          /\ \/ call' = NoCall
             \/ Answer(e, s, glob, TRUE, Matches(compiled[h], s), FALSE)
      BY <2>11 DEF match_hit, Idle
    <3>2. mode \in [Exprs -> BOOLEAN] /\ ModeOK(Here, mode)
      BY <1>2, <3>1 DEF ModeInv, ModeCaches, Here
    <3>3. e \in keys(Here) /\ Holds(Here, e) = compiled[h]
      BY <3>1 DEF keys, Holds, Here
    <3> HIDE DEF h
    <3>4. compiled[h] = uvm_re_comp(e, mode[e])
      BY <3>2, <3>3 DEF ModeOK
    <3>5. uvm_re_comp(e, mode[e]) # null
      <4>1. Here \in GoodCaches
        BY <1>2 DEF ModeInv, ModeCaches
      <4>2. HeapOK(Here)
        BY <3>1, <4>1 DEF GoodCaches, Good, Here
      <4>3. Here.heap[Here.node[Here.hash[e]].data] # null
        BY <3>3, <4>2 DEF HeapOK
      <4> QED
        BY <3>2, <3>3, <4>3 DEF ModeOK, Holds
    <3>6. mode'[e] => Matches(compiled[h], s) = uvm_re_compexec(e, s, TRUE)
      <4> SUFFICES ASSUME mode[e] PROVE Matches(compiled[h], s) = uvm_re_compexec(e, s, TRUE)
        BY <3>1
      <4>1. mode[e] = TRUE
        BY <3>2
      <4> QED
        BY <3>4, <3>5, <4>1 DEF uvm_re_compexec
    <3> QED
      BY <2>3, <2>5, <2>6, <3>1, <3>6
  <2>12. ASSUME NEW e \in Exprs, NEW s \in Strs, NEW glob \in BOOLEAN, match_miss(e, s, glob)
         PROVE  ResultRight'
    <3>1. Answer(e, s, glob, FALSE, uvm_re_compexec(e, s, glob), stripped(e, glob).over)
      BY <2>12 DEF match_miss
    <3>2. glob => uvm_re_compexec(e, s, glob) = uvm_re_compexec(e, s, TRUE)
      OBVIOUS
    <3> QED
      BY <2>5, <2>6, <3>1, <3>2
  <2>13. ASSUME NEW e, evict_key(e) PROVE ResultRight'
    BY <2>1, <2>13 DEF evict_key
  <2>14. ASSUME NEW max, set_max_size(max) PROVE ResultRight'
    BY <2>1, <2>14 DEF set_max_size
  <2>15. ASSUME flush PROVE ResultRight'
    BY <2>1, <2>15 DEF flush
  <2> QED
    BY <1>2, <2>7, <2>8, <2>9, <2>10, <2>11, <2>12, <2>13, <2>14, <2>15 DEF Next
<1> QED
  BY <1>1, <1>2, InitMode, NextMode, PTL DEF Spec

==================================================================================
