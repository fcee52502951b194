----------------------------- MODULE TableProofs ----------------------------
(***************************************************************************)
(* Proofs about the hash tables of the program, for any keys, hashes,      *)
(* values and sizes: Table is a map, with a length that is a border and    *)
(* traversals that miss nothing, and StringTable makes equal short strings *)
(* one object.                                                             *)
(***************************************************************************)
EXTENDS Table, StringTable, FiniteSetTheorems, FunctionTheorems, NaturalsInduction,
        SequenceTheorems, WellFoundedInduction, TLAPS

-----------------------------------------------------------------------------
(* Numbers.                                                                *)

\* A set of natural numbers has a least one.
LEMMA LeastNumber ==
    ASSUME NEW T \in SUBSET Nat, T # {}
    PROVE  \E n \in T : \A m \in T : n <= m
<1> DEFINE R == {ss \in Nat \X Nat : ss[1] < ss[2]}
<1>1. IsWellFoundedOn(R, Nat)
  BY NatLessThanWellFounded DEF OpToRel
<1> HIDE DEF R
<1>2. PICK n \in T : \A m \in T : ~ (<<m, n>> \in R)
  BY <1>1, WFMin
<1>3. \A m \in T : ~(m < n)
  BY <1>2 DEF R
<1> QED
  BY <1>3

\* Powers of two, as the numbers of subsets.
LEMMA PowerIs ==
    ASSUME NEW n \in Nat
    PROVE  IsFiniteSet(SUBSET (1..n)) /\ 2^n = Cardinality(SUBSET (1..n)) /\ 2^n \in Nat
<1>1. IsFiniteSet(1..n) /\ Cardinality(1..n) = n
  <2>1. IsFiniteSet(1..n) /\ Cardinality(1..n) = IF 1 > n THEN 0 ELSE n - 1 + 1
    BY FS_Interval
  <2> QED
    BY <2>1
<1>2. IsFiniteSet(SUBSET (1..n)) /\ Cardinality(SUBSET (1..n)) = 2^n
  BY <1>1, FS_SUBSET
<1> QED
  BY <1>2, FS_CardinalityType

LEMMA PowerZero ==
    ASSUME NEW n, n = 0
    PROVE  2^n = 1
<1>1. n \in Nat /\ 1..n = {} /\ SUBSET (1..n) = {{}}
  OBVIOUS
<1>2. 2^n = Cardinality({{}})
  BY <1>1, PowerIs
<1> QED
  BY <1>2, FS_Singleton

LEMMA PowerNext ==
    ASSUME NEW n \in Nat
    PROVE  2^(n + 1) = 2 * 2^n
<1> DEFINE A == SUBSET (1..n)
           B == {S \cup {n + 1} : S \in A}
           f == [S \in A |-> S \cup {n + 1}]
<1>1. IsFiniteSet(A) /\ 2^n = Cardinality(A) /\ 2^n \in Nat
  BY PowerIs
<1>2. n + 1 \in Nat /\ 2^(n + 1) = Cardinality(SUBSET (1..n + 1))
  BY PowerIs
<1>3. SUBSET (1..n + 1) = A \cup B
  <2>1. ASSUME NEW S \in SUBSET (1..n + 1)
        PROVE  S \in A \cup B
    <3>1. CASE n + 1 \in S
      <4>1. S \ {n + 1} \in A /\ S = (S \ {n + 1}) \cup {n + 1}
        BY <3>1
      <4> QED
        BY <4>1
    <3>2. CASE n + 1 \notin S
      BY <3>2
    <3> QED
      BY <3>1, <3>2
  <2>2. A \subseteq SUBSET (1..n + 1)
    OBVIOUS
  <2>3. ASSUME NEW S \in A
        PROVE  S \cup {n + 1} \in SUBSET (1..n + 1)
    OBVIOUS
  <2>4. B \subseteq SUBSET (1..n + 1)
    BY <2>3
  <2> HIDE DEF A, B
  <2> QED
    BY <2>1, <2>2, <2>4
<1>4. \A S \in A : n + 1 \notin S
  OBVIOUS
<1>5. A \cap B = {}
  BY <1>4
<1>6. f \in Bijection(A, B)
  <2>1. f \in [A -> B]
    OBVIOUS
  <2>2. ASSUME NEW S \in A, NEW T \in A, f[S] = f[T]
        PROVE  S = T
    <3>1. S \cup {n + 1} = T \cup {n + 1} /\ n + 1 \notin S /\ n + 1 \notin T
      BY <2>2, <1>4
    <3> QED
      BY <3>1
  <2>3. \A b \in B : \E S \in A : f[S] = b
    OBVIOUS
  <2> HIDE DEF A, B, f
  <2> QED
    BY <2>1, <2>2, <2>3 DEF Bijection, Injection, Surjection, IsInjective
<1> HIDE DEF A, B, f
<1>7. IsFiniteSet(B) /\ Cardinality(B) = Cardinality(A)
  BY <1>1, <1>6, FS_Bijection DEF ExistsBijection
<1>8. Cardinality(A \cup B) = Cardinality(A) + Cardinality(B) - Cardinality({})
  BY <1>1, <1>5, <1>7, FS_Union
<1>9. 2^(n + 1) = 2^n + 2^n - 0
  BY <1>1, <1>2, <1>3, <1>7, <1>8, FS_EmptySet
<1> QED
  BY <1>1, <1>9

LEMMA PowersGrow ==
    ASSUME NEW i \in Nat, NEW j \in Nat, i < j
    PROVE  2 * 2^i <= 2^j /\ 2^i \in Nat \ {0} /\ 2^j \in Nat \ {0}
<1>1. \A n \in Nat : 2^n \in Nat \ {0}
  <2> DEFINE T == {n \in Nat : 2^n = 0}
  <2> SUFFICES ASSUME T # {}
               PROVE  FALSE
    BY PowerIs
  <2>1. PICK n \in T : \A m \in T : n <= m
    BY LeastNumber
  <2>2. n \in Nat /\ 2^n = 0
    BY <2>1
  <2>3. n # 0
    BY <2>2, PowerZero
  <2> DEFINE p == n - 1
  <2>4. p \in Nat /\ n = p + 1 /\ p < n
    BY <2>2, <2>3
  <2> HIDE DEF p
  <2>5. 2^p \in Nat /\ 2^n = 2 * 2^p
    BY <2>4, PowerIs, PowerNext
  <2>6. 2^p = 0
    BY <2>2, <2>5
  <2>7. p \in T
    BY <2>4, <2>6
  <2> HIDE DEF T
  <2>8. n <= p
    BY <2>1, <2>7
  <2> QED
    BY <2>2, <2>4, <2>8
<1>2. \A n \in Nat : 2 * 2^i <= 2^(i + 1 + n)
  <2> DEFINE T == {n \in Nat : ~(2 * 2^i <= 2^(i + 1 + n))}
  <2> SUFFICES ASSUME T # {}
               PROVE  FALSE
    OBVIOUS
  <2>1. PICK n \in T : \A m \in T : n <= m
    BY LeastNumber
  <2>2. n \in Nat /\ ~(2 * 2^i <= 2^(i + 1 + n))
    BY <2>1
  <2>3. n # 0
    <3>1. 2^(i + 1) = 2 * 2^i
      BY PowerNext
    <3>2. 2^i \in Nat
      BY PowerIs
    <3> QED
      BY <2>2, <3>1, <3>2
  <2> DEFINE p == n - 1
             q == i + 1 + p
  <2>4. p \in Nat /\ i + 1 + n = q + 1 /\ p < n /\ q \in Nat
    BY <2>2, <2>3
  <2>5. p \notin T
    <3> SUFFICES ASSUME p \in T
                 PROVE  FALSE
      OBVIOUS
    <3> HIDE DEF T, p
    <3> QED
      BY <2>1, <2>2, <2>4
  <2>6. 2 * 2^i <= 2^q
    BY <2>4, <2>5
  <2> HIDE DEF p, q
  <2>7. 2^(q + 1) = 2 * 2^q /\ 2^q \in Nat /\ 2^i \in Nat
    BY <2>4, PowerNext, PowerIs
  <2>8. 2^(i + 1 + n) = 2 * 2^q
    BY <2>4, <2>7
  <2> QED
    BY <2>2, <2>6, <2>7, <2>8
<1> DEFINE n == j - (i + 1)
<1>3. n \in Nat /\ i + 1 + n = j
  OBVIOUS
<1> HIDE DEF n
<1>4. 2 * 2^i <= 2^j
  BY <1>2, <1>3
<1> QED
  BY <1>1, <1>4

LEMMA PowerAbove ==
    ASSUME NEW n \in Nat
    PROVE  n <= 2^n /\ 2^n \in Nat \ {0}
<1>0. \A m \in Nat : 2^m \in Nat \ {0}
  <2> TAKE m \in Nat
  <2>1. m < m + 1 /\ m + 1 \in Nat
    OBVIOUS
  <2> QED
    BY <2>1, PowersGrow
<1> DEFINE T == {m \in Nat : ~(m <= 2^m)}
<1> SUFFICES ASSUME T # {}
             PROVE  FALSE
  BY <1>0
<1>1. PICK m \in T : \A l \in T : m <= l
  BY LeastNumber
<1>2. m \in Nat /\ ~(m <= 2^m)
  BY <1>1
<1>3. m # 0
  BY <1>2, <1>0
<1> DEFINE p == m - 1
<1>4. p \in Nat /\ m = p + 1 /\ p < m
  BY <1>2, <1>3
<1>5. p \notin T
  <2> SUFFICES ASSUME p \in T
               PROVE  FALSE
    OBVIOUS
  <2> HIDE DEF T, p
  <2> QED
    BY <1>1, <1>2, <1>4
<1>6. p <= 2^p
  BY <1>4, <1>5
<1> HIDE DEF p
<1>7. 2^m = 2 * 2^p /\ 2^p \in Nat \ {0}
  BY <1>0, <1>4, PowerNext
<1> QED
  BY <1>2, <1>4, <1>6, <1>7

LEMMA CeilLog ==
    ASSUME NEW n \in Nat
    PROVE  /\ CeilLog2(n) \in Nat /\ 2^CeilLog2(n) >= n /\ 2^CeilLog2(n) \in Nat \ {0}
           /\ \A j \in Nat : j < CeilLog2(n) => 2^j < n
<1> DEFINE T == {m \in Nat : 2^m >= n}
<1>1. n \in T
  BY PowerAbove
<1>2. PICK i \in T : \A m \in T : i <= m
  BY <1>1, LeastNumber
<1>3. i \in Nat /\ 2^i >= n /\ i <= n
  BY <1>1, <1>2
<1>4. ASSUME NEW j \in 0..i - 1
      PROVE  2^j < n
  <2>1. j \in Nat /\ j < i
    BY <1>3
  <2>2. j \notin T
    <3> HIDE DEF T
    <3> QED
      BY <2>1, <1>2, <1>3
  <2>3. 2^j \in Nat
    BY <2>1, PowerIs
  <2> QED
    BY <2>1, <2>2, <2>3
<1> DEFINE c == CeilLog2(n)
<1>5. c \in 0..n /\ 2^c >= n /\ \A j \in 0..c - 1 : 2^j < n
  <2>1. \E m \in 0..n : 2^m >= n /\ \A j \in 0..m - 1 : 2^j < n
    BY <1>3, <1>4
  <2>2. c = CHOOSE m \in 0..n : 2^m >= n /\ \A j \in 0..m - 1 : 2^j < n
    BY DEF CeilLog2
  <2> HIDE DEF c
  <2> QED
    BY <2>1, <2>2, Zenon
<1> HIDE DEF c
<1>6. c \in Nat /\ \A j \in Nat : j < c => j \in 0..c - 1
  BY <1>5
<1> QED
  BY <1>5, <1>6, PowerAbove DEF c

\* The size of an array is known from a limit in its upper half.
LEMMA SizeFromLimit ==
    ASSUME NEW n \in Nat, NEW i \in Nat, n <= 2^i, 2 * n > 2^i
    PROVE  2^CeilLog2(n) = 2^i
<1> DEFINE c == CeilLog2(n)
<1>1. c \in Nat /\ 2^c >= n /\ 2^c \in Nat \ {0} /\ \A j \in Nat : j < c => 2^j < n
  BY CeilLog
<1> HIDE DEF c
<1>2. 2^i \in Nat
  BY PowerIs
<1>3. ~(i < c)
  BY <1>1, <1>2
<1>4. ~(c < i)
  <2> SUFFICES ASSUME c < i
               PROVE  FALSE
    OBVIOUS
  <2>1. 2 * 2^c <= 2^i
    BY <1>1, PowersGrow
  <2> QED
    BY <2>1, <1>1, <1>2
<1>5. c = i
  BY <1>1, <1>3, <1>4
<1> QED
  BY <1>5 DEF c

-----------------------------------------------------------------------------
(* Fields and sizes.                                                       *)

LEMMA VectorIs ==
    ASSUME NEW nd \in Vectors
    PROVE  /\ Cardinality(DOMAIN nd) \in Nat \ {0}
           /\ DOMAIN nd = 0..Cardinality(DOMAIN nd) - 1
           /\ nd \in [DOMAIN nd -> NodeRecord]
<1>1. PICK n \in Nat \ {0} : nd \in [0..n - 1 -> NodeRecord]
  BY DEF Vectors
<1>2. DOMAIN nd = 0..n - 1
  BY <1>1
<1>3. Cardinality(0..n - 1) = IF 0 > n - 1 THEN 0 ELSE n - 1 - 0 + 1
  BY FS_Interval
<1>4. Cardinality(DOMAIN nd) = n
  BY <1>2, <1>3
<1> QED
  BY <1>1, <1>2, <1>4

LEMMA VectorOf ==
    ASSUME NEW n \in Nat \ {0}, NEW nd \in [0..n - 1 -> NodeRecord]
    PROVE  nd \in Vectors /\ Cardinality(DOMAIN nd) = n
<1>1. nd \in Vectors
  BY DEF Vectors
<1>2. DOMAIN nd = 0..n - 1
  OBVIOUS
<1>3. Cardinality(0..n - 1) = IF 0 > n - 1 THEN 0 ELSE n - 1 - 0 + 1
  BY FS_Interval
<1> QED
  BY <1>1, <1>2, <1>3

LEMMA TableFields ==
    ASSUME NEW tb, TableTypes(tb)
    PROVE  /\ tb.array \in Seq(Value \cup {Nothing}) /\ Len(tb.array) \in Nat
           /\ tb.alimit \in Nat /\ tb.realasize \in BOOLEAN /\ tb.absent \in BOOLEAN
           /\ tb.node \in Vectors /\ tb.lastfree \in Int
           /\ SizeNode(tb) \in Nat \ {0} /\ DOMAIN tb.node = 0..SizeNode(tb) - 1
           /\ tb.node \in [DOMAIN tb.node -> NodeRecord]
           /\ \A i \in DOMAIN tb.node : tb.node[i] \in NodeRecord /\ i \in Nat
<1>1. /\ tb.array \in Seq(Value \cup {Nothing}) /\ Len(tb.array) \in Nat
      /\ tb.alimit \in Nat /\ tb.realasize \in BOOLEAN /\ tb.absent \in BOOLEAN
      /\ tb.node \in Vectors /\ tb.lastfree \in Int
  BY DEF TableTypes
<1>2. /\ SizeNode(tb) \in Nat \ {0} /\ DOMAIN tb.node = 0..SizeNode(tb) - 1
      /\ tb.node \in [DOMAIN tb.node -> NodeRecord]
  BY <1>1, VectorIs DEF SizeNode
<1> QED
  BY <1>1, <1>2

LEMMA NodeFields ==
    ASSUME NEW n \in NodeRecord
    PROVE  /\ n.key \in Key \cup {Nothing} /\ n.dead \in BOOLEAN
           /\ n.val \in Value \cup {Nothing} /\ n.next \in Int
           /\ n = [key |-> n.key, dead |-> n.dead, val |-> n.val, next |-> n.next]
  BY DEF NodeRecord

LEMMA NodeOf ==
    ASSUME NEW k \in Key \cup {Nothing}, NEW d \in BOOLEAN, NEW v \in Value \cup {Nothing},
           NEW x \in Int
    PROVE  [key |-> k, dead |-> d, val |-> v, next |-> x] \in NodeRecord
  BY DEF NodeRecord

LEMMA FreeNodeIs ==
    FreeNode \in NodeRecord /\ FreeNode.key = Nothing /\ FreeNode.val = Nothing
    /\ FreeNode.next = 0 /\ FreeNode.dead = FALSE
  BY DEF FreeNode, NodeRecord

LEMMA KeysAre ==
    /\ Key \subseteq Index \cup Collectable
    /\ Nothing \notin Index \cup Key /\ Nothing \notin Value
    /\ \A k \in Index \cup Key : k \notin Index => k \in Collectable
    /\ Index \subseteq Nat /\ Strings \subseteq Key
<1>1. Key \subseteq Index \cup Collectable
  BY KeysAssumption DEF Key, Collectable
<1>2. Nothing \notin Index \cup Key /\ Nothing \notin Value
  BY KeysAssumption
<1>3. Strings \subseteq Key
  BY DEF Key
<1>4. Index \subseteq Nat
  BY SizesAssumption DEF Index
<1>5. \A k \in Index \cup Key : k \notin Index => k \in Collectable
  BY <1>1
<1> QED
  BY <1>1, <1>2, <1>3, <1>4, <1>5

LEMMA MainPositions ==
    ASSUME NEW tb, TableTypes(tb), inst \in Instances, NEW k \in Index \cup Key
    PROVE  MainPosition(tb, k) \in DOMAIN tb.node
<1> DEFINE n == SizeNode(tb)
<1>1. n \in Nat \ {0} /\ DOMAIN tb.node = 0..n - 1
  BY TableFields
<1> HIDE DEF n
<1>2. \A h \in Nat, m \in Nat \ {0} : h % m \in 0..m - 1
  OBVIOUS
<1>3. CASE k \in Index
  <2>1. k \notin Strings /\ k \in Nat
    BY <1>3, KeysAre, KeysAssumption DEF Collectable
  <2>2. MainPosition(tb, k) = k % n
    BY <1>3, <2>1 DEF MainPosition, n
  <2> QED
    BY <1>1, <1>2, <2>1, <2>2
<1>4. CASE k \notin Index
  <2>1. k \in Collectable /\ inst.hash[k] \in Nat
    BY <1>4, KeysAre, SizesAssumption
  <2>2. CASE k \in Strings
    <3>1. MainPosition(tb, k) = inst.hash[k] % n
      BY <1>4, <2>2 DEF MainPosition, n
    <3> QED
      BY <1>1, <1>2, <2>1, <3>1
  <2>3. CASE k \notin Strings
    <3> DEFINE m == IF (n - 1) % 2 = 0 THEN n - 1 + 1 ELSE n - 1
    <3>1. MainPosition(tb, k) = inst.hash[k] % m
      BY <1>4, <2>3 DEF MainPosition, n
    <3>2. m \in Nat \ {0} /\ m <= n
      BY <1>1
    <3> HIDE DEF m
    <3>3. inst.hash[k] % m \in 0..m - 1
      BY <1>2, <2>1, <3>2
    <3> QED
      BY <1>1, <3>1, <3>2, <3>3
  <2> QED
    BY <2>2, <2>3
<1> QED
  BY <1>3, <1>4

LEMMA SamePosition ==
    ASSUME NEW tb, NEW new, SizeNode(new) = SizeNode(tb), NEW k
    PROVE  MainPosition(new, k) = MainPosition(tb, k)
  BY DEF MainPosition

-----------------------------------------------------------------------------
(* Chains.                                                                 *)

LEMMA ChainWithin ==
    ASSUME NEW nd, NEW m, NEW S \in SUBSET DOMAIN nd, m \in S, Closed(nd, S)
    PROVE  Chain(nd, m) \subseteq S
  BY DEF Chain

LEMMA ChainHas ==
    ASSUME NEW nd, NEW m \in DOMAIN nd
    PROVE  m \in Chain(nd, m) /\ Chain(nd, m) \subseteq DOMAIN nd
  BY DEF Chain

LEMMA ChainStep ==
    ASSUME NEW nd, Linked(nd), NEW m, NEW i \in Chain(nd, m), nd[i].next # 0
    PROVE  i + nd[i].next \in Chain(nd, m)
<1>1. i \in DOMAIN nd
  BY DEF Chain
<1>2. i + nd[i].next \in DOMAIN nd
  BY <1>1 DEF Linked
<1>3. ASSUME NEW S \in SUBSET DOMAIN nd, m \in S, Closed(nd, S)
      PROVE  i + nd[i].next \in S
  <2>1. i \in S
    BY <1>3 DEF Chain
  <2> QED
    BY <1>3, <2>1 DEF Closed
<1> QED
  BY <1>2, <1>3 DEF Chain

LEMMA ChainClosed ==
    ASSUME NEW nd, Linked(nd), NEW m
    PROVE  Closed(nd, Chain(nd, m)) /\ Chain(nd, m) \in SUBSET DOMAIN nd
<1>1. Closed(nd, Chain(nd, m))
  BY ChainStep DEF Closed
<1>2. Chain(nd, m) \in SUBSET DOMAIN nd
  BY DEF Chain
<1> QED
  BY <1>1, <1>2

LEMMA ChainFurther ==
    ASSUME NEW nd, Linked(nd), NEW m, NEW i \in Chain(nd, m)
    PROVE  Chain(nd, i) \subseteq Chain(nd, m)
  BY ChainClosed, ChainWithin

LEMMA ChainEnd ==
    ASSUME NEW nd, NEW i \in DOMAIN nd, nd[i].next = 0
    PROVE  Chain(nd, i) = {i}
<1>1. Closed(nd, {i})
  BY DEF Closed
<1> QED
  BY <1>1, ChainWithin, ChainHas

LEMMA ChainNext ==
    ASSUME NEW nd, Linked(nd), NEW i \in DOMAIN nd, nd[i].next # 0
    PROVE  Chain(nd, i) = {i} \cup Chain(nd, i + nd[i].next)
<1> DEFINE j == i + nd[i].next
           C == Chain(nd, j)
<1>1. i \in Chain(nd, i)
  BY ChainHas
<1>2. j \in Chain(nd, i)
  BY <1>1, ChainStep
<1>3. C \subseteq Chain(nd, i)
  BY <1>2, ChainFurther
<1>4. j \in DOMAIN nd
  BY DEF Linked
<1>5. j \in C /\ Closed(nd, C) /\ C \in SUBSET DOMAIN nd
  BY <1>4, ChainHas, ChainClosed
<1>6. Closed(nd, {i} \cup C)
  <2> SUFFICES ASSUME NEW l \in {i} \cup C, nd[l].next # 0
               PROVE  l + nd[l].next \in {i} \cup C
    BY DEF Closed
  <2>1. CASE l = i
    BY <2>1, <1>5
  <2>2. CASE l \in C
    BY <2>2, <1>5 DEF Closed
  <2> QED
    BY <2>1, <2>2
<1>7. Chain(nd, i) \subseteq {i} \cup C
  <2>1. {i} \cup C \in SUBSET DOMAIN nd
    BY <1>5
  <2> HIDE DEF C
  <2> QED
    BY <2>1, <1>6, ChainWithin
<1> QED
  BY <1>1, <1>3, <1>7

LEMMA ChainFalls ==
    ASSUME NEW nd, Linked(nd), NEW rank \in [DOMAIN nd -> Nat], Falls(nd, rank),
           NEW i \in DOMAIN nd, NEW j \in Chain(nd, i)
    PROVE  j = i \/ rank[j] < rank[i]
<1> DEFINE S == {l \in DOMAIN nd : l = i \/ rank[l] < rank[i]}
<1>1. Closed(nd, S)
  <2> SUFFICES ASSUME NEW l \in S, nd[l].next # 0
               PROVE  l + nd[l].next \in S
    BY DEF Closed
  <2>1. l + nd[l].next \in DOMAIN nd
    BY DEF Linked
  <2>2. rank[l + nd[l].next] < rank[l]
    BY DEF Falls
  <2>3. rank[l] \in Nat /\ rank[i] \in Nat /\ rank[l + nd[l].next] \in Nat
    BY <2>1
  <2>4. rank[l + nd[l].next] < rank[i]
    BY <2>2, <2>3
  <2> QED
    BY <2>1, <2>4
<1>2. Chain(nd, i) \subseteq S
  BY <1>1, ChainWithin
<1> QED
  BY <1>2

\* Two nodes that are behind each other are the same.
LEMMA ChainOrder ==
    ASSUME NEW nd, Linked(nd), NEW i \in DOMAIN nd, NEW j \in DOMAIN nd,
           i \in Chain(nd, j), j \in Chain(nd, i)
    PROVE  i = j
<1>1. PICK rank \in [DOMAIN nd -> Nat] : Falls(nd, rank)
  BY DEF Linked
<1>2. (j = i \/ rank[j] < rank[i]) /\ (i = j \/ rank[i] < rank[j])
  BY <1>1, ChainFalls
<1>3. rank[i] \in Nat /\ rank[j] \in Nat
  BY <1>1
<1> QED
  BY <1>2, <1>3

-----------------------------------------------------------------------------
(* Search.                                                                 *)

Meets(nd, k, d, j) == nd[j].key = k /\ (nd[j].dead => d)
Walked(nd, k, d, f) ==
    [i \in DOMAIN nd |-> IF Meets(nd, k, d, i) THEN i
                         ELSE IF nd[i].next = 0 THEN NoNode ELSE f[i + nd[i].next]]

\* The loop of a search ends: its function exists.
LEMMA WalkExists ==
    ASSUME NEW nd, Linked(nd), NEW k, NEW d
    PROVE  \E f : f = Walked(nd, k, d, f)
<1> DEFINE M(i) == {j \in Chain(nd, i) : Meets(nd, k, d, j)}
           First(S, rank) == CHOOSE j \in S : \A l \in S : rank[l] <= rank[j]
<1>1. PICK rank \in [DOMAIN nd -> Nat] : Falls(nd, rank)
  BY DEF Linked
<1> DEFINE f == [i \in DOMAIN nd |-> IF M(i) = {} THEN NoNode ELSE First(M(i), rank)]
<1>2. ASSUME NEW i \in DOMAIN nd
      PROVE  f[i] = IF Meets(nd, k, d, i) THEN i
                    ELSE IF nd[i].next = 0 THEN NoNode ELSE f[i + nd[i].next]
  <2>1. CASE Meets(nd, k, d, i)
    <3>1. i \in M(i)
      BY <2>1, ChainHas
    <3>2. \A j \in M(i) : j \in DOMAIN nd /\ (j = i \/ rank[j] < rank[i])
      BY <1>1, ChainFalls, ChainHas
    <3>3. \A j \in DOMAIN nd : rank[j] \in Nat
      BY <1>1
    <3> HIDE DEF M
    <3>4. \A l \in M(i) : rank[l] <= rank[i]
      BY <3>1, <3>2, <3>3
    <3>5. \A j \in M(i) : (\A l \in M(i) : rank[l] <= rank[j]) => j = i
      BY <3>1, <3>2, <3>3
    <3>6. First(M(i), rank) = i
      <4> DEFINE x == First(M(i), rank)
      <4>1. x \in M(i) /\ \A l \in M(i) : rank[l] <= rank[x]
        BY <3>1, <3>4, Zenon
      <4> HIDE DEF x
      <4>2. x = i
        BY <4>1, <3>5
      <4> QED
        BY <4>2 DEF x
    <3> QED
      BY <2>1, <3>1, <3>6
  <2>2. CASE ~Meets(nd, k, d, i) /\ nd[i].next = 0
    <3>1. M(i) = {}
      BY <2>2, ChainEnd
    <3> QED
      BY <2>2, <3>1
  <2>3. CASE ~Meets(nd, k, d, i) /\ nd[i].next # 0
    <3> DEFINE j == i + nd[i].next
    <3>1. Chain(nd, i) = {i} \cup Chain(nd, j) /\ j \in DOMAIN nd
      BY <2>3, ChainNext DEF Linked
    <3>2. M(i) = M(j)
      BY <2>3, <3>1
    <3>3. f[j] = IF M(j) = {} THEN NoNode ELSE First(M(j), rank)
      BY <3>1
    <3>4. f[i] = IF M(i) = {} THEN NoNode ELSE First(M(i), rank)
      OBVIOUS
    <3> HIDE DEF M, f, First
    <3>5. f[i] = f[j]
      BY <3>2, <3>3, <3>4
    <3> QED
      BY <2>3, <3>5 DEF j
  <2> QED
    BY <2>1, <2>2, <2>3
<1>3. DOMAIN f = DOMAIN nd /\ f = [i \in DOMAIN nd |-> f[i]]
  OBVIOUS
<1> HIDE DEF f
<1>4. f = Walked(nd, k, d, f)
  BY <1>2, <1>3 DEF Walked
<1> QED
  BY <1>4

\* It ends at the first node of the chain that matches.
LEMMA WalkFinds ==
    ASSUME NEW nd, Linked(nd), NEW k, NEW d, NEW f, f = Walked(nd, k, d, f),
           NEW i \in DOMAIN nd
    PROVE  \/ f[i] = NoNode /\ \A j \in Chain(nd, i) : ~Meets(nd, k, d, j)
           \/ /\ f[i] \in Chain(nd, i) /\ Meets(nd, k, d, f[i])
              /\ \A j \in Chain(nd, i) : Meets(nd, k, d, j) => j \in Chain(nd, f[i])
<1> DEFINE Good(l) ==
        \/ f[l] = NoNode /\ \A j \in Chain(nd, l) : ~Meets(nd, k, d, j)
        \/ /\ f[l] \in Chain(nd, l) /\ Meets(nd, k, d, f[l])
           /\ \A j \in Chain(nd, l) : Meets(nd, k, d, j) => j \in Chain(nd, f[l])
<1>1. PICK rank \in [DOMAIN nd -> Nat] : Falls(nd, rank)
  BY DEF Linked
<1>2. \A l \in DOMAIN nd : f[l] = IF Meets(nd, k, d, l) THEN l
                                  ELSE IF nd[l].next = 0 THEN NoNode ELSE f[l + nd[l].next]
  BY Zenon DEF Walked
<1> DEFINE T == {rank[l] : l \in {m \in DOMAIN nd : ~Good(m)}}
<1>3. T \in SUBSET Nat
  BY <1>1
<1> SUFFICES ASSUME ~Good(i)
             PROVE  FALSE
  OBVIOUS
<1>4. T # {}
  OBVIOUS
<1>5. PICK n \in T : \A m \in T : n <= m
  <2> HIDE DEF T
  <2> QED
    BY <1>3, <1>4, LeastNumber
<1>6. PICK l \in DOMAIN nd : ~Good(l) /\ n = rank[l]
  BY <1>5
<1>7. \A m \in DOMAIN nd : ~Good(m) => rank[l] <= rank[m]
  BY <1>5, <1>6
<1> HIDE DEF T
<1>8. l \in Chain(nd, l)
  BY ChainHas
<1>9. CASE Meets(nd, k, d, l)
  <2>1. f[l] = l
    BY <1>2, <1>9
  <2> QED
    BY <2>1, <1>6, <1>8, <1>9
<1>a. CASE ~Meets(nd, k, d, l) /\ nd[l].next = 0
  <2>1. f[l] = NoNode /\ Chain(nd, l) = {l}
    BY <1>2, <1>a, ChainEnd
  <2> QED
    BY <2>1, <1>6, <1>a
<1>b. CASE ~Meets(nd, k, d, l) /\ nd[l].next # 0
  <2> DEFINE m == l + nd[l].next
  <2>1. m \in DOMAIN nd /\ rank[m] < rank[l] /\ Chain(nd, l) = {l} \cup Chain(nd, m)
    BY <1>1, <1>b, ChainNext DEF Linked, Falls
  <2>2. f[l] = f[m]
    BY <1>2, <1>b
  <2> HIDE DEF m
  <2>3. Good(m)
    <3>1. rank[m] \in Nat /\ rank[l] \in Nat
      BY <1>1, <2>1
    <3> HIDE DEF Good
    <3> QED
      BY <2>1, <3>1, <1>7
  <2>4. Good(l)
    BY <2>1, <2>2, <2>3, <1>b
  <2> QED
    BY <2>4, <1>6
<1> QED
  BY <1>9, <1>a, <1>b

LEMMA FindIs ==
    ASSUME NEW tb, NEW k, NEW d
    PROVE  \E f : /\ f = Walked(tb.node, k, d, f) \/ ~(\E g : g = Walked(tb.node, k, d, g))
                  /\ Find(tb, k, d) = f[MainPosition(tb, k)]
<1> DEFINE W(f) == [i \in DOMAIN tb.node |->
                       LET n == tb.node[i] IN
                       IF n.key = k /\ (n.dead => d) THEN i
                       ELSE IF n.next = 0 THEN NoNode ELSE f[i + n.next]]
           f == CHOOSE g : g = W(g)
<1>1. \A g : W(g) = Walked(tb.node, k, d, g)
  BY DEF Walked, Meets
<1>2. Find(tb, k, d) = f[MainPosition(tb, k)]
  BY DEF Find
<1>3. (\E g : g = W(g)) => f = W(f)
  <2> HIDE DEF W
  <2> QED
    BY Zenon
<1> HIDE DEF W, f
<1> QED
  BY <1>1, <1>2, <1>3

\* A search meets every node with its key, and ends at the first one.
LEMMA FindFirst ==
    ASSUME NEW tb, HashInv(tb), inst \in Instances, NEW k \in Index \cup Key, NEW d
    PROVE  LET i == Find(tb, k, d)
               nd == tb.node
           IN  \/ i = NoNode /\ \A j \in DOMAIN nd : ~Meets(nd, k, d, j)
               \/ /\ i \in DOMAIN nd /\ Meets(nd, k, d, i)
                  /\ \A j \in DOMAIN nd : Meets(nd, k, d, j) => j \in Chain(nd, i)
<1> DEFINE nd == tb.node
           m == MainPosition(tb, k)
<1>1. TableTypes(tb) /\ Linked(nd) /\ Homed(tb)
  BY DEF HashInv
<1>2. m \in DOMAIN nd
  BY <1>1, MainPositions
<1>3. ASSUME NEW j \in DOMAIN nd, Meets(nd, k, d, j)
      PROVE  j \in Chain(nd, m)
  <2>1. nd[j].key = k /\ k # Nothing
    BY <1>3, KeysAre DEF Meets
  <2> QED
    BY <1>1, <2>1 DEF Homed
<1> HIDE DEF nd
<1>4. PICK f : /\ f = Walked(nd, k, d, f) \/ ~(\E g : g = Walked(nd, k, d, g))
               /\ Find(tb, k, d) = f[m]
  BY FindIs DEF nd
<1>5. f = Walked(nd, k, d, f)
  BY <1>1, <1>4, WalkExists
<1>6. \/ f[m] = NoNode /\ \A j \in Chain(nd, m) : ~Meets(nd, k, d, j)
      \/ /\ f[m] \in Chain(nd, m) /\ Meets(nd, k, d, f[m])
         /\ \A j \in Chain(nd, m) : Meets(nd, k, d, j) => j \in Chain(nd, f[m])
  BY <1>1, <1>2, <1>5, WalkFinds
<1>7. Chain(nd, m) \subseteq DOMAIN nd
  BY <1>2, ChainHas
<1> HIDE DEF m
<1> QED
  BY <1>3, <1>4, <1>6, <1>7 DEF nd

\* A live node is the one that is found.
LEMMA LiveFound ==
    ASSUME NEW tb, HashInv(tb), inst \in Instances, NEW k \in Index \cup Key, NEW d,
           NEW j \in DOMAIN tb.node, tb.node[j].key = k, ~tb.node[j].dead
    PROVE  Find(tb, k, d) = j
<1> DEFINE nd == tb.node
           i == Find(tb, k, d)
<1>1. Meets(nd, k, d, j)
  BY DEF Meets
<1>2. i \in DOMAIN nd /\ Meets(nd, k, d, i) /\ j \in Chain(nd, i)
  BY <1>1, FindFirst
<1>3. nd[i].key = nd[j].key /\ nd[j].key # Nothing
  BY <1>2, KeysAre DEF Meets
<1>4. i \in Chain(nd, j)
  BY <1>2, <1>3 DEF HashInv, Lively
<1> QED
  BY <1>2, <1>4, ChainOrder DEF HashInv

LEMMA LiveAlone ==
    ASSUME NEW tb, HashInv(tb), inst \in Instances,
           NEW i \in DOMAIN tb.node, NEW j \in DOMAIN tb.node,
           tb.node[i].key # Nothing, tb.node[i].key = tb.node[j].key,
           ~tb.node[i].dead, ~tb.node[j].dead
    PROVE  i = j
<1>1. i \in Chain(tb.node, j) /\ j \in Chain(tb.node, i)
  BY DEF HashInv, Lively
<1> QED
  BY <1>1, ChainOrder DEF HashInv

\* The fields in the hash part.
Entries(nd) == {<<nd[i].key, nd[i].val>> : i \in {j \in DOMAIN nd : nd[j].val # Nothing}}

LEMMA EntriesAre ==
    ASSUME NEW tb, HashInv(tb)
    PROVE  /\ \A i \in DOMAIN tb.node : tb.node[i].val # Nothing =>
                 /\ tb.node[i].key \in Key /\ ~tb.node[i].dead /\ tb.node[i].val \in Value
                 /\ <<tb.node[i].key, tb.node[i].val>> \in Entries(tb.node)
           /\ Entries(tb.node) \subseteq Key \X Value
<1>1. ASSUME NEW i \in DOMAIN tb.node, tb.node[i].val # Nothing
      PROVE  /\ tb.node[i].key \in Key /\ ~tb.node[i].dead /\ tb.node[i].val \in Value
             /\ <<tb.node[i].key, tb.node[i].val>> \in Entries(tb.node)
  <2>1. tb.node[i] \in NodeRecord
    BY TableFields DEF HashInv
  <2>2. tb.node[i].key # Nothing /\ ~tb.node[i].dead
    BY <1>1, FreeNodeIs DEF HashInv, Lively
  <2>3. tb.node[i].key \in Key \cup {Nothing} /\ tb.node[i].val \in Value \cup {Nothing}
    BY <2>1, NodeFields
  <2>4. <<tb.node[i].key, tb.node[i].val>> \in Entries(tb.node)
    BY <1>1 DEF Entries
  <2> QED
    BY <1>1, <2>2, <2>3, <2>4
<1>2. Entries(tb.node) \subseteq Key \X Value
  BY <1>1 DEF Entries
<1> QED
  BY <1>1, <1>2

\* What is read from the hash part.
LEMMA GetFromHash ==
    ASSUME NEW tb, HashInv(tb), inst \in Instances, NEW k \in Index \cup Key, ~InArray(tb, k)
    PROVE  /\ Get(tb, k) \in Value \cup {Nothing}
           /\ \A v \in Value : Get(tb, k) = v <=> <<k, v>> \in Entries(tb.node)
           /\ Absent(tb, k) <=> \A i \in DOMAIN tb.node : tb.node[i].key = k => tb.node[i].dead
           /\ ~Absent(tb, k) => /\ Find(tb, k, FALSE) \in DOMAIN tb.node
                                /\ tb.node[Find(tb, k, FALSE)].key = k
                                /\ ~tb.node[Find(tb, k, FALSE)].dead
<1> DEFINE i == Find(tb, k, FALSE)
           nd == tb.node
<1>1. /\ \A j \in DOMAIN nd : j # NoNode /\ nd[j] \in NodeRecord
      /\ k # Nothing /\ Nothing \notin Value
  BY TableFields, KeysAre DEF HashInv, NoNode
<1>2. CASE Absent(tb, k)
  <2>1. i = NoNode /\ Get(tb, k) = Nothing
    BY <1>2 DEF Absent, Get
  <2>2. \A j \in DOMAIN nd : ~Meets(nd, k, FALSE, j)
    BY <1>1, <2>1, FindFirst
  <2>3. \A j \in DOMAIN nd : nd[j].key = k => nd[j].dead
    BY <2>2 DEF Meets
  <2>4. \A v \in Value : <<k, v>> \notin Entries(nd)
    <3> SUFFICES ASSUME NEW v \in Value, <<k, v>> \in Entries(nd)
                 PROVE  FALSE
      OBVIOUS
    <3>1. PICK j \in DOMAIN nd : nd[j].val # Nothing /\ <<nd[j].key, nd[j].val>> = <<k, v>>
      BY DEF Entries
    <3>2. nd[j].key = k /\ ~nd[j].dead
      BY <3>1, EntriesAre
    <3> QED
      BY <2>3, <3>2
  <2> QED
    BY <1>1, <1>2, <2>1, <2>3, <2>4
<1>3. CASE ~Absent(tb, k)
  <2>1. i # NoNode /\ Get(tb, k) = nd[i].val
    BY <1>3 DEF Absent, Get
  <2>2. i \in DOMAIN nd /\ nd[i].key = k /\ ~nd[i].dead
    <3>1. i \in DOMAIN nd /\ Meets(nd, k, FALSE, i)
      BY <2>1, FindFirst
    <3> QED
      BY <3>1 DEF Meets
  <2>3. nd[i].val \in Value \cup {Nothing}
    BY <1>1, <2>2, NodeFields
  <2>4. ASSUME NEW v \in Value
        PROVE  nd[i].val = v <=> <<k, v>> \in Entries(nd)
    <3>1. ASSUME nd[i].val = v
          PROVE  <<k, v>> \in Entries(nd)
      BY <1>1, <2>2, <3>1, EntriesAre
    <3>2. ASSUME <<k, v>> \in Entries(nd)
          PROVE  nd[i].val = v
      <4>1. PICK j \in DOMAIN nd : nd[j].val # Nothing /\ <<nd[j].key, nd[j].val>> = <<k, v>>
        BY <3>2 DEF Entries
      <4>2. nd[j].key = k /\ nd[j].val = v /\ ~nd[j].dead
        BY <4>1, EntriesAre
      <4>3. i = j
        BY <1>1, <2>2, <4>2, LiveAlone
      <4> QED
        BY <4>2, <4>3
    <3> QED
      BY <3>1, <3>2
  <2> QED
    BY <1>3, <2>1, <2>2, <2>3, <2>4
<1> QED
  BY <1>2, <1>3

LEMMA RealSizeIs ==
    ASSUME NEW tb, TableTypes(tb), SizeKnown(tb)
    PROVE  /\ RealSize(tb) = Len(tb.array)
           /\ \A k : InArray(tb, k) <=> k \in 1..Len(tb.array)
<1> DEFINE n == tb.alimit
           size == Len(tb.array)
<1>1. n \in Nat /\ size \in Nat /\ size < MaxInteger /\ n <= size /\ MaxInteger \in Nat
  BY TableFields, SizesAssumption DEF SizeKnown
<1>2. CASE tb.realasize
  <2>1. n = size /\ LimitIsSize(tb) /\ RealSize(tb) = size
    BY <1>2 DEF SizeKnown, LimitIsSize, RealSize
  <2>2. \A k : InArray(tb, k) <=> k \in Index /\ k <= n
    BY <2>1 DEF InArray
  <2> QED
    BY <1>1, <2>1, <2>2 DEF Index
<1>3. CASE ~tb.realasize
  <2>1. 2 * n > size
    BY <1>3 DEF SizeKnown
  <2>2. PICK i \in Nat : size = 2^i
    BY <1>1, <1>3 DEF SizeKnown
  <2>3. n # 0
    BY <1>1, <2>1
  <2>4. CASE IsPow2(n)
    <3>1. PICK j \in Nat : n = 2^j
      BY <1>1, <2>3, <2>4 DEF IsPow2
    <3>2. ~(j < i)
      <4> SUFFICES ASSUME j < i
                   PROVE  FALSE
        OBVIOUS
      <4>1. 2 * 2^j <= 2^i
        BY PowersGrow
      <4> QED
        BY <4>1, <3>1, <2>2, <2>1, <1>1
    <3>3. ~(i < j)
      <4> SUFFICES ASSUME i < j
                   PROVE  FALSE
        OBVIOUS
      <4>1. 2 * 2^i <= 2^j
        BY PowersGrow
      <4> QED
        BY <4>1, <3>1, <2>2, <2>1, <1>1
    <3>4. n = size
      BY <2>2, <3>1, <3>2, <3>3
    <3>5. LimitIsSize(tb) /\ RealSize(tb) = n
      BY <2>4 DEF LimitIsSize, RealSize
    <3>6. \A k : InArray(tb, k) <=> k \in Index /\ k <= n
      BY <3>5 DEF InArray
    <3> QED
      BY <1>1, <3>4, <3>5, <3>6 DEF Index
  <2>5. CASE ~IsPow2(n)
    <3>1. ~LimitIsSize(tb) /\ RealSize(tb) = 2^CeilLog2(n)
      BY <1>3, <2>5 DEF LimitIsSize, RealSize
    <3>2. n <= 2^i /\ 2 * n > 2^i
      BY <1>1, <2>1, <2>2
    <3>3. RealSize(tb) = size
      BY <1>1, <2>2, <3>1, <3>2, SizeFromLimit
    <3>4. n # size
      <4>1. i <= 2^i
        BY PowerAbove
      <4> QED
        BY <1>1, <2>1, <2>2, <2>5, <4>1 DEF IsPow2
    <3>5. \A k : InArray(tb, k) <=> k \in Index /\ (k <= n \/ k = n + 1 \/ k <= size)
      BY <3>1, <3>3 DEF InArray
    <3> QED
      BY <1>1, <3>3, <3>4, <3>5 DEF Index
  <2> QED
    BY <2>4, <2>5
<1> QED
  BY <1>2, <1>3

\* What is read from a table: elements of the array, and fields of the hash part.
LEMMA GetIs ==
    ASSUME NEW tb, TableInv(tb), inst \in Instances, NEW k \in Index \cup Key
    PROVE  /\ Get(tb, k) \in Value \cup {Nothing}
           /\ k \in 1..Len(tb.array) => Get(tb, k) = tb.array[k]
           /\ k \notin 1..Len(tb.array) =>
                 \A v \in Value : Get(tb, k) = v <=> <<k, v>> \in Entries(tb.node)
<1>1. HashInv(tb) /\ TableTypes(tb) /\ SizeKnown(tb)
  BY DEF TableInv, HashInv
<1>2. InArray(tb, k) <=> k \in 1..Len(tb.array)
  BY <1>1, RealSizeIs
<1>3. CASE InArray(tb, k)
  <2>1. Get(tb, k) = tb.array[k]
    BY <1>3 DEF Get
  <2>2. tb.array \in Seq(Value \cup {Nothing})
    BY <1>1, TableFields
  <2> QED
    BY <1>2, <1>3, <2>1, <2>2
<1>4. CASE ~InArray(tb, k)
  BY <1>1, <1>2, <1>4, GetFromHash
<1> QED
  BY <1>3, <1>4

-----------------------------------------------------------------------------
(* Insertion.                                                              *)

LEMMA TableOf ==
    ASSUME NEW a \in Seq(Value \cup {Nothing}), NEW n \in Nat, NEW r \in BOOLEAN,
           NEW b \in BOOLEAN, NEW nd \in Vectors, NEW l \in Int
    PROVE  TableTypes([array |-> a, alimit |-> n, realasize |-> r, absent |-> b,
                       node |-> nd, lastfree |-> l])
  BY DEF TableTypes

LEMMA MaxIs ==
    ASSUME NEW n \in Int, NEW S \in SUBSET (0..n), S # {}
    PROVE  MaxOf(S) \in S /\ \A j \in S : j <= MaxOf(S)
<1> DEFINE T == {n - i : i \in S}
<1>1. T \in SUBSET Nat /\ T # {}
  <2>1. \A i \in S : i \in Int /\ 0 <= i /\ i <= n
    OBVIOUS
  <2>2. \A i \in S : n - i \in Nat
    BY <2>1
  <2> QED
    BY <2>2
<1>2. PICK m \in T : \A l \in T : m <= l
  <2> HIDE DEF T
  <2> QED
    BY <1>1, LeastNumber
<1>3. PICK i \in S : m = n - i
  BY <1>2
<1>4. \A j \in S : j <= i
  BY <1>2, <1>3
<1> QED
  BY <1>4, Zenon DEF MaxOf

\* The place that getfreepos finds.
LEMMA FreePlace ==
    ASSUME NEW tb, HashInv(tb), FreePositions(tb) # {}
    PROVE  LET f == MaxOf(FreePositions(tb))
           IN  /\ tb.lastfree # Dummy /\ f \in DOMAIN tb.node /\ tb.node[f] = FreeNode
               /\ f \in 0..SizeNode(tb)
               /\ \A i \in DOMAIN tb.node : i > f => tb.node[i].key # Nothing
<1> DEFINE F == FreePositions(tb)
           f == MaxOf(F)
           l == tb.lastfree
<1>1. TableTypes(tb) /\ FreeBefore(tb) /\ Lively(tb.node)
  BY DEF HashInv
<1>2. l \in Int /\ SizeNode(tb) \in Nat \ {0} /\ DOMAIN tb.node = 0..SizeNode(tb) - 1
  BY <1>1, TableFields
<1>3. F \in SUBSET (0..l - 1) /\ \A i \in 0..l - 1 : i \in F <=> tb.node[i].key = Nothing
  BY DEF FreePositions
<1>4. f \in F /\ \A j \in F : j <= f
  <2>1. F # {} /\ l - 1 \in Int
    BY <1>2
  <2> HIDE DEF F, l
  <2> QED
    BY <1>3, <2>1, MaxIs
<1> HIDE DEF F, f
<1>5. f \in 0..l - 1 /\ tb.node[f].key = Nothing
  BY <1>3, <1>4
<1>6. l # Dummy
  BY <1>2, <1>5 DEF Dummy
<1>7. l \in 0..SizeNode(tb) /\ \A i \in DOMAIN tb.node : i >= l => tb.node[i].key # Nothing
  BY <1>1, <1>6 DEF FreeBefore
<1>8. f \in DOMAIN tb.node /\ f \in 0..SizeNode(tb)
  BY <1>2, <1>5, <1>7
<1>9. tb.node[f] = FreeNode
  BY <1>1, <1>5, <1>8 DEF Lively
<1>10. ASSUME NEW i \in DOMAIN tb.node, i > f
       PROVE  tb.node[i].key # Nothing
  BY <1>2, <1>3, <1>4, <1>5, <1>7, <1>10
<1> QED
  BY <1>6, <1>8, <1>9, <1>10 DEF f, F

\* What the insertion of a field does to a table that has a place for it.
Fresh(nd) == \A i \in DOMAIN nd : nd[i].key # Nothing => nd[i].val # Nothing
SameButNodes(tb, new) ==
    /\ new.array = tb.array /\ new.alimit = tb.alimit /\ new.realasize = tb.realasize
    /\ new.absent = tb.absent /\ DOMAIN new.node = DOMAIN tb.node
Gains(tb, new, k, v) ==
    /\ HashInv(new) /\ SameButNodes(tb, new) /\ new.lastfree # Dummy
    /\ Entries(new.node) = Entries(tb.node) \cup {<<k, v>>}
    /\ Fresh(tb.node) => Fresh(new.node)

\* A change of keys and links gives chains that have what they had, where s says where a
\* node went.
LEMMA ChainsKept ==
    ASSUME NEW nd, NEW new, Linked(nd), Linked(new), DOMAIN new = DOMAIN nd,
           NEW s \in [DOMAIN nd -> DOMAIN nd],
           \A i \in DOMAIN nd : nd[i].next # 0 =>
              s[i + nd[i].next] \in Chain(new, s[i]),
           NEW m \in DOMAIN nd, NEW i \in Chain(nd, m)
    PROVE  s[i] \in Chain(new, s[m])
<1> DEFINE S == {j \in DOMAIN nd : s[j] \in Chain(new, s[m])}
<1>1. m \in S
  BY ChainHas
<1>2. Closed(nd, S)
  <2> SUFFICES ASSUME NEW j \in S, nd[j].next # 0
               PROVE  j + nd[j].next \in S
    BY DEF Closed
  <2>1. j + nd[j].next \in DOMAIN nd
    BY DEF Linked
  <2>2. s[j + nd[j].next] \in Chain(new, s[j])
    OBVIOUS
  <2>3. s[j] \in Chain(new, s[m])
    OBVIOUS
  <2>4. s[j + nd[j].next] \in Chain(new, s[m])
    BY <2>2, <2>3, ChainFurther
  <2> QED
    BY <2>1, <2>4
<1>3. Chain(nd, m) \subseteq S
  BY <1>1, <1>2, ChainWithin
<1> QED
  BY <1>3

\* (1) The main position of the key is empty.
LEMMA InsertHere ==
    ASSUME NEW tb, HashInv(tb), inst \in Instances, NEW k \in Key, NEW v \in Value,
           \A i \in DOMAIN tb.node : tb.node[i].key = k => tb.node[i].dead,
           tb.lastfree # Dummy, NEW mp, mp = MainPosition(tb, k), tb.node[mp].val = Nothing
    PROVE  Gains(tb, SetNode(tb, mp, k, v), k, v)
<1> DEFINE nd == tb.node
           new == SetNode(tb, mp, k, v)
           x == [key |-> k, dead |-> FALSE, val |-> v, next |-> nd[mp].next]
           nn == [nd EXCEPT ![mp] = x]
<1>1. /\ TableTypes(tb) /\ Linked(nd) /\ Lively(nd) /\ Homed(tb) /\ FreeBefore(tb)
      /\ k # Nothing /\ v # Nothing
  BY KeysAre DEF HashInv
<1>2. mp \in DOMAIN nd
  BY <1>1, MainPositions
<1>3. /\ nd \in Vectors /\ nd \in [DOMAIN nd -> NodeRecord] /\ SizeNode(tb) \in Nat \ {0}
      /\ DOMAIN nd = 0..SizeNode(tb) - 1
  BY <1>1, TableFields
<1>4. x \in NodeRecord
  BY <1>2, <1>3, NodeFields, NodeOf
<1>5. nn \in [DOMAIN nd -> NodeRecord] /\ DOMAIN nn = DOMAIN nd
  BY <1>3, <1>4
<1>6. nn \in Vectors /\ Cardinality(DOMAIN nn) = Cardinality(DOMAIN nd)
  BY <1>3, <1>5, VectorOf
<1>7. new = [tb EXCEPT !.node = nn, !.lastfree = tb.lastfree]
  <2>1. new = [tb EXCEPT !.node = nn]
    BY DEF SetNode
  <2>2. DOMAIN tb = DOMAIN [tb EXCEPT !.node = nn] /\ [tb EXCEPT !.node = nn].lastfree = tb.lastfree
    BY <1>1 DEF TableTypes
  <2> HIDE DEF new, nn
  <2>3. [tb EXCEPT !.node = nn] = [tb EXCEPT !.node = nn, !.lastfree = tb.lastfree]
    BY <1>1 DEF TableTypes
  <2> QED
    BY <2>1, <2>3
<1>8. /\ TableTypes(new) /\ new.array = tb.array /\ new.alimit = tb.alimit
      /\ new.realasize = tb.realasize /\ new.absent = tb.absent
      /\ new.node = nn /\ new.lastfree = tb.lastfree
  <2> DEFINE l == tb.lastfree
  <2>1. TableTypes(tb) /\ nn \in Vectors /\ l \in Int
    BY <1>1, <1>6, TableFields
  <2>2. new = [tb EXCEPT !.node = nn, !.lastfree = l]
    BY <1>7
  <2> HIDE DEF new, nn, l
  <2>3. /\ TableTypes(new) /\ new.array = tb.array /\ new.alimit = tb.alimit
        /\ new.realasize = tb.realasize /\ new.absent = tb.absent
        /\ new.node = nn /\ new.lastfree = l
    BY <2>1, <2>2 DEF TableTypes
  <2> QED
    BY <2>3 DEF l
<1>9. /\ nn[mp] = x /\ \A i \in DOMAIN nd : i # mp => nn[i] = nd[i]
      /\ x.key = k /\ x.dead = FALSE /\ x.val = v /\ x.next = nd[mp].next
  BY <1>2
<1>10. \A i \in DOMAIN nd : nn[i].next = nd[i].next /\ (nd[i].key # Nothing => nn[i].key # Nothing)
  BY <1>1, <1>9
<1>11. new.node = nn /\ SizeNode(new) = SizeNode(tb) /\ new.lastfree = tb.lastfree
  BY <1>6, <1>8 DEF SizeNode
<1> HIDE DEF new, nn, x
<1>12. Linked(nn)
  BY <1>1, <1>5, <1>10 DEF Linked, Falls
<1>13. \A m \in DOMAIN nd : \A i \in Chain(nd, m) : i \in Chain(nn, m)
  <2> DEFINE s == [i \in DOMAIN nd |-> i]
  <2>1. ASSUME NEW i \in DOMAIN nd, nd[i].next # 0
        PROVE  s[i + nd[i].next] \in Chain(nn, s[i])
    <3>1. i + nd[i].next \in DOMAIN nd /\ nn[i].next # 0 /\ i \in Chain(nn, i)
      BY <1>1, <1>5, <1>10, <2>1, ChainHas DEF Linked
    <3>2. i + nn[i].next \in Chain(nn, i)
      BY <1>12, <3>1, ChainStep
    <3> QED
      BY <1>10, <3>1, <3>2
  <2>2. s \in [DOMAIN nd -> DOMAIN nd]
    OBVIOUS
  <2> HIDE DEF s
  <2>3. \A m \in DOMAIN nd : \A i \in Chain(nd, m) : s[i] \in Chain(nn, s[m])
    BY <1>1, <1>5, <1>12, <2>1, <2>2, ChainsKept
  <2> QED
    BY <2>3, ChainHas DEF s
<1>14. \A i \in DOMAIN nd : nd[i].key = k => i \in Chain(nn, mp)
  BY <1>1, <1>2, <1>13 DEF Homed
<1>15. Lively(nn)
  <2>1. \A i \in DOMAIN nn : nn[i].key = Nothing => nn[i] = FreeNode
    BY <1>1, <1>5, <1>9 DEF Lively
  <2>2. \A i \in DOMAIN nn : nn[i].dead => nn[i].val = Nothing
    BY <1>1, <1>5, <1>9 DEF Lively
  <2>3. ASSUME NEW i \in DOMAIN nn, NEW j \in DOMAIN nn,
               nn[i].key # Nothing, nn[i].key = nn[j].key, ~nn[i].dead
        PROVE  j \in Chain(nn, i)
    <3>1. CASE i = j
      BY <3>1, ChainHas
    <3>2. CASE i # j /\ i = mp
      BY <1>5, <1>9, <1>14, <2>3, <3>2
    <3>3. CASE i # mp /\ j = mp
      BY <1>5, <1>9, <2>3, <3>3
    <3>4. CASE i # mp /\ j # mp
      BY <1>1, <1>5, <1>9, <1>13, <2>3, <3>4 DEF Lively
    <3> QED
      BY <3>1, <3>2, <3>3, <3>4
  <2> QED
    BY <2>1, <2>2, <2>3 DEF Lively
<1>16. Homed(new)
  <2> SUFFICES ASSUME NEW i \in DOMAIN nn, nn[i].key # Nothing
               PROVE  LET m == MainPosition(tb, nn[i].key)
                      IN  /\ nn[m].key # Nothing /\ MainPosition(tb, nn[m].key) = m
                          /\ i \in Chain(nn, m)
    BY <1>11, SamePosition DEF Homed
  <2>1. CASE i = mp
    BY <1>1, <1>5, <1>9, <2>1, ChainHas
  <2>2. CASE i # mp
    <3> DEFINE m == MainPosition(tb, nd[i].key)
    <3>1. nn[i].key = nd[i].key /\ nd[i].key # Nothing /\ i \in DOMAIN nd
      BY <1>5, <1>9, <2>2
    <3>2. nd[i].key \in Key
      BY <1>3, <3>1, NodeFields
    <3>3. m \in DOMAIN nd /\ nd[m].key # Nothing /\ MainPosition(tb, nd[m].key) = m /\ i \in Chain(nd, m)
      BY <1>1, <3>1, <3>2, MainPositions DEF Homed
    <3> HIDE DEF m
    <3>4. nn[m].key # Nothing /\ MainPosition(tb, nn[m].key) = m /\ i \in Chain(nn, m)
      BY <1>1, <1>9, <1>13, <3>3
    <3> QED
      BY <3>1, <3>4 DEF m
  <2> QED
    BY <2>1, <2>2
<1>17. FreeBefore(new)
  <2>1. \A i \in DOMAIN nn : i >= tb.lastfree => nn[i].key # Nothing
    BY <1>1, <1>5, <1>10 DEF FreeBefore
  <2> QED
    BY <1>1, <1>11, <2>1 DEF FreeBefore
<1>18. HashInv(new)
  BY <1>8, <1>11, <1>12, <1>15, <1>16, <1>17 DEF HashInv
<1>19. Entries(nn) = Entries(nd) \cup {<<k, v>>}
  <2>1. ASSUME NEW e \in Entries(nn)
        PROVE  e \in Entries(nd) \cup {<<k, v>>}
    <3>1. PICK i \in DOMAIN nn : nn[i].val # Nothing /\ e = <<nn[i].key, nn[i].val>>
      BY <2>1 DEF Entries
    <3> QED
      BY <1>5, <1>9, <3>1 DEF Entries
  <2>2. ASSUME NEW e \in Entries(nd)
        PROVE  e \in Entries(nn)
    <3>1. PICK i \in DOMAIN nd : nd[i].val # Nothing /\ e = <<nd[i].key, nd[i].val>>
      BY <2>2 DEF Entries
    <3>2. nn[i] = nd[i]
      BY <1>9, <3>1
    <3> QED
      BY <1>5, <3>1, <3>2 DEF Entries
  <2>3. <<k, v>> \in Entries(nn)
    BY <1>1, <1>2, <1>5, <1>9 DEF Entries
  <2> QED
    BY <2>1, <2>2, <2>3
<1>20. Fresh(nd) => Fresh(nn)
  BY <1>1, <1>5, <1>9 DEF Fresh
<1>21. SameButNodes(tb, new)
  BY <1>5, <1>8 DEF SameButNodes
<1>22. Gains(tb, new, k, v)
  BY <1>11, <1>18, <1>19, <1>20, <1>21 DEF Gains
<1> QED
  BY <1>22 DEF new

\* (2) The node there is in its main position: the new one goes behind it.
LEMMA InsertBehind ==
    ASSUME NEW tb, HashInv(tb), inst \in Instances, NEW k \in Key, NEW v \in Value,
           \A i \in DOMAIN tb.node : tb.node[i].key = k => tb.node[i].dead,
           FreePositions(tb) # {}, NEW f, f = MaxOf(FreePositions(tb)),
           NEW mp, mp = MainPosition(tb, k), tb.node[mp].val # Nothing,
           MainPosition(tb, tb.node[mp].key) = mp
    PROVE  Gains(tb, SetNode(LinkBehind([tb EXCEPT !.lastfree = f], mp, f), f, k, v), k, v)
<1> DEFINE nd == tb.node
           fr == [tb EXCEPT !.lastfree = f]
           new == SetNode(LinkBehind(fr, mp, f), f, k, v)
           l == IF nd[mp].next = 0 THEN 0 ELSE mp + nd[mp].next - f
           x == [key |-> k, dead |-> FALSE, val |-> v, next |-> l]
           z == [nd[mp] EXCEPT !.next = f - mp]
           nn == [nd EXCEPT ![f] = x, ![mp] = z]
<1>1. /\ TableTypes(tb) /\ Linked(nd) /\ Lively(nd) /\ Homed(tb) /\ FreeBefore(tb)
      /\ k # Nothing /\ v # Nothing
  BY KeysAre DEF HashInv
<1>2. mp \in DOMAIN nd /\ f \in DOMAIN nd /\ f \in 0..SizeNode(tb) /\ tb.lastfree # Dummy
  BY <1>1, MainPositions, FreePlace
<1>3. /\ nd \in Vectors /\ nd \in [DOMAIN nd -> NodeRecord] /\ SizeNode(tb) \in Nat \ {0}
      /\ DOMAIN nd = 0..SizeNode(tb) - 1 /\ mp \in Int /\ f \in Int
  BY <1>1, <1>2, TableFields
<1>4. /\ nd[f] = FreeNode /\ nd[f].key = Nothing /\ nd[f].next = 0 /\ nd[f].val = Nothing
      /\ f # mp
  BY <1>1, FreePlace, FreeNodeIs
<1>5. nd[mp].key # Nothing /\ ~nd[mp].dead /\ nd[mp].key # k
  <2>1. nd[mp].key # Nothing /\ ~nd[mp].dead
    BY <1>1, <1>2, FreeNodeIs DEF Lively
  <2> QED
    BY <1>2, <2>1
<1>6. x \in NodeRecord /\ z \in NodeRecord /\ l \in Int
  <2>1. nd[mp].next \in Int /\ nd[mp] \in NodeRecord
    BY <1>2, <1>3, NodeFields
  <2>2. l \in Int /\ f - mp \in Int
    BY <1>3, <2>1
  <2>3. x \in NodeRecord
    BY <2>2, NodeOf
  <2>4. z \in NodeRecord
    BY <2>1, <2>2 DEF NodeRecord
  <2> QED
    BY <2>2, <2>3, <2>4
<1>7. nn \in [DOMAIN nd -> NodeRecord] /\ DOMAIN nn = DOMAIN nd
  BY <1>3, <1>6
<1>8. nn \in Vectors /\ Cardinality(DOMAIN nn) = Cardinality(DOMAIN nd)
  BY <1>3, <1>7, VectorOf
<1>9. new = [tb EXCEPT !.node = nn, !.lastfree = f]
  <2>1. fr \in [array : Seq(Value \cup {Nothing}), alimit : Nat, realasize : BOOLEAN,
                absent : BOOLEAN, node : Vectors, lastfree : Int] /\ fr.node = nd
    BY <1>1, <1>3 DEF TableTypes
  <2>2. LinkFrom(fr, f, mp) = l
    BY <2>1 DEF LinkFrom
  <2> HIDE DEF l
  <2> DEFINE lb == [fr EXCEPT !.node = [nd EXCEPT ![f] = [nd[f] EXCEPT !.next = l], ![mp] = z]]
  <2>3. LinkBehind(fr, mp, f) = lb
    BY <1>4, <2>1, <2>2 DEF LinkBehind
  <2>4. lb.node = [nd EXCEPT ![f] = [nd[f] EXCEPT !.next = l], ![mp] = z]
    BY <2>1
  <2>5. lb.node[f].next = l
    BY <1>2, <1>3, <1>4, <2>4 DEF FreeNode
  <2>6. [lb.node EXCEPT ![f] = x] = nn
    BY <1>2, <1>3, <1>4, <2>4
  <2>7. [lb EXCEPT !.node = nn] = [fr EXCEPT !.node = nn]
    <3> HIDE DEF nn, fr, z
    <3> QED
      BY <2>1
  <2>8. SetNode(lb, f, k, v) = [lb EXCEPT !.node = [lb.node EXCEPT ![f] = x]]
    <3> HIDE DEF lb
    <3> QED
      BY <2>5 DEF SetNode
  <2>9. new = [fr EXCEPT !.node = nn]
    BY <2>3, <2>6, <2>7, <2>8
  <2> HIDE DEF nn, new
  <2>10. [fr EXCEPT !.node = nn] = [tb EXCEPT !.node = nn, !.lastfree = f]
    BY <1>1 DEF TableTypes
  <2> QED
    BY <2>9, <2>10
<1>10. /\ TableTypes(new) /\ new.array = tb.array /\ new.alimit = tb.alimit
       /\ new.realasize = tb.realasize /\ new.absent = tb.absent
       /\ new.node = nn /\ new.lastfree = f
  <2>1. f \in Int
    BY <1>3
  <2> HIDE DEF new, nn
  <2> QED
    BY <1>1, <1>8, <1>9, <2>1 DEF TableTypes
<1>11. /\ nn[f] = x /\ nn[mp] = z /\ \A i \in DOMAIN nd : i # f /\ i # mp => nn[i] = nd[i]
       /\ x.key = k /\ x.dead = FALSE /\ x.val = v /\ x.next = l
       /\ z.key = nd[mp].key /\ z.dead = nd[mp].dead /\ z.val = nd[mp].val /\ z.next = f - mp
  <2>1. nd[mp] \in NodeRecord
    BY <1>2, <1>3
  <2>2. z.key = nd[mp].key /\ z.dead = nd[mp].dead /\ z.val = nd[mp].val /\ z.next = f - mp
    BY <2>1 DEF NodeRecord
  <2> QED
    BY <1>2, <1>4, <2>2
<1>12. /\ \A i \in DOMAIN nd : nd[i].key # Nothing => nn[i].key # Nothing
       /\ \A i \in DOMAIN nd : i # f => nn[i].key = nd[i].key /\ nn[i].dead = nd[i].dead
                                        /\ nn[i].val = nd[i].val
  BY <1>1, <1>4, <1>11
<1>13. SizeNode(new) = SizeNode(tb)
  BY <1>8, <1>10 DEF SizeNode
<1>14. \A i \in DOMAIN nd : nd[i].next # 0 =>
          i + nd[i].next \in DOMAIN nd /\ i + nd[i].next # f /\ nd[i + nd[i].next].key # Nothing
  BY <1>1, <1>4 DEF Linked
\* The links: mp, then f, then what was behind mp.
<1>15. /\ \A i \in DOMAIN nd : i # f /\ i # mp => nn[i].next = nd[i].next
       /\ nn[mp].next # 0 /\ mp + nn[mp].next = f
       /\ nd[mp].next = 0 => nn[f].next = 0
       /\ nd[mp].next # 0 => nn[f].next # 0 /\ f + nn[f].next = mp + nd[mp].next
  <2>1. nd[mp].next \in Int
    BY <1>2, <1>3, NodeFields
  <2>2. nn[mp].next = f - mp /\ nn[f].next = l
    BY <1>11
  <2>3. nd[mp].next # 0 => mp + nd[mp].next # f
    BY <1>2, <1>14
  <2>4. l \in Int /\ (nd[mp].next = 0 => l = 0) /\ (nd[mp].next # 0 => l = mp + nd[mp].next - f)
    BY <1>6
  <2>5. \A i \in DOMAIN nd : i # f /\ i # mp => nn[i].next = nd[i].next
    BY <1>11
  <2> HIDE DEF nn, x, z, l
  <2>6. nn[mp].next # 0 /\ mp + nn[mp].next = f
    BY <1>3, <1>4, <2>2
  <2>7. nd[mp].next # 0 => nn[f].next # 0 /\ f + nn[f].next = mp + nd[mp].next
    <3>1. mp \in Int /\ f \in Int
      BY <1>3
    <3> DEFINE q == nd[mp].next
               p == nn[f].next
    <3>2. q \in Int /\ p = l /\ (q # 0 => mp + q # f)
      BY <2>1, <2>2, <2>3
    <3>3. q # 0 => l = mp + q - f
      BY <2>4
    <3> HIDE DEF q, p
    <3>4. q # 0 => p # 0 /\ f + p = mp + q
      BY <3>1, <3>2, <3>3
    <3> QED
      BY <3>4 DEF p, q
  <2> QED
    BY <2>2, <2>4, <2>5, <2>6, <2>7
<1> HIDE DEF new, nn, x, z, l, fr
<1>16. Linked(nn)
  <2>1. ASSUME NEW i \in DOMAIN nn, nn[i].next # 0
        PROVE  i + nn[i].next \in DOMAIN nn /\ nn[i + nn[i].next].key # Nothing
    BY <1>1, <1>2, <1>7, <1>11, <1>12, <1>14, <1>15, <2>1
  <2>2. ASSUME NEW i \in DOMAIN nn, NEW j \in DOMAIN nn, nn[i].next # 0, nn[j].next # 0,
               i + nn[i].next = j + nn[j].next
        PROVE  i = j
    <3>1. CASE i = mp
      BY <1>2, <1>4, <1>7, <1>14, <1>15, <2>2, <3>1
    <3>2. CASE j = mp
      BY <1>2, <1>4, <1>7, <1>14, <1>15, <2>2, <3>2
    <3>3. CASE i # mp /\ j # mp
      BY <1>1, <1>2, <1>7, <1>15, <2>2, <3>3 DEF Linked
    <3> QED
      BY <3>1, <3>2, <3>3
  <2>3. \E rank \in [DOMAIN nn -> Nat] : Falls(nn, rank)
    <3>1. PICK rank \in [DOMAIN nd -> Nat] : Falls(nd, rank)
      BY <1>1 DEF Linked
    <3> DEFINE r == [i \in DOMAIN nn |-> IF i = f THEN 2 * rank[mp] ELSE 2 * rank[i] + 1]
    <3>2. r \in [DOMAIN nn -> Nat]
      BY <1>2, <1>7, <3>1
    <3>3. \A i \in DOMAIN nd : rank[i] \in Nat
      BY <3>1
    <3>4. \A i \in DOMAIN nd : nd[i].next # 0 => rank[i + nd[i].next] < rank[i]
      BY <3>1 DEF Falls
    <3>5. ASSUME NEW i \in DOMAIN nn, nn[i].next # 0
          PROVE  r[i + nn[i].next] < r[i]
      <4>1. CASE i = mp
        BY <1>2, <1>4, <1>7, <1>15, <3>3, <4>1
      <4>2. CASE i = f
        <5> DEFINE j == mp + nd[mp].next
        <5>1. j \in DOMAIN nd /\ j # f /\ f + nn[f].next = j /\ rank[j] < rank[mp]
          BY <1>2, <1>14, <1>15, <3>4, <3>5, <4>2
        <5>2. r[j] = 2 * rank[j] + 1 /\ r[f] = 2 * rank[mp]
          BY <1>2, <1>7, <5>1
        <5> HIDE DEF r, j
        <5> QED
          BY <1>2, <3>3, <4>2, <5>1, <5>2
      <4>3. CASE i # mp /\ i # f
        <5> DEFINE j == i + nd[i].next
        <5>1. j \in DOMAIN nd /\ j # f /\ i + nn[i].next = j /\ rank[j] < rank[i]
          BY <1>7, <1>14, <1>15, <3>4, <3>5, <4>3
        <5>2. r[j] = 2 * rank[j] + 1 /\ r[i] = 2 * rank[i] + 1
          BY <1>7, <4>3, <5>1
        <5> HIDE DEF r, j
        <5> QED
          BY <1>7, <3>3, <5>1, <5>2
      <4> QED
        BY <4>1, <4>2, <4>3
    <3> HIDE DEF r
    <3> QED
      BY <3>2, <3>5 DEF Falls
  <2> QED
    BY <2>1, <2>2, <2>3 DEF Linked
<1>17. f \in Chain(nn, mp) /\ mp \in Chain(nn, mp)
  <2>1. mp \in Chain(nn, mp)
    BY <1>2, <1>7, ChainHas
  <2>2. mp + nn[mp].next \in Chain(nn, mp)
    BY <1>15, <1>16, <2>1, ChainStep
  <2> QED
    BY <1>15, <2>1, <2>2
<1>18. ASSUME nd[mp].next # 0
       PROVE  mp + nd[mp].next \in Chain(nn, f)
  <2>1. f \in Chain(nn, f)
    BY <1>2, <1>7, ChainHas
  <2>2. f + nn[f].next \in Chain(nn, f)
    BY <1>15, <1>16, <1>18, <2>1, ChainStep
  <2> QED
    BY <1>15, <1>18, <2>2
<1>19. \A m \in DOMAIN nd : \A i \in Chain(nd, m) : i \in Chain(nn, m)
  <2> DEFINE s == [i \in DOMAIN nd |-> i]
  <2>1. ASSUME NEW i \in DOMAIN nd, nd[i].next # 0
        PROVE  s[i + nd[i].next] \in Chain(nn, s[i])
    <3>1. i + nd[i].next \in DOMAIN nd /\ i # f
      BY <1>4, <1>14, <2>1
    <3>2. CASE i = mp
      <4>1. mp + nd[mp].next \in Chain(nn, mp)
        BY <1>16, <1>17, <1>18, <2>1, <3>2, ChainFurther
      <4> QED
        BY <3>1, <3>2, <4>1
    <3>3. CASE i # mp
      <4>1. i + nd[i].next = i + nn[i].next /\ nn[i].next # 0 /\ i \in Chain(nn, i)
        BY <1>7, <1>15, <2>1, <3>1, <3>3, ChainHas
      <4>2. i + nn[i].next \in Chain(nn, i)
        BY <1>16, <4>1, ChainStep
      <4> QED
        BY <3>1, <4>1, <4>2
    <3> QED
      BY <3>2, <3>3
  <2>2. s \in [DOMAIN nd -> DOMAIN nd]
    OBVIOUS
  <2> HIDE DEF s
  <2>3. \A m \in DOMAIN nd : \A i \in Chain(nd, m) : s[i] \in Chain(nn, s[m])
    BY <1>1, <1>7, <1>16, <2>1, <2>2, ChainsKept
  <2> QED
    BY <2>3, ChainHas DEF s
<1>20. \A i \in DOMAIN nd : nd[i].key = k => i \in Chain(nn, f)
  <2> SUFFICES ASSUME NEW i \in DOMAIN nd, nd[i].key = k
               PROVE  i \in Chain(nn, f)
    OBVIOUS
  <2>1. i \in Chain(nd, mp) /\ i # mp
    BY <1>1, <1>5 DEF Homed
  <2>2. nd[mp].next # 0
    BY <1>2, <2>1, ChainEnd
  <2> DEFINE j == mp + nd[mp].next
  <2>3. Chain(nd, mp) = {mp} \cup Chain(nd, j) /\ j \in DOMAIN nd
    BY <1>1, <1>2, <1>14, <2>2, ChainNext
  <2>4. i \in Chain(nn, j)
    BY <1>19, <2>1, <2>3
  <2>5. j \in Chain(nn, f)
    BY <1>18, <2>2
  <2> HIDE DEF j
  <2> QED
    BY <1>16, <2>4, <2>5, ChainFurther
<1>21. Lively(nn)
  <2>1. \A i \in DOMAIN nn : nn[i].key = Nothing => nn[i] = FreeNode
    BY <1>1, <1>5, <1>7, <1>11, <1>12 DEF Lively
  <2>2. \A i \in DOMAIN nn : nn[i].dead => nn[i].val = Nothing
    BY <1>1, <1>7, <1>11, <1>12 DEF Lively
  <2>3. ASSUME NEW i \in DOMAIN nn, NEW j \in DOMAIN nn,
               nn[i].key # Nothing, nn[i].key = nn[j].key, ~nn[i].dead
        PROVE  j \in Chain(nn, i)
    <3>1. CASE i = j
      BY <3>1, ChainHas
    <3>2. CASE i # j /\ i = f
      BY <1>7, <1>11, <1>12, <1>20, <2>3, <3>2
    <3>3. CASE i # f /\ j = f
      BY <1>7, <1>11, <1>12, <2>3, <3>3
    <3>4. CASE i # f /\ j # f
      BY <1>1, <1>7, <1>12, <1>19, <2>3, <3>4 DEF Lively
    <3> QED
      BY <3>1, <3>2, <3>3, <3>4
  <2> QED
    BY <2>1, <2>2, <2>3 DEF Lively
<1>22. Homed(new)
  <2> SUFFICES ASSUME NEW i \in DOMAIN nn, nn[i].key # Nothing
               PROVE  LET m == MainPosition(tb, nn[i].key)
                      IN  /\ nn[m].key # Nothing /\ MainPosition(tb, nn[m].key) = m
                          /\ i \in Chain(nn, m)
    BY <1>10, <1>13, SamePosition DEF Homed
  <2>1. CASE i = f
    BY <1>2, <1>4, <1>5, <1>11, <1>12, <1>17, <2>1
  <2>2. CASE i # f
    <3> DEFINE m == MainPosition(tb, nd[i].key)
    <3>1. nn[i].key = nd[i].key /\ nd[i].key # Nothing /\ i \in DOMAIN nd
      BY <1>7, <1>12, <2>2
    <3>2. nd[i].key \in Key
      BY <1>3, <3>1, NodeFields
    <3>3. m \in DOMAIN nd /\ nd[m].key # Nothing /\ MainPosition(tb, nd[m].key) = m /\ i \in Chain(nd, m)
      BY <1>1, <3>1, <3>2, MainPositions DEF Homed
    <3> HIDE DEF m
    <3>4. nn[m].key # Nothing /\ MainPosition(tb, nn[m].key) = m /\ i \in Chain(nn, m)
      BY <1>4, <1>12, <1>19, <3>3
    <3> QED
      BY <3>1, <3>4 DEF m
  <2> QED
    BY <2>1, <2>2
<1>23. FreeBefore(new) /\ f # Dummy
  <2>1. \A i \in DOMAIN nd : i > f => nd[i].key # Nothing
    BY FreePlace
  <2>2. \A i \in DOMAIN nn : i >= f => nn[i].key # Nothing
    BY <1>1, <1>3, <1>7, <1>11, <1>12, <2>1
  <2>3. f # Dummy /\ f \in 0..SizeNode(new)
    BY <1>2, <1>3, <1>13 DEF Dummy
  <2> QED
    BY <1>10, <2>2, <2>3 DEF FreeBefore
<1>24. HashInv(new)
  BY <1>10, <1>16, <1>21, <1>22, <1>23 DEF HashInv
<1>25. Entries(nn) = Entries(nd) \cup {<<k, v>>}
  <2>1. ASSUME NEW e \in Entries(nn)
        PROVE  e \in Entries(nd) \cup {<<k, v>>}
    <3>1. PICK i \in DOMAIN nn : nn[i].val # Nothing /\ e = <<nn[i].key, nn[i].val>>
      BY <2>1 DEF Entries
    <3> QED
      BY <1>7, <1>11, <1>12, <3>1 DEF Entries
  <2>2. ASSUME NEW e \in Entries(nd)
        PROVE  e \in Entries(nn)
    <3>1. PICK i \in DOMAIN nd : nd[i].val # Nothing /\ e = <<nd[i].key, nd[i].val>>
      BY <2>2 DEF Entries
    <3>2. i # f
      BY <1>4, <3>1
    <3> QED
      BY <1>7, <1>12, <3>1, <3>2 DEF Entries
  <2>3. <<k, v>> \in Entries(nn)
    BY <1>1, <1>2, <1>7, <1>11 DEF Entries
  <2> QED
    BY <2>1, <2>2, <2>3
<1>26. Fresh(nd) => Fresh(nn)
  BY <1>1, <1>7, <1>11, <1>12 DEF Fresh
<1>27. SameButNodes(tb, new)
  BY <1>7, <1>10 DEF SameButNodes
<1>28. Gains(tb, new, k, v)
  BY <1>10, <1>23, <1>24, <1>25, <1>26, <1>27 DEF Gains
<1> QED
  BY <1>28 DEF new, fr

\* The node before one that is not at the beginning of its chain.
Behind(nd, mp, g) ==
    [i \in DOMAIN nd |-> IF i + nd[i].next = mp THEN i ELSE g[i + nd[i].next]]

LEMMA BeforeExists ==
    ASSUME NEW nd, Linked(nd), \A i \in DOMAIN nd : i \in Int /\ nd[i].next \in Int,
           NEW mp \in DOMAIN nd, NEW home \in DOMAIN nd, home # mp, mp \in Chain(nd, home)
    PROVE  /\ \E g : g = Behind(nd, mp, g)
           /\ \E p \in DOMAIN nd :
                 /\ nd[p].next # 0 /\ p + nd[p].next = mp
                 /\ \A g : g = Behind(nd, mp, g) => g[home] = p
<1>1. PICK p \in DOMAIN nd : nd[p].next # 0 /\ p + nd[p].next = mp
  <2> SUFFICES ASSUME \A p \in DOMAIN nd : nd[p].next # 0 => p + nd[p].next # mp
               PROVE  FALSE
    OBVIOUS
  <2> DEFINE S == Chain(nd, home) \ {mp}
  <2>1. Closed(nd, S)
    BY ChainClosed DEF Closed, Chain
  <2>2. home \in S /\ S \in SUBSET DOMAIN nd
    BY ChainHas
  <2>3. Chain(nd, home) \subseteq S
    BY <2>1, <2>2, ChainWithin
  <2> QED
    BY <2>3
<1>2. \A i \in DOMAIN nd : nd[i].next # 0 /\ i + nd[i].next = mp => i = p
  BY <1>1 DEF Linked
<1>3. \E g : g = Behind(nd, mp, g)
  <2> DEFINE g == [i \in DOMAIN nd |-> IF i + nd[i].next = mp THEN i ELSE p]
  <2>1. ASSUME NEW i \in DOMAIN nd
        PROVE  g[i] = IF i + nd[i].next = mp THEN i ELSE g[i + nd[i].next]
    <3>1. CASE i + nd[i].next = mp
      BY <3>1
    <3>2. CASE i + nd[i].next # mp
      <4> DEFINE j == i + nd[i].next
      <4>1. j \in DOMAIN nd
        <5>1. CASE nd[i].next = 0
          BY <5>1
        <5>2. CASE nd[i].next # 0
          BY <5>2 DEF Linked
        <5> QED
          BY <5>1, <5>2
      <4>2. j + nd[j].next = mp => j = p
        <5>1. CASE nd[j].next # 0
          BY <1>2, <4>1, <5>1
        <5>2. CASE nd[j].next = 0
          <6>1. j \in Int
            BY <4>1
          <6> HIDE DEF j
          <6>2. j + nd[j].next = j
            BY <5>2, <6>1
          <6> QED
            BY <3>2, <6>2 DEF j
        <5> QED
          BY <5>1, <5>2
      <4>3. g[i] = p
        BY <3>2
      <4> HIDE DEF j
      <4>4. g[j] = p
        BY <4>1, <4>2
      <4> HIDE DEF g
      <4> QED
        BY <3>2, <4>3, <4>4 DEF j
    <3> QED
      BY <3>1, <3>2
  <2>2. g = [i \in DOMAIN nd |-> g[i]]
    OBVIOUS
  <2> HIDE DEF g
  <2>3. g = Behind(nd, mp, g)
    BY <2>1, <2>2 DEF Behind
  <2> QED
    BY <2>3
<1>4. ASSUME NEW g, g = Behind(nd, mp, g)
      PROVE  g[home] = p
  <2>1. PICK rank \in [DOMAIN nd -> Nat] : Falls(nd, rank)
    BY DEF Linked
  <2>2. \A l \in DOMAIN nd : g[l] = IF l + nd[l].next = mp THEN l ELSE g[l + nd[l].next]
    BY <1>4, Zenon DEF Behind
  <2> DEFINE Bad(l) == l # mp /\ mp \in Chain(nd, l) /\ g[l] # p
             T == {rank[l] : l \in {m \in DOMAIN nd : Bad(m)}}
  <2>3. T \in SUBSET Nat
    BY <2>1
  <2> SUFFICES ASSUME Bad(home)
               PROVE  FALSE
    OBVIOUS
  <2>4. T # {}
    OBVIOUS
  <2>5. PICK n \in T : \A m \in T : n <= m
    <3> HIDE DEF T
    <3> QED
      BY <2>3, <2>4, LeastNumber
  <2>6. PICK l \in DOMAIN nd : Bad(l) /\ n = rank[l]
    BY <2>5
  <2>7. \A m \in DOMAIN nd : Bad(m) => rank[l] <= rank[m]
    BY <2>5, <2>6
  <2> HIDE DEF T
  <2> DEFINE j == l + nd[l].next
  <2>8. nd[l].next # 0
    BY <2>6, ChainEnd
  <2>9. j # mp
    BY <1>2, <2>2, <2>6, <2>8
  <2>10. Chain(nd, l) = {l} \cup Chain(nd, j) /\ j \in DOMAIN nd /\ rank[j] < rank[l]
    BY <2>1, <2>8, ChainNext DEF Linked, Falls
  <2>11. g[l] = g[j]
    BY <2>2, <2>9
  <2> HIDE DEF j
  <2>12. Bad(j)
    BY <2>6, <2>9, <2>10, <2>11
  <2>13. rank[j] \in Nat /\ rank[l] \in Nat
    BY <2>1, <2>10
  <2> HIDE DEF Bad
  <2> QED
    BY <2>7, <2>10, <2>12, <2>13
<1> QED
  BY <1>1, <1>3, <1>4

MovedAway(tb, mp, f, p) ==
    [tb EXCEPT !.node[p].next = f - p,
               !.node[f] = [tb.node[mp] EXCEPT !.next = LinkFrom(tb, f, mp)],
               !.node[mp] = [@ EXCEPT !.next = 0, !.val = Nothing]]

LEMMA MoveAwayIs ==
    ASSUME NEW tb, NEW mp, NEW f
    PROVE  \E g : /\ g = Behind(tb.node, mp, g) \/ ~(\E h : h = Behind(tb.node, mp, h))
                  /\ MoveAway(tb, mp, f) =
                     MovedAway(tb, mp, f, g[MainPosition(tb, tb.node[mp].key)])
<1> DEFINE W(g) == [i \in DOMAIN tb.node |->
                       IF i + tb.node[i].next = mp THEN i ELSE g[i + tb.node[i].next]]
           g == CHOOSE h : h = W(h)
           p == g[MainPosition(tb, tb.node[mp].key)]
<1>1. \A h : W(h) = Behind(tb.node, mp, h)
  BY DEF Behind
<1>2. MoveAway(tb, mp, f) = MovedAway(tb, mp, f, p)
  BY DEF MoveAway, MovedAway
<1>3. (\E h : h = W(h)) => g = W(g)
  <2> HIDE DEF W
  <2> QED
    BY Zenon
<1> HIDE DEF W, g
<1> QED
  BY <1>1, <1>2, <1>3

\* (3) It is not: it moves to the free place, and the new one goes where it was.
LEMMA InsertMoved ==
    ASSUME NEW tb, HashInv(tb), inst \in Instances, NEW k \in Key, NEW v \in Value,
           FreePositions(tb) # {}, NEW f, f = MaxOf(FreePositions(tb)),
           NEW mp, mp = MainPosition(tb, k), tb.node[mp].val # Nothing,
           MainPosition(tb, tb.node[mp].key) # mp
    PROVE  Gains(tb, SetNode(MoveAway([tb EXCEPT !.lastfree = f], mp, f), mp, k, v), k, v)
<1> DEFINE nd == tb.node
           fr == [tb EXCEPT !.lastfree = f]
           new == SetNode(MoveAway(fr, mp, f), mp, k, v)
           home == MainPosition(tb, nd[mp].key)
           l == IF nd[mp].next = 0 THEN 0 ELSE mp + nd[mp].next - f
           x == [key |-> k, dead |-> FALSE, val |-> v, next |-> 0]
           z == [nd[mp] EXCEPT !.next = l]
<1>1. /\ TableTypes(tb) /\ Linked(nd) /\ Lively(nd) /\ Homed(tb) /\ FreeBefore(tb)
      /\ k # Nothing /\ v # Nothing
  BY KeysAre DEF HashInv
<1>2. mp \in DOMAIN nd /\ f \in DOMAIN nd /\ f \in 0..SizeNode(tb) /\ tb.lastfree # Dummy
  BY <1>1, MainPositions, FreePlace
<1>3. /\ nd \in Vectors /\ nd \in [DOMAIN nd -> NodeRecord] /\ SizeNode(tb) \in Nat \ {0}
      /\ DOMAIN nd = 0..SizeNode(tb) - 1 /\ mp \in Int /\ f \in Int
      /\ \A i \in DOMAIN nd : i \in Int /\ nd[i] \in NodeRecord /\ nd[i].next \in Int
  BY <1>1, <1>2, TableFields, NodeFields
<1>4. /\ nd[f] = FreeNode /\ nd[f].key = Nothing /\ nd[f].next = 0 /\ nd[f].val = Nothing
      /\ f # mp
  BY <1>1, FreePlace, FreeNodeIs
<1>5. nd[mp].key \in Key /\ ~nd[mp].dead /\ nd[mp].key # Nothing
  <2>1. nd[mp].key # Nothing /\ ~nd[mp].dead
    BY <1>1, <1>2, FreeNodeIs DEF Lively
  <2> QED
    BY <1>2, <1>3, <2>1, NodeFields
<1>6. \A i \in DOMAIN nd : nd[i].key # k
  BY <1>1 DEF Homed
<1>7. home \in DOMAIN nd /\ home # mp /\ mp \in Chain(nd, home)
  BY <1>1, <1>2, <1>5, MainPositions DEF Homed
<1> HIDE DEF home
<1>8. PICK p \in DOMAIN nd : /\ nd[p].next # 0 /\ p + nd[p].next = mp
                             /\ \A g : g = Behind(nd, mp, g) => g[home] = p
  BY <1>1, <1>2, <1>3, <1>7, BeforeExists
<1>9. p # mp /\ p # f
  <2>1. PICK rank \in [DOMAIN nd -> Nat] : Falls(nd, rank)
    BY <1>1 DEF Linked
  <2>2. rank[mp] < rank[p]
    BY <1>8, <2>1 DEF Falls
  <2>3. rank[mp] \in Nat
    BY <1>2, <2>1
  <2> QED
    BY <1>4, <1>8, <2>2, <2>3
<1> DEFINE y == [nd[p] EXCEPT !.next = f - p]
           nn == [nd EXCEPT ![p] = y, ![f] = z, ![mp] = x]
<1>10. x \in NodeRecord /\ y \in NodeRecord /\ z \in NodeRecord /\ l \in Int /\ p \in Int
  <2>1. /\ nd[mp].next \in Int /\ nd[mp] \in NodeRecord
        /\ nd[p].next \in Int /\ nd[p] \in NodeRecord /\ p \in Int
    BY <1>2, <1>3, <1>8
  <2>2. l \in Int /\ f - p \in Int
    BY <1>3, <2>1
  <2>3. x \in NodeRecord
    BY DEF NodeRecord
  <2> HIDE DEF l
  <2>4. y \in NodeRecord
    BY <2>1, <2>2 DEF NodeRecord
  <2>5. z \in NodeRecord
    BY <2>1, <2>2 DEF NodeRecord
  <2> QED
    BY <2>1, <2>2, <2>3, <2>4, <2>5
<1>11. nn \in [DOMAIN nd -> NodeRecord] /\ DOMAIN nn = DOMAIN nd
  BY <1>3, <1>10
<1>12. nn \in Vectors /\ Cardinality(DOMAIN nn) = Cardinality(DOMAIN nd)
  BY <1>3, <1>11, VectorOf
<1>13. new = [tb EXCEPT !.node = nn, !.lastfree = f]
  <2>1. fr \in [array : Seq(Value \cup {Nothing}), alimit : Nat, realasize : BOOLEAN,
                absent : BOOLEAN, node : Vectors, lastfree : Int] /\ fr.node = nd
    BY <1>1, <1>3 DEF TableTypes
  <2>2. LinkFrom(fr, f, mp) = l
    BY <2>1 DEF LinkFrom
  <2>3. SizeNode(fr) = SizeNode(tb)
    BY <2>1 DEF SizeNode
  <2>4. MainPosition(fr, nd[mp].key) = home
    BY <2>3, SamePosition DEF home
  <2> HIDE DEF l
  <2> DEFINE w == [[nd[mp] EXCEPT !.next = 0] EXCEPT !.val = Nothing]
             ma == [fr EXCEPT !.node = [nd EXCEPT ![p] = y, ![f] = z, ![mp] = w]]
  <2>5. MoveAway(fr, mp, f) =
         [fr EXCEPT !.node[p].next = f - p, !.node[f] = [nd[mp] EXCEPT !.next = l],
                    !.node[mp] = [@ EXCEPT !.next = 0, !.val = Nothing]]
    <3> HIDE DEF fr
    <3>1. PICK g : /\ g = Behind(fr.node, mp, g) \/ ~(\E h : h = Behind(fr.node, mp, h))
                   /\ MoveAway(fr, mp, f) =
                      MovedAway(fr, mp, f, g[MainPosition(fr, fr.node[mp].key)])
      BY MoveAwayIs, Zenon
    <3>2. /\ g = Behind(nd, mp, g) \/ ~(\E h : h = Behind(nd, mp, h))
          /\ MoveAway(fr, mp, f) = MovedAway(fr, mp, f, g[home])
      BY <2>1, <2>4, <3>1
    <3>3. g = Behind(nd, mp, g)
      BY <1>1, <1>2, <1>3, <1>7, <3>2, BeforeExists
    <3>4. g[home] = p
      BY <1>8, <3>3
    <3>5. MoveAway(fr, mp, f) = MovedAway(fr, mp, f, p)
      BY <3>2, <3>4
    <3> QED
      BY <2>1, <2>2, <3>5 DEF MovedAway
  <2>6. MoveAway(fr, mp, f) = ma
    BY <1>2, <1>3, <1>4, <1>8, <1>9, <2>1, <2>5
  <2>7. ma.node = [nd EXCEPT ![p] = y, ![f] = z, ![mp] = w]
    BY <2>1
  <2>8. w.next = 0
    BY <1>2, <1>3 DEF NodeRecord
  <2>9. ma.node[mp].next = 0 /\ [ma.node EXCEPT ![mp] = x] = nn
    <3> HIDE DEF w, y, z, x, ma
    <3> QED
      BY <1>2, <1>3, <2>7, <2>8
  <2>10. [ma EXCEPT !.node = nn] = [fr EXCEPT !.node = nn]
    <3> HIDE DEF nn, fr, z, y, w
    <3> QED
      BY <2>1
  <2>11. SetNode(ma, mp, k, v) = [ma EXCEPT !.node = [ma.node EXCEPT ![mp] = x]]
    <3> HIDE DEF ma
    <3> QED
      BY <2>9 DEF SetNode
  <2>12. new = [fr EXCEPT !.node = nn]
    BY <2>6, <2>9, <2>10, <2>11
  <2> HIDE DEF nn, new
  <2>13. [fr EXCEPT !.node = nn] = [tb EXCEPT !.node = nn, !.lastfree = f]
    BY <1>1 DEF TableTypes
  <2> QED
    BY <2>12, <2>13
<1>14. /\ TableTypes(new) /\ new.array = tb.array /\ new.alimit = tb.alimit
       /\ new.realasize = tb.realasize /\ new.absent = tb.absent
       /\ new.node = nn /\ new.lastfree = f
  <2>1. f \in Int
    BY <1>3
  <2> HIDE DEF new, nn
  <2> QED
    BY <1>1, <1>12, <1>13, <2>1 DEF TableTypes
<1>15. /\ nn[f] = z /\ nn[mp] = x /\ nn[p] = y
       /\ \A i \in DOMAIN nd : i # f /\ i # mp /\ i # p => nn[i] = nd[i]
       /\ x.key = k /\ x.dead = FALSE /\ x.val = v /\ x.next = 0
       /\ z.key = nd[mp].key /\ z.dead = nd[mp].dead /\ z.val = nd[mp].val /\ z.next = l
       /\ y.key = nd[p].key /\ y.dead = nd[p].dead /\ y.val = nd[p].val /\ y.next = f - p
  <2>1. nd[mp] \in NodeRecord /\ nd[p] \in NodeRecord
    BY <1>2, <1>3, <1>8
  <2> HIDE DEF l
  <2>2. z.key = nd[mp].key /\ z.dead = nd[mp].dead /\ z.val = nd[mp].val /\ z.next = l
    BY <2>1 DEF NodeRecord
  <2>3. y.key = nd[p].key /\ y.dead = nd[p].dead /\ y.val = nd[p].val /\ y.next = f - p
    BY <2>1 DEF NodeRecord
  <2>4. x.key = k /\ x.dead = FALSE /\ x.val = v /\ x.next = 0
    OBVIOUS
  <2> HIDE DEF x, y, z
  <2>5. /\ nn[f] = z /\ nn[mp] = x /\ nn[p] = y
        /\ \A i \in DOMAIN nd : i # f /\ i # mp /\ i # p => nn[i] = nd[i]
    BY <1>2, <1>3, <1>4, <1>8, <1>9
  <2> QED
    BY <2>2, <2>3, <2>4, <2>5
<1>16. SizeNode(new) = SizeNode(tb)
  BY <1>12, <1>14 DEF SizeNode
<1>17. \A i \in DOMAIN nd : nd[i].next # 0 =>
          i + nd[i].next \in DOMAIN nd /\ i + nd[i].next # f /\ nd[i + nd[i].next].key # Nothing
  BY <1>1, <1>4 DEF Linked
<1>18. \A i \in DOMAIN nd : nd[i].next # 0 /\ i # p => i + nd[i].next # mp
  BY <1>1, <1>8 DEF Linked
\* The links: p, then f, then what was behind mp.
<1>19. /\ \A i \in DOMAIN nd : i # f /\ i # mp /\ i # p => nn[i].next = nd[i].next
       /\ nn[p].next # 0 /\ p + nn[p].next = f /\ nn[mp].next = 0
       /\ nd[mp].next = 0 => nn[f].next = 0
       /\ nd[mp].next # 0 => nn[f].next # 0 /\ f + nn[f].next = mp + nd[mp].next
  <2>1. nd[mp].next \in Int /\ p \in Int /\ mp \in Int /\ f \in Int
    BY <1>2, <1>3, <1>10
  <2>2. nn[p].next = f - p /\ nn[f].next = l /\ nn[mp].next = 0
    BY <1>15
  <2>3. nd[mp].next # 0 => mp + nd[mp].next # f
    BY <1>2, <1>17
  <2>4. l \in Int /\ (nd[mp].next = 0 => l = 0) /\ (nd[mp].next # 0 => l = mp + nd[mp].next - f)
    BY <1>10
  <2>5. \A i \in DOMAIN nd : i # f /\ i # mp /\ i # p => nn[i].next = nd[i].next
    BY <1>15
  <2> HIDE DEF nn, x, y, z, l
  <2>6. nn[p].next # 0 /\ p + nn[p].next = f
    BY <1>9, <2>1, <2>2
  <2>7. nd[mp].next # 0 => nn[f].next # 0 /\ f + nn[f].next = mp + nd[mp].next
    <3> DEFINE q == nd[mp].next
               r == nn[f].next
    <3>1. q \in Int /\ r = l /\ (q # 0 => mp + q # f) /\ (q # 0 => l = mp + q - f)
      BY <2>1, <2>2, <2>3, <2>4
    <3> HIDE DEF q, r
    <3>2. q # 0 => r # 0 /\ f + r = mp + q
      BY <2>1, <3>1
    <3> QED
      BY <3>2 DEF r, q
  <2> QED
    BY <2>2, <2>4, <2>5, <2>6, <2>7
<1>20. /\ \A i \in DOMAIN nd : i # f /\ i # mp => nn[i].key = nd[i].key /\ nn[i].dead = nd[i].dead
                                                  /\ nn[i].val = nd[i].val
       /\ nn[f].key = nd[mp].key /\ nn[f].dead = nd[mp].dead /\ nn[f].val = nd[mp].val
       /\ nn[mp].key = k /\ nn[mp].dead = FALSE /\ nn[mp].val = v
       /\ \A i \in DOMAIN nd : nd[i].key # Nothing => nn[i].key # Nothing
  BY <1>1, <1>4, <1>5, <1>15
<1> HIDE DEF new, nn, x, y, z, l, fr
<1>21. Linked(nn)
  <2>1. ASSUME NEW i \in DOMAIN nn, nn[i].next # 0
        PROVE  i + nn[i].next \in DOMAIN nn /\ nn[i + nn[i].next].key # Nothing
    <3>1. CASE i = p
      BY <1>2, <1>5, <1>11, <1>19, <1>20, <3>1
    <3>2. CASE i = f
      BY <1>2, <1>11, <1>17, <1>19, <1>20, <2>1, <3>2
    <3>3. CASE i # p /\ i # f
      BY <1>11, <1>17, <1>19, <1>20, <2>1, <3>3
    <3> QED
      BY <3>1, <3>2, <3>3
  <2>2. ASSUME NEW i \in DOMAIN nn, NEW j \in DOMAIN nn, nn[i].next # 0, nn[j].next # 0,
               i + nn[i].next = j + nn[j].next
        PROVE  i = j
    <3>1. i # mp /\ j # mp
      BY <1>19, <2>2
    <3>2. CASE i = p \/ j = p
      BY <1>2, <1>11, <1>17, <1>19, <2>2, <3>1, <3>2
    <3>3. CASE i # p /\ j # p /\ i = f /\ j # f
      <4>1. nd[mp].next # 0 /\ nd[j].next # 0 /\ mp + nd[mp].next = j + nd[j].next /\ j \in DOMAIN nd
        BY <1>11, <1>19, <2>2, <3>1, <3>3
      <4>2. mp = j
        BY <1>1, <1>2, <4>1 DEF Linked
      <4> QED
        BY <3>1, <4>2
    <3>4. CASE i # p /\ j # p /\ i # f /\ j = f
      <4>1. nd[mp].next # 0 /\ nd[i].next # 0 /\ mp + nd[mp].next = i + nd[i].next /\ i \in DOMAIN nd
        BY <1>11, <1>19, <2>2, <3>1, <3>4
      <4>2. mp = i
        BY <1>1, <1>2, <4>1 DEF Linked
      <4> QED
        BY <3>1, <4>2
    <3>5. CASE i # p /\ j # p /\ i # f /\ j # f
      BY <1>1, <1>11, <1>19, <2>2, <3>1, <3>5 DEF Linked
    <3> QED
      BY <3>2, <3>3, <3>4, <3>5
  <2>3. \E rank \in [DOMAIN nn -> Nat] : Falls(nn, rank)
    <3>1. PICK rank \in [DOMAIN nd -> Nat] : Falls(nd, rank)
      BY <1>1 DEF Linked
    <3> DEFINE r == [i \in DOMAIN nn |-> IF i = f THEN rank[mp] ELSE rank[i]]
    <3>2. r \in [DOMAIN nn -> Nat]
      BY <1>2, <1>11, <3>1
    <3>3. \A i \in DOMAIN nd : nd[i].next # 0 => rank[i + nd[i].next] < rank[i]
      BY <3>1 DEF Falls
    <3>4. ASSUME NEW i \in DOMAIN nn, nn[i].next # 0
          PROVE  r[i + nn[i].next] < r[i]
      <4>1. CASE i = p
        <5>1. rank[mp] < rank[p]
          BY <1>8, <3>3
        <5>2. r[f] = rank[mp] /\ r[p] = rank[p]
          BY <1>2, <1>8, <1>9, <1>11
        <5> HIDE DEF r
        <5> QED
          BY <1>19, <4>1, <5>1, <5>2
      <4>2. CASE i = f
        <5> DEFINE j == mp + nd[mp].next
        <5>1. j \in DOMAIN nd /\ j # f /\ f + nn[f].next = j /\ rank[j] < rank[mp]
          BY <1>2, <1>17, <1>19, <3>3, <3>4, <4>2
        <5>2. r[j] = rank[j] /\ r[f] = rank[mp]
          BY <1>2, <1>11, <5>1
        <5> HIDE DEF r, j
        <5> QED
          BY <4>2, <5>1, <5>2
      <4>3. CASE i # p /\ i # f
        <5> DEFINE j == i + nd[i].next
        <5>1. j \in DOMAIN nd /\ j # f /\ i + nn[i].next = j /\ rank[j] < rank[i]
          BY <1>11, <1>17, <1>19, <3>3, <3>4, <4>3
        <5>2. r[j] = rank[j] /\ r[i] = rank[i]
          BY <1>11, <4>3, <5>1
        <5> HIDE DEF r, j
        <5> QED
          BY <5>1, <5>2
      <4> QED
        BY <4>1, <4>2, <4>3
    <3> HIDE DEF r
    <3> QED
      BY <3>2, <3>4 DEF Falls
  <2> QED
    BY <2>1, <2>2, <2>3 DEF Linked
\* Where the nodes have gone.
<1> DEFINE s == [i \in DOMAIN nd |-> IF i = mp THEN f ELSE i]
<1>22. s \in [DOMAIN nd -> DOMAIN nd]
  BY <1>2
<1>23. \A i \in DOMAIN nd : i # mp => s[i] = i
  OBVIOUS
<1>24. s[mp] = f
  BY <1>2
<1> HIDE DEF s
<1>25. \A m \in DOMAIN nd : \A i \in Chain(nd, m) : s[i] \in Chain(nn, s[m])
  <2>1. ASSUME NEW i \in DOMAIN nd, nd[i].next # 0
        PROVE  s[i + nd[i].next] \in Chain(nn, s[i])
    <3>1. i + nd[i].next \in DOMAIN nd /\ i # f
      BY <1>4, <1>17, <2>1
    <3>2. s[i] \in Chain(nn, s[i])
      BY <1>11, <1>22, ChainHas
    <3>3. nn[s[i]].next # 0 => s[i] + nn[s[i]].next \in Chain(nn, s[i])
      BY <1>21, <3>2, ChainStep
    <3>4. nn[s[i]].next # 0 /\ s[i] + nn[s[i]].next = s[i + nd[i].next]
      <4>1. CASE i = p
        BY <1>8, <1>9, <1>19, <1>23, <1>24, <4>1
      <4>2. CASE i = mp
        BY <1>9, <1>18, <1>19, <1>23, <1>24, <2>1, <3>1, <4>2
      <4>3. CASE i # p /\ i # mp
        BY <1>18, <1>19, <1>23, <2>1, <3>1, <4>3
      <4> QED
        BY <4>1, <4>2, <4>3
    <3> QED
      BY <3>3, <3>4
  <2> QED
    BY <1>1, <1>11, <1>21, <1>22, <2>1, ChainsKept
\* Every node but that of the new key was elsewhere.
<1>26. \A i \in DOMAIN nn : nn[i].key # Nothing /\ i # mp =>
          \E j \in DOMAIN nd : /\ s[j] = i /\ nd[j].key = nn[i].key /\ nd[j].dead = nn[i].dead
                               /\ nd[j].val = nn[i].val
  <2> SUFFICES ASSUME NEW i \in DOMAIN nn, nn[i].key # Nothing, i # mp
               PROVE  \E j \in DOMAIN nd : /\ s[j] = i /\ nd[j].key = nn[i].key
                                           /\ nd[j].dead = nn[i].dead /\ nd[j].val = nn[i].val
    OBVIOUS
  <2>1. CASE i = f
    BY <1>2, <1>20, <1>24, <2>1
  <2>2. CASE i # f
    BY <1>11, <1>20, <1>23, <2>2
  <2> QED
    BY <2>1, <2>2
<1>27. Lively(nn)
  <2>1. \A i \in DOMAIN nn : nn[i].key = Nothing => nn[i] = FreeNode
    <3> SUFFICES ASSUME NEW i \in DOMAIN nn, nn[i].key = Nothing
                 PROVE  nn[i] = FreeNode
      OBVIOUS
    <3>1. i # f /\ i # mp /\ nd[i] = FreeNode /\ i # p
      BY <1>1, <1>5, <1>8, <1>11, <1>20, FreeNodeIs DEF Lively
    <3> QED
      BY <1>11, <1>15, <3>1 DEF nn
  <2>2. \A i \in DOMAIN nn : nn[i].dead => nn[i].val = Nothing
    BY <1>1, <1>5, <1>11, <1>20 DEF Lively
  <2>3. ASSUME NEW i \in DOMAIN nn, NEW j \in DOMAIN nn,
               nn[i].key # Nothing, nn[i].key = nn[j].key, ~nn[i].dead
        PROVE  j \in Chain(nn, i)
    <3>1. CASE i = j
      BY <3>1, ChainHas
    <3>2. CASE i # j /\ (i = mp \/ j = mp)
      BY <1>6, <1>20, <1>26, <2>3, <3>2
    <3>3. CASE i # mp /\ j # mp
      <4>1. PICK a \in DOMAIN nd : s[a] = i /\ nd[a].key = nn[i].key /\ nd[a].dead = nn[i].dead
        BY <1>26, <2>3, <3>3
      <4>2. PICK b \in DOMAIN nd : s[b] = j /\ nd[b].key = nn[j].key
        BY <1>26, <2>3, <3>3
      <4>3. b \in Chain(nd, a)
        BY <1>1, <2>3, <4>1, <4>2 DEF Lively
      <4> QED
        BY <1>25, <4>1, <4>2, <4>3
    <3> QED
      BY <3>1, <3>2, <3>3
  <2> QED
    BY <2>1, <2>2, <2>3 DEF Lively
<1>28. Homed(new)
  <2> SUFFICES ASSUME NEW i \in DOMAIN nn, nn[i].key # Nothing
               PROVE  LET m == MainPosition(tb, nn[i].key)
                      IN  /\ nn[m].key # Nothing /\ MainPosition(tb, nn[m].key) = m
                          /\ i \in Chain(nn, m)
    BY <1>14, <1>16, SamePosition DEF Homed
  <2>1. CASE i = mp
    BY <1>1, <1>20, <2>1, ChainHas
  <2>2. CASE i # mp
    <3>1. PICK a \in DOMAIN nd : s[a] = i /\ nd[a].key = nn[i].key
      BY <1>26, <2>2
    <3> DEFINE m == MainPosition(tb, nd[a].key)
    <3>2. nd[a].key \in Key
      BY <1>3, <3>1, NodeFields
    <3>3. m \in DOMAIN nd /\ nd[m].key # Nothing /\ MainPosition(tb, nd[m].key) = m /\ a \in Chain(nd, m)
      BY <1>1, <3>1, <3>2, MainPositions DEF Homed
    <3> HIDE DEF m
    <3>4. m # mp /\ m # f
      BY <1>4, <1>7, <3>3 DEF home
    <3>5. nn[m].key = nd[m].key
      BY <1>20, <3>3, <3>4
    <3>6. s[a] \in Chain(nn, s[m])
      BY <1>25, <3>3
    <3>7. nn[m].key # Nothing /\ MainPosition(tb, nn[m].key) = m /\ i \in Chain(nn, m)
      BY <1>23, <3>1, <3>3, <3>4, <3>5, <3>6
    <3> QED
      BY <3>1, <3>7 DEF m
  <2> QED
    BY <2>1, <2>2
<1>29. FreeBefore(new) /\ f # Dummy
  <2>1. \A i \in DOMAIN nd : i > f => nd[i].key # Nothing
    BY FreePlace
  <2>2. \A i \in DOMAIN nn : i >= f => nn[i].key # Nothing
    BY <1>3, <1>5, <1>11, <1>20, <2>1
  <2>3. f # Dummy /\ f \in 0..SizeNode(new)
    BY <1>2, <1>3, <1>16 DEF Dummy
  <2> QED
    BY <1>14, <2>2, <2>3 DEF FreeBefore
<1>30. HashInv(new)
  BY <1>14, <1>21, <1>27, <1>28, <1>29 DEF HashInv
<1>31. Entries(nn) = Entries(nd) \cup {<<k, v>>}
  <2>1. ASSUME NEW e \in Entries(nn)
        PROVE  e \in Entries(nd) \cup {<<k, v>>}
    <3>1. PICK i \in DOMAIN nn : nn[i].val # Nothing /\ e = <<nn[i].key, nn[i].val>>
      BY <2>1 DEF Entries
    <3>2. CASE i = mp
      BY <1>20, <3>1, <3>2
    <3>3. CASE i # mp
      <4>1. nn[i].key # Nothing
        BY <1>27, <3>1, FreeNodeIs DEF Lively
      <4> QED
        BY <1>26, <3>1, <3>3, <4>1 DEF Entries
    <3> QED
      BY <3>2, <3>3
  <2>2. ASSUME NEW e \in Entries(nd)
        PROVE  e \in Entries(nn)
    <3>1. PICK i \in DOMAIN nd : nd[i].val # Nothing /\ e = <<nd[i].key, nd[i].val>>
      BY <2>2 DEF Entries
    <3>2. CASE i = mp
      BY <1>2, <1>11, <1>20, <3>1, <3>2 DEF Entries
    <3>3. CASE i # mp
      BY <1>4, <1>11, <1>20, <3>1, <3>3 DEF Entries
    <3> QED
      BY <3>2, <3>3
  <2>3. <<k, v>> \in Entries(nn)
    BY <1>1, <1>2, <1>11, <1>20 DEF Entries
  <2> QED
    BY <2>1, <2>2, <2>3
<1>32. Fresh(nd) => Fresh(nn)
  BY <1>1, <1>11, <1>20 DEF Fresh
<1>33. SameButNodes(tb, new)
  BY <1>11, <1>14 DEF SameButNodes
<1>34. Gains(tb, new, k, v)
  BY <1>14, <1>29, <1>30, <1>31, <1>32, <1>33 DEF Gains
<1> QED
  BY <1>34 DEF new, fr

\* A table that has a place for a key gets it.
LEMMA InsertIs ==
    ASSUME NEW tb, HashInv(tb), inst \in Instances, NEW k \in Key, NEW v \in Value,
           \A i \in DOMAIN tb.node : tb.node[i].key = k => tb.node[i].dead,
           ~NoPlace(tb, k)
    PROVE  Gains(tb, Insert(tb, k, v), k, v)
<1> DEFINE mp == MainPosition(tb, k)
           f == MaxOf(FreePositions(tb))
           fr == [tb EXCEPT !.lastfree = f]
           home == MainPosition(tb, tb.node[mp].key)
<1>1. v # Nothing
  BY KeysAre
<1>2. Insert(tb, k, v) =
         IF ~MustMove(tb, k) THEN SetNode(tb, mp, k, v)
         ELSE IF home # mp THEN SetNode(MoveAway(fr, mp, f), mp, k, v)
         ELSE SetNode(LinkBehind(fr, mp, f), f, k, v)
  BY <1>1 DEF Insert
<1>3. CASE ~MustMove(tb, k)
  <2>1. tb.lastfree # Dummy /\ tb.node[mp].val = Nothing
    BY <1>3 DEF MustMove
  <2> DEFINE m == mp
  <2>2. m = MainPosition(tb, k)
    OBVIOUS
  <2>3. Gains(tb, SetNode(tb, m, k, v), k, v)
    BY <2>1, <2>2, InsertHere
  <2> QED
    BY <1>2, <1>3, <2>3
<1>4. CASE MustMove(tb, k)
  <2>1. FreePositions(tb) # {}
    BY <1>4 DEF NoPlace
  <2>2. tb.lastfree # Dummy
    BY <2>1, FreePlace
  <2>3. tb.node[mp].val # Nothing
    BY <1>4, <2>2 DEF MustMove
  <2>4. CASE home = mp
    <3>1. Gains(tb, SetNode(LinkBehind(fr, mp, f), f, k, v), k, v)
      BY <2>1, <2>3, <2>4, InsertBehind
    <3> QED
      BY <1>2, <1>4, <2>4, <3>1
  <2>5. CASE home # mp
    <3>1. Gains(tb, SetNode(MoveAway(fr, mp, f), mp, k, v), k, v)
      BY <2>1, <2>3, <2>5, InsertMoved
    <3> QED
      BY <1>2, <1>4, <2>5, <3>1
  <2> QED
    BY <2>4, <2>5
<1> QED
  BY <1>3, <1>4

\* New values do not disturb the hash part, nor do keys that die without one.
Revalues(nd, nn) ==
    /\ nn \in [DOMAIN nd -> NodeRecord]
    /\ \A i \in DOMAIN nd :
          /\ nn[i].key = nd[i].key /\ nn[i].next = nd[i].next
          /\ nd[i].dead => nn[i].dead
          /\ nn[i].dead => nn[i].val = Nothing
          /\ nd[i].key = Nothing => nn[i] = nd[i]

LEMMA Revalued ==
    ASSUME NEW tb, HashInv(tb), inst \in Instances, NEW nn, Revalues(tb.node, nn)
    PROVE  LET new == [tb EXCEPT !.node = nn]
           IN  HashInv(new) /\ SameButNodes(tb, new) /\ new.node = nn /\ new.lastfree = tb.lastfree
<1> DEFINE nd == tb.node
           new == [tb EXCEPT !.node = nn]
<1>1. /\ TableTypes(tb) /\ Linked(nd) /\ Lively(nd) /\ Homed(tb) /\ FreeBefore(tb)
      /\ nn \in [DOMAIN nd -> NodeRecord] /\ DOMAIN nn = DOMAIN nd
  BY DEF HashInv, Revalues
<1>2. nd \in Vectors /\ SizeNode(tb) \in Nat \ {0} /\ DOMAIN nd = 0..SizeNode(tb) - 1
  BY <1>1, TableFields
<1>3. nn \in Vectors /\ Cardinality(DOMAIN nn) = Cardinality(DOMAIN nd)
  BY <1>1, <1>2, VectorOf
<1>4. /\ TableTypes(new) /\ new.array = tb.array /\ new.alimit = tb.alimit
      /\ new.realasize = tb.realasize /\ new.absent = tb.absent
      /\ new.node = nn /\ new.lastfree = tb.lastfree
  BY <1>1, <1>3 DEF TableTypes
<1> HIDE DEF new
<1>5. SizeNode(new) = SizeNode(tb)
  BY <1>3, <1>4 DEF SizeNode
<1>6. \A i \in DOMAIN nd : nn[i].key = nd[i].key /\ nn[i].next = nd[i].next
  BY DEF Revalues
<1>7. Linked(nn)
  BY <1>1, <1>6 DEF Linked, Falls
<1>8. \A S : Closed(nn, S) /\ S \in SUBSET DOMAIN nd => Closed(nd, S)
  BY <1>1, <1>6 DEF Closed
<1>9. \A m \in DOMAIN nd : Chain(nd, m) \subseteq Chain(nn, m)
  <2> TAKE m \in DOMAIN nd
  <2>1. Closed(nn, Chain(nn, m)) /\ Chain(nn, m) \in SUBSET DOMAIN nd /\ m \in Chain(nn, m)
    BY <1>1, <1>7, ChainClosed, ChainHas
  <2> QED
    BY <1>8, <2>1, ChainWithin
<1>10. Lively(nn)
  <2>1. \A i \in DOMAIN nn : nn[i].key = Nothing => nn[i] = FreeNode
    BY <1>1 DEF Lively, Revalues
  <2>2. \A i \in DOMAIN nn : nn[i].dead => nn[i].val = Nothing
    BY <1>1 DEF Revalues
  <2>3. ASSUME NEW i \in DOMAIN nn, NEW j \in DOMAIN nn,
               nn[i].key # Nothing, nn[i].key = nn[j].key, ~nn[i].dead
        PROVE  j \in Chain(nn, i)
    <3>1. nd[i].key # Nothing /\ nd[i].key = nd[j].key /\ ~nd[i].dead
      BY <1>1, <2>3 DEF Revalues
    <3>2. j \in Chain(nd, i)
      BY <1>1, <3>1 DEF Lively
    <3> QED
      BY <1>1, <1>9, <3>2
  <2> QED
    BY <2>1, <2>2, <2>3 DEF Lively
<1>11. Homed(new)
  <2> SUFFICES ASSUME NEW i \in DOMAIN nn, nn[i].key # Nothing
               PROVE  LET m == MainPosition(tb, nn[i].key)
                      IN  /\ nn[m].key # Nothing /\ MainPosition(tb, nn[m].key) = m
                          /\ i \in Chain(nn, m)
    BY <1>4, <1>5, SamePosition DEF Homed
  <2>1. nd[i].key # Nothing /\ i \in DOMAIN nd /\ nn[i].key = nd[i].key
    BY <1>1, <1>6
  <2> DEFINE m == MainPosition(tb, nd[i].key)
  <2>2. nd[m].key # Nothing /\ MainPosition(tb, nd[m].key) = m /\ i \in Chain(nd, m)
    BY <1>1, <2>1 DEF Homed
  <2>3. m \in DOMAIN nd
    <3>1. nd \in [DOMAIN nd -> NodeRecord]
      BY <1>1, TableFields
    <3>2. nd[i].key \in Key \cup {Nothing}
      BY <2>1, <3>1, NodeFields
    <3> QED
      BY <1>1, <2>1, <3>2, MainPositions
  <2> HIDE DEF m
  <2>4. nn[m].key # Nothing /\ MainPosition(tb, nn[m].key) = m /\ i \in Chain(nn, m)
    BY <1>6, <1>9, <2>2, <2>3
  <2> QED
    BY <2>1, <2>4 DEF m
<1>12. FreeBefore(new)
  <2>1. CASE tb.lastfree = Dummy
    <3>1. nd = NodeVector(0).node
      BY <1>1, <2>1 DEF FreeBefore
    <3>2. nd = [i \in {0} |-> FreeNode]
      BY <3>1 DEF NodeVector
    <3>3. \A i \in DOMAIN nd : nn[i] = nd[i]
      BY <3>2, FreeNodeIs DEF Revalues
    <3>4. nn = nd
      BY <1>1, <3>2, <3>3
    <3> QED
      BY <1>4, <2>1, <3>1, <3>4 DEF FreeBefore
  <2>2. CASE tb.lastfree # Dummy
    BY <1>1, <1>4, <1>5, <1>6, <2>2 DEF FreeBefore
  <2> QED
    BY <2>1, <2>2
<1>13. HashInv(new)
  BY <1>4, <1>7, <1>10, <1>11, <1>12 DEF HashInv
<1>14. SameButNodes(tb, new)
  BY <1>1, <1>4 DEF SameButNodes
<1> QED
  BY <1>4, <1>13, <1>14 DEF new

\* A change of the rest leaves the hash part as it is.
LEMMA Rearrayed ==
    ASSUME NEW tb, HashInv(tb), NEW new, TableTypes(new), new.node = tb.node,
           new.lastfree = tb.lastfree
    PROVE  HashInv(new)
<1>1. SizeNode(new) = SizeNode(tb)
  BY DEF SizeNode
<1>2. Homed(new)
  BY <1>1, SamePosition DEF HashInv, Homed
<1>3. FreeBefore(new)
  BY <1>1 DEF HashInv, FreeBefore
<1> QED
  BY <1>2, <1>3 DEF HashInv

\* A hash part with as many nodes as keys has a place for each of them.
LEMMA HasPlace ==
    ASSUME NEW tb, HashInv(tb), Fresh(tb.node), inst \in Instances,
           NEW K, IsFiniteSet(K), Cardinality(K) <= SizeNode(tb), NEW k \in K,
           tb.lastfree # Dummy,
           \A i \in DOMAIN tb.node : tb.node[i].key # Nothing =>
              tb.node[i].key \in K /\ tb.node[i].key # k
    PROVE  ~NoPlace(tb, k)
<1> DEFINE nd == tb.node
           f == [i \in DOMAIN nd |-> nd[i].key]
<1> SUFFICES ASSUME FreePositions(tb) = {}
             PROVE  FALSE
  BY DEF NoPlace
<1>1. /\ DOMAIN nd = 0..SizeNode(tb) - 1 /\ SizeNode(tb) \in Nat \ {0}
      /\ tb.lastfree \in Int /\ nd \in [DOMAIN nd -> NodeRecord]
  BY TableFields DEF HashInv
<1>2. tb.lastfree \in 0..SizeNode(tb) /\ \A i \in DOMAIN nd : i >= tb.lastfree => nd[i].key # Nothing
  BY DEF HashInv, FreeBefore
<1>3. ASSUME NEW i \in DOMAIN nd
      PROVE  nd[i].key # Nothing
  <2>1. i >= tb.lastfree \/ i \in 0..tb.lastfree - 1
    BY <1>1, <1>2
  <2> QED
    BY <1>2, <2>1 DEF FreePositions
<1>4. f \in [DOMAIN nd -> K \ {k}]
  BY <1>3
<1>5. IsFiniteSet(K \ {k}) /\ Cardinality(K \ {k}) = Cardinality(K) - 1 /\ Cardinality(K) \in Nat
  BY FS_RemoveElement, FS_CardinalityType
<1>6. IsFiniteSet(DOMAIN nd) /\ Cardinality(DOMAIN nd) = SizeNode(tb)
  <2>1. IsFiniteSet(0..SizeNode(tb) - 1)
    <3>1. 0 \in Int /\ SizeNode(tb) - 1 \in Int
      BY <1>1
    <3> QED
      BY <3>1, FS_Interval
  <2> QED
    BY <1>1, <2>1 DEF SizeNode
<1>7. Cardinality(K \ {k}) < Cardinality(DOMAIN nd)
  BY <1>1, <1>5, <1>6
<1>8. PICK x \in DOMAIN nd, y \in DOMAIN nd : x # y /\ f[x] = f[y]
  <2> HIDE DEF f
  <2> QED
    BY <1>4, <1>5, <1>6, <1>7, FS_PigeonHole
<1>9. nd[x].key = nd[y].key /\ nd[x].key # Nothing
  BY <1>3, <1>8
<1>10. ~nd[x].dead /\ ~nd[y].dead
  BY <1>3 DEF HashInv, Lively, Fresh
<1> QED
  BY <1>8, <1>9, <1>10, LiveAlone

LEMMA NewVector ==
    ASSUME NEW n \in Nat
    PROVE  LET x == NodeVector(n)
           IN  /\ x.node \in Vectors /\ x.lastfree \in Int
               /\ \A i \in DOMAIN x.node : x.node[i] = FreeNode
               /\ x.lastfree = Dummy <=> n = 0
               /\ Cardinality(DOMAIN x.node) \in Nat /\ Cardinality(DOMAIN x.node) >= n
               /\ x.lastfree = Dummy => x.node = NodeVector(0).node
               /\ x.lastfree # Dummy => x.lastfree = Cardinality(DOMAIN x.node)
<1> DEFINE x == NodeVector(n)
           size == 2^CeilLog2(n)
<1>1. CASE n = 0
  <2>1. x = [node |-> [i \in {0} |-> FreeNode], lastfree |-> Dummy]
    BY <1>1 DEF NodeVector
  <2>2. [i \in {0} |-> FreeNode] \in [0..1 - 1 -> NodeRecord]
    BY FreeNodeIs
  <2>3. x.node \in [0..1 - 1 -> NodeRecord]
    BY <2>1, <2>2
  <2>4. x.node \in Vectors /\ Cardinality(DOMAIN x.node) = 1
    <3> HIDE DEF x
    <3>1. 1 \in Nat \ {0}
      OBVIOUS
    <3> DEFINE one == 1
    <3>2. one \in Nat \ {0} /\ x.node \in [0..one - 1 -> NodeRecord]
      BY <2>3, <3>1
    <3> HIDE DEF one
    <3>3. x.node \in Vectors /\ Cardinality(DOMAIN x.node) = one
      BY <3>2, VectorOf
    <3> QED
      BY <3>3 DEF one
  <2>5. x.lastfree = Dummy /\ \A i \in DOMAIN x.node : x.node[i] = FreeNode
    BY <2>1
  <2> HIDE DEF x
  <2> QED
    BY <1>1, <2>4, <2>5 DEF Dummy, x
<1>2. CASE n # 0
  <2>1. size \in Nat \ {0} /\ size >= n
    BY CeilLog
  <2>2. x = [node |-> [i \in 0..size - 1 |-> FreeNode], lastfree |-> size]
    BY <1>2 DEF NodeVector
  <2> HIDE DEF size
  <2>3. x.node \in [0..size - 1 -> NodeRecord]
    BY <2>2, FreeNodeIs
  <2>4. x.lastfree = size /\ x.lastfree # Dummy /\ \A i \in DOMAIN x.node : x.node[i] = FreeNode
    BY <2>1, <2>2 DEF Dummy
  <2> HIDE DEF x
  <2>5. x.node \in Vectors /\ Cardinality(DOMAIN x.node) = size
    BY <2>1, <2>3, VectorOf
  <2> QED
    BY <1>2, <2>1, <2>4, <2>5 DEF x
<1> QED
  BY <1>1, <1>2

\* A hash part without a key.
LEMMA NewNodes ==
    ASSUME NEW tb, TableTypes(tb), NEW n \in Nat
    PROVE  LET new == WithNodes(tb, NodeVector(n))
           IN  /\ HashInv(new) /\ Fresh(new.node) /\ Entries(new.node) = {}
               /\ \A i \in DOMAIN new.node : new.node[i].key = Nothing
               /\ new.lastfree = Dummy <=> n = 0
               /\ SizeNode(new) >= n
               /\ new.array = tb.array /\ new.alimit = tb.alimit
               /\ new.realasize = tb.realasize /\ new.absent = tb.absent
<1> DEFINE x == NodeVector(n)
           nd == x.node
           new == WithNodes(tb, x)
<1>1. /\ nd \in Vectors /\ x.lastfree \in Int
      /\ \A i \in DOMAIN nd : nd[i] = FreeNode
      /\ x.lastfree = Dummy <=> n = 0
      /\ Cardinality(DOMAIN nd) \in Nat /\ Cardinality(DOMAIN nd) >= n
      /\ x.lastfree = Dummy => nd = NodeVector(0).node
      /\ x.lastfree # Dummy => x.lastfree = Cardinality(DOMAIN nd)
  BY NewVector
<1> HIDE DEF x
<1>2. /\ TableTypes(new) /\ new.array = tb.array /\ new.alimit = tb.alimit
      /\ new.realasize = tb.realasize /\ new.absent = tb.absent
      /\ new.node = nd /\ new.lastfree = x.lastfree
  BY <1>1 DEF TableTypes, WithNodes
<1> HIDE DEF new
<1>3. DOMAIN nd = 0..Cardinality(DOMAIN nd) - 1 /\ SizeNode(new) = Cardinality(DOMAIN nd)
  BY <1>1, <1>2, VectorIs DEF SizeNode
<1> HIDE DEF nd
<1>4. \A i \in DOMAIN nd : nd[i].key = Nothing /\ nd[i].val = Nothing /\ nd[i].next = 0
                            /\ nd[i].dead = FALSE
  BY <1>1, FreeNodeIs
<1>5. Linked(nd)
  <2> DEFINE r == [i \in DOMAIN nd |-> 0]
  <2>1. r \in [DOMAIN nd -> Nat]
    OBVIOUS
  <2>2. Falls(nd, r)
    BY <1>4 DEF Falls
  <2> QED
    BY <1>4, <2>1, <2>2 DEF Linked
<1>6. Lively(nd)
  BY <1>1, <1>4 DEF Lively
<1>7. Homed(new)
  BY <1>2, <1>4 DEF Homed
<1>8. FreeBefore(new)
  <2>1. CASE x.lastfree = Dummy
    BY <1>1, <1>2, <2>1 DEF FreeBefore
  <2>2. CASE x.lastfree # Dummy
    BY <1>1, <1>2, <1>3, <2>2 DEF FreeBefore
  <2> QED
    BY <2>1, <2>2
<1>9. HashInv(new)
  BY <1>2, <1>5, <1>6, <1>7, <1>8 DEF HashInv
<1>10. Fresh(nd) /\ Entries(nd) = {}
  BY <1>4 DEF Fresh, Entries
<1> QED
  BY <1>1, <1>2, <1>3, <1>4, <1>9, <1>10 DEF new, x

\* A new value in the node of a key.
LEMMA StoredNode ==
    ASSUME NEW tb, HashInv(tb), inst \in Instances, NEW i \in DOMAIN tb.node,
           tb.node[i].key # Nothing, ~tb.node[i].dead, NEW v \in Value \cup {Nothing}
    PROVE  LET new == [tb EXCEPT !.node[i].val = v]
           IN  /\ HashInv(new) /\ SameButNodes(tb, new) /\ new.lastfree = tb.lastfree
               /\ \A q, w : <<q, w>> \in Entries(new.node) <=>
                     IF q = tb.node[i].key THEN w = v /\ v # Nothing
                     ELSE <<q, w>> \in Entries(tb.node)
<1> DEFINE nd == tb.node
           x == [nd[i] EXCEPT !.val = v]
           nn == [nd EXCEPT ![i] = x]
           new == [tb EXCEPT !.node = nn]
<1>1. nd \in [DOMAIN nd -> NodeRecord] /\ nd[i] \in NodeRecord /\ Lively(nd)
  BY TableFields DEF HashInv
<1>2. x \in NodeRecord /\ x.key = nd[i].key /\ x.dead = nd[i].dead /\ x.next = nd[i].next /\ x.val = v
  BY <1>1 DEF NodeRecord
<1> HIDE DEF x
<1>3. /\ nn \in [DOMAIN nd -> NodeRecord] /\ nn[i] = x
      /\ \A j \in DOMAIN nd : j # i => nn[j] = nd[j]
  BY <1>1, <1>2
<1>4. Revalues(nd, nn)
  <2> SUFFICES ASSUME NEW j \in DOMAIN nd
               PROVE  /\ nn[j].key = nd[j].key /\ nn[j].next = nd[j].next
                      /\ nd[j].dead => nn[j].dead
                      /\ nn[j].dead => nn[j].val = Nothing
                      /\ nd[j].key = Nothing => nn[j] = nd[j]
    BY <1>3 DEF Revalues
  <2> HIDE DEF nn
  <2>1. CASE j = i
    BY <1>2, <1>3, <2>1
  <2>2. CASE j # i
    BY <1>1, <1>3, <2>2 DEF Lively
  <2> QED
    BY <2>1, <2>2
<1>5. HashInv(new) /\ SameButNodes(tb, new) /\ new.node = nn /\ new.lastfree = tb.lastfree
  <2> HIDE DEF nn
  <2> QED
    BY <1>4, Revalued
<1>6. [tb EXCEPT !.node[i].val = v] = new
  BY DEF x
<1> HIDE DEF new, nn
<1>7. ASSUME NEW q, NEW w
      PROVE  <<q, w>> \in Entries(nn) <=>
                IF q = nd[i].key THEN w = v /\ v # Nothing ELSE <<q, w>> \in Entries(nd)
  <2>0. DOMAIN nn = DOMAIN nd
    BY <1>3
  <2>1. CASE q = nd[i].key
    <3>1. ASSUME <<q, w>> \in Entries(nn)
          PROVE  w = v /\ v # Nothing
      <4>1. PICK j \in DOMAIN nn : nn[j].val # Nothing /\ <<q, w>> = <<nn[j].key, nn[j].val>>
        BY <3>1 DEF Entries
      <4>2. j = i
        <5> SUFFICES ASSUME j # i
                     PROVE  FALSE
          OBVIOUS
        <5>1. nn[j] = nd[j] /\ j \in DOMAIN nd
          BY <1>3, <2>0
        <5>2. nd[j].key = nd[i].key /\ ~nd[j].dead
          BY <1>1, <2>1, <4>1, <5>1 DEF Lively
        <5> QED
          BY <5>1, <5>2, LiveAlone
      <4> QED
        BY <1>2, <1>3, <4>1, <4>2
    <3>2. ASSUME w = v, v # Nothing
          PROVE  <<q, w>> \in Entries(nn)
      BY <1>2, <1>3, <2>0, <2>1, <3>2 DEF Entries
    <3> QED
      BY <2>1, <3>1, <3>2
  <2>2. CASE q # nd[i].key
    <3>1. ASSUME <<q, w>> \in Entries(nn)
          PROVE  <<q, w>> \in Entries(nd)
      <4>1. PICK j \in DOMAIN nn : nn[j].val # Nothing /\ <<q, w>> = <<nn[j].key, nn[j].val>>
        BY <3>1 DEF Entries
      <4>2. j # i /\ nn[j] = nd[j]
        BY <1>2, <1>3, <2>0, <2>2, <4>1
      <4> QED
        BY <2>0, <4>1, <4>2 DEF Entries
    <3>2. ASSUME <<q, w>> \in Entries(nd)
          PROVE  <<q, w>> \in Entries(nn)
      <4>1. PICK j \in DOMAIN nd : nd[j].val # Nothing /\ <<q, w>> = <<nd[j].key, nd[j].val>>
        BY <3>2 DEF Entries
      <4>2. j # i /\ nn[j] = nd[j]
        BY <1>3, <2>2, <4>1
      <4> QED
        BY <2>0, <4>1, <4>2 DEF Entries
    <3> QED
      BY <2>2, <3>1, <3>2
  <2> QED
    BY <2>1, <2>2
<1> QED
  BY <1>5, <1>6, <1>7

-----------------------------------------------------------------------------
(* Filling a new hash part.                                                *)

\* A table that is being filled has no more than the keys K in its nodes.
Filling(tb, K) ==
    /\ HashInv(tb) /\ Fresh(tb.node) /\ tb.realasize = TRUE
    /\ tb.alimit <= Len(tb.array) /\ Len(tb.array) < MaxInteger
    /\ Cardinality(K) <= SizeNode(tb) /\ (K # {} => tb.lastfree # Dummy)
    /\ \A q, w : <<q, w>> \in Entries(tb.node) => q \in K

LEMMA FillingArray ==
    ASSUME NEW tb, TableTypes(tb), tb.realasize = TRUE, tb.alimit <= Len(tb.array),
           Len(tb.array) < MaxInteger, NEW k
    PROVE  InArray(tb, k) <=> k \in 1..tb.alimit
<1>1. LimitIsSize(tb)
  BY DEF LimitIsSize
<1>2. tb.alimit \in Nat /\ Len(tb.array) \in Nat /\ MaxInteger \in Nat
  BY TableFields, SizesAssumption
<1> QED
  BY <1>1, <1>2 DEF InArray, Index

LEMMA PutIn ==
    ASSUME NEW tb, NEW K, Filling(tb, K), inst \in Instances, IsFiniteSet(K), K \subseteq Key,
           NEW k \in Key, NEW v \in Value,
           k \in 1..tb.alimit \/ (k \in K /\ \A w : <<k, w>> \notin Entries(tb.node))
    PROVE  LET new == SetInRoom(tb, k, v)
           IN  /\ Filling(new, K) /\ new.alimit = tb.alimit /\ new.absent = tb.absent
               /\ Len(new.array) = Len(tb.array) /\ DOMAIN new.node = DOMAIN tb.node
               /\ k \in 1..tb.alimit =>
                     /\ new.node = tb.node /\ new.array[k] = v
                     /\ \A i \in 1..Len(tb.array) : i # k => new.array[i] = tb.array[i]
               /\ k \notin 1..tb.alimit =>
                     /\ new.array = tb.array
                     /\ Entries(new.node) = Entries(tb.node) \cup {<<k, v>>}
<1> DEFINE new == SetInRoom(tb, k, v)
<1>1. /\ HashInv(tb) /\ TableTypes(tb) /\ Fresh(tb.node) /\ tb.realasize = TRUE
      /\ tb.alimit <= Len(tb.array) /\ Len(tb.array) < MaxInteger
  BY DEF Filling, HashInv
<1>2. /\ tb.alimit \in Nat /\ Len(tb.array) \in Nat /\ tb.array \in Seq(Value \cup {Nothing})
      /\ DOMAIN tb.array = 1..Len(tb.array)
  BY <1>1, TableFields
<1>3. InArray(tb, k) <=> k \in 1..tb.alimit
  BY <1>1, FillingArray
<1>4. v # Nothing
  BY KeysAre
<1>5. CASE k \in 1..tb.alimit
  <2>1. ~Absent(tb, k) /\ Touch(tb, k) = tb
    <3>1. InArray(tb, k) /\ ~(k > tb.alimit)
      BY <1>2, <1>3, <1>5
    <3> QED
      BY <3>1 DEF Absent, Touch
  <2> DEFINE a == [tb.array EXCEPT ![k] = v]
  <2>2. new = [tb EXCEPT !.array = a]
    BY <1>3, <1>5, <2>1 DEF SetInRoom, Store
  <2>3. a \in Seq(Value \cup {Nothing}) /\ Len(a) = Len(tb.array)
    <3> DEFINE S == Value \cup {Nothing}
    <3>1. tb.array \in Seq(S) /\ k \in 1..Len(tb.array) /\ v \in S
      BY <1>1, <1>2, <1>5
    <3> HIDE DEF S
    <3>2. a \in Seq(S) /\ Len(a) = Len(tb.array)
      BY <3>1, ExceptSeq
    <3> QED
      BY <3>2 DEF S
  <2>4. a[k] = v /\ \A i \in 1..Len(tb.array) : i # k => a[i] = tb.array[i]
    BY <1>1, <1>2, <1>5
  <2> HIDE DEF a, new
  <2>5. /\ TableTypes(new) /\ new.array = a /\ new.alimit = tb.alimit
        /\ new.realasize = tb.realasize /\ new.absent = tb.absent
        /\ new.node = tb.node /\ new.lastfree = tb.lastfree
    BY <1>1, <2>2, <2>3 DEF TableTypes
  <2>6. HashInv(new)
    BY <1>1, <2>5, Rearrayed
  <2>7. SizeNode(new) = SizeNode(tb)
    BY <2>5 DEF SizeNode
  <2>8. Filling(new, K)
    BY <1>1, <2>3, <2>5, <2>6, <2>7 DEF Filling
  <2> QED
    BY <1>5, <2>3, <2>4, <2>5, <2>8 DEF new
<1>6. CASE k \notin 1..tb.alimit
  <2>1. \A i \in DOMAIN tb.node : tb.node[i].key # k
    <3> SUFFICES ASSUME NEW i \in DOMAIN tb.node, tb.node[i].key = k
                 PROVE  FALSE
      OBVIOUS
    <3>1. tb.node[i].val # Nothing
      BY <1>1, KeysAre DEF Fresh
    <3>2. <<k, tb.node[i].val>> \in Entries(tb.node)
      BY <3>1 DEF Entries
    <3> QED
      BY <1>6, <3>2
  <2>2. Absent(tb, k)
    BY <1>1, <1>3, <1>6, <2>1, GetFromHash
  <2>3. \A i \in DOMAIN tb.node : tb.node[i].key # Nothing =>
           tb.node[i].key \in K /\ tb.node[i].key # k
    <3> SUFFICES ASSUME NEW i \in DOMAIN tb.node, tb.node[i].key # Nothing
                 PROVE  tb.node[i].key \in K
      BY <2>1
    <3>1. tb.node[i].val # Nothing
      BY <1>1 DEF Fresh
    <3>2. <<tb.node[i].key, tb.node[i].val>> \in Entries(tb.node)
      BY <3>1 DEF Entries
    <3> QED
      BY <3>2 DEF Filling
  <2>4. k \in K /\ tb.lastfree # Dummy /\ Cardinality(K) <= SizeNode(tb)
    BY <1>6 DEF Filling
  <2>5. ~NoPlace(tb, k)
    BY <1>1, <2>3, <2>4, HasPlace
  <2>6. new = Insert(tb, k, v)
    BY <2>2, <2>5 DEF SetInRoom
  <2>7. Gains(tb, Insert(tb, k, v), k, v)
    BY <1>1, <2>1, <2>5, InsertIs
  <2> HIDE DEF new
  <2>8. /\ HashInv(new) /\ new.array = tb.array /\ new.alimit = tb.alimit
        /\ new.realasize = tb.realasize /\ new.absent = tb.absent
        /\ DOMAIN new.node = DOMAIN tb.node /\ new.lastfree # Dummy /\ Fresh(new.node)
        /\ Entries(new.node) = Entries(tb.node) \cup {<<k, v>>}
    BY <1>1, <2>6, <2>7 DEF Gains, SameButNodes
  <2>9. SizeNode(new) = SizeNode(tb)
    BY <2>8 DEF SizeNode
  <2>10. \A q, w : <<q, w>> \in Entries(new.node) => q \in K
    BY <2>4, <2>8 DEF Filling
  <2>11. Filling(new, K)
    BY <1>1, <2>4, <2>8, <2>9, <2>10 DEF Filling
  <2> QED
    BY <1>6, <2>8, <2>11 DEF new
<1> QED
  BY <1>5, <1>6

\* Setting fields one after the other.
OneMore(tb, fields, j) ==
    IF fields[j].val = Nothing THEN tb ELSE SetInRoom(tb, fields[j].key, fields[j].val)
Afters(tb, fields, n, g) ==
    [j \in 0..n |-> IF j = 0 THEN tb ELSE OneMore(g[j - 1], fields, j)]

LEMMA AftersExist ==
    ASSUME NEW tb, NEW fields, NEW n \in Nat
    PROVE  \E g : g = Afters(tb, fields, n, g)
<1> DEFINE T == {m \in Nat : ~\E g : g = Afters(tb, fields, m, g)}
<1> SUFFICES ASSUME T # {}
             PROVE  FALSE
  OBVIOUS
<1>1. PICK m \in T : \A l \in T : m <= l
  BY LeastNumber
<1>2. m \in Nat /\ ~\E g : g = Afters(tb, fields, m, g)
  BY <1>1
<1>3. m # 0
  <2> SUFFICES ASSUME m = 0
               PROVE  FALSE
    OBVIOUS
  <2> DEFINE g == [j \in 0..0 |-> tb]
  <2>1. g = Afters(tb, fields, 0, g)
    <3>1. \A j \in 0..0 : j = 0
      OBVIOUS
    <3> QED
      BY <3>1 DEF Afters
  <2> QED
    BY <1>2, <2>1
<1>4. m - 1 \in Nat /\ m - 1 \notin T
  <2>1. m - 1 \in Nat /\ ~(m <= m - 1)
    BY <1>2, <1>3
  <2> HIDE DEF T
  <2> QED
    BY <1>1, <2>1
<1>5. PICK g : g = Afters(tb, fields, m - 1, g)
  BY <1>4
<1> HIDE DEF T
<1> DEFINE h == [j \in 0..m |-> IF j = m THEN OneMore(g[m - 1], fields, m) ELSE g[j]]
<1>6. ASSUME NEW j \in 0..m
      PROVE  h[j] = IF j = 0 THEN tb ELSE OneMore(h[j - 1], fields, j)
  <2>1. \A i \in 0..m - 1 : g[i] = IF i = 0 THEN tb ELSE OneMore(g[i - 1], fields, i)
    BY <1>5, Zenon DEF Afters
  <2>2. CASE j = m
    <3>1. m - 1 \in 0..m /\ m - 1 # m
      BY <1>2, <1>3
    <3>2. h[m - 1] = g[m - 1]
      BY <3>1
    <3>3. h[j] = OneMore(g[m - 1], fields, m)
      BY <2>2
    <3> HIDE DEF h
    <3> QED
      BY <1>3, <2>2, <3>2, <3>3
  <2>3. CASE j # m
    <3>1. j \in 0..m - 1
      BY <1>2, <2>3
    <3>2. h[j] = g[j]
      BY <2>3
    <3>3. j # 0 => j - 1 \in 0..m /\ j - 1 # m
      BY <1>2, <3>1
    <3>4. j # 0 => h[j - 1] = g[j - 1]
      BY <3>3
    <3> HIDE DEF h
    <3> QED
      BY <2>1, <3>1, <3>2, <3>4
  <2> QED
    BY <2>2, <2>3
<1>7. h = [j \in 0..m |-> h[j]]
  OBVIOUS
<1> HIDE DEF h
<1>8. h = Afters(tb, fields, m, h)
  BY <1>6, <1>7 DEF Afters
<1> QED
  BY <1>2, <1>8

LEMMA SetAllIs ==
    ASSUME NEW tb, NEW fields, Len(fields) \in Nat
    PROVE  \E g : /\ g = Afters(tb, fields, Len(fields), g)
                  /\ SetAll(tb, fields) = g[Len(fields)]
<1> DEFINE n == Len(fields)
           W(g) == [j \in 0..n |->
                       IF j = 0 THEN tb
                       ELSE IF fields[j].val = Nothing THEN g[j - 1]
                       ELSE SetInRoom(g[j - 1], fields[j].key, fields[j].val)]
           g == CHOOSE h : h = W(h)
<1>1. \A h : W(h) = Afters(tb, fields, n, h)
  BY DEF Afters, OneMore
<1>2. SetAll(tb, fields) = g[n]
  BY DEF SetAll
<1>3. \E h : h = W(h)
  <2> HIDE DEF W
  <2>1. n \in Nat
    OBVIOUS
  <2> HIDE DEF n
  <2> QED
    BY <1>1, <2>1, AftersExist
<1>4. g = W(g)
  <2> HIDE DEF W
  <2> QED
    BY <1>3, Zenon
<1> HIDE DEF W, g
<1> QED
  BY <1>1, <1>2, <1>4

\* Fields that are set have different keys, with a place for each of them.
HasField(fields, n, k, v) ==
    \E j \in 1..n : fields[j].val # Nothing /\ fields[j].key = k /\ fields[j].val = v
FieldsFit(tb, fields, K) ==
    /\ \A j \in 1..Len(fields) : fields[j].val # Nothing =>
          /\ fields[j].val \in Value /\ fields[j].key \in Key
          /\ \/ fields[j].key \in 1..tb.alimit
             \/ fields[j].key \in K /\ \A w : <<fields[j].key, w>> \notin Entries(tb.node)
    /\ \A i, j \in 1..Len(fields) :
          fields[i].val # Nothing /\ fields[j].val # Nothing /\ fields[i].key = fields[j].key => i = j
Placed(tb, new, fields, K, n) ==
    /\ Filling(new, K) /\ new.alimit = tb.alimit /\ new.absent = tb.absent
    /\ Len(new.array) = Len(tb.array) /\ DOMAIN new.node = DOMAIN tb.node
    /\ \A q, w : <<q, w>> \in Entries(new.node) <=>
          \/ <<q, w>> \in Entries(tb.node)
          \/ q \notin 1..tb.alimit /\ HasField(fields, n, q, w)
    /\ \A i \in 1..Len(tb.array) :
          \/ \E w : i \in 1..tb.alimit /\ HasField(fields, n, i, w) /\ new.array[i] = w
          \/ new.array[i] = tb.array[i]
             /\ (i \in 1..tb.alimit => ~\E w : HasField(fields, n, i, w))

LEMMA PlacedNext ==
    ASSUME NEW tb, NEW K, Filling(tb, K), inst \in Instances, IsFiniteSet(K), K \subseteq Key,
           NEW fields, Len(fields) \in Nat, FieldsFit(tb, fields, K),
           NEW n \in 1..Len(fields), NEW cur, Placed(tb, cur, fields, K, n - 1)
    PROVE  Placed(tb, OneMore(cur, fields, n), fields, K, n)
<1> DEFINE k == fields[n].key
           v == fields[n].val
           new == OneMore(cur, fields, n)
<1>1. n \in Nat /\ 1..n = 1..n - 1 \cup {n} /\ n \notin 1..n - 1 /\ 1..n - 1 \subseteq 1..Len(fields)
  OBVIOUS
<1>2. \A q, w : HasField(fields, n, q, w) <=>
                   HasField(fields, n - 1, q, w) \/ (v # Nothing /\ q = k /\ w = v)
  BY <1>1 DEF HasField
<1>3. CASE v = Nothing
  <2>1. new = cur
    BY <1>3 DEF OneMore
  <2>2. \A q, w : HasField(fields, n, q, w) <=> HasField(fields, n - 1, q, w)
    BY <1>2, <1>3
  <2> HIDE DEF new
  <2> QED
    BY <2>1, <2>2 DEF Placed, new
<1>4. CASE v # Nothing
  <2>1. new = SetInRoom(cur, k, v)
    BY <1>4 DEF OneMore
  <2>2. /\ v \in Value /\ k \in Key
        /\ k \in 1..tb.alimit \/ (k \in K /\ \A w : <<k, w>> \notin Entries(tb.node))
    BY <1>4 DEF FieldsFit
  <2>3. \A w : ~HasField(fields, n - 1, k, w)
    BY <1>1, <1>4 DEF HasField, FieldsFit
  <2> HIDE DEF k, v, new
  <2>4. /\ Filling(cur, K) /\ cur.alimit = tb.alimit /\ cur.absent = tb.absent
        /\ Len(cur.array) = Len(tb.array) /\ DOMAIN cur.node = DOMAIN tb.node
        /\ \A q, w : <<q, w>> \in Entries(cur.node) <=>
              \/ <<q, w>> \in Entries(tb.node)
              \/ q \notin 1..tb.alimit /\ HasField(fields, n - 1, q, w)
        /\ \A i \in 1..Len(tb.array) :
              \/ \E w : i \in 1..tb.alimit /\ HasField(fields, n - 1, i, w) /\ cur.array[i] = w
              \/ cur.array[i] = tb.array[i]
                 /\ (i \in 1..tb.alimit => ~\E w : HasField(fields, n - 1, i, w))
    BY DEF Placed
  <2>5. k \in 1..cur.alimit \/ (k \in K /\ \A w : <<k, w>> \notin Entries(cur.node))
    BY <2>2, <2>3, <2>4
  <2>6. /\ Filling(new, K) /\ new.alimit = cur.alimit /\ new.absent = cur.absent
        /\ Len(new.array) = Len(cur.array) /\ DOMAIN new.node = DOMAIN cur.node
        /\ k \in 1..cur.alimit =>
              /\ new.node = cur.node /\ new.array[k] = v
              /\ \A i \in 1..Len(cur.array) : i # k => new.array[i] = cur.array[i]
        /\ k \notin 1..cur.alimit =>
              /\ new.array = cur.array
              /\ Entries(new.node) = Entries(cur.node) \cup {<<k, v>>}
    BY <2>1, <2>2, <2>4, <2>5, PutIn
  <2>7. ASSUME NEW q, NEW w
        PROVE  <<q, w>> \in Entries(new.node) <=>
                  \/ <<q, w>> \in Entries(tb.node)
                  \/ q \notin 1..tb.alimit /\ HasField(fields, n, q, w)
    <3>1. <<q, w>> \in Entries(cur.node) <=>
              \/ <<q, w>> \in Entries(tb.node)
              \/ q \notin 1..tb.alimit /\ HasField(fields, n - 1, q, w)
      BY <2>4
    <3>2. HasField(fields, n, q, w) <=> HasField(fields, n - 1, q, w) \/ (q = k /\ w = v)
      BY <1>2, <1>4 DEF k, v
    <3>3. CASE k \in 1..tb.alimit
      <4>1. new.node = cur.node
        BY <2>4, <2>6, <3>3
      <4> QED
        BY <3>1, <3>2, <3>3, <4>1
    <3>4. CASE k \notin 1..tb.alimit
      <4>1. Entries(new.node) = Entries(cur.node) \cup {<<k, v>>}
        BY <2>4, <2>6, <3>4
      <4>2. <<q, w>> \in Entries(new.node) <=> <<q, w>> \in Entries(cur.node) \/ (q = k /\ w = v)
        BY <4>1
      <4> QED
        BY <3>1, <3>2, <3>4, <4>2
    <3> QED
      BY <3>3, <3>4
  <2>8. ASSUME NEW i \in 1..Len(tb.array)
        PROVE  \/ \E w : i \in 1..tb.alimit /\ HasField(fields, n, i, w) /\ new.array[i] = w
               \/ new.array[i] = tb.array[i]
                  /\ (i \in 1..tb.alimit => ~\E w : HasField(fields, n, i, w))
    <3>1. \/ \E w : i \in 1..tb.alimit /\ HasField(fields, n - 1, i, w) /\ cur.array[i] = w
          \/ cur.array[i] = tb.array[i]
             /\ (i \in 1..tb.alimit => ~\E w : HasField(fields, n - 1, i, w))
      BY <2>4
    <3>2. \A w : HasField(fields, n, i, w) <=> HasField(fields, n - 1, i, w) \/ (i = k /\ w = v)
      BY <1>2, <1>4 DEF k, v
    <3>3. CASE i = k /\ k \in 1..tb.alimit
      <4>1. new.array[i] = v
        BY <2>4, <2>6, <3>3
      <4> QED
        BY <3>2, <3>3, <4>1
    <3>4. CASE ~(i = k /\ k \in 1..tb.alimit)
      <4>1. new.array[i] = cur.array[i]
        BY <2>4, <2>6, <3>4
      <4>2. i \in 1..tb.alimit => i # k
        BY <3>4
      <4> QED
        BY <3>1, <3>2, <4>1, <4>2
    <3> QED
      BY <3>3, <3>4
  <2> QED
    BY <2>4, <2>6, <2>7, <2>8 DEF Placed, new
<1> QED
  BY <1>3, <1>4

LEMMA SetAllPlaces ==
    ASSUME NEW tb, NEW K, Filling(tb, K), inst \in Instances, IsFiniteSet(K), K \subseteq Key,
           NEW fields, Len(fields) \in Nat, FieldsFit(tb, fields, K)
    PROVE  Placed(tb, SetAll(tb, fields), fields, K, Len(fields))
<1> DEFINE n == Len(fields)
<1>1. PICK g : g = Afters(tb, fields, n, g) /\ SetAll(tb, fields) = g[n]
  BY SetAllIs
<1>2. \A j \in 0..n : g[j] = IF j = 0 THEN tb ELSE OneMore(g[j - 1], fields, j)
  BY <1>1, Zenon DEF Afters
<1> DEFINE T == {j \in 0..n : ~Placed(tb, g[j], fields, K, j)}
<1>3. T = {}
  <2> SUFFICES ASSUME T # {}
               PROVE  FALSE
    OBVIOUS
  <2>1. T \in SUBSET Nat
    OBVIOUS
  <2>2. PICK j \in T : \A l \in T : j <= l
    <3> HIDE DEF T
    <3> QED
      BY <2>1, LeastNumber
  <2>3. j \in 0..n /\ ~Placed(tb, g[j], fields, K, j)
    BY <2>2
  <2>4. j # 0
    <3> SUFFICES ASSUME j = 0
                 PROVE  FALSE
      OBVIOUS
    <3>1. g[j] = tb
      BY <1>2, <2>3
    <3>2. \A k, v : ~HasField(fields, j, k, v)
      BY DEF HasField
    <3>3. Placed(tb, tb, fields, K, j)
      BY <3>2 DEF Placed
    <3> QED
      BY <2>3, <3>1, <3>3
  <2>5. j - 1 \in 0..n /\ ~(j <= j - 1) /\ j \in 1..n
    BY <2>3, <2>4
  <2>6. Placed(tb, g[j - 1], fields, K, j - 1)
    <3> DEFINE p == j - 1
    <3>1. p \notin T
      <4> SUFFICES ASSUME p \in T
                   PROVE  FALSE
        OBVIOUS
      <4> HIDE DEF T
      <4> QED
        BY <2>2, <2>5
    <3>2. p \in 0..n
      BY <2>5
    <3> HIDE DEF p
    <3>3. Placed(tb, g[p], fields, K, p)
      BY <3>1, <3>2
    <3> QED
      BY <3>3 DEF p
  <2>7. g[j] = OneMore(g[j - 1], fields, j)
    BY <1>2, <2>3, <2>4
  <2>8. Placed(tb, OneMore(g[j - 1], fields, j), fields, K, j)
    BY <2>5, <2>6, PlacedNext
  <2> QED
    BY <2>3, <2>7, <2>8
<1>4. n \in 0..n
  OBVIOUS
<1>5. Placed(tb, g[n], fields, K, n)
  BY <1>3, <1>4
<1> QED
  BY <1>1, <1>5

-----------------------------------------------------------------------------
(* What a table holds.                                                     *)

\* What is read is what is in one part or the other.
LEMMA GetInParts ==
    ASSUME NEW tb, TableInv(tb), inst \in Instances
    PROVE  /\ \A k \in Index \cup Key : Get(tb, k) \in Value \cup {Nothing}
           /\ \A k \in 1..Len(tb.array) : k \in Index /\ Get(tb, k) = tb.array[k]
           /\ \A k \in Index \cup Key : k \notin 1..Len(tb.array) =>
                 \A v \in Value : Get(tb, k) = v <=> <<k, v>> \in Entries(tb.node)
           /\ \A k \in Index \cup Key : Get(tb, k) # Nothing => k \in Key
           /\ \A k, v : <<k, v>> \in Entries(tb.node) =>
                 /\ k \in Key /\ v \in Value /\ k \notin 1..Len(tb.array) /\ Get(tb, k) = v
<1>1. HashInv(tb) /\ TableTypes(tb) /\ SizeKnown(tb) /\ OnePart(tb)
  BY DEF TableInv, HashInv
<1>2. Len(tb.array) \in Nat /\ Len(tb.array) < MaxInteger /\ MaxInteger \in Nat
  BY <1>1, TableFields, SizesAssumption DEF SizeKnown
<1>3. \A k \in 1..Len(tb.array) : k \in Index
  BY <1>2 DEF Index
<1>4. ASSUME NEW k \in Index \cup Key
      PROVE  /\ Get(tb, k) \in Value \cup {Nothing}
             /\ k \in 1..Len(tb.array) => Get(tb, k) = tb.array[k]
             /\ k \notin 1..Len(tb.array) =>
                   \A v \in Value : Get(tb, k) = v <=> <<k, v>> \in Entries(tb.node)
  BY GetIs
<1>5. Entries(tb.node) \subseteq Key \X Value
  BY <1>1, EntriesAre
<1>6. ASSUME NEW k, NEW v, <<k, v>> \in Entries(tb.node)
      PROVE  k \in Key /\ v \in Value /\ k \notin 1..Len(tb.array) /\ Get(tb, k) = v
  <2>1. k \in Key /\ v \in Value
    BY <1>5, <1>6
  <2>2. k \notin 1..Len(tb.array)
    BY <1>1, <1>6 DEF OnePart, Entries
  <2> QED
    BY <1>4, <1>6, <2>1, <2>2
<1>7. ASSUME NEW k \in Index \cup Key, Get(tb, k) # Nothing
      PROVE  k \in Key
  <2>1. CASE k \in 1..Len(tb.array)
    BY <1>1, <1>4, <1>7, <2>1 DEF OnePart
  <2>2. CASE k \notin 1..Len(tb.array)
    BY <1>4, <1>6, <1>7, <2>2
  <2> QED
    BY <2>1, <2>2
<1> QED
  BY <1>3, <1>4, <1>6, <1>7

\* Two tables with the same fields in the array and the hash part.
LEMMA SameContents ==
    ASSUME NEW tb, NEW new, TableInv(tb), TableInv(new), inst \in Instances,
           new.array = tb.array, Entries(new.node) = Entries(tb.node)
    PROVE  \A k \in Index \cup Key : Get(new, k) = Get(tb, k)
<1> SUFFICES ASSUME NEW k \in Index \cup Key
             PROVE  Get(new, k) = Get(tb, k)
  OBVIOUS
<1>1. CASE k \in 1..Len(tb.array)
  BY <1>1, GetInParts
<1>2. CASE k \notin 1..Len(tb.array)
  <2>1. Get(new, k) \in Value \cup {Nothing} /\ Get(tb, k) \in Value \cup {Nothing}
    BY GetInParts
  <2>2. \A v \in Value : Get(new, k) = v <=> <<k, v>> \in Entries(tb.node)
    BY <1>2, GetInParts
  <2>3. \A v \in Value : Get(tb, k) = v <=> <<k, v>> \in Entries(tb.node)
    BY <1>2, GetInParts
  <2> QED
    BY <2>1, <2>2, <2>3
<1> QED
  BY <1>1, <1>2

LEMMA LimitSet ==
    ASSUME NEW tb, TableInv(tb), inst \in Instances
    PROVE  LET s == SetLimitToSize(tb)
           IN  /\ TableInv(s) /\ s.array = tb.array /\ s.alimit = Len(tb.array)
               /\ s.realasize = TRUE /\ s.absent = tb.absent /\ s.node = tb.node
               /\ s.lastfree = tb.lastfree
               /\ \A k \in Index \cup Key : Get(s, k) = Get(tb, k)
<1> DEFINE s == SetLimitToSize(tb)
<1>1. HashInv(tb) /\ TableTypes(tb) /\ SizeKnown(tb) /\ OnePart(tb)
  BY DEF TableInv, HashInv
<1>2. RealSize(tb) = Len(tb.array) /\ Len(tb.array) \in Nat
  BY <1>1, RealSizeIs, TableFields
<1>3. /\ TableTypes(s) /\ s.array = tb.array /\ s.alimit = Len(tb.array)
      /\ s.realasize = TRUE /\ s.absent = tb.absent /\ s.node = tb.node
      /\ s.lastfree = tb.lastfree
  BY <1>1, <1>2 DEF TableTypes, SetLimitToSize
<1> HIDE DEF s
<1>4. HashInv(s)
  BY <1>1, <1>3, Rearrayed
<1>5. SizeKnown(s)
  BY <1>1, <1>2, <1>3 DEF SizeKnown
<1>6. OnePart(s)
  BY <1>1, <1>3 DEF OnePart
<1>7. TableInv(s)
  BY <1>4, <1>5, <1>6 DEF TableInv
<1>8. \A k \in Index \cup Key : Get(s, k) = Get(tb, k)
  BY <1>3, <1>7, SameContents
<1> QED
  BY <1>3, <1>7, <1>8 DEF s

\* The first half of luaH_resize: the vanishing elements go to the new hash part.
Sliced(tb, na, nh) ==
    LET s == SetLimitToSize(tb)
        fresh == WithNodes(s, NodeVector(nh))
    IN  IF na < s.alimit THEN MoveSlice(fresh, na) ELSE fresh
\* What the new hash part is then like: K is what it still has room for.
SliceFits(tb, na, nh, K) ==
    LET n == Sliced(tb, na, nh)
    IN  /\ HashInv(n) /\ Fresh(n.node) /\ n.realasize = TRUE /\ n.absent = tb.absent
        /\ Cardinality(K) <= SizeNode(n) /\ (K # {} => n.lastfree # Dummy)
        /\ SizeNode(n) >= nh
        /\ \A q, w : <<q, w>> \in Entries(n.node) <=>
              q \in 1..Len(tb.array) /\ q \notin 1..na /\ w = tb.array[q] /\ w # Nothing
LEMMA SliceMoved ==
    ASSUME NEW tb, TableInv(tb), inst \in Instances, NEW na \in Nat, NEW nh \in Nat,
           NEW K, IsFiniteSet(K), K \subseteq Key, Cardinality(K) <= nh,
           \A k \in Key : Get(tb, k) # Nothing => k \in 1..na \/ k \in K
    PROVE  SliceFits(tb, na, nh, K)
<1> DEFINE s == SetLimitToSize(tb)
           fresh == WithNodes(s, NodeVector(nh))
           n == Sliced(tb, na, nh)
           len == Len(tb.array)
<1>0. n = IF na < s.alimit THEN MoveSlice(fresh, na) ELSE fresh
  BY DEF Sliced
<1> HIDE DEF n
<1>1. /\ HashInv(tb) /\ TableTypes(tb) /\ OnePart(tb)
      /\ len \in Nat /\ len < MaxInteger /\ MaxInteger \in Nat
      /\ tb.array \in Seq(Value \cup {Nothing})
  BY TableFields, SizesAssumption DEF TableInv, HashInv, SizeKnown
<1>2. /\ TableInv(s) /\ TableTypes(s) /\ s.array = tb.array /\ s.alimit = len
      /\ s.realasize = TRUE /\ s.absent = tb.absent
  BY LimitSet DEF TableInv, HashInv
<1> HIDE DEF s
<1>3. /\ HashInv(fresh) /\ Fresh(fresh.node) /\ Entries(fresh.node) = {}
      /\ fresh.lastfree = Dummy <=> nh = 0
      /\ SizeNode(fresh) >= nh
      /\ fresh.array = tb.array /\ fresh.alimit = len
      /\ fresh.realasize = TRUE /\ fresh.absent = tb.absent
  BY <1>2, NewNodes
<1> HIDE DEF fresh
<1>4. Cardinality(K) \in Nat /\ SizeNode(fresh) \in Nat /\ (K # {} => nh # 0)
  <2>1. Cardinality(K) \in Nat /\ (Cardinality(K) = 0 <=> K = {})
    BY FS_CardinalityType, FS_EmptySet
  <2>2. SizeNode(fresh) \in Nat
    BY <1>3, TableFields DEF HashInv
  <2> QED
    BY <2>1, <2>2
<1>5. Cardinality(K) <= SizeNode(fresh) /\ (K # {} => fresh.lastfree # Dummy)
  BY <1>3, <1>4
<1>6. CASE ~(na < len)
  <2>1. n = fresh
    BY <1>0, <1>2, <1>6
  <2>2. \A q : ~(q \in 1..len /\ q \notin 1..na)
    BY <1>1, <1>6
  <2> QED
    BY <1>3, <1>5, <2>1, <2>2 DEF SliceFits, n
<1>7. CASE na < len
  <2> DEFINE m == [fresh EXCEPT !.alimit = na]
             fields == Vanishing(fresh, na)
  <2>1. n = SetAll(m, fields)
    BY <1>0, <1>2, <1>7 DEF MoveSlice
  <2>2. /\ TableTypes(m) /\ m.array = tb.array /\ m.alimit = na /\ m.realasize = TRUE
        /\ m.absent = tb.absent /\ m.node = fresh.node /\ m.lastfree = fresh.lastfree
    BY <1>3 DEF HashInv, TableTypes
  <2> HIDE DEF m
  <2>3. HashInv(m) /\ SizeNode(m) = SizeNode(fresh)
    BY <1>3, <2>2, Rearrayed DEF SizeNode
  <2>4. Filling(m, K)
    <3>1. m.alimit <= Len(m.array) /\ Len(m.array) < MaxInteger
      BY <1>1, <1>7, <2>2
    <3>2. Entries(m.node) = {} /\ Fresh(m.node)
      BY <1>3, <2>2
    <3> QED
      BY <1>5, <2>2, <2>3, <3>1, <3>2 DEF Filling
  <2>5. RealSize(fresh) = len
    BY <1>3 DEF RealSize, LimitIsSize
  <2>6. fields = [i \in 1..len - na |-> [key |-> na + i, val |-> tb.array[na + i]]]
    BY <1>3, <2>5 DEF Vanishing
  <2>7. len - na \in Nat
    BY <1>1, <1>7
  <2>8. Len(fields) = len - na
    BY <2>6, <2>7
  <2> HIDE DEF fields
  <2>9. ASSUME NEW i \in 1..len - na
        PROVE  /\ fields[i].key = na + i /\ fields[i].val = tb.array[na + i]
               /\ na + i \in 1..len /\ na + i \notin 1..na /\ i = (na + i) - na
               /\ tb.array[na + i] \in Value \cup {Nothing}
    <3>1. fields[i].key = na + i /\ fields[i].val = tb.array[na + i]
      BY <2>6
    <3>2. na + i \in 1..len /\ na + i \notin 1..na /\ i = (na + i) - na
      BY <1>1
    <3>3. tb.array[na + i] \in Value \cup {Nothing}
      BY <1>1, <3>2
    <3> QED
      BY <3>1, <3>2, <3>3
  <2>10. FieldsFit(m, fields, K)
    <3>1. ASSUME NEW j \in 1..Len(fields), fields[j].val # Nothing
          PROVE  /\ fields[j].val \in Value /\ fields[j].key \in Key
                 /\ fields[j].key \in K /\ \A w : <<fields[j].key, w>> \notin Entries(m.node)
      <4> DEFINE q == na + j
      <4>1. /\ fields[j].key = q /\ fields[j].val = tb.array[q] /\ q \in 1..len /\ q \notin 1..na
            /\ tb.array[q] \in Value \cup {Nothing}
        BY <2>8, <2>9
      <4> HIDE DEF q
      <4>2. q \in Key
        BY <1>1, <3>1, <4>1 DEF OnePart
      <4>3. Get(tb, q) = tb.array[q]
        BY <4>1, GetInParts
      <4>4. q \in K
        BY <3>1, <4>1, <4>2, <4>3
      <4> QED
        BY <1>3, <2>2, <3>1, <4>1, <4>2, <4>4
    <3>2. \A i, j \in 1..Len(fields) : fields[i].key = fields[j].key => i = j
      <4> SUFFICES ASSUME NEW i \in 1..len - na, NEW j \in 1..len - na,
                          fields[i].key = fields[j].key
                   PROVE  i = j
        BY <2>8
      <4>1. na + i = na + j
        BY <2>9
      <4> QED
        BY <4>1
    <3> QED
      BY <3>1, <3>2 DEF FieldsFit
  <2>11. Placed(m, SetAll(m, fields), fields, K, Len(fields))
    BY <2>4, <2>7, <2>8, <2>10, SetAllPlaces
  <2>12. ASSUME NEW q, NEW w
         PROVE  HasField(fields, Len(fields), q, w) <=>
                   q \in 1..len /\ q \notin 1..na /\ w = tb.array[q] /\ w # Nothing
    <3>1. ASSUME HasField(fields, Len(fields), q, w)
          PROVE  q \in 1..len /\ q \notin 1..na /\ w = tb.array[q] /\ w # Nothing
      BY <2>8, <2>9, <3>1 DEF HasField
    <3>2. ASSUME q \in 1..len, q \notin 1..na, w = tb.array[q], w # Nothing
          PROVE  HasField(fields, Len(fields), q, w)
      <4> DEFINE j == q - na
      <4>1. j \in 1..len - na /\ na + j = q
        BY <1>1, <3>2
      <4> HIDE DEF j
      <4>2. fields[j].key = q /\ fields[j].val = tb.array[q]
        BY <2>9, <4>1
      <4> QED
        BY <2>8, <3>2, <4>1, <4>2 DEF HasField
    <3> QED
      BY <3>1, <3>2
  <2>13. Placed(m, n, fields, K, Len(fields))
    BY <2>1, <2>11
  <2>14. /\ HashInv(n) /\ Fresh(n.node) /\ n.realasize = TRUE /\ n.absent = tb.absent
         /\ Cardinality(K) <= SizeNode(n) /\ (K # {} => n.lastfree # Dummy)
    BY <2>2, <2>13 DEF Placed, Filling
  <2>15. SizeNode(n) >= nh
    <3>1. DOMAIN n.node = DOMAIN m.node
      BY <2>13 DEF Placed
    <3> QED
      BY <1>3, <2>3, <3>1 DEF SizeNode
  <2>16. \A q, w : <<q, w>> \in Entries(n.node) <=>
            q \in 1..len /\ q \notin 1..na /\ w = tb.array[q] /\ w # Nothing
    <3> SUFFICES ASSUME NEW q, NEW w
                 PROVE  <<q, w>> \in Entries(n.node) <=>
                           q \in 1..len /\ q \notin 1..na /\ w = tb.array[q] /\ w # Nothing
      OBVIOUS
    <3>1. <<q, w>> \in Entries(n.node) <=>
             \/ <<q, w>> \in Entries(m.node)
             \/ q \notin 1..na /\ HasField(fields, Len(fields), q, w)
      BY <2>2, <2>13 DEF Placed
    <3>2. <<q, w>> \notin Entries(m.node)
      BY <1>3, <2>2
    <3> QED
      BY <2>12, <3>1, <3>2
  <2> QED
    BY <2>14, <2>15, <2>16 DEF SliceFits, n
<1> QED
  BY <1>6, <1>7

\* luaH_resize keeps every field, and K has room in the new table.
ResizeFits(tb, na, nh, outcome, K) ==
    LET r == Resize(tb, na, nh, outcome)
    IN  /\ TableInv(r) /\ Filling(r, K) /\ r.alimit = na /\ Len(r.array) = na
        /\ r.realasize = TRUE /\ r.absent = tb.absent
        /\ \A k \in Index \cup Key : Get(r, k) = Get(tb, k)
LEMMA ResizeIs ==
    ASSUME NEW tb, TableInv(tb), inst \in Instances, NEW na \in Nat, na < MaxInteger,
           NEW nh \in Nat, NEW outcome, ~Fails(na, nh, outcome),
           NEW K, IsFiniteSet(K), K \subseteq Key, Cardinality(K) <= nh,
           \A k \in Key : Get(tb, k) # Nothing => k \in 1..na \/ k \in K
    PROVE  ResizeFits(tb, na, nh, outcome, K)
<1> DEFINE s == SetLimitToSize(tb)
           fresh == WithNodes(s, NodeVector(nh))
           n == Sliced(tb, na, nh)
           len == Len(tb.array)
           old == tb.node
           a == [i \in 1..na |-> IF i <= len THEN tb.array[i] ELSE Nothing]
           m == [n EXCEPT !.array = a, !.alimit = na]
           size == Cardinality(DOMAIN old)
           fields == [i \in 1..size |-> old[i - 1]]
           r == Resize(tb, na, nh, outcome)
<1>1. /\ HashInv(tb) /\ TableTypes(tb) /\ OnePart(tb)
      /\ len \in Nat /\ len < MaxInteger /\ MaxInteger \in Nat
      /\ tb.array \in Seq(Value \cup {Nothing})
      /\ \A i \in 1..len : tb.array[i] \in Value \cup {Nothing}
      /\ size \in Nat /\ DOMAIN old = 0..size - 1
  BY TableFields, SizesAssumption DEF TableInv, HashInv, SizeKnown, SizeNode
<1>2. s.array = tb.array /\ s.alimit = len
  BY LimitSet
<1>3. r = SetAll(m, fields)
  BY <1>2 DEF Resize, Reinsert, Sliced
<1>4. /\ HashInv(n) /\ Fresh(n.node) /\ n.realasize = TRUE /\ n.absent = tb.absent
      /\ Cardinality(K) <= SizeNode(n) /\ (K # {} => n.lastfree # Dummy)
      /\ \A q, w : <<q, w>> \in Entries(n.node) <=>
            q \in 1..len /\ q \notin 1..na /\ w = tb.array[q] /\ w # Nothing
  <2>1. SliceFits(tb, na, nh, K)
    BY SliceMoved
  <2> QED
    BY <2>1 DEF SliceFits
<1> HIDE DEF n
<1>5. a \in Seq(Value \cup {Nothing}) /\ Len(a) = na /\ \A i \in 1..na :
         a[i] = IF i <= len THEN tb.array[i] ELSE Nothing
  <2>1. \A i \in 1..na : a[i] \in Value \cup {Nothing}
    <3> SUFFICES ASSUME NEW i \in 1..na
                 PROVE  a[i] \in Value \cup {Nothing}
      OBVIOUS
    <3>1. i <= len => i \in 1..len
      BY <1>1
    <3> QED
      BY <1>1, <3>1
  <2>2. a \in [1..na -> Value \cup {Nothing}]
    BY <2>1
  <2> QED
    BY <2>2
<1> HIDE DEF a
<1>6. /\ TableTypes(m) /\ m.array = a /\ m.alimit = na /\ m.realasize = TRUE
      /\ m.absent = tb.absent /\ m.node = n.node /\ m.lastfree = n.lastfree
  BY <1>4, <1>5 DEF HashInv, TableTypes
<1> HIDE DEF m
<1>7. HashInv(m) /\ SizeNode(m) = SizeNode(n)
  BY <1>4, <1>6, Rearrayed DEF SizeNode
<1>8. Filling(m, K)
  <2>1. Fresh(m.node) /\ m.alimit <= Len(m.array) /\ Len(m.array) < MaxInteger
    BY <1>4, <1>5, <1>6
  <2>2. \A q, w : <<q, w>> \in Entries(m.node) => q \in K
    <3> SUFFICES ASSUME NEW q, NEW w, <<q, w>> \in Entries(m.node)
                 PROVE  q \in K
      OBVIOUS
    <3>1. q \in 1..len /\ q \notin 1..na /\ w = tb.array[q] /\ w # Nothing
      BY <1>4, <1>6
    <3>2. q \in Key /\ Get(tb, q) # Nothing
      BY <1>1, <3>1, GetInParts DEF OnePart
    <3> QED
      BY <3>1, <3>2
  <2> QED
    BY <1>4, <1>6, <1>7, <2>1, <2>2 DEF Filling
<1>9. Len(fields) = size /\ \A i \in 1..size : i - 1 \in DOMAIN old /\ fields[i] = old[i - 1]
  BY <1>1
<1>10. \A q, w : HasField(fields, size, q, w) <=> <<q, w>> \in Entries(old)
  <2> SUFFICES ASSUME NEW q, NEW w
               PROVE  HasField(fields, size, q, w) <=> <<q, w>> \in Entries(old)
    OBVIOUS
  <2>1. ASSUME HasField(fields, size, q, w)
        PROVE  <<q, w>> \in Entries(old)
    BY <1>9, <2>1 DEF HasField, Entries
  <2>2. ASSUME <<q, w>> \in Entries(old)
        PROVE  HasField(fields, size, q, w)
    <3>1. PICK i \in DOMAIN old : old[i].val # Nothing /\ <<q, w>> = <<old[i].key, old[i].val>>
      BY <2>2 DEF Entries
    <3>2. i + 1 \in 1..size /\ (i + 1) - 1 = i
      BY <1>1
    <3> HIDE DEF old, fields, size
    <3>3. fields[i + 1] = old[i]
      BY <1>9, <3>2
    <3> QED
      BY <3>1, <3>2, <3>3 DEF HasField
  <2> QED
    BY <2>1, <2>2
<1>11. \A q, w : <<q, w>> \in Entries(old) =>
          /\ q \in Key /\ w \in Value /\ q \notin 1..len /\ Get(tb, q) = w
  BY GetInParts
<1>12. FieldsFit(m, fields, K)
  <2> HIDE DEF fields, size
  <2>1. ASSUME NEW j \in 1..size, fields[j].val # Nothing
        PROVE  /\ fields[j].val \in Value /\ fields[j].key \in Key
               /\ \/ fields[j].key \in 1..na
                  \/ fields[j].key \in K /\ \A w : <<fields[j].key, w>> \notin Entries(m.node)
    <3> DEFINE q == fields[j].key
               v == fields[j].val
    <3>1. HasField(fields, size, q, v)
      BY <2>1 DEF HasField
    <3> HIDE DEF q, v
    <3>2. q \in Key /\ v \in Value /\ q \notin 1..len /\ Get(tb, q) = v
      BY <1>10, <1>11, <3>1
    <3>3. q \in 1..na \/ q \in K
      BY <3>2, KeysAre
    <3>4. \A w : <<q, w>> \notin Entries(m.node)
      BY <1>4, <1>6, <3>2
    <3> QED
      BY <3>2, <3>3, <3>4 DEF q, v
  <2>2. ASSUME NEW i \in 1..size, NEW j \in 1..size, fields[i].val # Nothing,
               fields[j].val # Nothing, fields[i].key = fields[j].key
        PROVE  i = j
    <3> DEFINE x == i - 1
               y == j - 1
    <3>1. x \in DOMAIN old /\ y \in DOMAIN old /\ fields[i] = old[x] /\ fields[j] = old[y]
      BY <1>9
    <3> HIDE DEF x, y
    <3>2. old[x].key = old[y].key /\ old[x].val # Nothing /\ old[y].val # Nothing
      BY <2>2, <3>1
    <3>3. old[x].key # Nothing /\ ~old[x].dead /\ ~old[y].dead
      BY <1>1, <3>1, <3>2, EntriesAre, KeysAre
    <3>4. x = y
      BY <1>1, <3>1, <3>2, <3>3, LiveAlone
    <3> QED
      BY <3>4 DEF x, y
  <2> QED
    BY <1>6, <1>9, <2>1, <2>2 DEF FieldsFit
<1> HIDE DEF fields, size
<1>13. Placed(m, r, fields, K, size)
  <2>1. Len(fields) \in Nat
    BY <1>1, <1>9
  <2>2. Placed(m, SetAll(m, fields), fields, K, Len(fields))
    BY <1>8, <1>12, <2>1, SetAllPlaces
  <2> QED
    BY <1>3, <1>9, <2>2
<1> HIDE DEF r
<1>14. /\ Filling(r, K) /\ r.alimit = na /\ r.absent = tb.absent /\ Len(r.array) = na
       /\ r.realasize = TRUE /\ HashInv(r)
  BY <1>5, <1>6, <1>13 DEF Placed, Filling
<1>15. \A q, w : <<q, w>> \in Entries(r.node) <=>
          \/ q \in 1..len /\ q \notin 1..na /\ w = tb.array[q] /\ w # Nothing
          \/ q \notin 1..na /\ <<q, w>> \in Entries(old)
  <2> SUFFICES ASSUME NEW q, NEW w
               PROVE  <<q, w>> \in Entries(r.node) <=>
                         \/ q \in 1..len /\ q \notin 1..na /\ w = tb.array[q] /\ w # Nothing
                         \/ q \notin 1..na /\ <<q, w>> \in Entries(old)
    OBVIOUS
  <2>1. <<q, w>> \in Entries(r.node) <=>
          \/ <<q, w>> \in Entries(m.node)
          \/ q \notin 1..na /\ HasField(fields, size, q, w)
    BY <1>6, <1>13 DEF Placed
  <2>2. <<q, w>> \in Entries(m.node) <=>
           q \in 1..len /\ q \notin 1..na /\ w = tb.array[q] /\ w # Nothing
    BY <1>4, <1>6
  <2> QED
    BY <1>10, <2>1, <2>2
<1>16. \A i \in 1..na :
          \/ \E w : <<i, w>> \in Entries(old) /\ r.array[i] = w
          \/ r.array[i] = a[i] /\ ~\E w : <<i, w>> \in Entries(old)
  <2> SUFFICES ASSUME NEW i \in 1..na
               PROVE  \/ \E w : <<i, w>> \in Entries(old) /\ r.array[i] = w
                      \/ r.array[i] = a[i] /\ ~\E w : <<i, w>> \in Entries(old)
    OBVIOUS
  <2>1. \/ \E w : HasField(fields, size, i, w) /\ r.array[i] = w
        \/ r.array[i] = m.array[i] /\ ~\E w : HasField(fields, size, i, w)
    BY <1>5, <1>6, <1>13 DEF Placed
  <2> QED
    BY <1>6, <1>10, <2>1
<1> HIDE DEF old
<1>17. OnePart(r)
  <2>1. ASSUME NEW i \in 1..na, r.array[i] # Nothing
        PROVE  i \in Key
    <3>1. CASE \E w : <<i, w>> \in Entries(old)
      BY <1>11, <3>1
    <3>2. CASE r.array[i] = a[i]
      <4>1. i <= len /\ tb.array[i] # Nothing
        BY <1>5, <2>1, <3>2
      <4>2. i \in 1..len
        BY <1>1, <4>1
      <4> QED
        BY <1>1, <4>1, <4>2 DEF OnePart
    <3> QED
      BY <1>16, <3>1, <3>2
  <2>2. ASSUME NEW i \in DOMAIN r.node, r.node[i].val # Nothing
        PROVE  r.node[i].key \notin 1..na
    <3>1. <<r.node[i].key, r.node[i].val>> \in Entries(r.node)
      BY <2>2 DEF Entries
    <3> QED
      BY <1>15, <3>1
  <2> QED
    BY <1>14, <2>1, <2>2 DEF OnePart
<1>18. SizeKnown(r)
  BY <1>14 DEF SizeKnown
<1>19. TableInv(r)
  BY <1>14, <1>17, <1>18 DEF TableInv
<1>20. ASSUME NEW k \in Index \cup Key
       PROVE  Get(r, k) = Get(tb, k)
  <2>1. /\ Get(r, k) \in Value \cup {Nothing} /\ Get(tb, k) \in Value \cup {Nothing}
        /\ Nothing \notin Value
    BY <1>19, GetInParts, KeysAre
  <2>2. k \in 1..na => Get(r, k) = r.array[k]
    BY <1>14, <1>19, GetInParts
  <2>3. k \notin 1..na => \A v \in Value : Get(r, k) = v <=> <<k, v>> \in Entries(r.node)
    BY <1>14, <1>19, GetInParts
  <2>4. k \in 1..len => Get(tb, k) = tb.array[k]
    BY GetInParts
  <2>5. k \notin 1..len => \A v \in Value : Get(tb, k) = v <=> <<k, v>> \in Entries(old)
    BY GetInParts DEF old
  <2>6. CASE k \in 1..na /\ k \in 1..len
    <3>1. r.array[k] = a[k]
      BY <1>11, <1>16, <2>6
    <3>2. a[k] = tb.array[k]
      BY <1>1, <1>5, <2>6
    <3> QED
      BY <2>2, <2>4, <2>6, <3>1, <3>2
  <2>7. CASE k \in 1..na /\ k \notin 1..len
    <3>1. a[k] = Nothing
      BY <1>1, <1>5, <2>7
    <3>2. CASE \E w : <<k, w>> \in Entries(old) /\ r.array[k] = w
      BY <1>11, <2>2, <2>7, <3>2
    <3>3. CASE r.array[k] = a[k] /\ ~\E w : <<k, w>> \in Entries(old)
      BY <2>1, <2>2, <2>5, <2>7, <3>1, <3>3
    <3> QED
      BY <1>16, <2>7, <3>2, <3>3
  <2>8. CASE k \notin 1..na /\ k \in 1..len
    <3>1. \A v \in Value : Get(r, k) = v <=> v = tb.array[k]
      BY <1>11, <1>15, <2>1, <2>3, <2>8
    <3> QED
      BY <2>1, <2>4, <2>8, <3>1
  <2>9. CASE k \notin 1..na /\ k \notin 1..len
    <3>1. \A v \in Value : Get(r, k) = v <=> Get(tb, k) = v
      BY <1>15, <2>3, <2>5, <2>9
    <3> QED
      BY <2>1, <3>1
  <2> QED
    BY <2>6, <2>7, <2>8, <2>9
<1> QED
  BY <1>14, <1>19, <1>20 DEF r, ResizeFits

-----------------------------------------------------------------------------
(* Rehashing: the new parts have room for all keys.                        *)

\* The fields, by the part that they are in.
LEMMA FieldsAre ==
    ASSUME NEW tb, TableInv(tb), inst \in Instances
    PROVE  LET A == {i \in 1..Len(tb.array) : tb.array[i] # Nothing}
               B == {i \in DOMAIN tb.node : tb.node[i].val # Nothing}
               C == {tb.node[i].key : i \in B}
           IN  /\ Fields(tb) = A \cup C /\ A \cap C = {} /\ C \subseteq Key
               /\ IsFiniteSet(A) /\ IsFiniteSet(B) /\ IsFiniteSet(C)
               /\ Cardinality(C) = Cardinality(B)
<1> DEFINE A == {i \in 1..Len(tb.array) : tb.array[i] # Nothing}
           B == {i \in DOMAIN tb.node : tb.node[i].val # Nothing}
           C == {tb.node[i].key : i \in B}
           f == [i \in B |-> tb.node[i].key]
<1>1. HashInv(tb) /\ TableTypes(tb) /\ OnePart(tb) /\ Len(tb.array) \in Nat
  BY TableFields DEF TableInv, HashInv
<1>2. DOMAIN tb.node = 0..SizeNode(tb) - 1 /\ SizeNode(tb) \in Nat \ {0}
  BY <1>1, TableFields
<1>3. IsFiniteSet(A)
  <2>1. 1 \in Int /\ Len(tb.array) \in Int
    BY <1>1
  <2>2. IsFiniteSet(1..Len(tb.array))
    BY <2>1, FS_Interval
  <2> QED
    BY <2>2, FS_Subset
<1>4. IsFiniteSet(B)
  <2>1. 0 \in Int /\ SizeNode(tb) - 1 \in Int
    BY <1>2
  <2>2. IsFiniteSet(0..SizeNode(tb) - 1)
    BY <2>1, FS_Interval
  <2> QED
    BY <1>2, <2>2, FS_Subset
<1>5. \A i \in B : tb.node[i].key \in Key /\ ~tb.node[i].dead
                   /\ <<tb.node[i].key, tb.node[i].val>> \in Entries(tb.node)
  BY <1>1, EntriesAre
<1>6. f \in Bijection(B, C)
  <2>1. f \in Surjection(B, C)
    BY DEF Surjection
  <2>2. ASSUME NEW i \in B, NEW j \in B, tb.node[i].key = tb.node[j].key
        PROVE  i = j
    <3>1. i \in DOMAIN tb.node /\ j \in DOMAIN tb.node /\ tb.node[i].key # Nothing
          /\ ~tb.node[i].dead /\ ~tb.node[j].dead
      BY <1>5, KeysAre
    <3> QED
      BY <1>1, <2>2, <3>1, LiveAlone
  <2>3. f \in Injection(B, C)
    BY <2>2 DEF Injection, IsInjective
  <2> QED
    BY <2>1, <2>3 DEF Bijection
<1>7. IsFiniteSet(C) /\ Cardinality(C) = Cardinality(B)
  <2>1. ExistsBijection(B, C)
    BY <1>6 DEF ExistsBijection
  <2> HIDE DEF B, C
  <2> QED
    BY <1>4, <2>1, FS_Bijection
<1>8. A \cap C = {} /\ C \subseteq Key
  BY <1>1, <1>5 DEF OnePart
<1>9. \A q \in C : \E w \in Value : <<q, w>> \in Entries(tb.node)
  <2> TAKE q \in C
  <2>1. PICK i \in B : q = tb.node[i].key
    OBVIOUS
  <2>2. tb.node[i].val \in Value
    BY <1>1, EntriesAre
  <2> QED
    BY <1>5, <2>1, <2>2
<1>10. \A q, w : <<q, w>> \in Entries(tb.node) => q \in C
  BY DEF Entries
<1>11. Fields(tb) = A \cup C
  <2>1. ASSUME NEW q \in Fields(tb), q \notin A
        PROVE  q \in C
    <3>1. q \in Key /\ Get(tb, q) # Nothing
      BY DEF Fields
    <3>2. q \notin 1..Len(tb.array)
      BY <2>1, <3>1, GetInParts
    <3>3. Get(tb, q) \in Value
      BY <3>1, GetInParts
    <3>4. <<q, Get(tb, q)>> \in Entries(tb.node)
      BY <3>1, <3>2, <3>3, GetInParts
    <3> QED
      BY <1>10, <3>4
  <2>2. ASSUME NEW q \in A
        PROVE  q \in Fields(tb)
    BY <1>1, GetInParts DEF Fields, OnePart
  <2>3. ASSUME NEW q \in C
        PROVE  q \in Fields(tb)
    <3>1. PICK w \in Value : <<q, w>> \in Entries(tb.node)
      BY <1>9
    <3>2. q \in Key /\ Get(tb, q) = w
      BY <3>1, GetInParts
    <3> QED
      BY <3>1, <3>2, KeysAre DEF Fields
  <2> HIDE DEF A, C
  <2> QED
    BY <2>1, <2>2, <2>3
<1> QED
  BY <1>3, <1>4, <1>7, <1>8, <1>11

\* The size of an array part: a small power of two, if not zero.
LEMMA OptimalIs ==
    ASSUME NEW ints
    PROVE  LET na == OptimalSize(ints)
           IN  /\ na \in Nat /\ na < MaxInteger
               /\ \A q \in 1..na : CeilLog2(q) <= MAXABITS
<1> DEFINE good == {i \in 0..MAXABITS : Cardinality(ints) > 2^i \div 2
                                     /\ Cardinality(Below(ints, i)) > 2^i \div 2}
           na == OptimalSize(ints)
<1>1. MaxInteger \in Nat \ {0} /\ MAXABITS \in Nat /\ 2^MAXABITS < MaxInteger
  BY SizesAssumption
<1>2. CASE good = {}
  <2>1. na = 0
    BY <1>2 DEF OptimalSize
  <2> HIDE DEF na
  <2> QED
    BY <1>1, <2>1 DEF na
<1>3. CASE good # {}
  <2> DEFINE j == MaxOf(good)
  <2>1. j \in 0..MAXABITS
    <3>1. good \in SUBSET (0..MAXABITS) /\ MAXABITS \in Int
      BY <1>1
    <3>2. j \in good
      BY <1>3, <3>1, MaxIs
    <3> QED
      BY <3>2
  <2>2. na = 2^j
    BY <1>3 DEF OptimalSize
  <2> HIDE DEF na, j, good
  <2>3. j \in Nat /\ j <= MAXABITS
    BY <1>1, <2>1
  <2>4. 2^j \in Nat \ {0} /\ 2^MAXABITS \in Nat \ {0}
    BY <1>1, <2>3, PowerAbove
  <2>5. 2^j <= 2^MAXABITS
    <3>1. CASE j < MAXABITS
      <4>1. 2 * 2^j <= 2^MAXABITS
        BY <1>1, <2>3, <3>1, PowersGrow
      <4> QED
        BY <2>4, <4>1
    <3>2. CASE j = MAXABITS
      BY <2>4, <3>2
    <3> QED
      BY <1>1, <2>3, <3>1, <3>2
  <2>6. na \in Nat /\ na < MaxInteger
    BY <1>1, <2>2, <2>4, <2>5
  <2>7. ASSUME NEW q \in 1..na
        PROVE  CeilLog2(q) <= MAXABITS
    <3> DEFINE c == CeilLog2(q)
    <3>1. q \in Nat
      BY <2>6
    <3>2. c \in Nat /\ \A m \in Nat : m < c => 2^m < q
      BY <3>1, CeilLog
    <3> HIDE DEF c
    <3>3. j < c => 2^j < q
      BY <2>3, <3>2
    <3>4. ~(2^j < q)
      BY <2>2, <2>4, <3>1
    <3>5. c <= MAXABITS
      BY <1>1, <2>3, <3>2, <3>3, <3>4
    <3> QED
      BY <3>5 DEF c
  <2> QED
    BY <2>6, <2>7 DEF na
<1> QED
  BY <1>2, <1>3

\* What luaH_resize is called with, by rehash.
LEMMA RehashIs ==
    ASSUME NEW tb, TableInv(tb), inst \in Instances, NEW k \in Key, Get(tb, k) = Nothing
    PROVE  LET s == Rehash(tb, k)
               K == (Fields(tb) \cup {k}) \ (1..s.na)
           IN  /\ s.na \in Nat /\ s.na < MaxInteger /\ s.nh \in Nat
               /\ IsFiniteSet(K) /\ K \subseteq Key /\ Cardinality(K) = s.nh
<1> DEFINE A == {i \in 1..Len(tb.array) : tb.array[i] # Nothing}
           B == {i \in DOMAIN tb.node : tb.node[i].val # Nothing}
           C == {tb.node[i].key : i \in B}
           F == Fields(tb)
           ints == Candidates(IntegersIn(tb) \cup ({k} \cap Index))
           na == OptimalSize(ints)
           D == {i \in ints : i <= na}
           X == F \cup {k}
<1>1. /\ F = A \cup C /\ A \cap C = {} /\ C \subseteq Key
      /\ IsFiniteSet(A) /\ IsFiniteSet(B) /\ IsFiniteSet(C)
      /\ Cardinality(C) = Cardinality(B)
  BY FieldsAre
<1>2. k \notin F /\ F \subseteq Key
  BY DEF Fields
<1>3. RealSize(tb) = Len(tb.array)
  BY RealSizeIs DEF TableInv, HashInv
<1>4. TotalUse(tb) = Cardinality(A) + Cardinality(B)
  BY <1>3 DEF TotalUse
<1>5. IntegersIn(tb) = A \cup (C \cap Index)
  <2>1. C \cap Index = {q \in Index : \E i \in DOMAIN tb.node :
                                 tb.node[i].key = q /\ tb.node[i].val # Nothing}
    OBVIOUS
  <2> QED
    BY <1>3, <2>1 DEF IntegersIn
<1>6. A \subseteq Index
  BY GetInParts
<1>7. /\ na \in Nat /\ na < MaxInteger /\ \A q \in 1..na : CeilLog2(q) <= MAXABITS
      /\ MaxInteger \in Nat
  BY OptimalIs, SizesAssumption
<1>8. ints \subseteq X \cap Index /\ \A q \in X \cap Index : CeilLog2(q) <= MAXABITS => q \in ints
  BY <1>1, <1>5, <1>6 DEF Candidates
<1>9. Rehash(tb, k) = [na |-> na, nh |-> TotalUse(tb) + 1 - Cardinality(D)]
  BY DEF Rehash
<1> HIDE DEF A, B, C, F, ints, na
<1>10. IsFiniteSet(F) /\ Cardinality(F) = TotalUse(tb) /\ Cardinality(F) \in Nat
  <2>1. IsFiniteSet(F) /\ Cardinality(F) = Cardinality(A) + Cardinality(C) - Cardinality(A \cap C)
    BY <1>1, FS_Union
  <2>2. Cardinality(A \cap C) = 0
    BY <1>1, FS_EmptySet
  <2>3. Cardinality(A) \in Nat /\ Cardinality(C) \in Nat /\ Cardinality(F) \in Nat
    BY <1>1, <2>1, FS_CardinalityType
  <2> QED
    BY <1>1, <1>4, <2>1, <2>2, <2>3
<1>11. IsFiniteSet(X) /\ Cardinality(X) = TotalUse(tb) + 1
  BY <1>2, <1>10, FS_AddElement
<1>12. X \cap (1..na) = D
  <2>1. ASSUME NEW q \in 1..na
        PROVE  q \in Index /\ q <= na /\ CeilLog2(q) <= MAXABITS
    <3>1. q \in Index /\ q <= na
      BY <1>7 DEF Index
    <3> QED
      BY <1>7, <3>1
  <2>2. \A q \in D : q \in 1..na
    BY <1>7, <1>8 DEF Index
  <2> QED
    BY <1>8, <2>1, <2>2
<1> HIDE DEF D, X
<1>13. IsFiniteSet(X \ (1..na)) /\ Cardinality(X \ (1..na)) = TotalUse(tb) + 1 - Cardinality(D)
  <2> DEFINE I == 1..na
  <2>1. X \cap I = D
    BY <1>12
  <2> HIDE DEF I
  <2>2. IsFiniteSet(X \ I) /\ Cardinality(X \ I) = Cardinality(X) - Cardinality(X \cap I)
    BY <1>11, FS_Difference
  <2>3. IsFiniteSet(X \ I) /\ Cardinality(X \ I) = TotalUse(tb) + 1 - Cardinality(D)
    <3>1. Cardinality(X) = TotalUse(tb) + 1
      BY <1>11
    <3> QED
      <4>1. IsFiniteSet(X \ I)
        BY <2>2
      <4>2. Cardinality(X \ I) = Cardinality(X) - Cardinality(D)
        BY <2>1, <2>2
      <4>3. TotalUse(tb) \in Nat /\ Cardinality(D) \in Nat
        BY <1>10, <1>11, <2>1, FS_Intersection, FS_CardinalityType
      <4> QED
        BY <3>1, <4>1, <4>2, <4>3
  <2> QED
    BY <2>3 DEF I
<1>14. Cardinality(X \ (1..na)) \in Nat
  BY <1>13, FS_CardinalityType
<1>15. X \subseteq Key
  BY <1>2 DEF X
<1> QED
  BY <1>7, <1>9, <1>13, <1>14, <1>15 DEF X, F

-----------------------------------------------------------------------------
(* Assignments.                                                            *)

\* Every key keeps its node, and the nodes keep their links.
SamePlaces(tb, new) ==
    /\ Len(new.array) = Len(tb.array) /\ DOMAIN new.node = DOMAIN tb.node
    /\ \A i \in DOMAIN tb.node :
          new.node[i].key = tb.node[i].key /\ new.node[i].next = tb.node[i].next
SameFields(tb, new) ==
    TableInv(new) /\ \A q \in Index \cup Key : Get(new, q) = Get(tb, q)
Puts(tb, new, k, v) ==
    TableInv(new) /\ \A q \in Index \cup Key : Get(new, q) = IF q = k THEN v ELSE Get(tb, q)

LEMMA CacheSet ==
    ASSUME NEW tb, TableInv(tb), inst \in Instances, NEW b \in BOOLEAN
    PROVE  LET new == [tb EXCEPT !.absent = b]
           IN  SameFields(tb, new) /\ SamePlaces(tb, new) /\ new.absent = b
<1> DEFINE new == [tb EXCEPT !.absent = b]
<1>1. HashInv(tb) /\ TableTypes(tb) /\ SizeKnown(tb) /\ OnePart(tb)
  BY DEF TableInv, HashInv
<1>2. /\ TableTypes(new) /\ new.array = tb.array /\ new.alimit = tb.alimit
      /\ new.realasize = tb.realasize /\ new.absent = b /\ new.node = tb.node
      /\ new.lastfree = tb.lastfree
  BY <1>1 DEF TableTypes
<1> HIDE DEF new
<1>3. TableInv(new)
  BY <1>1, <1>2, Rearrayed DEF TableInv, SizeKnown, OnePart
<1>4. \A q \in Index \cup Key : Get(new, q) = Get(tb, q)
  BY <1>2, <1>3, SameContents
<1> QED
  BY <1>2, <1>3, <1>4 DEF SameFields, SamePlaces, new

\* The limit may move within the second half of an array whose size is a power of two.
LEMMA LimitMoved ==
    ASSUME NEW tb, TableInv(tb), inst \in Instances, NEW n \in Nat, n <= Len(tb.array),
           2 * n > Len(tb.array), \E i \in 0..Len(tb.array) : Len(tb.array) = 2^i
    PROVE  LET new == [tb EXCEPT !.alimit = n, !.realasize = FALSE]
           IN  SameFields(tb, new) /\ SamePlaces(tb, new) /\ new.absent = tb.absent
<1> DEFINE new == [tb EXCEPT !.alimit = n, !.realasize = FALSE]
<1>1. HashInv(tb) /\ TableTypes(tb) /\ SizeKnown(tb) /\ OnePart(tb)
  BY DEF TableInv, HashInv
<1>2. /\ TableTypes(new) /\ new.array = tb.array /\ new.alimit = n
      /\ new.realasize = FALSE /\ new.absent = tb.absent /\ new.node = tb.node
      /\ new.lastfree = tb.lastfree
  BY <1>1 DEF TableTypes
<1> HIDE DEF new
<1>3. SizeKnown(new)
  BY <1>1, <1>2 DEF SizeKnown
<1>4. TableInv(new)
  BY <1>1, <1>2, <1>3, Rearrayed DEF TableInv, OnePart
<1>5. \A q \in Index \cup Key : Get(new, q) = Get(tb, q)
  BY <1>2, <1>4, SameContents
<1> QED
  BY <1>2, <1>4, <1>5 DEF SameFields, SamePlaces, new

LEMMA Reflexive ==
    ASSUME NEW tb, TableInv(tb)
    PROVE  SameFields(tb, tb) /\ SamePlaces(tb, tb)
  BY DEF SameFields, SamePlaces

\* luaH_getint moves the hint.
LEMMA TouchIs ==
    ASSUME NEW tb, TableInv(tb), inst \in Instances, NEW k
    PROVE  LET new == Touch(tb, k)
           IN  /\ SameFields(tb, new) /\ SamePlaces(tb, new) /\ new.absent = tb.absent
               /\ new.array = tb.array /\ new.node = tb.node
<1>1. HashInv(tb) /\ TableTypes(tb) /\ SizeKnown(tb) /\ OnePart(tb)
  BY DEF TableInv, HashInv
<1>2. CASE ~(InArray(tb, k) /\ k > tb.alimit)
  BY <1>2, Reflexive DEF Touch
<1>3. CASE InArray(tb, k) /\ k > tb.alimit
  <2>1. k \in 1..Len(tb.array) /\ Len(tb.array) \in Nat /\ tb.alimit \in Nat
    BY <1>1, <1>3, RealSizeIs, TableFields
  <2>2. tb.realasize = FALSE
    <3>1. ~tb.realasize
      <4>1. tb.alimit # Len(tb.array)
        BY <1>3, <2>1
      <4> QED
        BY <1>1, <4>1, Zenon DEF SizeKnown
    <3>2. tb.realasize \in BOOLEAN
      BY <1>1, TableFields
    <3> QED
      BY <3>1, <3>2
  <2>3. 2 * tb.alimit > Len(tb.array) /\ \E i \in 0..Len(tb.array) : Len(tb.array) = 2^i
    BY <1>1, <2>2 DEF SizeKnown
  <2> DEFINE new == [tb EXCEPT !.alimit = k, !.realasize = FALSE]
  <2>4. k \in Nat /\ k <= Len(tb.array) /\ 2 * k > Len(tb.array)
    BY <1>3, <2>1, <2>3
  <2>5. SameFields(tb, new) /\ SamePlaces(tb, new) /\ new.absent = tb.absent
    BY <2>3, <2>4, LimitMoved
  <2>6. new = [tb EXCEPT !.alimit = k] /\ new.array = tb.array /\ new.node = tb.node
    BY <1>1, <2>2 DEF TableTypes
  <2> HIDE DEF new
  <2>7. Touch(tb, k) = new
    BY <1>3, <2>6 DEF Touch
  <2> QED
    BY <2>5, <2>6, <2>7
<1> QED
  BY <1>2, <1>3

\* A new value, or none, in the array.
LEMMA ArraySet ==
    ASSUME NEW tb, TableInv(tb), inst \in Instances, NEW k \in Key, k \in 1..Len(tb.array),
           NEW v \in Value \cup {Nothing}
    PROVE  LET new == [tb EXCEPT !.array[k] = v]
           IN  Puts(tb, new, k, v) /\ SamePlaces(tb, new) /\ new.absent = tb.absent
<1> DEFINE new == [tb EXCEPT !.array[k] = v]
           a == [tb.array EXCEPT ![k] = v]
           len == Len(tb.array)
<1>1. HashInv(tb) /\ TableTypes(tb) /\ SizeKnown(tb) /\ OnePart(tb)
  BY DEF TableInv, HashInv
<1>2. tb.array \in Seq(Value \cup {Nothing}) /\ len \in Nat /\ DOMAIN tb.array = 1..len
  BY <1>1, TableFields
<1>3. /\ a \in Seq(Value \cup {Nothing}) /\ Len(a) = len /\ a[k] = v
      /\ \A i \in 1..len : i # k => a[i] = tb.array[i]
  BY <1>2
<1>4. new = [tb EXCEPT !.array = a]
  BY <1>1 DEF TableTypes
<1> HIDE DEF a
<1>5. /\ TableTypes(new) /\ new.array = a /\ new.alimit = tb.alimit
      /\ new.realasize = tb.realasize /\ new.absent = tb.absent /\ new.node = tb.node
      /\ new.lastfree = tb.lastfree
  BY <1>1, <1>3, <1>4 DEF TableTypes
<1> HIDE DEF new
<1>6. HashInv(new) /\ SizeKnown(new)
  BY <1>1, <1>3, <1>5, Rearrayed DEF SizeKnown
<1>7. OnePart(new)
  BY <1>1, <1>3, <1>5 DEF OnePart
<1>8. TableInv(new)
  BY <1>6, <1>7 DEF TableInv
<1>9. ASSUME NEW q \in Index \cup Key
      PROVE  Get(new, q) = IF q = k THEN v ELSE Get(tb, q)
  <2>1. CASE q \in 1..len
    <3>1. Get(new, q) = a[q] /\ Get(tb, q) = tb.array[q]
      BY <1>3, <1>5, <1>8, <2>1, GetInParts
    <3> QED
      BY <1>3, <2>1, <3>1
  <2>2. CASE q \notin 1..len
    <3>1. Get(new, q) \in Value \cup {Nothing} /\ Get(tb, q) \in Value \cup {Nothing}
      BY <1>8, GetInParts
    <3>2. \A w \in Value : Get(new, q) = w <=> <<q, w>> \in Entries(tb.node)
      BY <1>3, <1>5, <1>8, <2>2, GetInParts
    <3>3. \A w \in Value : Get(tb, q) = w <=> <<q, w>> \in Entries(tb.node)
      BY <2>2, GetInParts
    <3> QED
      BY <2>2, <3>1, <3>2, <3>3
  <2> QED
    BY <2>1, <2>2
<1> QED
  BY <1>3, <1>5, <1>8, <1>9 DEF Puts, SamePlaces, new

\* A hash part where a key has another value, or none; the array has no element for it.
LEMMA HashPuts ==
    ASSUME NEW tb, TableInv(tb), inst \in Instances, NEW k \in Key, k \notin 1..Len(tb.array),
           NEW v \in Value \cup {Nothing}, NEW new, HashInv(new), SameButNodes(tb, new),
           \A q, w : <<q, w>> \in Entries(new.node) <=>
              IF q = k THEN w = v /\ v # Nothing ELSE <<q, w>> \in Entries(tb.node)
    PROVE  Puts(tb, new, k, v)
<1> DEFINE len == Len(tb.array)
<1>1. HashInv(tb) /\ TableTypes(tb) /\ SizeKnown(tb) /\ OnePart(tb)
  BY DEF TableInv, HashInv
<1>2. /\ new.array = tb.array /\ new.alimit = tb.alimit /\ new.realasize = tb.realasize
  BY DEF SameButNodes
<1>3. SizeKnown(new)
  BY <1>1, <1>2 DEF SizeKnown
<1>4. OnePart(new)
  <2>1. ASSUME NEW i \in DOMAIN new.node, new.node[i].val # Nothing
        PROVE  new.node[i].key \notin 1..len
    <3> DEFINE q == new.node[i].key
    <3>1. <<q, new.node[i].val>> \in Entries(new.node)
      BY <2>1 DEF Entries
    <3> HIDE DEF q
    <3>2. q = k \/ <<q, new.node[i].val>> \in Entries(tb.node)
      BY <3>1
    <3>3. q \notin 1..len
      BY <3>2, GetInParts
    <3> QED
      BY <3>3 DEF q
  <2> QED
    BY <1>1, <1>2, <2>1 DEF OnePart
<1>5. TableInv(new)
  BY <1>3, <1>4 DEF TableInv
<1>6. ASSUME NEW q \in Index \cup Key
      PROVE  Get(new, q) = IF q = k THEN v ELSE Get(tb, q)
  <2>1. CASE q \in 1..len
    <3>1. Get(new, q) = tb.array[q] /\ Get(tb, q) = tb.array[q]
      BY <1>2, <1>5, <2>1, GetInParts
    <3> QED
      BY <2>1, <3>1
  <2>2. CASE q \notin 1..len
    <3>1. Get(new, q) \in Value \cup {Nothing} /\ Get(tb, q) \in Value \cup {Nothing}
      BY <1>5, GetInParts
    <3>2. \A w \in Value : Get(new, q) = w <=> <<q, w>> \in Entries(new.node)
      BY <1>2, <1>5, <2>2, GetInParts
    <3>3. \A w \in Value : Get(tb, q) = w <=> <<q, w>> \in Entries(tb.node)
      BY <2>2, GetInParts
    <3>4. Nothing \notin Value
      BY KeysAre
    <3>5. CASE q = k
      <4>1. \A w \in Value : Get(new, q) = w <=> w = v
        BY <3>2, <3>4, <3>5
      <4> QED
        BY <3>1, <3>5, <4>1
    <3>6. CASE q # k
      <4>1. \A w \in Value : Get(new, q) = w <=> Get(tb, q) = w
        BY <3>2, <3>3, <3>6
      <4> QED
        BY <3>1, <3>6, <4>1
    <3> QED
      BY <3>5, <3>6
  <2> QED
    BY <2>1, <2>2
<1> QED
  BY <1>5, <1>6 DEF Puts

\* luaH_set where the table has room.
LEMMA AssignIs ==
    ASSUME NEW tb, TableInv(tb), inst \in Instances, NEW k \in Key,
           NEW v \in Value \cup {Nothing}, ~Rebuilds(tb, k, v)
    PROVE  LET new == SetInRoom(tb, k, v)
           IN  /\ Puts(tb, new, k, v) /\ new.absent = tb.absent
               /\ Get(tb, k) # Nothing \/ v = Nothing => SamePlaces(tb, new)
<1> DEFINE new == SetInRoom(tb, k, v)
           len == Len(tb.array)
           i == Find(tb, k, FALSE)
<1>1. HashInv(tb) /\ TableTypes(tb) /\ SizeKnown(tb) /\ OnePart(tb)
  BY DEF TableInv, HashInv
<1>2. InArray(tb, k) <=> k \in 1..len
  BY <1>1, RealSizeIs
<1>3. CASE InArray(tb, k)
  <2> DEFINE s == Touch(tb, k)
  <2>1. new = [s EXCEPT !.array[k] = v]
    BY <1>3 DEF SetInRoom, Absent, Store
  <2>2. /\ SameFields(tb, s) /\ SamePlaces(tb, s) /\ s.absent = tb.absent /\ TableInv(s)
        /\ Len(s.array) = len
    BY TouchIs DEF SameFields
  <2> HIDE DEF s, new
  <2>3. Puts(s, new, k, v) /\ SamePlaces(s, new) /\ new.absent = s.absent
    BY <1>2, <1>3, <2>1, <2>2, ArraySet
  <2>4. Puts(tb, new, k, v)
    BY <2>2, <2>3 DEF Puts, SameFields
  <2>5. SamePlaces(tb, new)
    BY <2>2, <2>3 DEF SamePlaces
  <2> QED
    BY <2>2, <2>3, <2>4, <2>5 DEF new
<1>4. CASE ~InArray(tb, k) /\ ~Absent(tb, k)
  <2>1. new = [tb EXCEPT !.node[i].val = v]
    BY <1>4 DEF SetInRoom, Store
  <2>2. i \in DOMAIN tb.node /\ tb.node[i].key = k /\ ~tb.node[i].dead
    BY <1>1, <1>4, GetFromHash
  <2>3. k # Nothing
    BY KeysAre
  <2> HIDE DEF i
  <2> DEFINE new2 == [tb EXCEPT !.node[i].val = v]
  <2>4. /\ HashInv(new2) /\ SameButNodes(tb, new2)
        /\ \A q, w : <<q, w>> \in Entries(new2.node) <=>
              IF q = tb.node[i].key THEN w = v /\ v # Nothing
              ELSE <<q, w>> \in Entries(tb.node)
    BY <1>1, <2>2, <2>3, StoredNode
  <2>5. \A j \in DOMAIN tb.node :
           new2.node[j].key = tb.node[j].key /\ new2.node[j].next = tb.node[j].next
    BY <1>1, <2>2, TableFields DEF TableTypes, NodeRecord
  <2> HIDE DEF new2
  <2>6. Puts(tb, new2, k, v)
    BY <1>2, <1>4, <2>2, <2>4, HashPuts
  <2>7. SamePlaces(tb, new2) /\ new2.absent = tb.absent
    BY <2>4, <2>5 DEF SameButNodes, SamePlaces
  <2> QED
    BY <2>1, <2>6, <2>7 DEF new2
<1>5. CASE Absent(tb, k)
  <2>0. ~InArray(tb, k) /\ Get(tb, k) = Nothing
    BY <1>5 DEF Absent, Get
  <2>1. CASE v = Nothing
    <3>1. new = tb
      BY <1>5, <2>1 DEF SetInRoom, Insert
    <3> HIDE DEF new
    <3>2. \A q \in Index \cup Key : Get(tb, q) = IF q = k THEN v ELSE Get(tb, q)
      BY <2>0, <2>1
    <3> QED
      BY <3>1, <3>2, Reflexive DEF Puts, new
  <2>2. CASE v # Nothing
    <3>1. ~NoPlace(tb, k) /\ v \in Value
      BY <1>5, <2>2 DEF Rebuilds
    <3>2. new = Insert(tb, k, v)
      BY <1>5, <3>1 DEF SetInRoom
    <3>3. \A j \in DOMAIN tb.node : tb.node[j].key = k => tb.node[j].dead
      BY <1>1, <1>5, <2>0, GetFromHash
    <3>4. Gains(tb, new, k, v)
      BY <1>1, <3>1, <3>2, <3>3, InsertIs
    <3> HIDE DEF new
    <3>5. \A w : <<k, w>> \notin Entries(tb.node)
      <4>1. ASSUME NEW w, <<k, w>> \in Entries(tb.node)
            PROVE  FALSE
        <5>1. w \in Value /\ Get(tb, k) = w
          BY <4>1, GetInParts
        <5> QED
          BY <2>0, <5>1, KeysAre
      <4> QED
        BY <4>1
    <3>6. \A q, w : <<q, w>> \in Entries(new.node) <=>
              IF q = k THEN w = v /\ v # Nothing ELSE <<q, w>> \in Entries(tb.node)
      BY <2>2, <3>4, <3>5 DEF Gains
    <3>7. Puts(tb, new, k, v)
      BY <1>2, <2>0, <3>4, <3>6, HashPuts DEF Gains
    <3>8. new.absent = tb.absent
      BY <3>4 DEF Gains, SameButNodes
    <3> QED
      BY <2>0, <2>2, <3>7, <3>8 DEF new
  <2> QED
    BY <2>1, <2>2
<1> QED
  BY <1>3, <1>4, <1>5

\* getfreepos has looked at all nodes.
LEMMA ExhaustedIs ==
    ASSUME NEW tb, TableInv(tb), inst \in Instances, NEW k, NEW v, Rebuilds(tb, k, v)
    PROVE  LET new == Exhausted(tb)
           IN  SameFields(tb, new) /\ SamePlaces(tb, new) /\ new.absent = tb.absent
<1> DEFINE new == Exhausted(tb)
<1>1. /\ HashInv(tb) /\ TableTypes(tb) /\ SizeKnown(tb) /\ OnePart(tb) /\ FreeBefore(tb)
      /\ FreePositions(tb) = {}
  BY DEF TableInv, HashInv, Rebuilds, NoPlace
<1>2. CASE tb.lastfree = Dummy
  <2>1. new = tb
    BY <1>1, <1>2 DEF Exhausted, TableTypes
  <2> QED
    BY <2>1, Reflexive
<1>3. CASE tb.lastfree # Dummy
  <2>1. /\ TableTypes(new) /\ new.array = tb.array /\ new.alimit = tb.alimit
        /\ new.realasize = tb.realasize /\ new.absent = tb.absent /\ new.node = tb.node
        /\ new.lastfree = 0
    BY <1>1, <1>3 DEF Exhausted, TableTypes
  <2> HIDE DEF new
  <2>2. SizeNode(tb) \in Nat \ {0} /\ SizeNode(new) = SizeNode(tb)
        /\ DOMAIN tb.node = 0..SizeNode(tb) - 1
    BY <1>1, <2>1, TableFields DEF SizeNode
  <2>3. ASSUME NEW i \in DOMAIN tb.node
        PROVE  tb.node[i].key # Nothing
    <3>1. CASE i >= tb.lastfree
      BY <1>1, <1>3, <3>1 DEF FreeBefore
    <3>2. CASE ~(i >= tb.lastfree)
      <4>1. i \in 0..tb.lastfree - 1
        BY <2>2, <3>2, <1>1, TableFields
      <4> QED
        BY <1>1, <4>1 DEF FreePositions
    <3> QED
      BY <3>1, <3>2
  <2>4. FreeBefore(new)
    BY <2>1, <2>2, <2>3 DEF FreeBefore, Dummy
  <2>5. HashInv(new)
    <3>1. Linked(new.node) /\ Lively(new.node)
      BY <1>1, <2>1 DEF HashInv
    <3>2. \A q : MainPosition(new, q) = MainPosition(tb, q)
      BY <2>2, SamePosition
    <3>3. Homed(new)
      BY <1>1, <2>1, <3>2 DEF HashInv, Homed
    <3> QED
      BY <2>1, <2>4, <3>1, <3>3 DEF HashInv
  <2>6. TableInv(new)
    BY <1>1, <2>1, <2>5 DEF TableInv, SizeKnown, OnePart
  <2>7. \A q \in Index \cup Key : Get(new, q) = Get(tb, q)
    BY <2>1, <2>6, SameContents
  <2> QED
    BY <2>1, <2>6, <2>7 DEF SameFields, SamePlaces, new
<1> QED
  BY <1>2, <1>3

\* luaH_newkey with a rebuilt table, or without the memory for one.
LEMMA AssignNewIs ==
    ASSUME NEW tb, TableInv(tb), inst \in Instances, NEW k \in Key,
           NEW v \in Value \cup {Nothing}, Rebuilds(tb, k, v), NEW outcome
    PROVE  LET s == Rehash(tb, k)
               r == Resize(Exhausted(tb), s.na, s.nh, outcome)
               new == SetInRoom(r, k, v)
           IN  IF Fails(s.na, s.nh, outcome)
               THEN SameFields(tb, r) /\ SamePlaces(tb, r) /\ r.absent = tb.absent
               ELSE Puts(tb, new, k, v) /\ new.absent = tb.absent
<1> DEFINE s == Rehash(tb, k)
           na == s.na
           nh == s.nh
           x == Exhausted(tb)
           r == Resize(x, na, nh, outcome)
           new == SetInRoom(r, k, v)
           K == (Fields(tb) \cup {k}) \ (1..na)
<1>1. SameFields(tb, x) /\ SamePlaces(tb, x) /\ x.absent = tb.absent /\ TableInv(x)
  BY ExhaustedIs DEF SameFields
<1>2. Get(tb, k) = Nothing
  BY DEF Rebuilds, Absent, Get
<1>3. /\ na \in Nat /\ na < MaxInteger /\ nh \in Nat
      /\ IsFiniteSet(K) /\ K \subseteq Key /\ Cardinality(K) = nh
  BY <1>2, RehashIs
<1>4. \A q \in Key : Get(x, q) # Nothing => q \in 1..na \/ q \in K
  BY <1>1 DEF SameFields, Fields
<1>5. k \in 1..na \/ k \in K
  OBVIOUS
<1> HIDE DEF s, na, nh, x, K
<1>6. CASE Fails(na, nh, outcome)
  <2>1. r = SetLimitToSize(x)
    BY <1>6 DEF Resize
  <2> HIDE DEF r
  <2>2. /\ TableInv(r) /\ r.array = x.array /\ r.absent = x.absent /\ r.node = x.node
        /\ \A q \in Index \cup Key : Get(r, q) = Get(x, q)
    BY <1>1, <2>1, LimitSet
  <2>3. SameFields(tb, r) /\ SamePlaces(tb, r) /\ r.absent = tb.absent
    BY <1>1, <2>2 DEF SameFields, SamePlaces
  <2> QED
    BY <1>6, <2>3 DEF r, na, nh, s, x
<1>7. CASE ~Fails(na, nh, outcome)
  <2>1. /\ TableInv(r) /\ Filling(r, K) /\ r.alimit = na /\ Len(r.array) = na
        /\ r.absent = x.absent
        /\ \A q \in Index \cup Key : Get(r, q) = Get(x, q)
    <3>1. na \in Nat /\ nh \in Nat /\ Cardinality(K) <= nh
      BY <1>3
    <3>2. ResizeFits(x, na, nh, outcome, K)
      BY <1>1, <1>3, <1>4, <1>7, <3>1, ResizeIs
    <3> QED
      BY <3>2 DEF ResizeFits
  <2> HIDE DEF r
  <2>2. Get(r, k) = Nothing
    BY <1>1, <1>2, <2>1 DEF SameFields
  <2>3. HashInv(r) /\ TableTypes(r) /\ SizeKnown(r)
    BY <2>1 DEF TableInv, HashInv
  <2>4. ~Rebuilds(r, k, v)
    <3> SUFFICES ASSUME Absent(r, k)
                 PROVE  ~NoPlace(r, k)
      BY DEF Rebuilds
    <3>1. ~InArray(r, k) /\ k \notin 1..na
      BY <2>1, <2>3, RealSizeIs DEF Absent
    <3>2. k \in K /\ r.lastfree # Dummy /\ Cardinality(K) <= SizeNode(r) /\ Fresh(r.node)
      BY <1>5, <2>1, <3>1 DEF Filling
    <3>3. ASSUME NEW i \in DOMAIN r.node, r.node[i].key # Nothing
          PROVE  r.node[i].key \in K /\ r.node[i].key # k
      <4> DEFINE q == r.node[i].key
                 w == r.node[i].val
      <4>1. w # Nothing
        BY <3>2, <3>3 DEF Fresh
      <4>2. <<q, w>> \in Entries(r.node)
        BY <4>1 DEF Entries
      <4> HIDE DEF q, w
      <4>3. q \in K /\ Get(r, q) = w
        BY <2>1, <4>2, GetInParts DEF Filling
      <4>4. q # k
        BY <2>2, <4>1, <4>3
      <4> QED
        BY <4>3, <4>4 DEF q
    <3> QED
      BY <1>3, <2>3, <3>2, <3>3, HasPlace
  <2>5. Puts(r, new, k, v) /\ new.absent = r.absent
    BY <2>1, <2>4, AssignIs
  <2> HIDE DEF new
  <2>6. Puts(tb, new, k, v) /\ new.absent = tb.absent
    BY <1>1, <2>1, <2>5 DEF Puts, SameFields
  <2> QED
    BY <1>7, <2>6 DEF new, r, na, nh, s, x
<1> QED
  BY <1>6, <1>7

-----------------------------------------------------------------------------
(* The collector.                                                          *)

LEMMA ClearKeysIs ==
    ASSUME NEW tb, TableInv(tb), inst \in Instances
    PROVE  LET new == [tb EXCEPT !.node = [i \in DOMAIN @ |-> ClearKey(@[i])]]
           IN  SameFields(tb, new) /\ SamePlaces(tb, new) /\ new.absent = tb.absent
<1> DEFINE nd == tb.node
           nn == [i \in DOMAIN nd |-> ClearKey(nd[i])]
           new == [tb EXCEPT !.node = nn]
<1>1. HashInv(tb) /\ TableTypes(tb) /\ SizeKnown(tb) /\ OnePart(tb) /\ Lively(nd)
  BY DEF TableInv, HashInv
<1>2. \A i \in DOMAIN nd : nd[i] \in NodeRecord
  BY <1>1, TableFields
<1>3. ASSUME NEW i \in DOMAIN nd
      PROVE  /\ nn[i] \in NodeRecord /\ nn[i].key = nd[i].key /\ nn[i].next = nd[i].next
             /\ nn[i].val = nd[i].val
             /\ nn[i].dead = (nd[i].dead \/ (nd[i].val = Nothing /\ nd[i].key \in Collectable))
  BY <1>2 DEF NodeRecord, ClearKey
<1>4. ASSUME NEW i \in DOMAIN nd, nd[i].key = Nothing
      PROVE  nn[i] = nd[i]
  <2>1. nd[i].key \notin Collectable
    BY <1>4, KeysAre DEF Collectable, Key
  <2>2. nn[i].dead = nd[i].dead
    <3>1. nd[i].dead \in BOOLEAN
      BY <1>2 DEF NodeRecord
    <3> QED
      BY <1>3, <2>1, <3>1
  <2> HIDE DEF nn
  <2> QED
    BY <1>2, <1>3, <2>2 DEF NodeRecord
<1>5. nn \in [DOMAIN nd -> NodeRecord]
  BY <1>3
<1> HIDE DEF nn
<1>6. Revalues(nd, nn)
  <2>1. \A i \in DOMAIN nd : nd[i].dead => nd[i].val = Nothing
    BY <1>1 DEF Lively
  <2> QED
    BY <1>3, <1>4, <1>5, <2>1 DEF Revalues
<1>7. HashInv(new) /\ SameButNodes(tb, new) /\ new.node = nn
  BY <1>1, <1>6, Revalued
<1>8. new = [tb EXCEPT !.node = [i \in DOMAIN @ |-> ClearKey(@[i])]]
  BY DEF nn
<1> HIDE DEF new
<1>9. Entries(new.node) = Entries(nd)
  <2>1. DOMAIN new.node = DOMAIN nd
    BY <1>7 DEF SameButNodes
  <2> QED
    BY <1>3, <1>7, <2>1 DEF Entries
<1>10. TableInv(new)
  <2>1. \A i \in DOMAIN nd : new.node[i].key = nd[i].key /\ new.node[i].val = nd[i].val
    BY <1>3, <1>7
  <2> QED
    BY <1>1, <1>7, <2>1 DEF TableInv, SizeKnown, OnePart, SameButNodes
<1>11. \A q \in Index \cup Key : Get(new, q) = Get(tb, q)
  BY <1>7, <1>9, <1>10, SameContents DEF SameButNodes
<1>12. SamePlaces(tb, new) /\ new.absent = tb.absent
  BY <1>3, <1>7 DEF SamePlaces, SameButNodes
<1> QED
  BY <1>8, <1>10, <1>11, <1>12 DEF SameFields

LEMMA VanishIs ==
    ASSUME NEW tb, TableInv(tb), inst \in Instances, NEW k \in Key, Get(tb, k) # Nothing
    PROVE  LET i == Find(tb, k, FALSE)
               new == IF k \in 1..RealSize(tb) THEN [tb EXCEPT !.array[k] = Nothing]
                      ELSE [tb EXCEPT !.node[i].val = Nothing,
                                      !.node[i].dead = k \in Collectable]
           IN  Puts(tb, new, k, Nothing) /\ SamePlaces(tb, new) /\ new.absent = tb.absent
<1> DEFINE i == Find(tb, k, FALSE)
           nd == tb.node
<1>1. HashInv(tb) /\ TableTypes(tb) /\ SizeKnown(tb) /\ OnePart(tb) /\ Lively(nd)
  BY DEF TableInv, HashInv
<1>2. RealSize(tb) = Len(tb.array) /\ (InArray(tb, k) <=> k \in 1..Len(tb.array))
  BY <1>1, RealSizeIs
<1>3. CASE k \in 1..Len(tb.array)
  <2>1. Nothing \in Value \cup {Nothing}
    OBVIOUS
  <2> DEFINE new == [tb EXCEPT !.array[k] = Nothing]
  <2>2. Puts(tb, new, k, Nothing) /\ SamePlaces(tb, new) /\ new.absent = tb.absent
    BY <1>3, <2>1, ArraySet
  <2> QED
    BY <1>2, <1>3, <2>2
<1>4. CASE k \notin 1..Len(tb.array)
  <2>1. i \in DOMAIN nd /\ nd[i].key = k /\ ~nd[i].dead
    <3>1. ~InArray(tb, k) /\ ~Absent(tb, k)
      BY <1>2, <1>4 DEF Get
    <3> QED
      BY <1>1, <3>1, GetFromHash
  <2>2. k # Nothing /\ Nothing \notin Value
    BY KeysAre
  <2> HIDE DEF i
  <2> DEFINE n == [key |-> k, dead |-> k \in Collectable, val |-> Nothing, next |-> nd[i].next]
             nn == [nd EXCEPT ![i] = n]
             new == [tb EXCEPT !.node = nn]
  <2>3. /\ nd \in [DOMAIN nd -> NodeRecord] /\ \A j \in DOMAIN nd : nd[j] \in NodeRecord
    BY <1>1, TableFields
  <2>4. n \in NodeRecord
    BY <2>1, <2>3 DEF NodeRecord
  <2>5. /\ nn \in [DOMAIN nd -> NodeRecord] /\ nn[i] = n
        /\ \A j \in DOMAIN nd : j # i => nn[j] = nd[j]
    BY <2>1, <2>3, <2>4
  <2>6. [tb EXCEPT !.node[i].val = Nothing, !.node[i].dead = k \in Collectable] = new
    <3>1. [[nd[i] EXCEPT !.val = Nothing] EXCEPT !.dead = k \in Collectable] = n
      <4> DEFINE r == nd[i]
      <4>1. r \in NodeRecord /\ r.key = k
        BY <2>1, <2>3
      <4> DEFINE b == k \in Collectable
      <4>0. b \in BOOLEAN
        OBVIOUS
      <4> HIDE DEF r, b
      <4> DEFINE x == [r EXCEPT !.val = Nothing]
                 y == [x EXCEPT !.dead = b]
                 z == [key |-> k, dead |-> b, val |-> Nothing, next |-> r.next]
      <4>3. x \in NodeRecord /\ x.key = k /\ x.val = Nothing /\ x.next = r.next
        BY <4>1 DEF NodeRecord
      <4> HIDE DEF x
      <4>4. y \in NodeRecord /\ y.key = k /\ y.val = Nothing /\ y.next = r.next /\ y.dead = b
        BY <4>0, <4>3 DEF NodeRecord
      <4>5. z \in NodeRecord /\ z.key = k /\ z.val = Nothing /\ z.next = r.next /\ z.dead = b
        BY <4>0, <4>1 DEF NodeRecord
      <4> HIDE DEF y, z
      <4>6. y = z
        BY <4>4, <4>5 DEF NodeRecord
      <4>2. [[r EXCEPT !.val = Nothing] EXCEPT !.dead = b]
            = [key |-> k, dead |-> b, val |-> Nothing, next |-> r.next]
        BY <4>6 DEF x, y, z
      <4> QED
        BY <4>2 DEF r, b
    <3>2. [[nd EXCEPT ![i] = [nd[i] EXCEPT !.val = Nothing]]
             EXCEPT ![i] = [[nd[i] EXCEPT !.val = Nothing] EXCEPT !.dead = k \in Collectable]]
          = nn
      BY <2>1, <2>3, <3>1
    <3> HIDE DEF nn, n
    <3> QED
      BY <1>1, <2>1, <2>3, <3>2 DEF TableTypes
  <2>7. /\ n.key = k /\ n.val = Nothing /\ n.next = nd[i].next
    OBVIOUS
  <2> HIDE DEF n, nn
  <2>8. Revalues(nd, nn)
    <3>1. \A j \in DOMAIN nd : nd[j].dead => nd[j].val = Nothing
      BY <1>1 DEF Lively
    <3> QED
      BY <2>1, <2>2, <2>5, <2>7, <3>1 DEF Revalues
  <2>9. HashInv(new) /\ SameButNodes(tb, new) /\ new.node = nn
    BY <1>1, <2>8, Revalued
  <2> HIDE DEF new
  <2>10. \A j \in DOMAIN nd : nd[j].key = k /\ nd[j].val # Nothing => j = i
    <3> TAKE j \in DOMAIN nd
    <3>1. nd[j].val # Nothing => ~nd[j].dead
      BY <1>1 DEF Lively
    <3> QED
      BY <1>1, <2>1, <2>2, <3>1, LiveAlone
  <2>11. \A q, w : <<q, w>> \in Entries(new.node) <=>
            IF q = k THEN w = Nothing /\ Nothing # Nothing ELSE <<q, w>> \in Entries(nd)
    <3>0. DOMAIN nn = DOMAIN nd
      BY <2>5
    <3> SUFFICES ASSUME NEW q, NEW w
                 PROVE  <<q, w>> \in Entries(nn) <=> q # k /\ <<q, w>> \in Entries(nd)
      BY <2>9
    <3>1. ASSUME <<q, w>> \in Entries(nn)
          PROVE  q # k /\ <<q, w>> \in Entries(nd)
      <4>1. PICK j \in DOMAIN nd : nn[j].val # Nothing /\ q = nn[j].key /\ w = nn[j].val
        BY <3>0, <3>1 DEF Entries
      <4>2. j # i /\ nn[j] = nd[j]
        BY <2>5, <2>7, <4>1
      <4>3. q # k
        BY <2>10, <4>1, <4>2
      <4> QED
        BY <4>1, <4>2, <4>3 DEF Entries
    <3>2. ASSUME q # k, <<q, w>> \in Entries(nd)
          PROVE  <<q, w>> \in Entries(nn)
      <4>1. PICK j \in DOMAIN nd : nd[j].val # Nothing /\ q = nd[j].key /\ w = nd[j].val
        BY <3>2 DEF Entries
      <4>2. j # i /\ nn[j] = nd[j]
        BY <2>1, <2>5, <3>2, <4>1
      <4> QED
        BY <3>0, <4>1, <4>2 DEF Entries
    <3> QED
      BY <3>1, <3>2
  <2>12. Puts(tb, new, k, Nothing)
    BY <1>4, <2>9, <2>11, HashPuts
  <2>13. SamePlaces(tb, new) /\ new.absent = tb.absent
    <3>1. \A j \in DOMAIN nd : nn[j].key = nd[j].key /\ nn[j].next = nd[j].next
      BY <2>1, <2>5, <2>7
    <3> QED
      BY <2>9, <3>1 DEF SamePlaces, SameButNodes
  <2> QED
    BY <1>2, <1>4, <2>6, <2>12, <2>13 DEF i
<1> QED
  BY <1>3, <1>4

-----------------------------------------------------------------------------
(* Traversals.                                                             *)

\* A search that accepts dead keys ends at the same node, if no key or link changes.
LEMMA KnownSame ==
    ASSUME NEW tb, NEW new, HashInv(tb), HashInv(new), SamePlaces(tb, new),
           inst \in Instances, NEW k \in Key
    PROVE  Known(new, k) = Known(tb, k)
<1> DEFINE i == Find(tb, k, TRUE)
           j == Find(new, k, TRUE)
           nd == tb.node
           nn == new.node
<1>1. /\ DOMAIN nn = DOMAIN nd /\ DOMAIN nd \subseteq Nat
      /\ \A l \in DOMAIN nd : nn[l].key = nd[l].key /\ nn[l].next = nd[l].next
  BY TableFields DEF SamePlaces, HashInv
<1>2. \A l \in DOMAIN nd : Meets(nd, k, TRUE, l) <=> Meets(nn, k, TRUE, l)
  BY <1>1 DEF Meets
<1>3. \/ i = NoNode /\ \A l \in DOMAIN nd : ~Meets(nd, k, TRUE, l)
      \/ /\ i \in DOMAIN nd /\ Meets(nd, k, TRUE, i)
         /\ \A l \in DOMAIN nd : Meets(nd, k, TRUE, l) => l \in Chain(nd, i)
  BY FindFirst
<1>4. \/ j = NoNode /\ \A l \in DOMAIN nn : ~Meets(nn, k, TRUE, l)
      \/ /\ j \in DOMAIN nn /\ Meets(nn, k, TRUE, j)
         /\ \A l \in DOMAIN nn : Meets(nn, k, TRUE, l) => l \in Chain(nn, j)
  BY FindFirst
<1>5. \A l \in DOMAIN nd : Chain(nn, l) = Chain(nd, l)
  BY <1>1, Zenon DEF Chain, Closed
<1> HIDE DEF i, j
<1>6. i = j
  <2>1. CASE i = NoNode
    <3>1. -1 \notin Nat
      OBVIOUS
    <3>2. i \notin DOMAIN nd
      BY <1>1, <2>1, <3>1, Zenon DEF NoNode
    <3>3. \A l \in DOMAIN nd : ~Meets(nd, k, TRUE, l)
      BY <1>3, <3>2
    <3> QED
      BY <1>1, <1>2, <1>4, <2>1, <3>3
  <2>2. CASE i # NoNode
    <3>1. i \in DOMAIN nd /\ Meets(nd, k, TRUE, i)
      BY <1>3, <2>2
    <3>2. j \in DOMAIN nd /\ Meets(nd, k, TRUE, j) /\ i \in Chain(nd, j)
      BY <1>1, <1>2, <1>4, <1>5, <3>1
    <3>3. j \in Chain(nd, i)
      BY <1>3, <2>2, <3>2
    <3> QED
      BY <3>1, <3>2, <3>3, ChainOrder DEF HashInv
  <2> QED
    BY <2>1, <2>2
<1> QED
  BY <1>6 DEF i, j, Known

LEMMA PlacesSame ==
    ASSUME NEW tb, NEW new, TableInv(tb), TableInv(new), SamePlaces(tb, new),
           inst \in Instances, NEW k \in Key \cup {Start}
    PROVE  FindIndex(new, k) = FindIndex(tb, k) /\ (InvalidKey(new, k) <=> InvalidKey(tb, k))
<1>1. HashInv(tb) /\ HashInv(new)
  BY DEF TableInv
<1>2. RealSize(new) = RealSize(tb)
  BY RealSizeIs DEF TableInv, HashInv, SamePlaces
<1>3. CASE k = Start
  BY <1>3 DEF FindIndex, InvalidKey
<1>4. CASE k # Start
  <2>1. Known(new, k) = Known(tb, k)
    BY <1>1, <1>4, KnownSame
  <2> QED
    BY <1>2, <2>1 DEF FindIndex, InvalidKey
<1> QED
  BY <1>3, <1>4

\* A position: an element of the array, or a node, with a value.
ValueAt(tb, j) == IF j <= Len(tb.array) THEN tb.array[j]
                  ELSE tb.node[j - Len(tb.array) - 1].val
Valued(tb) == {j \in 1..Len(tb.array) + SizeNode(tb) : ValueAt(tb, j) # Nothing}

LEMMA PositionsAre ==
    ASSUME NEW tb, TableInv(tb), inst \in Instances, NEW i \in Nat
    PROVE  NextPositions(tb, i) = {j \in Valued(tb) : j > i}
<1> DEFINE len == Len(tb.array)
           size == SizeNode(tb)
<1>1. TableTypes(tb) /\ SizeKnown(tb) /\ RealSize(tb) = len
  BY RealSizeIs DEF TableInv, HashInv
<1>2. len \in Nat /\ size \in Nat \ {0} /\ DOMAIN tb.node = 0..size - 1
  BY <1>1, TableFields
<1>3. ASSUME NEW j \in NextPositions(tb, i)
      PROVE  j \in Valued(tb) /\ j > i
  <2>1. CASE j \in i + 1..len /\ tb.array[j] # Nothing
    <3>1. j \in 1..len + size /\ j > i /\ j <= len
      BY <1>2, <2>1
    <3> QED
      BY <2>1, <3>1 DEF Valued, ValueAt
  <2>2. CASE \E m \in DOMAIN tb.node :
               tb.node[m].val # Nothing /\ len + m >= i /\ j = len + 1 + m
    <3>1. PICK m \in 0..size - 1 : tb.node[m].val # Nothing /\ len + m >= i /\ j = len + 1 + m
      BY <1>2, <2>2
    <3>2. j \in 1..len + size /\ j > i /\ ~(j <= len) /\ j - len - 1 = m
      <4> HIDE DEF len, size
      <4>1. m \in Nat /\ m < size
        BY <1>2
      <4>2. j = len + 1 + m /\ len + m >= i /\ len \in Nat /\ size \in Nat
        BY <1>2, <3>1
      <4> QED
        BY <4>1, <4>2
    <3> QED
      BY <3>1, <3>2 DEF Valued, ValueAt
  <2> QED
    BY <1>1, <2>1, <2>2 DEF NextPositions
<1>4. ASSUME NEW j \in Valued(tb), j > i
      PROVE  j \in NextPositions(tb, i)
  <2>1. j \in 1..len + size /\ ValueAt(tb, j) # Nothing
    BY DEF Valued
  <2>2. CASE j <= len
    <3>1. j \in i + 1..len
      BY <1>2, <1>4, <2>1, <2>2
    <3> QED
      BY <1>1, <2>1, <2>2, <3>1 DEF NextPositions, ValueAt
  <2>3. CASE ~(j <= len)
    <3> DEFINE m == j - len - 1
    <3>1. m \in 0..size - 1 /\ j = len + 1 + m /\ len + m >= i
      <4> HIDE DEF len, size
      <4>1. j \in Nat /\ j > len /\ j <= len + size /\ len \in Nat /\ size \in Nat
        BY <1>2, <2>1, <2>3
      <4> QED
        BY <1>4, <4>1
    <3>2. tb.node[m].val # Nothing
      BY <2>1, <2>3 DEF ValueAt
    <3> HIDE DEF m
    <3> QED
      BY <1>1, <1>2, <3>1, <3>2 DEF NextPositions
  <2> QED
    BY <2>2, <2>3
<1> QED
  BY <1>3, <1>4

\* Every field has a position, and that is where findindex finds its key.
LEMMA FieldAt ==
    ASSUME NEW tb, TableInv(tb), inst \in Instances, NEW j \in Valued(tb)
    PROVE  LET k == KeyAt(tb, j)
           IN  /\ k \in Key /\ Get(tb, k) # Nothing
               /\ FindIndex(tb, k) = j /\ ~InvalidKey(tb, k)
<1> DEFINE len == Len(tb.array)
           size == SizeNode(tb)
           k == KeyAt(tb, j)
<1>1. /\ HashInv(tb) /\ TableTypes(tb) /\ SizeKnown(tb) /\ RealSize(tb) = len /\ OnePart(tb)
  BY RealSizeIs DEF TableInv, HashInv
<1>2. len \in Nat /\ size \in Nat \ {0} /\ DOMAIN tb.node = 0..size - 1
  BY <1>1, TableFields
<1>3. j \in 1..len + size /\ ValueAt(tb, j) # Nothing
  BY DEF Valued
<1>4. CASE j <= len
  <2>1. j \in 1..len /\ k = j /\ tb.array[j] # Nothing
    BY <1>1, <1>2, <1>3, <1>4 DEF KeyAt, ValueAt
  <2> HIDE DEF k
  <2>2. k \in Key /\ Get(tb, k) # Nothing
    BY <1>1, <2>1, GetInParts DEF OnePart
  <2>3. k # Start
    BY <2>2, KeysAssumption DEF Key
  <2>4. FindIndex(tb, k) = j /\ ~InvalidKey(tb, k)
    BY <1>1, <2>1, <2>3 DEF FindIndex, InvalidKey
  <2> QED
    BY <2>2, <2>4 DEF k
<1>5. CASE ~(j <= len)
  <2> DEFINE m == j - len - 1
  <2>1. m \in 0..size - 1 /\ j = m + 1 + len /\ m \in Nat
    BY <1>2, <1>3, <1>5
  <2>2. k = tb.node[m].key /\ tb.node[m].val # Nothing
    BY <1>1, <1>3, <1>5 DEF KeyAt, ValueAt
  <2> HIDE DEF m, k
  <2>3. m \in DOMAIN tb.node
    BY <1>2, <2>1
  <2>4. k \in Key /\ ~tb.node[m].dead /\ <<k, tb.node[m].val>> \in Entries(tb.node)
    BY <1>1, <2>2, <2>3, EntriesAre
  <2>5. Get(tb, k) = tb.node[m].val /\ k \notin 1..len
    BY <2>4, GetInParts
  <2>6. k # Start
    BY <2>4, KeysAssumption
  <2>7. Known(tb, k) = m
    BY <1>1, <2>2, <2>3, <2>4, LiveFound DEF Known
  <2>8. FindIndex(tb, k) = j /\ ~InvalidKey(tb, k)
    <3>1. m # NoNode
      BY <2>1 DEF NoNode
    <3>2. m + 1 + RealSize(tb) = j
      BY <1>1, <1>2, <2>1
    <3> QED
      BY <1>1, <2>5, <2>6, <2>7, <3>1, <3>2 DEF FindIndex, InvalidKey
  <2> QED
    BY <2>2, <2>4, <2>5, <2>8 DEF k
<1> QED
  BY <1>4, <1>5

LEMMA PositionOf ==
    ASSUME NEW tb, TableInv(tb), inst \in Instances, NEW k \in Key, Get(tb, k) # Nothing
    PROVE  \E j \in Valued(tb) : KeyAt(tb, j) = k
<1> DEFINE len == Len(tb.array)
           size == SizeNode(tb)
<1>1. /\ HashInv(tb) /\ TableTypes(tb) /\ SizeKnown(tb) /\ RealSize(tb) = len
  BY RealSizeIs DEF TableInv, HashInv
<1>2. len \in Nat /\ size \in Nat \ {0} /\ DOMAIN tb.node = 0..size - 1
  BY <1>1, TableFields
<1>3. CASE k \in 1..len
  <2>1. tb.array[k] # Nothing /\ k \in 1..len + size /\ k <= len
    BY <1>2, <1>3, GetInParts
  <2>2. k \in Valued(tb) /\ KeyAt(tb, k) = k
    BY <1>1, <2>1 DEF Valued, ValueAt, KeyAt
  <2> QED
    BY <2>2
<1>4. CASE k \notin 1..len
  <2>1. Get(tb, k) \in Value
    BY GetInParts
  <2>2. <<k, Get(tb, k)>> \in Entries(tb.node)
    BY <1>4, <2>1, GetInParts
  <2>3. PICK m \in 0..size - 1 : tb.node[m].val # Nothing /\ tb.node[m].key = k
    BY <1>2, <2>2 DEF Entries
  <2> DEFINE j == len + 1 + m
  <2>4. j \in 1..len + size /\ ~(j <= len) /\ j - len - 1 = m
    <3> HIDE DEF len, size
    <3>1. m \in Nat /\ m < size /\ len \in Nat /\ size \in Nat
      BY <1>2
    <3> QED
      BY <3>1
  <2> HIDE DEF j
  <2>5. j \in Valued(tb) /\ KeyAt(tb, j) = k
    BY <1>1, <2>3, <2>4 DEF Valued, ValueAt, KeyAt
  <2> QED
    BY <2>5
<1> QED
  BY <1>3, <1>4

\* What a traversal has still to visit.
Ahead(tb, i) == {q \in Key : Get(tb, q) # Nothing /\ FindIndex(tb, q) > i}
LEMMA AheadIs ==
    ASSUME NEW tb, TableInv(tb), inst \in Instances, NEW i \in Nat
    PROVE  {KeyAt(tb, j) : j \in NextPositions(tb, i)} = Ahead(tb, i)
<1>1. NextPositions(tb, i) = {j \in Valued(tb) : j > i}
  BY PositionsAre
<1>2. ASSUME NEW j \in Valued(tb), j > i
      PROVE  KeyAt(tb, j) \in Ahead(tb, i)
  BY <1>2, FieldAt DEF Ahead
<1>3. ASSUME NEW q \in Ahead(tb, i)
      PROVE  \E j \in Valued(tb) : j > i /\ q = KeyAt(tb, j)
  <2>1. q \in Key /\ Get(tb, q) # Nothing /\ FindIndex(tb, q) > i
    BY DEF Ahead
  <2>2. PICK j \in Valued(tb) : KeyAt(tb, j) = q
    BY <2>1, PositionOf
  <2>3. FindIndex(tb, q) = j
    BY <2>2, FieldAt
  <2> QED
    BY <2>1, <2>2, <2>3
<1> QED
  BY <1>1, <1>2, <1>3

LEMMA IndexIs ==
    ASSUME NEW tb, TableInv(tb), inst \in Instances, NEW k \in Key \cup {Start},
           ~InvalidKey(tb, k)
    PROVE  FindIndex(tb, k) \in Nat
<1>1. /\ HashInv(tb) /\ TableTypes(tb) /\ RealSize(tb) = Len(tb.array)
      /\ Len(tb.array) \in Nat
  BY RealSizeIs, TableFields DEF TableInv, HashInv
<1>2. CASE k = Start
  BY <1>2 DEF FindIndex
<1>3. CASE k # Start /\ k \in 1..Len(tb.array)
  BY <1>1, <1>3 DEF FindIndex
<1>4. CASE k # Start /\ k \notin 1..Len(tb.array)
  <2>1. Known(tb, k) # NoNode
    BY <1>1, <1>4 DEF InvalidKey
  <2>2. Known(tb, k) \in DOMAIN tb.node
    BY <1>1, <1>4, <2>1, FindFirst DEF Known
  <2>3. Known(tb, k) \in Nat
    BY <1>1, <2>2, TableFields
  <2> QED
    BY <1>1, <1>4, <2>3 DEF FindIndex
<1> QED
  BY <1>2, <1>3, <1>4

\* luaH_next goes to the first position behind.
LEMMA NextIs ==
    ASSUME NEW tb, TableInv(tb), inst \in Instances, NEW i \in Nat,
           NextPositions(tb, i) # {}
    PROVE  LET js == NextPositions(tb, i)
               k == KeyAt(tb, CHOOSE j \in js : \A l \in js : j <= l)
           IN  /\ k \in Ahead(tb, i) /\ ~InvalidKey(tb, k)
               /\ Ahead(tb, FindIndex(tb, k)) = Ahead(tb, i) \ {k}
<1> DEFINE js == NextPositions(tb, i)
           n == CHOOSE j \in js : \A l \in js : j <= l
           k == KeyAt(tb, n)
<1>1. js = {j \in Valued(tb) : j > i} /\ Valued(tb) \subseteq Nat
  <2>1. Len(tb.array) \in Nat /\ SizeNode(tb) \in Nat
    BY TableFields DEF TableInv, HashInv
  <2> QED
    BY <2>1, PositionsAre DEF Valued
<1> HIDE DEF js
<1>2. n \in js /\ \A l \in js : n <= l
  <2>1. js \in SUBSET Nat /\ js # {}
    BY <1>1 DEF js
  <2>2. \E j \in js : \A l \in js : j <= l
    BY <2>1, LeastNumber
  <2> QED
    BY <2>2, Zenon
<1> HIDE DEF n
<1>3. n \in Valued(tb) /\ n > i /\ n \in Nat
  BY <1>1, <1>2
<1>4. k \in Key /\ Get(tb, k) # Nothing /\ FindIndex(tb, k) = n /\ ~InvalidKey(tb, k)
  BY <1>3, FieldAt
<1> HIDE DEF k
<1>5. k \in Ahead(tb, i)
  BY <1>3, <1>4 DEF Ahead
<1>6. ASSUME NEW q \in Key, Get(tb, q) # Nothing
      PROVE  FindIndex(tb, q) > n <=> FindIndex(tb, q) > i /\ q # k
  <2>1. PICK j \in Valued(tb) : KeyAt(tb, j) = q
    BY <1>6, PositionOf
  <2>2. FindIndex(tb, q) = j /\ j \in Nat
    BY <1>1, <2>1, FieldAt
  <2>3. j > i => n <= j
    BY <1>1, <1>2
  <2>4. j = n <=> q = k
    BY <1>4, <2>1, <2>2 DEF k
  <2> QED
    BY <1>3, <2>2, <2>3, <2>4
<1>7. Ahead(tb, n) = Ahead(tb, i) \ {k}
  BY <1>6 DEF Ahead
<1> QED
  BY <1>4, <1>5, <1>7 DEF js, n, k

\* Nothing moves: what is ahead stays ahead, if it is not cleared.
LEMMA AheadKept ==
    ASSUME NEW tb, NEW new, TableInv(tb), inst \in Instances, NEW k \in Key, NEW v,
           Puts(tb, new, k, v), SamePlaces(tb, new), Get(tb, k) # Nothing \/ v = Nothing,
           NEW i \in Nat
    PROVE  Ahead(new, i) = IF v = Nothing THEN Ahead(tb, i) \ {k} ELSE Ahead(tb, i)
<1>1. TableInv(new) /\ \A q \in Key : Get(new, q) = IF q = k THEN v ELSE Get(tb, q)
  BY DEF Puts
<1>2. \A q \in Key : FindIndex(new, q) = FindIndex(tb, q)
  BY <1>1, PlacesSame
<1>3. CASE v = Nothing
  BY <1>1, <1>2, <1>3 DEF Ahead
<1>4. CASE v # Nothing
  <2>1. \A q \in Key : Get(new, q) # Nothing <=> Get(tb, q) # Nothing
    BY <1>1, <1>4
  <2> QED
    BY <1>2, <1>4, <2>1 DEF Ahead
<1> QED
  BY <1>3, <1>4

LEMMA AheadSame ==
    ASSUME NEW tb, NEW new, TableInv(tb), inst \in Instances, SameFields(tb, new),
           SamePlaces(tb, new), NEW i
    PROVE  Ahead(new, i) = Ahead(tb, i)
<1>1. TableInv(new) /\ \A q \in Key : Get(new, q) = Get(tb, q)
  BY DEF SameFields
<1>2. \A q \in Key : FindIndex(new, q) = FindIndex(tb, q)
  BY <1>1, PlacesSame
<1> QED
  BY <1>1, <1>2 DEF Ahead

-----------------------------------------------------------------------------
(* The searches for a border, among numbers of which those in E are empty. *)

Middle(p) == (p[1] + p[2]) \div 2
Half(p, E) == IF Middle(p) \in E THEN <<p[1], Middle(p)>> ELSE <<Middle(p), p[2]>>
Bisect(p, E, f) == IF p[2] - p[1] <= 1 THEN p[1] ELSE f[Half(p, E)]
Bisected(lo, hi, E, f) == [p \in (lo..hi) \X (lo..hi) |-> Bisect(p, E, f)]

LEMMA HalfIs ==
    ASSUME NEW lo \in Nat, NEW hi \in Nat, NEW E, NEW p \in (lo..hi) \X (lo..hi),
           ~(p[2] - p[1] <= 1)
    PROVE  LET h == Half(p, E)
           IN  /\ h \in (lo..hi) \X (lo..hi) /\ h[2] - h[1] < p[2] - p[1] /\ h[1] < h[2]
               /\ p[1] <= h[1] /\ h[2] <= p[2] /\ Middle(p) \in lo..hi
               /\ p[2] \in E => h[2] \in E
               /\ p[1] \notin E => h[1] \notin E
<1> DEFINE m == Middle(p)
<1>1. p[1] \in lo..hi /\ p[2] \in lo..hi
  OBVIOUS
<1>2. m \in lo..hi /\ p[1] < m /\ m < p[2]
  BY <1>1 DEF Middle
<1> HIDE DEF m
<1>3. CASE m \in E
  <2>1. Half(p, E) = <<p[1], m>>
    BY <1>3 DEF Half, m
  <2>2. /\ <<p[1], m>> \in (lo..hi) \X (lo..hi) /\ m - p[1] < p[2] - p[1] /\ p[1] < m
        /\ p[1] <= p[1] /\ m <= p[2]
    BY <1>1, <1>2
  <2> QED
    BY <1>2, <1>3, <2>1, <2>2 DEF m
<1>4. CASE m \notin E
  <2>1. Half(p, E) = <<m, p[2]>>
    BY <1>4 DEF Half, m
  <2>2. /\ <<m, p[2]>> \in (lo..hi) \X (lo..hi) /\ p[2] - m < p[2] - p[1] /\ m < p[2]
        /\ p[1] <= m /\ p[2] <= p[2]
    BY <1>1, <1>2
  <2> QED
    BY <1>2, <1>4, <2>1, <2>2 DEF m
<1> QED
  BY <1>3, <1>4

LEMMA BisectExists ==
    ASSUME NEW lo \in Nat, NEW hi \in Nat, NEW E
    PROVE  \E f : f = Bisected(lo, hi, E, f)
<1> DEFINE D == (lo..hi) \X (lo..hi)
           Good(n, f) == \A p \in D : p[2] - p[1] < n => f[p] = Bisect(p, E, f)
           T == {n \in Nat : ~\E f : Good(n, f)}
<1>1. T = {}
  <2> SUFFICES ASSUME T # {}
               PROVE  FALSE
    OBVIOUS
  <2>1. PICK n \in T : \A m \in T : n <= m
    BY LeastNumber
  <2>2. n \in Nat /\ ~\E f : Good(n, f)
    BY <2>1
  <2>3. n # 0
    <3> DEFINE f == [p \in D |-> p[1]]
    <3>1. Good(0, f)
      <4> SUFFICES ASSUME NEW p \in D, p[2] - p[1] < 0
                   PROVE  f[p] = Bisect(p, E, f)
        OBVIOUS
      <4>1. p[2] - p[1] <= 1
        OBVIOUS
      <4> QED
        BY <4>1 DEF Bisect
    <3> QED
      BY <2>2, <3>1
  <2>4. n - 1 \in Nat /\ n - 1 \notin T
    <3>1. n - 1 \in Nat /\ ~(n <= n - 1)
      BY <2>2, <2>3
    <3> HIDE DEF T
    <3> QED
      BY <2>1, <3>1
  <2>5. PICK f : Good(n - 1, f)
    BY <2>4
  <2> DEFINE g == [p \in D |-> Bisect(p, E, f)]
  <2>6. ASSUME NEW p \in D, p[2] - p[1] < n
        PROVE  g[p] = Bisect(p, E, g)
    <3>1. CASE p[2] - p[1] <= 1
      BY <3>1 DEF Bisect
    <3>2. CASE ~(p[2] - p[1] <= 1)
      <4> DEFINE h == Half(p, E)
      <4>1. h \in D /\ h[2] - h[1] < p[2] - p[1]
        BY <3>2, HalfIs
      <4>2. Bisect(p, E, f) = f[h] /\ Bisect(p, E, g) = g[h]
        BY <3>2 DEF Bisect
      <4> HIDE DEF h
      <4>3. h[2] - h[1] < n - 1
        BY <2>2, <2>6, <4>1
      <4>4. f[h] = Bisect(h, E, f)
        BY <2>5, <4>1, <4>3
      <4>5. g[h] = Bisect(h, E, f) /\ g[p] = Bisect(p, E, f)
        BY <4>1
      <4> QED
        BY <4>2, <4>4, <4>5
    <3> QED
      BY <3>1, <3>2
  <2> HIDE DEF g
  <2>7. Good(n, g)
    BY <2>6
  <2> QED
    BY <2>2, <2>7
<1>2. \E f : Good(hi + 1, f)
  <2>1. hi + 1 \in Nat
    OBVIOUS
  <2> QED
    BY <1>1, <2>1
<1>3. PICK f : Good(hi + 1, f)
  BY <1>2
<1> DEFINE g == [p \in D |-> f[p]]
<1>4. ASSUME NEW p \in D
      PROVE  g[p] = Bisect(p, E, g)
  <2>1. p[2] - p[1] < hi + 1
    OBVIOUS
  <2>2. f[p] = Bisect(p, E, f)
    BY <1>3, <2>1
  <2>3. CASE p[2] - p[1] <= 1
    BY <2>2, <2>3 DEF Bisect
  <2>4. CASE ~(p[2] - p[1] <= 1)
    <3>1. Half(p, E) \in D
      BY <2>4, HalfIs
    <3> QED
      BY <2>2, <2>4, <3>1 DEF Bisect
  <2> QED
    BY <2>3, <2>4
<1>5. g = [p \in D |-> g[p]]
  OBVIOUS
<1> HIDE DEF g
<1>6. g = [p \in D |-> Bisect(p, E, g)]
  BY <1>4, <1>5
<1> QED
  BY <1>6 DEF Bisected

\* Between a place that is not empty and one that is, a border is found.
LEMMA BisectIs ==
    ASSUME NEW lo \in Nat, NEW hi \in Nat, NEW E, NEW f, f = Bisected(lo, hi, E, f),
           NEW p \in (lo..hi) \X (lo..hi), p[1] < p[2], p[1] \notin E, p[2] \in E
    PROVE  f[p] \in p[1]..p[2] - 1 /\ f[p] \notin E /\ f[p] + 1 \in E
<1> DEFINE D == (lo..hi) \X (lo..hi)
           Fits(q) == q[1] < q[2] /\ q[1] \notin E /\ q[2] \in E
           Good(q) == f[q] \in q[1]..q[2] - 1 /\ f[q] \notin E /\ f[q] + 1 \in E
           T == {q[2] - q[1] : q \in {r \in D : Fits(r) /\ ~Good(r)}}
<1>1. T = {}
  <2> SUFFICES ASSUME T # {}
               PROVE  FALSE
    OBVIOUS
  <2>1. T \in SUBSET Nat
    <3>1. ASSUME NEW q \in D, Fits(q)
          PROVE  q[2] - q[1] \in Nat
      BY <3>1
    <3> QED
      BY <3>1
  <2>2. PICK n \in T : \A m \in T : n <= m
    BY <2>1, LeastNumber
  <2>3. PICK q \in D : Fits(q) /\ ~Good(q) /\ n = q[2] - q[1]
    BY <2>2
  <2>4. f[q] = Bisect(q, E, f)
    BY Zenon DEF Bisected
  <2>5. CASE q[2] - q[1] <= 1
    <3>1. f[q] = q[1] /\ q[1] + 1 = q[2]
      BY <2>3, <2>4, <2>5 DEF Bisect
    <3> QED
      BY <2>3, <3>1
  <2>6. CASE ~(q[2] - q[1] <= 1)
    <3> DEFINE h == Half(q, E)
    <3>1. /\ h \in D /\ h[2] - h[1] < q[2] - q[1] /\ h[1] < h[2]
          /\ q[1] <= h[1] /\ h[2] <= q[2] /\ h[1] \notin E /\ h[2] \in E
      BY <2>3, <2>6, HalfIs
    <3>2. f[q] = f[h]
      BY <2>4, <2>6 DEF Bisect
    <3> HIDE DEF h
    <3>3. Good(h)
      <4> SUFFICES ASSUME ~Good(h)
                   PROVE  FALSE
        OBVIOUS
      <4>1. h[2] - h[1] \in T
        BY <3>1
      <4>2. n <= h[2] - h[1]
        BY <2>2, <4>1
      <4> QED
        BY <2>3, <3>1, <4>2
    <3>4. f[q] \in q[1]..q[2] - 1
      BY <2>3, <3>1, <3>2, <3>3
    <3> QED
      BY <2>3, <3>2, <3>3, <3>4
  <2> QED
    BY <2>5, <2>6
<1> QED
  BY <1>1

\* The intervals that hash_search tries.
Twice(i) == IF i <= MaxInteger \div 2 THEN 2 * i ELSE MaxInteger
Double(i, E, f) ==
    IF Twice(i) \in E THEN <<i, Twice(i)>>
    ELSE IF Twice(i) = MaxInteger THEN <<MaxInteger, MaxInteger>> ELSE f[Twice(i)]
Doubled(E, f) == [i \in Index |-> Double(i, E, f)]

LEMMA TwiceIs ==
    ASSUME NEW i \in Index
    PROVE  /\ Twice(i) \in Index /\ i <= Twice(i)
           /\ Twice(i) # MaxInteger => MaxInteger - Twice(i) < MaxInteger - i
<1>1. MaxInteger \in Nat \ {0}
  BY SizesAssumption
<1> QED
  BY <1>1 DEF Twice, Index

LEMMA DoubleExists ==
    ASSUME NEW E
    PROVE  \E f : f = Doubled(E, f)
<1> DEFINE Good(n, f) == \A i \in Index : MaxInteger - i < n => f[i] = Double(i, E, f)
           T == {n \in Nat : ~\E f : Good(n, f)}
<1>0. MaxInteger \in Nat \ {0} /\ \A i \in Index : i \in Nat /\ MaxInteger - i \in 0..MaxInteger - 1
  BY SizesAssumption DEF Index
<1>1. T = {}
  <2> SUFFICES ASSUME T # {}
               PROVE  FALSE
    OBVIOUS
  <2>1. PICK n \in T : \A m \in T : n <= m
    BY LeastNumber
  <2>2. n \in Nat /\ ~\E f : Good(n, f)
    BY <2>1
  <2>3. n # 0
    <3>1. \A i \in Index : ~(MaxInteger - i < 0)
      BY <1>0
    <3>2. Good(0, {})
      BY <3>1
    <3> QED
      BY <2>2, <3>2
  <2>4. n - 1 \in Nat /\ n - 1 \notin T
    <3>1. n - 1 \in Nat /\ ~(n <= n - 1)
      BY <2>2, <2>3
    <3> HIDE DEF T
    <3> QED
      BY <2>1, <3>1
  <2>5. PICK f : Good(n - 1, f)
    BY <2>4
  <2> DEFINE g == [i \in Index |-> Double(i, E, f)]
  <2>6. ASSUME NEW i \in Index, MaxInteger - i < n
        PROVE  g[i] = Double(i, E, g)
    <3> DEFINE j == Twice(i)
    <3>1. j \in Index /\ (j # MaxInteger => MaxInteger - j < MaxInteger - i)
      BY TwiceIs
    <3>2. CASE j \in E \/ j = MaxInteger
      BY <3>2 DEF Double
    <3>3. CASE j \notin E /\ j # MaxInteger
      <4>1. Double(i, E, f) = f[j] /\ Double(i, E, g) = g[j]
        BY <3>3 DEF Double
      <4> HIDE DEF j
      <4>2. MaxInteger - j < n - 1
        BY <1>0, <2>2, <2>6, <3>1, <3>3
      <4>3. f[j] = Double(j, E, f)
        BY <2>5, <3>1, <4>2
      <4>4. g[j] = Double(j, E, f) /\ g[i] = Double(i, E, f)
        BY <3>1
      <4> QED
        BY <4>1, <4>3, <4>4
    <3> QED
      BY <3>2, <3>3
  <2> HIDE DEF g
  <2>7. Good(n, g)
    BY <2>6
  <2> QED
    BY <2>2, <2>7
<1>2. PICK f : Good(MaxInteger, f)
  BY <1>0, <1>1
<1> DEFINE g == [i \in Index |-> f[i]]
<1>4. ASSUME NEW i \in Index
      PROVE  g[i] = Double(i, E, g)
  <2>1. MaxInteger - i < MaxInteger
    BY <1>0
  <2>2. f[i] = Double(i, E, f)
    BY <1>2, <2>1
  <2>3. Twice(i) \in Index
    BY TwiceIs
  <2> QED
    BY <2>2, <2>3 DEF Double
<1>5. g = [i \in Index |-> g[i]]
  OBVIOUS
<1> HIDE DEF g
<1>6. g = [i \in Index |-> Double(i, E, g)]
  BY <1>4, <1>5
<1> QED
  BY <1>6 DEF Doubled

LEMMA DoubleIs ==
    ASSUME NEW E, NEW f, f = Doubled(E, f), NEW i \in Index, i \notin E
    PROVE  \E a \in Index, b \in Index :
              /\ f[i] = <<a, b>> /\ a \notin E
              /\ (a < b /\ b \in E) \/ (a = MaxInteger /\ b = MaxInteger)
<1> DEFINE Good(l) == \E a \in Index, b \in Index :
              /\ f[l] = <<a, b>> /\ a \notin E
              /\ (a < b /\ b \in E) \/ (a = MaxInteger /\ b = MaxInteger)
           T == {MaxInteger - l : l \in {m \in Index : m \notin E /\ ~Good(m)}}
<1>0. MaxInteger \in Nat \ {0} /\ \A l \in Index : l \in Nat /\ MaxInteger - l \in Nat
  BY SizesAssumption DEF Index
<1>1. T = {}
  <2> SUFFICES ASSUME T # {}
               PROVE  FALSE
    OBVIOUS
  <2>1. T \in SUBSET Nat
    BY <1>0
  <2>2. PICK n \in T : \A m \in T : n <= m
    BY <2>1, LeastNumber
  <2>3. PICK l \in Index : l \notin E /\ ~Good(l) /\ n = MaxInteger - l
    BY <2>2
  <2>4. f[l] = Double(l, E, f)
    BY Zenon DEF Doubled
  <2> DEFINE j == Twice(l)
  <2>5. j \in Index /\ l <= j /\ (j # MaxInteger => MaxInteger - j < MaxInteger - l)
    BY TwiceIs
  <2>6. CASE j \in E
    <3>1. f[l] = <<l, j>>
      BY <2>4, <2>6 DEF Double
    <3>2. l < j
      BY <1>0, <2>3, <2>5, <2>6
    <3> HIDE DEF j
    <3> QED
      BY <2>3, <2>5, <2>6, <3>1, <3>2
  <2>7. CASE j \notin E /\ j = MaxInteger
    <3>1. f[l] = <<MaxInteger, MaxInteger>>
      BY <2>4, <2>7 DEF Double
    <3> HIDE DEF j
    <3> QED
      BY <2>3, <2>5, <2>7, <3>1
  <2>8. CASE j \notin E /\ j # MaxInteger
    <3>1. f[l] = f[j]
      BY <2>4, <2>8 DEF Double
    <3> HIDE DEF j
    <3>2. ~Good(j)
      BY <2>3, <3>1
    <3>3. MaxInteger - j \in T
      BY <2>5, <2>8, <3>2
    <3>4. n <= MaxInteger - j
      BY <2>2, <3>3
    <3> QED
      BY <1>0, <2>3, <2>5, <2>8, <3>4
  <2> QED
    BY <2>6, <2>7, <2>8
<1> QED
  BY <1>1

\* binsearch, in an array with an empty place behind one that is not.
LEMMA BinSearchIs ==
    ASSUME NEW a, Len(a) \in Nat, NEW from \in 0..Len(a), NEW to \in 0..Len(a), from < to,
           from = 0 \/ a[from] # Nothing, a[to] = Nothing
    PROVE  LET n == BinSearch(a, from, to)
           IN  n \in from..to - 1 /\ (n = 0 \/ a[n] # Nothing) /\ a[n + 1] = Nothing
<1> DEFINE len == Len(a)
           E == {i \in 1..len : a[i] = Nothing}
           W(f) == [p \in (0..len) \X (0..len) |->
                       LET m == (p[1] + p[2]) \div 2 IN
                       IF p[2] - p[1] <= 1 THEN p[1]
                       ELSE IF a[m] = Nothing THEN f[<<p[1], m>>] ELSE f[<<m, p[2]>>]]
           g == CHOOSE f : f = W(f)
           p == <<from, to>>
<1>1. BinSearch(a, from, to) = g[p]
  BY DEF BinSearch
<1>2. ASSUME NEW f
      PROVE  W(f) = Bisected(0, len, E, f)
  <2>1. ASSUME NEW q \in (0..len) \X (0..len)
        PROVE  W(f)[q] = Bisect(q, E, f)
    <3> DEFINE m == Middle(q)
    <3>1. CASE q[2] - q[1] <= 1
      BY <3>1 DEF Bisect
    <3>2. CASE ~(q[2] - q[1] <= 1)
      <4>1. q[1] \in 0..len /\ q[2] \in 0..len
        OBVIOUS
      <4>2. m \in 1..len
        BY <3>2, <4>1 DEF Middle
      <4>3. a[m] = Nothing <=> m \in E
        BY <4>2
      <4> HIDE DEF E
      <4>4. W(f)[q] = IF a[m] = Nothing THEN f[<<q[1], m>>] ELSE f[<<m, q[2]>>]
        BY <3>2 DEF Middle
      <4>5. Bisect(q, E, f) = IF m \in E THEN f[<<q[1], m>>] ELSE f[<<m, q[2]>>]
        BY <3>2, Zenon DEF Bisect, Half
      <4> HIDE DEF m, W
      <4> QED
        BY <4>3, <4>4, <4>5
    <3> QED
      BY <3>1, <3>2
  <2>2. W(f) = [q \in (0..len) \X (0..len) |-> W(f)[q]]
    OBVIOUS
  <2> HIDE DEF W, E
  <2>3. W(f) = [q \in (0..len) \X (0..len) |-> Bisect(q, E, f)]
    BY <2>1, <2>2
  <2> QED
    BY <2>3 DEF Bisected
<1>3. g = Bisected(0, len, E, g)
  <2>1. \E f : f = Bisected(0, len, E, f)
    <3>1. 0 \in Nat /\ len \in Nat
      OBVIOUS
    <3> HIDE DEF len, E
    <3> QED
      BY <3>1, BisectExists
  <2> HIDE DEF W, E
  <2>2. \E f : f = W(f)
    BY <1>2, <2>1
  <2>3. g = W(g)
    BY <2>2, Zenon
  <2> HIDE DEF g
  <2> QED
    BY <1>2, <2>3
<1>4. /\ p \in (0..len) \X (0..len) /\ p[1] = from /\ p[2] = to
      /\ p[1] < p[2] /\ p[1] \notin E /\ p[2] \in E
  OBVIOUS
<1> HIDE DEF g, p
<1>5. g[p] \in p[1]..p[2] - 1 /\ g[p] \notin E /\ g[p] + 1 \in E
  <2>1. 0 \in Nat /\ len \in Nat
    OBVIOUS
  <2> HIDE DEF len, E, W
  <2> QED
    BY <1>3, <1>4, <2>1, BisectIs
<1> DEFINE n == g[p]
<1>6. n \in from..to - 1 /\ n \notin E /\ n + 1 \in E
  BY <1>4, <1>5
<1> HIDE DEF n
<1>7. n \in 0..len
  BY <1>6
<1>8. (n = 0 \/ a[n] # Nothing) /\ a[n + 1] = Nothing
  BY <1>6, <1>7
<1> QED
  BY <1>1, <1>6, <1>8 DEF n

\* hash_search, from a number that is not empty, or from 0 if 1 is not empty.
LEMMA HashSearchIs ==
    ASSUME NEW tb, NEW from \in 0..MaxInteger,
           LET i == IF from = 0 THEN 1 ELSE from IN Get(tb, i) # Nothing
    PROVE  LET n == HashSearch(tb, from)
           IN  /\ n \in Index /\ Get(tb, n) # Nothing
               /\ n = MaxInteger \/ (n + 1 \in Index /\ Get(tb, n + 1) = Nothing)
<1> DEFINE E == {i \in Index : Get(tb, i) = Nothing}
           I == Index
           D(f) == [i \in Index |->
                       LET j == IF i <= MaxInteger \div 2 THEN 2 * i ELSE MaxInteger IN
                       IF Get(tb, j) = Nothing THEN <<i, j>>
                       ELSE IF j = MaxInteger THEN <<j, j>> ELSE f[j]]
           W(f) == [p \in Index \X Index |->
                       LET m == (p[1] + p[2]) \div 2 IN
                       IF p[2] - p[1] <= 1 THEN p[1]
                       ELSE IF Get(tb, m) = Nothing THEN f[<<p[1], m>>] ELSE f[<<m, p[2]>>]]
           d == CHOOSE f : f = D(f)
           g == CHOOSE f : f = W(f)
           first == IF from = 0 THEN 1 ELSE from
<1>0. MaxInteger \in Nat \ {0} /\ Index = 1..MaxInteger /\ \A i \in Index : i \in Nat
  BY SizesAssumption DEF Index
<1>1. HashSearch(tb, from) = g[d[first]]
  BY DEF HashSearch
<1>2. first \in Index /\ first \notin E
  BY <1>0
<1>3. ASSUME NEW f
      PROVE  D(f) = Doubled(E, f)
  <2>1. ASSUME NEW i \in Index
        PROVE  D(f)[i] = Double(i, E, f)
    <3> DEFINE j == Twice(i)
    <3>1. j \in Index
      BY TwiceIs
    <3>2. Get(tb, j) = Nothing <=> j \in E
      BY <3>1
    <3> HIDE DEF E
    <3>3. D(f)[i] = IF Get(tb, j) = Nothing THEN <<i, j>>
                    ELSE IF j = MaxInteger THEN <<j, j>> ELSE f[j]
      BY DEF Twice
    <3>4. Double(i, E, f) = IF j \in E THEN <<i, j>>
                            ELSE IF j = MaxInteger THEN <<MaxInteger, MaxInteger>> ELSE f[j]
      BY Zenon DEF Double
    <3> HIDE DEF j, D
    <3> QED
      BY <3>2, <3>3, <3>4
  <2>2. D(f) = [i \in Index |-> D(f)[i]]
    OBVIOUS
  <2> HIDE DEF D, E
  <2>3. D(f) = [i \in Index |-> Double(i, E, f)]
    BY <2>1, <2>2
  <2> QED
    BY <2>3 DEF Doubled
<1>4. d = Doubled(E, d)
  <2>1. \E f : f = Doubled(E, f)
    BY DoubleExists
  <2> HIDE DEF D, E
  <2>2. \E f : f = D(f)
    BY <1>3, <2>1
  <2>3. d = D(d)
    BY <2>2, Zenon
  <2> HIDE DEF d
  <2> QED
    BY <1>3, <2>3
<1>5. ASSUME NEW f
      PROVE  W(f) = Bisected(1, MaxInteger, E, f)
  <2>1. ASSUME NEW q \in Index \X Index
        PROVE  W(f)[q] = Bisect(q, E, f)
    <3> DEFINE m == Middle(q)
    <3>1. CASE q[2] - q[1] <= 1
      BY <3>1 DEF Bisect
    <3>2. CASE ~(q[2] - q[1] <= 1)
      <4>1. q[1] \in 1..MaxInteger /\ q[2] \in 1..MaxInteger
        BY <1>0
      <4>2. m \in Index
        BY <1>0, <3>2, <4>1 DEF Middle
      <4>3. Get(tb, m) = Nothing <=> m \in E
        BY <4>2
      <4> HIDE DEF E
      <4>4. W(f)[q] = IF Get(tb, m) = Nothing THEN f[<<q[1], m>>] ELSE f[<<m, q[2]>>]
        BY <3>2 DEF Middle
      <4>5. Bisect(q, E, f) = IF m \in E THEN f[<<q[1], m>>] ELSE f[<<m, q[2]>>]
        BY <3>2, Zenon DEF Bisect, Half
      <4> HIDE DEF m, W
      <4> QED
        BY <4>3, <4>4, <4>5
    <3> QED
      BY <3>1, <3>2
  <2>2. W(f) = [q \in Index \X Index |-> W(f)[q]]
    OBVIOUS
  <2> HIDE DEF W, E
  <2>3. W(f) = [q \in Index \X Index |-> Bisect(q, E, f)]
    BY <2>1, <2>2
  <2> QED
    BY <1>0, <2>3 DEF Bisected
<1>6. g = Bisected(1, MaxInteger, E, g)
  <2>1. 1 \in Nat /\ MaxInteger \in Nat
    BY <1>0
  <2> HIDE DEF W, E
  <2>2. \E f : f = Bisected(1, MaxInteger, E, f)
    BY <2>1, BisectExists
  <2>3. \E f : f = W(f)
    BY <1>5, <2>2
  <2>4. g = W(g)
    BY <2>3, Zenon
  <2> HIDE DEF g
  <2> QED
    BY <1>5, <2>4
<1> HIDE DEF d, g, D, W, first
<1>7. PICK a \in Index, b \in Index :
         /\ d[first] = <<a, b>> /\ a \notin E
         /\ (a < b /\ b \in E) \/ (a = MaxInteger /\ b = MaxInteger)
  <2> HIDE DEF E
  <2> QED
    BY <1>2, <1>4, DoubleIs
<1> DEFINE p == <<a, b>>
           n == g[p]
<1>8. p \in (1..MaxInteger) \X (1..MaxInteger) /\ p[1] = a /\ p[2] = b
  BY <1>0
<1>9. CASE a < b /\ b \in E
  <2>1. n \in a..b - 1 /\ n \notin E /\ n + 1 \in E
    <3>1. 1 \in Nat /\ MaxInteger \in Nat
      BY <1>0
    <3> HIDE DEF p, E
    <3>2. g[p] \in p[1]..p[2] - 1 /\ g[p] \notin E /\ g[p] + 1 \in E
      BY <1>6, <1>7, <1>8, <1>9, <3>1, BisectIs
    <3> QED
      BY <1>8, <3>2
  <2> HIDE DEF n
  <2>2. n \in Index
    BY <1>0, <2>1
  <2>3. Get(tb, n) # Nothing /\ n + 1 \in Index /\ Get(tb, n + 1) = Nothing
    BY <2>1, <2>2
  <2> QED
    BY <1>1, <1>7, <2>2, <2>3 DEF n
<1>10. CASE a = MaxInteger /\ b = MaxInteger
  <2>1. n = a
    <3>1. g[p] = Bisect(p, E, g)
      <4> HIDE DEF p, E
      <4> QED
        BY <1>6, <1>8, Zenon DEF Bisected
    <3>2. p[2] - p[1] <= 1
      BY <1>0, <1>8, <1>10
    <3> QED
      BY <1>8, <3>1, <3>2 DEF Bisect
  <2> HIDE DEF n
  <2>2. n \in Index /\ Get(tb, n) # Nothing /\ n = MaxInteger
    BY <1>7, <1>10, <2>1
  <2> QED
    BY <1>1, <1>7, <2>2 DEF n
<1> QED
  BY <1>7, <1>9, <1>10

\* A border, and a table with the same fields in the same places.
GoodLength(tb, f) ==
    /\ f.n = 0 \/ Get(tb, f.n) # Nothing
    /\ f.n = MaxInteger \/ Get(tb, f.n + 1) = Nothing
    /\ SameFields(tb, f.t) /\ SamePlaces(tb, f.t) /\ f.t.absent = tb.absent

\* A hint is left if the size of the array is a power of two, and the hint is not one.
LEMMA HintLeft ==
    ASSUME NEW tb, TableInv(tb), inst \in Instances, NEW n \in Nat, n <= Len(tb.array),
           2 * n > Len(tb.array), IsPow2RealSize(tb)
    PROVE  SameFields(tb, NewLimit(tb, n)) /\ SamePlaces(tb, NewLimit(tb, n))
           /\ NewLimit(tb, n).absent = tb.absent
<1>1. TableTypes(tb) /\ SizeKnown(tb) /\ Len(tb.array) \in Nat /\ tb.realasize \in BOOLEAN
  BY TableFields DEF TableInv, HashInv
<1>2. \E i \in 0..Len(tb.array) : Len(tb.array) = 2^i
  <2>1. CASE ~tb.realasize
    BY <1>1, <2>1 DEF SizeKnown
  <2>2. CASE tb.realasize
    <3>1. IsPow2(tb.alimit)
      BY <2>2 DEF IsPow2RealSize
    <3>2. tb.alimit = Len(tb.array)
      BY <1>1, <2>2 DEF SizeKnown
    <3>3. IsPow2(Len(tb.array)) /\ Len(tb.array) # 0
      BY <1>1, <3>1, <3>2
    <3> QED
      BY <3>3 DEF IsPow2
  <2> QED
    BY <2>1, <2>2
<1> QED
  BY <1>2, LimitMoved DEF NewLimit

\* Half of a power of two is one.
LEMMA HalfOfPower ==
    ASSUME NEW n \in Nat \ {0}, NEW i \in Nat, 2 * n = 2^i
    PROVE  IsPow2(n)
<1>1. i # 0
  <2>1. CASE i = 0
    <3>1. 2^i = 1
      BY <2>1, PowerZero
    <3> QED
      BY <3>1
  <2> QED
    BY <2>1
<1> DEFINE j == i - 1
<1>2. j \in Nat /\ i = j + 1
  BY <1>1
<1> HIDE DEF j
<1>3. 2^i = 2 * 2^j /\ 2^j \in Nat /\ j <= 2^j
  BY <1>2, PowerNext, PowerAbove
<1>4. n = 2^j /\ j \in 0..n
  BY <1>2, <1>3
<1> QED
  BY <1>4 DEF IsPow2

LEMMA BeforeIs ==
    ASSUME NEW tb, TableInv(tb), inst \in Instances, tb.alimit > 0,
           tb.array[tb.alimit] = Nothing
    PROVE  GoodLength(tb, BoundaryBefore(tb))
<1> DEFINE limit == tb.alimit
           len == Len(tb.array)
           b == BinSearch(tb.array, 0, limit)
<1>1. /\ TableTypes(tb) /\ SizeKnown(tb) /\ RealSize(tb) = len
      /\ limit \in Nat /\ len \in Nat /\ limit <= len /\ limit > 0 /\ limit # 0
      /\ tb.realasize \in BOOLEAN
  BY TableFields, RealSizeIs DEF TableInv, HashInv, SizeKnown
<1>2. \A q \in 1..len : Get(tb, q) = tb.array[q]
  BY GetInParts
<1>3. SameFields(tb, tb) /\ SamePlaces(tb, tb)
  BY Reflexive
<1>4. CASE limit >= 2 /\ tb.array[limit - 1] # Nothing
  <2> DEFINE n == limit - 1
             new == IF CanBeLimit(tb, n) THEN NewLimit(tb, n) ELSE tb
  <2>1. BoundaryBefore(tb) = Found(n, new)
    BY <1>4 DEF BoundaryBefore
  <2>2. n \in 1..len /\ n + 1 = limit /\ limit \in 1..len
    <3> HIDE DEF limit, len
    <3> QED
      BY <1>1, <1>4
  <2>3. Get(tb, n) # Nothing /\ Get(tb, n + 1) = Nothing
    BY <1>2, <1>4, <2>2
  <2>4. SameFields(tb, new) /\ SamePlaces(tb, new) /\ new.absent = tb.absent
    <3>1. CASE CanBeLimit(tb, n)
      <4>1. IsPow2RealSize(tb) /\ ~IsPow2(n)
        BY <3>1 DEF CanBeLimit
      <4>2. 2 * n > len
        <5> SUFFICES ASSUME ~(2 * n > len)
                     PROVE  FALSE
          OBVIOUS
        <5>1. PICK i \in Nat : len = 2^i
          <6>1. CASE ~tb.realasize
            BY <1>1, <6>1 DEF SizeKnown
          <6>2. CASE tb.realasize
            <7>1. IsPow2(len)
              BY <1>1, <4>1, <6>2 DEF SizeKnown, IsPow2RealSize
            <7> QED
              BY <1>1, <7>1 DEF IsPow2
          <6> QED
            BY <6>1, <6>2
        <5>2. 2 * limit > len \/ limit = len
          BY <1>1 DEF SizeKnown
        <5>3. n \in Nat \ {0} /\ 2 * limit > len
          <6> HIDE DEF limit, len
          <6> QED
            BY <1>1, <2>2, <5>2
        <5>4. i # 0
          <6>1. CASE i = 0
            <7>1. len = 1
              BY <5>1, <6>1, PowerZero
            <7> HIDE DEF limit, len
            <7> QED
              BY <1>1, <1>4, <7>1
          <6> QED
            BY <6>1
        <5> DEFINE j == i - 1
        <5>5. j \in Nat /\ i = j + 1
          BY <5>4
        <5> HIDE DEF j
        <5>6. len = 2 * 2^j /\ 2^j \in Nat
          BY <5>1, <5>5, PowerNext, PowerAbove
        <5>7. 2 * n = len
          <6> HIDE DEF len
          <6> DEFINE h == 2^j
          <6>1. len = 2 * h /\ h \in Nat
            BY <5>6
          <6> HIDE DEF h, limit
          <6>2. limit = n + 1 /\ n \in Nat
            BY <1>1, <2>2, <5>3
          <6> HIDE DEF n
          <6> QED
            BY <5>3, <6>1, <6>2
        <5>8. IsPow2(n)
          BY <5>1, <5>3, <5>7, HalfOfPower
        <5> QED
          BY <4>1, <5>8
      <4>3. n \in Nat /\ n <= len
        BY <2>2
      <4> HIDE DEF n
      <4> QED
        BY <3>1, <4>1, <4>2, <4>3, HintLeft
    <3>2. CASE ~CanBeLimit(tb, n)
      BY <1>3, <3>2
    <3> QED
      BY <3>1, <3>2
  <2> HIDE DEF n, new
  <2> QED
    BY <2>1, <2>3, <2>4 DEF GoodLength, Found
<1>5. CASE ~(limit >= 2 /\ tb.array[limit - 1] # Nothing)
  <2> DEFINE new == IF IsPow2RealSize(tb) /\ b > RealSize(tb) \div 2
                    THEN NewLimit(tb, b) ELSE tb
  <2>1. BoundaryBefore(tb) = Found(b, new)
    BY <1>5 DEF BoundaryBefore
  <2>2. b \in 0..limit - 1 /\ (b = 0 \/ tb.array[b] # Nothing) /\ tb.array[b + 1] = Nothing
    <3>1. 0 \in 0..len /\ limit \in 0..len /\ 0 < limit
      BY <1>1
    <3> QED
      BY <1>1, <3>1, BinSearchIs
  <2> HIDE DEF b
  <2>3. b \in Nat /\ b <= len /\ b + 1 \in 1..len /\ (b # 0 => b \in 1..len)
    <3> HIDE DEF limit, len
    <3> QED
      BY <1>1, <2>2
  <2>4. (b = 0 \/ Get(tb, b) # Nothing) /\ Get(tb, b + 1) = Nothing
    BY <1>2, <2>2, <2>3
  <2>5. SameFields(tb, new) /\ SamePlaces(tb, new) /\ new.absent = tb.absent
    <3>1. CASE IsPow2RealSize(tb) /\ b > RealSize(tb) \div 2
      <4>1. b > len \div 2
        BY <1>1, <3>1
      <4>2. 2 * b > len
        <5> HIDE DEF len
        <5> QED
          BY <1>1, <2>3, <4>1
      <4> QED
        BY <2>3, <3>1, <4>2, HintLeft
    <3>2. CASE ~(IsPow2RealSize(tb) /\ b > RealSize(tb) \div 2)
      BY <1>3, <3>2
    <3> QED
      BY <3>1, <3>2
  <2> HIDE DEF new
  <2> QED
    BY <2>1, <2>4, <2>5 DEF GoodLength, Found
<1> QED
  BY <1>4, <1>5

LEMMA AfterIs ==
    ASSUME NEW tb, TableInv(tb), inst \in Instances,
           Len(tb.array) = 0 \/ tb.array[Len(tb.array)] # Nothing
    PROVE  GoodLength(tb, BoundaryAfter(tb, Len(tb.array)))
<1> DEFINE len == Len(tb.array)
<1>1. /\ TableTypes(tb) /\ SizeKnown(tb) /\ HashInv(tb)
      /\ len \in Nat /\ len < MaxInteger /\ MaxInteger \in Nat
  BY TableFields, SizesAssumption DEF TableInv, HashInv, SizeKnown
<1>2. len # 0 => Get(tb, len) # Nothing
  <2>1. len # 0 => len \in 1..len
    BY <1>1
  <2> QED
    BY <2>1, GetInParts
<1>3. len + 1 \in Index /\ len + 1 \notin 1..len
  BY <1>1 DEF Index
<1>4. SameFields(tb, tb) /\ SamePlaces(tb, tb)
  BY Reflexive
<1>5. CASE tb.lastfree = Dummy \/ Get(tb, len + 1) = Nothing
  <2>1. Get(tb, len + 1) = Nothing
    <3>1. CASE tb.lastfree = Dummy
      <4>1. tb.node = [i \in {0} |-> FreeNode]
        BY <1>1, <3>1 DEF HashInv, FreeBefore, NodeVector
      <4>2. \A i \in DOMAIN tb.node : tb.node[i].val = Nothing
        BY <4>1 DEF FreeNode
      <4>3. Entries(tb.node) = {}
        BY <4>2 DEF Entries
      <4>4. \A v \in Value : Get(tb, len + 1) # v
        BY <1>3, <4>3, GetInParts
      <4> QED
        BY <1>3, <4>4, GetInParts
    <3> QED
      BY <1>5, <3>1
  <2>2. BoundaryAfter(tb, len) = Found(len, tb)
    BY <1>5 DEF BoundaryAfter
  <2> HIDE DEF len
  <2> QED
    BY <1>2, <1>4, <2>1, <2>2 DEF GoodLength, Found, len
<1>6. CASE ~(tb.lastfree = Dummy \/ Get(tb, len + 1) = Nothing)
  <2> DEFINE n == HashSearch(tb, len)
             new == Touch(tb, len + 1)
  <2>1. BoundaryAfter(tb, len) = Found(n, new)
    BY <1>6 DEF BoundaryAfter
  <2>2. /\ n \in Index /\ Get(tb, n) # Nothing
        /\ n = MaxInteger \/ Get(tb, n + 1) = Nothing
    <3>1. len \in 0..MaxInteger
      BY <1>1
    <3>2. Get(tb, IF len = 0 THEN 1 ELSE len) # Nothing
      <4>1. CASE len = 0
        <5>1. len + 1 = 1
          BY <4>1
        <5> QED
          BY <1>6, <4>1, <5>1
      <4>2. CASE len # 0
        BY <1>2, <4>2
      <4> QED
        BY <4>1, <4>2
    <3> QED
      BY <3>1, <3>2, HashSearchIs
  <2>3. SameFields(tb, new) /\ SamePlaces(tb, new) /\ new.absent = tb.absent
    BY TouchIs
  <2> HIDE DEF n, new
  <2> QED
    BY <2>1, <2>2, <2>3 DEF GoodLength, Found
<1> QED
  BY <1>5, <1>6

\* luaH_getn
LEMMA GetNIs ==
    ASSUME NEW tb, TableInv(tb), inst \in Instances
    PROVE  GoodLength(tb, GetN(tb))
<1> DEFINE limit == tb.alimit
           len == Len(tb.array)
           b == BinSearch(tb.array, limit, len)
<1>1. /\ TableTypes(tb) /\ SizeKnown(tb) /\ RealSize(tb) = len
      /\ limit \in Nat /\ len \in Nat /\ limit <= len /\ tb.realasize \in BOOLEAN
  BY TableFields, RealSizeIs DEF TableInv, HashInv, SizeKnown
<1>2. \A q \in 1..len : Get(tb, q) = tb.array[q]
  BY GetInParts
<1>3. SameFields(tb, tb) /\ SamePlaces(tb, tb)
  BY Reflexive
<1>4. CASE limit > 0 /\ tb.array[limit] = Nothing
  BY <1>4, BeforeIs DEF GetN
<1>5. CASE ~(limit > 0 /\ tb.array[limit] = Nothing) /\ LimitIsSize(tb)
  <2>1. limit = len
    BY <1>1, <1>5 DEF RealSize
  <2>2. GetN(tb) = BoundaryAfter(tb, len)
    BY <1>5, <2>1 DEF GetN
  <2>3. len = 0 \/ tb.array[len] # Nothing
    BY <1>1, <1>5, <2>1
  <2> QED
    BY <2>2, <2>3, AfterIs
<1>6. CASE ~(limit > 0 /\ tb.array[limit] = Nothing) /\ ~LimitIsSize(tb)
  <2>1. ~tb.realasize
    BY <1>6 DEF LimitIsSize
  <2>2. 2 * limit > len /\ \E i \in 0..len : len = 2^i
    BY <1>1, <2>1 DEF SizeKnown
  <2>3. limit # len
    <3>1. ~IsPow2(limit)
      BY <1>6 DEF LimitIsSize
    <3> QED
      BY <2>2, <3>1 DEF IsPow2
  <2>4. limit > 0 /\ limit \in 1..len /\ limit + 1 \in 1..len /\ limit < len
        /\ limit \in 0..len /\ len \in 0..len /\ len \in 1..len
    <3> HIDE DEF limit, len
    <3> QED
      BY <1>1, <2>2, <2>3
  <2>5. tb.array[limit] # Nothing /\ Get(tb, limit) # Nothing
    BY <1>2, <1>6, <2>4
  <2>6. CASE tb.array[limit + 1] = Nothing
    <3>1. GetN(tb) = Found(limit, tb)
      BY <1>6, <2>6 DEF GetN
    <3>2. Get(tb, limit + 1) = Nothing
      BY <1>2, <2>4, <2>6
    <3> HIDE DEF limit
    <3> QED
      BY <1>3, <2>5, <3>1, <3>2 DEF GoodLength, Found
  <2>7. CASE tb.array[limit + 1] # Nothing /\ tb.array[len] = Nothing
    <3> DEFINE new == [tb EXCEPT !.alimit = b]
    <3>1. GetN(tb) = Found(b, new)
      BY <1>1, <1>6, <2>7 DEF GetN
    <3>2. b \in limit..len - 1 /\ (b = 0 \/ tb.array[b] # Nothing) /\ tb.array[b + 1] = Nothing
      BY <1>1, <2>4, <2>5, <2>7, BinSearchIs
    <3> HIDE DEF b
    <3>3. b \in Nat /\ b <= len /\ 2 * b > len /\ b \in 1..len /\ b + 1 \in 1..len
      <4> HIDE DEF limit, len
      <4> QED
        BY <1>1, <2>2, <2>4, <3>2
    <3>4. Get(tb, b) # Nothing /\ Get(tb, b + 1) = Nothing
      BY <1>2, <3>2, <3>3
    <3>5. new = [tb EXCEPT !.alimit = b, !.realasize = FALSE]
      BY <1>1, <2>1 DEF TableTypes
    <3>6. SameFields(tb, new) /\ SamePlaces(tb, new) /\ new.absent = tb.absent
      BY <2>2, <3>3, <3>5, LimitMoved
    <3> HIDE DEF new
    <3> QED
      BY <3>1, <3>4, <3>6 DEF GoodLength, Found
  <2>8. CASE tb.array[limit + 1] # Nothing /\ tb.array[len] # Nothing
    <3>1. GetN(tb) = BoundaryAfter(tb, len)
      BY <1>1, <1>6, <2>8 DEF GetN
    <3> QED
      BY <2>8, <3>1, AfterIs
  <2> QED
    BY <2>6, <2>7, <2>8
<1> QED
  BY <1>4, <1>5, <1>6

-----------------------------------------------------------------------------
(* The specification.                                                      *)

\* The hashes never change, so a new table can be looked at with the old ones.
LEMMA Primed ==
    ASSUME inst' = inst
    PROVE  /\ TableInv(t)' <=> TableInv(t')
           /\ \A k : Get(t, k)' = Get(t', k)
           /\ FindIndex(t, at)' = FindIndex(t', at')
           /\ InvalidKey(t, at)' <=> InvalidKey(t', at')
<1>1. \A k : MainPosition(t, k)' = MainPosition(t', k)
  BY DEF MainPosition
<1>2. \A k, d : Find(t, k, d)' = Find(t', k, d)
  BY <1>1 DEF Find
<1>3. \A k : Get(t, k)' = Get(t', k)
  BY <1>2 DEF Get, Absent
<1>4. Known(t, at)' = Known(t', at')
  BY <1>2 DEF Known
<1>5. FindIndex(t, at)' = FindIndex(t', at')
  BY <1>4 DEF FindIndex
<1>6. InvalidKey(t, at)' <=> InvalidKey(t', at')
  BY <1>4 DEF InvalidKey
<1>7. Homed(t)' <=> Homed(t')
  BY <1>1 DEF Homed
<1>8. TableInv(t)' <=> TableInv(t')
  BY <1>7 DEF TableInv, HashInv
<1> QED
  BY <1>3, <1>5, <1>6, <1>8

\* The invariant of a state, and of the next one, by what is ahead of a traversal.
LEMMA InvariantIs ==
    Invariant <=> /\ inst \in Instances /\ TableInv(t)
                  /\ t.absent => Get(t, Event) = Nothing
                  /\ at # Nothing =>
                        /\ at \in Key \cup {Start} /\ ~InvalidKey(t, at)
                        /\ left = Ahead(t, FindIndex(t, at))
<1> SUFFICES ASSUME inst \in Instances, TableInv(t)
             PROVE  Traversed <=> (at # Nothing =>
                        /\ at \in Key \cup {Start} /\ ~InvalidKey(t, at)
                        /\ left = Ahead(t, FindIndex(t, at)))
  BY DEF Invariant, AbsentIsAbsent
<1>1. CASE at = Nothing
  BY <1>1 DEF Traversed
<1>2. CASE at # Nothing /\ at \in Key \cup {Start} /\ ~InvalidKey(t, at)
  <2> DEFINE i == FindIndex(t, at)
  <2>1. i \in Nat
    BY <1>2, IndexIs
  <2> HIDE DEF i
  <2>2. {KeyAt(t, j) : j \in NextPositions(t, i)} = Ahead(t, i)
    BY <2>1, AheadIs
  <2> QED
    BY <1>2, <2>2 DEF Traversed, i
<1>3. CASE at # Nothing /\ ~(at \in Key \cup {Start} /\ ~InvalidKey(t, at))
  BY <1>3 DEF Traversed
<1> QED
  BY <1>1, <1>2, <1>3

LEMMA InvariantNext ==
    ASSUME Invariant, inst' = inst, TableInv(t'), t'.absent => Get(t', Event) = Nothing,
           at' # Nothing =>
              /\ at' \in Key \cup {Start} /\ ~InvalidKey(t', at')
              /\ \A i \in Nat : i = FindIndex(t', at') => left' = Ahead(t', i)
    PROVE  Invariant'
<1>1. inst' \in Instances /\ inst \in Instances
  BY InvariantIs
<1>2. TableInv(t)'
  BY Primed
<1>3. AbsentIsAbsent'
  <2>1. Get(t, Event)' = Get(t', Event)
    BY Primed
  <2> QED
    BY <2>1 DEF AbsentIsAbsent
<1>4. Traversed'
  <2>1. CASE at' = Nothing
    BY <2>1 DEF Traversed
  <2>2. CASE at' # Nothing
    <3> DEFINE i == FindIndex(t', at')
    <3>1. at' \in Key \cup {Start} /\ ~InvalidKey(t', at') /\ i \in Nat
      BY <1>1, <2>2, IndexIs
    <3>2. left' = Ahead(t', i)
      BY <2>2, <3>1
    <3>3. FindIndex(t, at)' = i /\ ~InvalidKey(t, at)'
      BY <3>1, Primed
    <3> HIDE DEF i
    <3>4. {KeyAt(t', j) : j \in NextPositions(t', i)} = Ahead(t', i)
      BY <1>1, <3>1, AheadIs
    <3> QED
      BY <2>2, <3>1, <3>2, <3>3, <3>4 DEF Traversed
  <2> QED
    BY <2>1, <2>2
<1> QED
  BY <1>1, <1>2, <1>3, <1>4 DEF Invariant

LEMMA EventIs == Event \in Key /\ Nothing \notin Key /\ Start \notin Key /\ Start # Nothing
  BY KeysAssumption DEF Key

\* Nothing that a map or a traversal is about changes.
LEMMA SameNext ==
    ASSUME Invariant, inst' = inst, at' = at, left' = left, SameFields(t, t'),
           SamePlaces(t, t'), t'.absent => Get(t, Event) = Nothing
    PROVE  Invariant'
<1>1. inst \in Instances /\ TableInv(t) /\ TableInv(t') /\ Event \in Key
  BY InvariantIs, EventIs DEF SameFields
<1>2. t'.absent => Get(t', Event) = Nothing
  BY <1>1 DEF SameFields
<1>3. ASSUME at # Nothing
      PROVE  /\ at' \in Key \cup {Start} /\ ~InvalidKey(t', at')
             /\ \A i \in Nat : i = FindIndex(t', at') => left' = Ahead(t', i)
  <2>1. at \in Key \cup {Start} /\ ~InvalidKey(t, at) /\ left = Ahead(t, FindIndex(t, at))
    BY <1>3, InvariantIs
  <2>2. FindIndex(t', at) = FindIndex(t, at) /\ ~InvalidKey(t', at)
    BY <1>1, <2>1, PlacesSame
  <2>3. \A i : Ahead(t', i) = Ahead(t, i)
    BY <1>1, AheadSame
  <2> QED
    BY <2>1, <2>2, <2>3
<1> QED
  BY <1>1, <1>2, <1>3, InvariantNext

\* A key gets a value, or loses the one it has.
LEMMA PutNext ==
    ASSUME Invariant, inst' = inst, NEW k \in Key, NEW v \in Value \cup {Nothing},
           Puts(t, t', k, v), t'.absent => t.absent /\ (v = Nothing \/ k # Event),
           \/ Get(t, k) = Nothing /\ v # Nothing /\ at' = Nothing
           \/ /\ Get(t, k) # Nothing \/ v = Nothing
              /\ SamePlaces(t, t') /\ at' = at
              /\ left' = IF v = Nothing THEN left \ {k} ELSE left
    PROVE  Invariant'
<1>1. inst \in Instances /\ TableInv(t) /\ TableInv(t') /\ Event \in Key
  BY InvariantIs, EventIs DEF Puts
<1>2. t'.absent => Get(t', Event) = Nothing
  <2>1. Get(t', Event) = IF Event = k THEN v ELSE Get(t, Event)
    BY <1>1 DEF Puts
  <2> QED
    BY <2>1, InvariantIs
<1>3. ASSUME at' # Nothing
      PROVE  /\ at' \in Key \cup {Start} /\ ~InvalidKey(t', at')
             /\ \A i \in Nat : i = FindIndex(t', at') => left' = Ahead(t', i)
  <2>1. /\ Get(t, k) # Nothing \/ v = Nothing
        /\ SamePlaces(t, t') /\ at' = at
        /\ left' = IF v = Nothing THEN left \ {k} ELSE left
    BY <1>3
  <2>2. at \in Key \cup {Start} /\ ~InvalidKey(t, at) /\ left = Ahead(t, FindIndex(t, at))
    BY <1>3, <2>1, InvariantIs
  <2>3. FindIndex(t', at) = FindIndex(t, at) /\ ~InvalidKey(t', at)
    BY <1>1, <2>1, <2>2, PlacesSame
  <2>4. ASSUME NEW i \in Nat
        PROVE  Ahead(t', i) = IF v = Nothing THEN Ahead(t, i) \ {k} ELSE Ahead(t, i)
    BY <1>1, <2>1, AheadKept
  <2>5. FindIndex(t, at) \in Nat
    BY <1>1, <2>2, IndexIs
  <2> DEFINE i == FindIndex(t, at)
  <2>6. left' = Ahead(t', i)
    <3>1. Ahead(t', i) = IF v = Nothing THEN Ahead(t, i) \ {k} ELSE Ahead(t, i)
      BY <2>4, <2>5
    <3> HIDE DEF i
    <3>2. left = Ahead(t, i)
      BY <2>2 DEF i
    <3> QED
      BY <2>1, <3>1, <3>2
  <2> QED
    BY <2>1, <2>2, <2>3, <2>6
<1> QED
  BY <1>1, <1>2, <1>3, InvariantNext

\* What the next table is to the map.
mapping == [k \in Key |-> Get(t, k)]

LEMMA MapSame ==
    ASSUME inst' = inst, SameFields(t, t')
    PROVE  mapping' = mapping
<1>1. \A k \in Key : Get(t, k)' = Get(t, k)
  <2>1. \A k : Get(t, k)' = Get(t', k)
    BY Primed
  <2>2. \A k \in Key : Get(t', k) = Get(t, k)
    BY DEF SameFields
  <2> QED
    BY <2>1, <2>2
<1> QED
  BY <1>1 DEF mapping

LEMMA MapPut ==
    ASSUME inst' = inst, NEW k \in Key, NEW v \in Value \cup {Nothing}, Puts(t, t', k, v),
           IF Get(t, k) = Nothing /\ v # Nothing THEN at' = Nothing /\ left' = {}
           ELSE at' = at /\ left' = IF v = Nothing THEN left \ {k} ELSE left
    PROVE  Map!MapNext
<1>1. \A q \in Key : Get(t, q)' = IF q = k THEN v ELSE Get(t, q)
  <2>1. \A q : Get(t, q)' = Get(t', q)
    BY Primed
  <2>2. \A q \in Key : Get(t', q) = IF q = k THEN v ELSE Get(t, q)
    BY DEF Puts
  <2> QED
    BY <2>1, <2>2
<1>2. mapping' = [mapping EXCEPT ![k] = v]
  BY <1>1 DEF mapping
<1>3. k \in Map!Fields <=> Get(t, k) # Nothing
  BY DEF Map!Fields
<1>4. Map!Put(k, v)
  BY <1>2, <1>3 DEF Map!Put, mapping
<1> QED
  BY <1>4 DEF Map!MapNext

MapStep == Map!MapNext \/ UNCHANGED <<mapping, at, left>>

LEMMA NormalizeIs ==
    ASSUME inst \in Instances, NEW key \in inst.keys
    PROVE  Normalize(key) \in Key
  BY KeysAssumption DEF Normalize, Key

LEMMA AssignStep ==
    ASSUME Invariant, NEW key \in inst.keys, NEW v \in Value \cup {Nothing}, Assign(key, v)
    PROVE  Invariant' /\ MapStep
<1> DEFINE k == Normalize(key)
           new == SetInRoom(t, k, v)
           b == CacheAfter(t, k)
<1>1. inst \in Instances /\ TableInv(t) /\ (t.absent => Get(t, Event) = Nothing)
  BY InvariantIs
<1>2. k \in Key
  BY <1>1, NormalizeIs
<1>3. /\ ~Rebuilds(t, k, v) /\ t' = [new EXCEPT !.absent = b] /\ inst' = inst
      /\ IF Get(t, k) = Nothing /\ v # Nothing THEN at' = Nothing /\ left' = {}
         ELSE at' = at /\ left' = IF v = Nothing THEN left \ {k} ELSE left
  BY DEF Assign, Traversal
<1> HIDE DEF k
<1>4. /\ Puts(t, new, k, v) /\ TableInv(new)
      /\ Get(t, k) # Nothing \/ v = Nothing => SamePlaces(t, new)
  BY <1>1, <1>2, <1>3, AssignIs DEF Puts
<1> HIDE DEF new
<1>5. t.absent \in BOOLEAN
  BY <1>1, TableFields DEF TableInv, HashInv
<1>6. b \in BOOLEAN /\ (b => t.absent /\ Get(t, k) # Nothing)
  BY <1>5 DEF CacheAfter
<1> HIDE DEF b
<1>7. SameFields(new, t') /\ SamePlaces(new, t') /\ t'.absent = b
  BY <1>1, <1>3, <1>4, <1>6, CacheSet
<1>8. Puts(t, t', k, v)
  BY <1>4, <1>7 DEF Puts, SameFields
<1>9. Get(t, k) # Nothing \/ v = Nothing => SamePlaces(t, t')
  BY <1>4, <1>7 DEF SamePlaces
<1>10. t'.absent => t.absent /\ (v = Nothing \/ k # Event)
  BY <1>1, <1>6, <1>7
<1>11. Invariant'
  BY <1>2, <1>3, <1>8, <1>9, <1>10, PutNext
<1>12. Map!MapNext
  BY <1>2, <1>3, <1>8, MapPut
<1> QED
  BY <1>11, <1>12 DEF MapStep

LEMMA AssignNewStep ==
    ASSUME Invariant, NEW key \in inst.keys, NEW v \in Value \cup {Nothing}, NEW outcome,
           AssignNew(key, v, outcome)
    PROVE  Invariant' /\ MapStep
<1> DEFINE k == Normalize(key)
           s == Rehash(t, k)
           r == Resize(Exhausted(t), s.na, s.nh, outcome)
           new == SetInRoom(r, k, v)
           b == CacheAfter(t, k)
           fails == Fails(s.na, s.nh, outcome)
<1>1. inst \in Instances /\ TableInv(t) /\ (t.absent => Get(t, Event) = Nothing)
  BY InvariantIs
<1>2. k \in Key
  BY <1>1, NormalizeIs
<1>3. /\ Rebuilds(t, k, v) /\ inst' = inst
      /\ fails => t' = r /\ at' = at /\ left' = left
      /\ ~fails =>
            /\ t' = [new EXCEPT !.absent = b]
            /\ IF Get(t, k) = Nothing /\ v # Nothing THEN at' = Nothing /\ left' = {}
               ELSE at' = at /\ left' = IF v = Nothing THEN left \ {k} ELSE left
  BY Zenon DEF AssignNew, Traversal
<1>4. Get(t, k) = Nothing /\ v # Nothing
  BY <1>3 DEF Rebuilds, Absent, Get
<1> HIDE DEF k
<1>5. IF fails THEN SameFields(t, r) /\ SamePlaces(t, r) /\ r.absent = t.absent
      ELSE Puts(t, new, k, v) /\ new.absent = t.absent
  BY <1>1, <1>2, <1>3, AssignNewIs
<1> HIDE DEF s, r, new
<1>6. CASE fails
  <2> HIDE DEF fails
  <2>1. /\ t' = r /\ at' = at /\ left' = left
        /\ SameFields(t, t') /\ SamePlaces(t, t') /\ t'.absent = t.absent
    BY <1>3, <1>5, <1>6
  <2>2. Invariant'
    BY <1>1, <1>3, <2>1, SameNext
  <2>3. mapping' = mapping
    BY <1>3, <2>1, MapSame
  <2> QED
    BY <2>1, <2>2, <2>3 DEF MapStep
<1>7. CASE ~fails
  <2> HIDE DEF fails
  <2>1. /\ t' = [new EXCEPT !.absent = b] /\ Puts(t, new, k, v) /\ TableInv(new)
        /\ at' = Nothing /\ left' = {}
    BY <1>3, <1>4, <1>5, <1>7 DEF Puts
  <2>2. ~b
    BY <1>4 DEF CacheAfter
  <2>3. b \in BOOLEAN
    BY <1>4 DEF CacheAfter
  <2> HIDE DEF b
  <2>4. SameFields(new, t') /\ t'.absent = b
    BY <1>1, <2>1, <2>3, CacheSet
  <2>5. Puts(t, t', k, v)
    BY <2>1, <2>4 DEF Puts, SameFields
  <2>6. Invariant'
    BY <1>2, <1>3, <1>4, <2>1, <2>2, <2>4, <2>5, PutNext
  <2>7. Map!MapNext
    BY <1>2, <1>3, <1>4, <2>1, <2>5, MapPut
  <2> QED
    BY <2>6, <2>7 DEF MapStep
<1> QED
  BY <1>6, <1>7

LEMMA SameStep ==
    ASSUME Invariant, inst' = inst, at' = at, left' = left, SameFields(t, t'),
           SamePlaces(t, t'), t'.absent = t.absent \/ (t'.absent => Get(t, Event) = Nothing)
    PROVE  Invariant' /\ MapStep
<1>1. t.absent => Get(t, Event) = Nothing
  BY InvariantIs
<1>2. Invariant'
  BY <1>1, SameNext
<1>3. mapping' = mapping
  BY MapSame
<1> QED
  BY <1>2, <1>3 DEF MapStep

LEMMA ReadStep ==
    ASSUME Invariant, NEW k, Read(k)
    PROVE  Invariant' /\ MapStep
<1>1. inst \in Instances /\ TableInv(t)
  BY InvariantIs
<1>2. t' = Touch(t, k) /\ inst' = inst /\ at' = at /\ left' = left
  BY DEF Read
<1>3. SameFields(t, t') /\ SamePlaces(t, t') /\ t'.absent = t.absent
  BY <1>1, <1>2, TouchIs
<1> QED
  BY <1>2, <1>3, SameStep

LEMMA LengthStep ==
    ASSUME Invariant, Length
    PROVE  Invariant' /\ MapStep
<1>1. inst \in Instances /\ TableInv(t)
  BY InvariantIs
<1>2. t' = GetN(t).t /\ inst' = inst /\ at' = at /\ left' = left
  BY DEF Length
<1>3. SameFields(t, t') /\ SamePlaces(t, t') /\ t'.absent = t.absent
  BY <1>1, <1>2, GetNIs DEF GoodLength
<1> QED
  BY <1>2, <1>3, SameStep

LEMMA GetMetamethodStep ==
    ASSUME Invariant, GetMetamethod
    PROVE  Invariant' /\ MapStep
<1> DEFINE b == Get(t, Event) = Nothing
<1>1. inst \in Instances /\ TableInv(t)
  BY InvariantIs
<1>2. t' = [t EXCEPT !.absent = b] /\ inst' = inst /\ at' = at /\ left' = left
  BY DEF GetMetamethod
<1>3. b \in BOOLEAN
  OBVIOUS
<1> HIDE DEF b
<1>4. SameFields(t, t') /\ SamePlaces(t, t') /\ t'.absent = b
  BY <1>1, <1>2, <1>3, CacheSet
<1>5. t'.absent => Get(t, Event) = Nothing
  BY <1>4 DEF b
<1> QED
  BY <1>2, <1>4, <1>5, SameStep

LEMMA ClearKeysStep ==
    ASSUME Invariant, ClearKeys
    PROVE  Invariant' /\ MapStep
<1>1. inst \in Instances /\ TableInv(t)
  BY InvariantIs
<1>2. /\ t' = [t EXCEPT !.node = [i \in DOMAIN @ |-> ClearKey(@[i])]]
      /\ inst' = inst /\ at' = at /\ left' = left
  BY DEF ClearKeys
<1>3. SameFields(t, t') /\ SamePlaces(t, t') /\ t'.absent = t.absent
  BY <1>1, <1>2, ClearKeysIs
<1> QED
  BY <1>2, <1>3, SameStep

LEMMA VanishStep ==
    ASSUME Invariant, NEW k \in Key, Vanish(k)
    PROVE  Invariant' /\ MapStep
<1>1. inst \in Instances /\ TableInv(t) /\ (t.absent => Get(t, Event) = Nothing)
  BY InvariantIs
<1>2. /\ Get(t, k) # Nothing /\ inst' = inst /\ at' = at /\ left' = left \ {k}
      /\ t' = LET i == Find(t, k, FALSE)
              IN  IF k \in 1..RealSize(t) THEN [t EXCEPT !.array[k] = Nothing]
                  ELSE [t EXCEPT !.node[i].val = Nothing, !.node[i].dead = k \in Collectable]
  BY DEF Vanish
<1>3. Puts(t, t', k, Nothing) /\ SamePlaces(t, t') /\ t'.absent = t.absent
  BY <1>1, <1>2, VanishIs
<1>4. Nothing \in Value \cup {Nothing}
  OBVIOUS
<1>5. Invariant'
  BY <1>1, <1>2, <1>3, <1>4, PutNext
<1>6. Map!MapNext
  BY <1>2, <1>3, <1>4, MapPut
<1> QED
  BY <1>5, <1>6 DEF MapStep

LEMMA BeginStep ==
    ASSUME Invariant, BeginTraversal
    PROVE  Invariant' /\ MapStep
<1>1. inst \in Instances /\ TableInv(t) /\ (t.absent => Get(t, Event) = Nothing)
  BY InvariantIs
<1>2. at' = Start /\ left' = Fields(t) /\ inst' = inst /\ t' = t
  BY DEF BeginTraversal
<1>3. FindIndex(t, Start) = 0 /\ ~InvalidKey(t, Start)
  BY DEF FindIndex, InvalidKey
<1>4. Ahead(t, 0) = Fields(t)
  <2>1. ASSUME NEW q \in Key, Get(t, q) # Nothing
        PROVE  FindIndex(t, q) > 0
    <3>1. PICK j \in Valued(t) : KeyAt(t, j) = q
      BY <1>1, <2>1, PositionOf
    <3>2. FindIndex(t, q) = j
      BY <1>1, <3>1, FieldAt
    <3>3. j > 0
      BY DEF Valued
    <3> QED
      BY <3>2, <3>3
  <2> QED
    BY <2>1 DEF Ahead, Fields
<1>5. Invariant'
  BY <1>1, <1>2, <1>3, <1>4, InvariantNext
<1>6. mapping' = mapping
  BY <1>1, <1>2, Reflexive, MapSame
<1>7. Fields(t) = Map!Fields
  BY DEF Fields, Map!Fields
<1>8. Map!Begin
  BY <1>2, <1>6, <1>7 DEF Map!Begin, mapping
<1> QED
  BY <1>5, <1>8 DEF MapStep, Map!MapNext

LEMMA NextFieldStep ==
    ASSUME Invariant, NextField
    PROVE  Invariant' /\ MapStep
<1> DEFINE i == FindIndex(t, at)
           js == NextPositions(t, i)
           k == KeyAt(t, CHOOSE j \in js : \A l \in js : j <= l)
<1>1. /\ inst \in Instances /\ TableInv(t) /\ (t.absent => Get(t, Event) = Nothing)
      /\ at # Nothing /\ at \in Key \cup {Start} /\ ~InvalidKey(t, at) /\ left = Ahead(t, i)
  BY InvariantIs DEF NextField
<1>2. i \in Nat
  BY <1>1, IndexIs
<1>3. /\ inst' = inst /\ t' = t
      /\ IF js = {} THEN at' = Nothing /\ left' = left
         ELSE at' = k /\ left' = IF k \in left THEN left \ {k} ELSE left \cup {k}
  BY <1>1, Zenon DEF NextField
<1>4. mapping' = mapping
  BY <1>1, <1>3, Reflexive, MapSame
<1> HIDE DEF i
<1>5. CASE js = {}
  <2>1. at' = Nothing /\ left' = left
    BY <1>3, <1>5
  <2>2. left = {}
    BY <1>1, <1>2, <1>5, AheadIs
  <2>3. Map!Finish
    BY <1>1, <1>4, <2>1, <2>2 DEF Map!Finish, mapping
  <2>4. Invariant'
    BY <1>1, <1>3, <2>1, InvariantNext
  <2> QED
    BY <2>3, <2>4 DEF MapStep, Map!MapNext
<1>6. CASE js # {}
  <2>1. /\ k \in Ahead(t, i) /\ ~InvalidKey(t, k)
        /\ Ahead(t, FindIndex(t, k)) = Ahead(t, i) \ {k}
    BY <1>1, <1>2, <1>6, NextIs
  <2>2. at' = k /\ left' = IF k \in left THEN left \ {k} ELSE left \cup {k}
    BY <1>3, <1>6
  <2> HIDE DEF k, js
  <2>3. k \in Key /\ k \in left /\ left' = left \ {k}
    BY <1>1, <2>1, <2>2 DEF Ahead
  <2>4. Invariant'
    BY <1>1, <1>3, <2>1, <2>2, <2>3, InvariantNext
  <2>5. Map!Visit(k)
    BY <1>1, <1>4, <2>2, <2>3 DEF Map!Visit, mapping
  <2> QED
    BY <2>3, <2>4, <2>5 DEF MapStep, Map!MapNext
<1> QED
  BY <1>5, <1>6

LEMMA NewTableIs ==
    ASSUME inst \in Instances
    PROVE  TableInv(NewTable) /\ \A k \in Index \cup Key : Get(NewTable, k) = Nothing
<1> DEFINE n == WithNodes(NewTable, NodeVector(0))
<1>1. /\ NewTable.array = <<>> /\ NewTable.alimit = 0 /\ NewTable.realasize = TRUE
      /\ NewTable.absent = TRUE /\ NewTable.node = [i \in {0} |-> FreeNode]
      /\ NewTable.lastfree = Dummy
  BY DEF NewTable, NodeVector
<1>2. TableTypes(NewTable)
  <2>1. 0 \in Nat /\ 1 \in Nat \ {0} /\ {0} = 0..1 - 1
    OBVIOUS
  <2>2. FreeNode \in NodeRecord
    BY FreeNodeIs
  <2>3. NewTable.node \in [{0} -> NodeRecord]
    BY <1>1, <2>2
  <2>4. NewTable.node \in [0..1 - 1 -> NodeRecord]
    BY <2>1, <2>3
  <2>5. NewTable.node \in Vectors
    BY <2>1, <2>4 DEF Vectors
  <2>6. <<>> \in Seq(Value \cup {Nothing}) /\ Dummy \in Int
    BY DEF Dummy
  <2>7. NewTable = [array |-> <<>>, alimit |-> 0, realasize |-> TRUE, absent |-> TRUE,
                    node |-> NewTable.node, lastfree |-> Dummy]
    BY DEF NewTable
  <2> DEFINE nd == NewTable.node
  <2>8. nd \in Vectors /\ TRUE \in BOOLEAN
    BY <2>5
  <2> HIDE DEF nd
  <2>9. TableTypes([array |-> <<>>, alimit |-> 0, realasize |-> TRUE, absent |-> TRUE,
                    node |-> nd, lastfree |-> Dummy])
    BY <2>1, <2>6, <2>8, TableOf
  <2> QED
    BY <2>7, <2>9, Zenon DEF nd
<1>3. n = NewTable
  BY DEF WithNodes, NewTable, NodeVector
<1>4. HashInv(NewTable) /\ Entries(NewTable.node) = {}
  <2>1. 0 \in Nat
    OBVIOUS
  <2>2. HashInv(n) /\ Entries(n.node) = {}
    BY <1>2, <2>1, NewNodes
  <2> QED
    BY <1>3, <2>2
<1>5. Len(NewTable.array) = 0
  BY <1>1
<1>6. SizeKnown(NewTable)
  BY <1>1, <1>5, SizesAssumption DEF SizeKnown
<1>7. OnePart(NewTable)
  <2>1. \A i \in DOMAIN NewTable.node : NewTable.node[i].val = Nothing
    BY <1>1 DEF FreeNode
  <2> QED
    BY <1>5, <2>1 DEF OnePart
<1>8. TableInv(NewTable)
  BY <1>4, <1>6, <1>7 DEF TableInv
<1>9. ASSUME NEW k \in Index \cup Key
      PROVE  Get(NewTable, k) = Nothing
  <2>1. k \notin 1..Len(NewTable.array)
    BY <1>5
  <2>2. \A v \in Value : Get(NewTable, k) # v
    BY <1>4, <1>8, <2>1, GetInParts
  <2> QED
    BY <1>8, <2>2, GetInParts
<1> QED
  BY <1>8, <1>9

LEMMA InitIs ==
    ASSUME Init
    PROVE  Invariant /\ mapping = [k \in Key |-> Nothing]
<1> DEFINE na == inst.asize
           nh == inst.hsize
<1>1. inst \in Instances /\ at = Nothing /\ t = Resize(NewTable, na, nh, "ok")
  BY DEF Init
<1>2. na \in Nat /\ na < MaxInteger /\ nh \in Nat /\ MaxInteger \in Nat
  <2>1. MaxInteger \in Nat \ {0} /\ na \in 0..MaxInteger - 1 /\ nh \in Nat
    BY <1>1, SizesAssumption
  <2> HIDE DEF na, nh
  <2> QED
    BY <2>1
<1>3. TableInv(NewTable) /\ \A k \in Index \cup Key : Get(NewTable, k) = Nothing
  BY <1>1, NewTableIs
<1> HIDE DEF na, nh
<1>4. ResizeFits(NewTable, na, nh, "ok", {})
  <2>1. ~Fails(na, nh, "ok")
    BY DEF Fails
  <2>2. IsFiniteSet({}) /\ {} \subseteq Key /\ Cardinality({}) <= nh
    BY <1>2, FS_EmptySet
  <2>3. \A k \in Key : Get(NewTable, k) # Nothing => k \in 1..na \/ k \in {}
    BY <1>3
  <2> QED
    BY <1>1, <1>2, <1>3, <2>1, <2>2, <2>3, ResizeIs
<1>5. TableInv(t) /\ \A k \in Index \cup Key : Get(t, k) = Nothing
  BY <1>1, <1>3, <1>4 DEF ResizeFits
<1>6. Get(t, Event) = Nothing
  BY <1>5, EventIs
<1>7. Invariant
  BY <1>1, <1>5, <1>6, InvariantIs
<1>8. mapping = [k \in Key |-> Nothing]
  BY <1>5 DEF mapping
<1> QED
  BY <1>7, <1>8

LEMMA EveryStep ==
    ASSUME Invariant, [Next]_vars
    PROVE  Invariant' /\ MapStep
<1>1. ASSUME NEW key \in inst.keys, NEW v \in Value \cup {Nothing}, Assign(key, v)
      PROVE  Invariant' /\ MapStep
  BY <1>1, AssignStep
<1>2. ASSUME NEW key \in inst.keys, NEW v \in Value \cup {Nothing}, NEW outcome \in Outcomes,
             AssignNew(key, v, outcome)
      PROVE  Invariant' /\ MapStep
  BY <1>2, AssignNewStep
<1>3. ASSUME NEW k \in inst.keys \cap Key, Read(k)
      PROVE  Invariant' /\ MapStep
  BY <1>3, ReadStep
<1>4. ASSUME NEW k \in inst.keys \cap Key, Vanish(k)
      PROVE  Invariant' /\ MapStep
  BY <1>4, VanishStep
<1>5. CASE UNCHANGED vars
  <2>1. inst' = inst /\ t' = t /\ at' = at /\ left' = left
    BY <1>5 DEF vars
  <2>2. TableInv(t)
    BY InvariantIs
  <2>3. SameFields(t, t') /\ SamePlaces(t, t')
    BY <2>1, <2>2, Reflexive
  <2> QED
    BY <2>1, <2>3, SameStep
<1> QED
  BY <1>1, <1>2, <1>3, <1>4, <1>5, LengthStep, GetMetamethodStep, ClearKeysStep, BeginStep,
     NextFieldStep DEF Next

\* Chains, free places, dead keys, the hint for the length of the array and a traversal
\* fit together after every assignment, rebuild, failed allocation and collection.
THEOREM TableInvariance == Spec => []Invariant
<1>1. Init => Invariant
  BY InitIs
<1>2. Invariant /\ [Next]_vars => Invariant'
  BY EveryStep
<1> QED
  BY <1>1, <1>2, PTL DEF Spec

\* A metamethod that the flags of a table (luaT_gettm) say is absent is absent.
THEOREM AbsentStaysTrue == Spec => []AbsentIsAbsent
<1>1. Invariant => AbsentIsAbsent
  BY DEF Invariant
<1> QED
  BY <1>1, TableInvariance, PTL

\* luaH_getn finds a border, and luaH_realasize the size of the array.
THEOREM Borders == Spec => []LengthIsBorder
<1>1. Invariant => LengthIsBorder
  <2> SUFFICES ASSUME Invariant
               PROVE  LengthIsBorder
    OBVIOUS
  <2>1. inst \in Instances /\ TableInv(t)
    BY InvariantIs
  <2>2. RealSize(t) = Len(t.array)
    BY <2>1, RealSizeIs DEF TableInv, HashInv
  <2>3. IsBorder(GetN(t).n)
    BY <2>1, GetNIs DEF GoodLength, IsBorder
  <2> QED
    BY <2>2, <2>3 DEF LengthIsBorder
<1> QED
  BY <1>1, TableInvariance, PTL

\* A table is a map from keys to values, through all that ltable.c does to it, and
\* luaH_next visits every field that stays exactly once.
THEOREM IsMap == Spec => ImplementsMap
<1>1. Init => Map!MapInit
  BY InitIs DEF Init, Map!MapInit, mapping
<1>2. Invariant /\ [Next]_vars => [Map!MapNext]_<<mapping, at, left>>
  BY EveryStep DEF MapStep
<1>3. Invariant /\ [Next]_vars => [Map!MapNext]_<<[k \in Key |-> Get(t, k)], at, left>>
  BY <1>2 DEF mapping
<1> QED
  BY <1>1, <1>3, TableInvariance, PTL DEF Spec, ImplementsMap, Map!MapSpec

-----------------------------------------------------------------------------
(* The string table.                                                       *)

LEMMA StrFinite == IsFiniteSet(Str)
<1>1. IsFiniteSet({1, 2})
  <2>1. IsFiniteSet({1})
    BY FS_Singleton
  <2>2. IsFiniteSet({1} \cup {2})
    BY <2>1, FS_AddElement
  <2>3. {1} \cup {2} = {1, 2}
    OBVIOUS
  <2> QED
    BY <2>2, <2>3
<1> QED
  BY <1>1, FS_Product, StringConstants DEF Str

LEMMA LiveFinite == \A tb : IsFiniteSet(Live(tb))
  BY StrFinite, FS_Subset DEF Live

LEMMA MemErrMsgIsStr == memerrmsg \in Str
  BY StringConstants DEF memerrmsg, Str

LEMMA Positions ==
    ASSUME NEW s \in Str, NEW size \in Nat \ {0}
    PROVE  Position(s, size) \in 0..size - 1
<1>1. Hash[s[1]] \in Nat
  BY StringConstants DEF Str
<1> QED
  BY <1>1 DEF Position

-----------------------------------------------------------------------------
(* Strings that only change their color or their place in the cache.       *)

\* A table with the same chains whose strings are the same.
LEMMA SameStrings ==
    ASSUME NEW tb, Sound(tb), NEW new \in Tables(tb.size),
           new.hash = tb.hash, new.nuse = tb.nuse,
           \A s \in Str : new.color[s] = "free" <=> tb.color[s] = "free"
    PROVE  Sound(new) /\ Live(new) = Live(tb) /\ new.size = tb.size
<1>1. new.size = tb.size
  BY DEF Tables
<1>2. Live(new) = Live(tb)
  BY DEF Live
<1> QED
  BY <1>1, <1>2 DEF Sound, Chained, NoTwins

\* What the collector leaves in the cache.
LEMMA Cleared ==
    ASSUME NEW cache \in [1..STRCACHE_M -> Str], NEW marked \in SUBSET Str, memerrmsg \in marked
    PROVE  /\ ClearCache(cache, marked) \in [1..STRCACHE_M -> Str]
           /\ \A j \in 1..STRCACHE_M : ClearCache(cache, marked)[j] \in marked
<1>1. DOMAIN cache = 1..STRCACHE_M
  OBVIOUS
<1> QED
  BY <1>1 DEF ClearCache

-----------------------------------------------------------------------------
(* Removing strings.                                                       *)

LEMMA RemoveFields ==
    ASSUME NEW size \in Nat \ {0}, NEW tb \in Tables(size), NEW gone \in SUBSET Str,
           tb.nuse - Cardinality(gone) \in Nat
    PROVE  LET new == RemoveStrings(tb, gone)
           IN  /\ new \in Tables(size)
               /\ new.hash = [i \in 0..size - 1 |->
                                tb.hash[i] \ ChainAt(gone, size, i)]
               /\ new.nuse = tb.nuse - Cardinality(gone)
               /\ new.color = [s \in Str |-> IF s \in gone THEN "free" ELSE tb.color[s]]
               /\ new.cache = tb.cache
<1> DEFINE hash == [i \in DOMAIN tb.hash |->
                       tb.hash[i] \ ChainAt(gone, tb.size, i)]
           nuse == tb.nuse - Cardinality(gone)
           color == [s \in Str |-> IF s \in gone THEN "free" ELSE tb.color[s]]
<1>1. /\ DOMAIN tb.hash = 0..size - 1 /\ tb.size = size
      /\ \A i \in 0..size - 1 : tb.hash[i] \in SUBSET Str
      /\ \A s \in Str : tb.color[s] \in {"live", "dead", "free"}
  BY DEF Tables
<1>2. RemoveStrings(tb, gone) = [tb EXCEPT !.hash = hash, !.nuse = nuse, !.color = color]
  BY DEF RemoveStrings
<1>3. hash = [i \in 0..size - 1 |-> tb.hash[i] \ ChainAt(gone, size, i)]
  BY <1>1
<1>4. hash \in [0..size - 1 -> SUBSET Str] /\ color \in [Str -> {"live", "dead", "free"}]
  BY <1>1, <1>3
<1>5. nuse \in Nat
  OBVIOUS
<1> HIDE DEF hash, color, nuse
<1>6. LET new == [tb EXCEPT !.hash = hash, !.nuse = nuse, !.color = color]
      IN  /\ new \in Tables(size) /\ new.hash = hash /\ new.nuse = nuse /\ new.color = color
          /\ new.cache = tb.cache
  BY <1>4, <1>5 DEF Tables
<1> QED
  BY <1>2, <1>3, <1>6 DEF color, nuse

\* The table stays sound when strings of it are removed.
LEMMA RemoveKeeps ==
    ASSUME NEW tb, Sound(tb), NEW gone \in SUBSET Live(tb)
    PROVE  LET new == RemoveStrings(tb, gone)
           IN  /\ Sound(new) /\ Live(new) = Live(tb) \ gone
               /\ new.size = tb.size /\ new.cache = tb.cache
               /\ \A s \in Str \ gone : new.color[s] = tb.color[s]
<1> DEFINE new == RemoveStrings(tb, gone)
           size == tb.size
<1>0. size \in Nat \ {0} /\ tb \in Tables(size) /\ gone \in SUBSET Str
  BY DEF Sound, Live
<1>a. /\ Cardinality(Live(tb) \ gone) = tb.nuse - Cardinality(gone)
      /\ Cardinality(Live(tb) \ gone) \in Nat
  <2>1. IsFiniteSet(Live(tb))
    BY LiveFinite
  <2>2. Live(tb) \cap gone = gone
    OBVIOUS
  <2>3. /\ Cardinality(Live(tb) \ gone) = Cardinality(Live(tb)) - Cardinality(Live(tb) \cap gone)
        /\ IsFiniteSet(Live(tb) \ gone)
    BY <2>1, FS_Difference
  <2> QED
    BY <2>2, <2>3, FS_CardinalityType DEF Sound
<1>1. /\ new \in Tables(size)
      /\ new.hash = [i \in 0..size - 1 |-> tb.hash[i] \ ChainAt(gone, size, i)]
      /\ new.nuse = tb.nuse - Cardinality(gone)
      /\ new.color = [s \in Str |-> IF s \in gone THEN "free" ELSE tb.color[s]]
      /\ new.cache = tb.cache
  BY <1>0, <1>a, RemoveFields
<1> HIDE DEF new
<1>2. Live(new) = Live(tb) \ gone
  BY <1>1 DEF Live
<1>s. new.size = size
  BY <1>1 DEF Tables
<1>3. Chained(new)
  <2>1. \A i \in 0..size - 1 : tb.hash[i] = ChainAt(Live(tb), size, i)
    BY DEF Sound, Chained, Spread
  <2>2. \A i \in 0..size - 1 : tb.hash[i] \ ChainAt(gone, size, i)
                               = ChainAt(Live(new), size, i)
    BY <2>1, <1>2 DEF ChainAt
  <2> QED
    BY <2>2, <1>1, <1>s DEF Chained, Spread
<1>4. NoTwins(new)
  BY <1>2 DEF NoTwins, Sound
<1>7. Sound(new)
  BY <1>0, <1>1, <1>2, <1>3, <1>4, <1>a, <1>s DEF Sound
<1> QED
  BY <1>1, <1>2, <1>7, <1>s DEF new

\* An emergency collection keeps what is held, and only that.
LEMMA FullGCKeeps ==
    ASSUME NEW tb, Sound(tb), held \cup {memerrmsg} \subseteq Live(tb)
    PROVE  LET new == FullGC(tb)
           IN  /\ Sound(new) /\ Live(new) = held \cup {memerrmsg} /\ new.size = tb.size
               /\ Alive(new, held)
<1> DEFINE marked == held \cup {memerrmsg}
           color == [s \in Str |-> IF tb.color[s] = "free" THEN tb.color[s] ELSE "live"]
           cache == ClearCache(tb.cache, marked)
           all == [tb EXCEPT !.cache = cache, !.color = color]
           new == RemoveStrings(all, Live(tb) \ marked)
<1>0. FullGC(tb) = new
  BY DEF FullGC
<1>1. marked \in SUBSET Str /\ tb \in Tables(tb.size)
  BY DEF Live, Sound
<1>2. color \in [Str -> {"live", "dead", "free"}]
  OBVIOUS
<1>3. cache \in [1..STRCACHE_M -> Str] /\ \A j \in 1..STRCACHE_M : cache[j] \in marked
  <2>1. tb.cache \in [1..STRCACHE_M -> Str]
    BY <1>1 DEF Tables
  <2>2. memerrmsg \in marked
    OBVIOUS
  <2> HIDE DEF marked
  <2> QED
    BY <2>1, <2>2, <1>1, Cleared
<1>4. \A s \in Str : color[s] = "free" <=> tb.color[s] = "free"
  OBVIOUS
<1>5. \A s \in marked : color[s] = "live"
  BY DEF Live
<1> HIDE DEF color, cache, marked
<1>6. /\ all \in Tables(tb.size) /\ all.hash = tb.hash /\ all.nuse = tb.nuse
      /\ all.color = color /\ all.cache = cache
  BY <1>1, <1>2, <1>3 DEF Tables
<1> HIDE DEF all
<1>7. Sound(all) /\ Live(all) = Live(tb) /\ all.size = tb.size
  BY <1>4, <1>6, SameStrings
<1>8. /\ Sound(new) /\ Live(new) = Live(all) \ (Live(tb) \ marked)
      /\ new.size = all.size /\ new.cache = all.cache
      /\ \A s \in Str \ (Live(tb) \ marked) : new.color[s] = all.color[s]
  <2>1. Live(tb) \ marked \in SUBSET Live(all)
    BY <1>7
  <2> QED
    BY <1>7, <2>1, RemoveKeeps
<1> HIDE DEF new
<1>9. Live(new) = marked
  BY <1>7, <1>8 DEF marked
<1>10. \A s \in marked : new.color[s] = "live"
  BY <1>1, <1>5, <1>6, <1>8
<1>11. Alive(new, held)
  BY <1>1, <1>3, <1>6, <1>8, <1>10 DEF Alive, marked
<1> QED
  BY <1>0, <1>7, <1>8, <1>9, <1>11 DEF marked

LEMMA AliveIsLive ==
    ASSUME NEW tb, NEW h, Alive(tb, h)
    PROVE  h \cup {memerrmsg} \subseteq Live(tb)
  BY MemErrMsgIsStr DEF Alive, Live

\* tryagain.
LEMMA AllocateKeeps ==
    ASSUME NEW tb, Sound(tb), Alive(tb, held), NEW answer
    PROVE  LET new == Allocate(tb, FALSE, answer)
           IN  /\ Sound(new) /\ Live(new) \subseteq Live(tb) /\ new.size = tb.size
               /\ Alive(new, held)
<1>1. CASE answer = "ok"
  BY <1>1 DEF Allocate
<1>2. CASE answer # "ok"
  <2>1. held \cup {memerrmsg} \subseteq Live(tb)
    BY AliveIsLive
  <2>2. Allocate(tb, FALSE, answer) = FullGC(tb)
    BY <1>2 DEF Allocate
  <2> QED
    BY <2>1, <2>2, FullGCKeeps
<1> QED
  BY <1>1, <1>2

-----------------------------------------------------------------------------
(* Resizing.                                                               *)

\* The chains after tablerehash: those that the new size gives.
LEMMA Rehashed ==
    ASSUME NEW vect, NEW strings, NEW osize \in Nat \ {0}, NEW nsize \in Nat \ {0},
           strings \subseteq Str, 0..osize - 1 \subseteq DOMAIN vect,
           \A i \in 0..osize - 1 : vect[i] = ChainAt(strings, osize, i)
    PROVE  TableRehash(vect, osize, nsize) =
             Spread(strings, DOMAIN vect \cup 0..nsize - 1, nsize)
<1>1. \A s \in strings : Position(s, osize) \in 0..osize - 1
  BY Positions
<1>2. UNION {vect[i] : i \in 0..osize - 1} = strings
  <2>1. ASSUME NEW s \in UNION {vect[i] : i \in 0..osize - 1}
        PROVE  s \in strings
    BY DEF ChainAt
  <2>2. ASSUME NEW s \in strings
        PROVE  s \in UNION {vect[i] : i \in 0..osize - 1}
    <3>1. s \in vect[Position(s, osize)]
      BY <1>1 DEF ChainAt, Spread
    <3> QED
      BY <1>1, <3>1
  <2> QED
    BY <2>1, <2>2
<1> QED
  BY <1>2 DEF TableRehash

LEMMA ResizedFields ==
    ASSUME NEW size, NEW tb \in Tables(size), NEW nsize \in Nat \ {0},
           NEW hash \in [0..nsize - 1 -> SUBSET Str]
    PROVE  LET new == [tb EXCEPT !.hash = hash, !.size = nsize]
           IN  /\ new \in Tables(nsize) /\ new.hash = hash /\ new.nuse = tb.nuse
               /\ new.color = tb.color /\ new.cache = tb.cache /\ new.size = nsize
  BY DEF Tables

\* A table of another size with the chains of that size.
LEMMA Resized ==
    ASSUME NEW tb, Sound(tb), NEW nsize \in Nat \ {0}
    PROVE  LET hash == Spread(Live(tb), 0..nsize - 1, nsize)
               new == [tb EXCEPT !.hash = hash, !.size = nsize]
           IN  /\ Sound(new) /\ Live(new) = Live(tb) /\ new.size = nsize
               /\ new.color = tb.color /\ new.cache = tb.cache
<1> DEFINE hash == Spread(Live(tb), 0..nsize - 1, nsize)
           new == [tb EXCEPT !.hash = hash, !.size = nsize]
<1>1. hash \in [0..nsize - 1 -> SUBSET Str]
  BY DEF Live, ChainAt, Spread
<1>2. tb \in Tables(tb.size)
  BY DEF Sound
<1> HIDE DEF hash
<1>3. /\ new \in Tables(nsize) /\ new.hash = hash /\ new.nuse = tb.nuse
      /\ new.color = tb.color /\ new.cache = tb.cache /\ new.size = nsize
  BY <1>1, <1>2 DEF Tables
<1> HIDE DEF new
<1>4. Live(new) = Live(tb)
  BY <1>3 DEF Live
<1>5. Chained(new)
  BY <1>3, <1>4 DEF Chained, hash
<1>6. NoTwins(new) /\ new.nuse = Cardinality(Live(new))
  BY <1>3, <1>4 DEF NoTwins, Sound
<1>7. Sound(new)
  BY <1>3, <1>5, <1>6 DEF Sound
<1> QED
  BY <1>3, <1>4, <1>7 DEF new, hash

LEMMA GrowKeeps ==
    ASSUME NEW tb, Sound(tb), Alive(tb, held), NEW nsize \in Nat, nsize >= tb.size, NEW answer
    PROVE  LET new == Grow(tb, nsize, answer)
           IN  Sound(new) /\ Live(new) \subseteq Live(tb) /\ Alive(new, held)
<1> DEFINE after == Allocate(tb, FALSE, answer)
           hash == Spread(Live(after), 0..nsize - 1, nsize)
           new == [after EXCEPT !.hash = hash, !.size = nsize]
<1>1. /\ Sound(after) /\ Live(after) \subseteq Live(tb) /\ after.size = tb.size
      /\ Alive(after, held)
  BY AllocateKeeps
<1> HIDE DEF after
<1>2. CASE answer = "fail"
  BY <1>1, <1>2 DEF Grow, after
<1>3. CASE answer # "fail"
  <2>1. nsize \in Nat \ {0} /\ tb.size \in Nat \ {0}
    BY DEF Sound
  <2>2. after.hash = Spread(Live(after), 0..tb.size - 1, tb.size)
    BY <1>1 DEF Sound, Chained, Spread
  <2>3. Live(after) \subseteq Str
    BY DEF Live
  <2>4. TableRehash(after.hash, tb.size, nsize) = hash
    <3>1. DOMAIN after.hash = 0..tb.size - 1
      BY <2>2 DEF Spread
    <3>2. 0..tb.size - 1 \subseteq DOMAIN after.hash
      BY <3>1
    <3>3. \A i \in 0..tb.size - 1 :
              after.hash[i] = ChainAt(Live(after), tb.size, i)
      BY <2>2 DEF Spread
    <3>4. TableRehash(after.hash, tb.size, nsize) =
             Spread(Live(after), DOMAIN after.hash \cup 0..nsize - 1, nsize)
      BY <2>1, <2>3, <3>2, <3>3, Rehashed
    <3>5. DOMAIN after.hash \cup 0..nsize - 1 = 0..nsize - 1
      BY <3>1, <2>1
    <3> QED
      BY <3>4, <3>5
  <2>5. Grow(tb, nsize, answer) = new
    <3> HIDE DEF hash
    <3>1. Grow(tb, nsize, answer) =
            [after EXCEPT !.hash = TableRehash(after.hash, tb.size, nsize), !.size = nsize]
      BY <1>3 DEF Grow, after
    <3> QED
      BY <3>1, <2>4
  <2>6. /\ Sound(new) /\ Live(new) = Live(after)
        /\ new.color = after.color /\ new.cache = after.cache
    BY <1>1, <2>1, Resized
  <2> HIDE DEF new
  <2>7. Alive(new, held)
    BY <1>1, <2>6 DEF Alive
  <2> QED
    BY <1>1, <2>5, <2>6, <2>7
<1> QED
  BY <1>2, <1>3

\* luaS_resize in a step of the collector, where nothing is collected.
LEMMA ShrinkKeeps ==
    ASSUME NEW tb, Sound(tb), NEW nsize \in Nat \ {0}, nsize <= tb.size, NEW answer
    PROVE  LET new == Shrink(tb, nsize, TRUE, answer)
           IN  Sound(new) /\ new.color = tb.color /\ new.cache = tb.cache
<1> DEFINE osize == tb.size
           spread == Spread(Live(tb), 0..osize - 1, nsize)
           moved == [tb EXCEPT !.hash = spread]
<1>1. osize \in Nat \ {0} /\ tb \in Tables(osize) /\ Live(tb) \subseteq Str
  BY DEF Sound, Live
<1>2. tb.hash = Spread(Live(tb), 0..osize - 1, osize)
  BY DEF Sound, Chained, Spread
<1>3. TableRehash(tb.hash, osize, nsize) = spread
  <2>1. DOMAIN tb.hash = 0..osize - 1
    BY <1>2 DEF Spread
  <2>2. \A i \in 0..osize - 1 : tb.hash[i] = ChainAt(Live(tb), osize, i)
    BY <1>2 DEF Spread
  <2>3. TableRehash(tb.hash, osize, nsize) =
           Spread(Live(tb), DOMAIN tb.hash \cup 0..nsize - 1, nsize)
    BY <1>1, <2>1, <2>2, Rehashed
  <2>4. DOMAIN tb.hash \cup 0..nsize - 1 = 0..osize - 1
    BY <2>1, <1>1
  <2> QED
    BY <2>3, <2>4
<1>4. TableRehash(spread, nsize, osize) = tb.hash
  <2>1. DOMAIN spread = 0..osize - 1 /\ 0..nsize - 1 \subseteq DOMAIN spread
    BY <1>1 DEF Spread
  <2>2. \A i \in 0..nsize - 1 : spread[i] = ChainAt(Live(tb), nsize, i)
    BY <2>1 DEF Spread
  <2> HIDE DEF spread
  <2>3. TableRehash(spread, nsize, osize) =
           Spread(Live(tb), DOMAIN spread \cup 0..osize - 1, osize)
    BY <1>1, <2>1, <2>2, Rehashed
  <2>4. DOMAIN spread \cup 0..osize - 1 = 0..osize - 1
    BY <2>1
  <2> QED
    BY <2>3, <2>4, <1>2
<1>5. FirstChains(spread, nsize) =
         Spread(Live(tb), 0..nsize - 1, nsize)
  <2>1. \A i \in 0..nsize - 1 : spread[i] = ChainAt(Live(tb), nsize, i)
    BY <1>1 DEF Spread
  <2> HIDE DEF spread
  <2> QED
    BY <2>1 DEF FirstChains, Spread
<1>6. spread \in [0..osize - 1 -> SUBSET Str]
  BY <1>1 DEF ChainAt, Spread
<1> HIDE DEF spread
<1>7. moved.hash = spread /\ Allocate(moved, TRUE, answer) = moved
  BY <1>1 DEF Allocate, Tables
<1>8. Shrink(tb, nsize, TRUE, answer) =
        IF answer = "fail" THEN [moved EXCEPT !.hash = TableRehash(spread, nsize, osize)]
        ELSE [moved EXCEPT !.hash = FirstChains(spread, nsize), !.size = nsize]
  BY <1>3, <1>7 DEF Shrink
<1>9. CASE answer = "fail"
  <2>1. [moved EXCEPT !.hash = tb.hash] \in Tables(osize)
    BY <1>1, <1>6 DEF Tables
  <2>2. LET new == [moved EXCEPT !.hash = tb.hash]
        IN  /\ new.hash = tb.hash /\ new.nuse = tb.nuse /\ new.color = tb.color
            /\ new.cache = tb.cache
    BY <1>1, <1>6 DEF Tables
  <2>3. Shrink(tb, nsize, TRUE, answer) = [moved EXCEPT !.hash = tb.hash]
    BY <1>4, <1>8, <1>9
  <2> DEFINE new == Shrink(tb, nsize, TRUE, answer)
  <2>4. /\ new \in Tables(osize) /\ new.hash = tb.hash /\ new.nuse = tb.nuse
        /\ new.color = tb.color /\ new.cache = tb.cache
    BY <2>1, <2>2, <2>3
  <2> HIDE DEF new
  <2>5. \A s \in Str : new.color[s] = "free" <=> tb.color[s] = "free"
    BY <2>4
  <2>6. Sound(new)
    BY <2>4, <2>5, SameStrings
  <2> QED
    BY <2>4, <2>6 DEF new
<1>10. CASE answer # "fail"
  <2> DEFINE hash == Spread(Live(tb), 0..nsize - 1, nsize)
             new == [tb EXCEPT !.hash = hash, !.size = nsize]
  <2>1. /\ Sound(new) /\ Live(new) = Live(tb)
        /\ new.color = tb.color /\ new.cache = tb.cache
    BY Resized
  <2> HIDE DEF hash
  <2>2. [moved EXCEPT !.hash = hash, !.size = nsize] = new
    OBVIOUS
  <2>3. Shrink(tb, nsize, TRUE, answer) = new
    BY <1>5, <1>8, <1>10, <2>2 DEF hash
  <2> QED
    BY <2>1, <2>3
<1> QED
  BY <1>9, <1>10

-----------------------------------------------------------------------------
(* Interning.                                                              *)

\* A search finds the strings with that content.
LEMMA MatchesAre ==
    ASSUME NEW tb, Sound(tb), NEW c \in Content
    PROVE  Matches(tb, c) = {s \in Live(tb) : s[1] = c}
<1> DEFINE i == Hash[c] % tb.size
<1>1. i \in 0..tb.size - 1
  BY StringConstants DEF Sound
<1>2. tb.hash[i] = ChainAt(Live(tb), tb.size, i)
  BY <1>1 DEF Sound, Chained, Spread
<1>3. \A s \in Live(tb) : s[1] = c => Position(s, tb.size) = i
  BY DEF Position
<1> HIDE DEF i
<1>4. {s \in tb.hash[i] : s[1] = c} = {s \in Live(tb) : s[1] = c}
  BY <1>2, <1>3 DEF ChainAt
<1> QED
  BY <1>4 DEF Matches, i

LEMMA LinkKeeps ==
    ASSUME NEW tb, Sound(tb), NEW s \in Str, \A r \in Live(tb) : r[1] # s[1]
    PROVE  LET new == LinkString(tb, s)
           IN  /\ Sound(new) /\ Live(new) = Live(tb) \cup {s} /\ new.cache = tb.cache
               /\ new.color = [tb.color EXCEPT ![s] = "live"]
<1> DEFINE size == tb.size
           i == Position(s, size)
           new == LinkString(tb, s)
<1>1. size \in Nat \ {0} /\ tb \in Tables(size) /\ i \in 0..size - 1
  BY Positions DEF Sound
<1> DEFINE hash == [tb.hash EXCEPT ![i] = tb.hash[i] \cup {s}]
           color == [tb.color EXCEPT ![s] = "live"]
<1>a. /\ tb.hash \in [0..size - 1 -> SUBSET Str] /\ tb.nuse + 1 \in Nat
      /\ tb.color \in [Str -> {"live", "dead", "free"}]
  BY <1>1 DEF Tables
<1>b. hash \in [0..size - 1 -> SUBSET Str] /\ color \in [Str -> {"live", "dead", "free"}]
  BY <1>1, <1>a
<1>c. new = [tb EXCEPT !.hash = hash, !.nuse = tb.nuse + 1, !.color = color]
  BY DEF LinkString
<1> HIDE DEF hash, color
<1>2. /\ new \in Tables(size) /\ new.size = size /\ new.hash = hash /\ new.nuse = tb.nuse + 1
      /\ new.color = color /\ new.cache = tb.cache
  BY <1>1, <1>a, <1>b, <1>c DEF Tables
<1> USE DEF hash, color
<1>3. tb.color \in [Str -> {"live", "dead", "free"}]
  BY <1>1 DEF Tables
<1> HIDE DEF new
<1>4. Live(new) = Live(tb) \cup {s}
  BY <1>2, <1>3 DEF Live
<1>5. Chained(new)
  <2>1. \A j \in 0..size - 1 : tb.hash[j] = ChainAt(Live(tb), size, j)
    BY DEF Sound, Chained, Spread
  <2>2. DOMAIN tb.hash = 0..size - 1
    BY <1>1 DEF Tables
  <2>3. \A j \in 0..size - 1 : new.hash[j] = ChainAt(Live(new), size, j)
    BY <2>1, <2>2, <1>1, <1>2, <1>4 DEF ChainAt
  <2>4. DOMAIN new.hash = 0..size - 1
    BY <2>2, <1>2
  <2>5. new.hash = [j \in 0..size - 1 |-> new.hash[j]]
    BY <2>4, <1>2 DEF Tables
  <2> QED
    BY <2>3, <2>5, <1>2 DEF Chained, Spread
<1>6. NoTwins(new)
  BY <1>4 DEF NoTwins, Sound
<1>7. new.nuse = Cardinality(Live(new))
  <2>1. s \notin Live(tb)
    OBVIOUS
  <2>2. Cardinality(Live(tb) \cup {s}) = Cardinality(Live(tb)) + 1
    BY <2>1, LiveFinite, FS_AddElement
  <2> QED
    BY <2>2, <1>2, <1>4 DEF Sound
<1>8. Sound(new)
  BY <1>1, <1>2, <1>5, <1>6, <1>7 DEF Sound
<1> QED
  BY <1>2, <1>4, <1>8 DEF new

LEMMA CreateKeeps ==
    ASSUME NEW tb, Sound(tb), Alive(tb, held), NEW c \in Content, NEW g, NEW o,
           \A s \in Live(tb) : s[1] # c
    PROVE  LET new == Create(tb, c, g, o)
               str == {s \in Live(new) : s[1] = c /\ o # "fail"}
           IN  Sound(new) /\ Alive(new, held \cup str)
<1> DEFINE room == IF NeedsRoom(tb) THEN Grow(tb, 2 * tb.size, g) ELSE tb
           after == Allocate(room, FALSE, o)
           str(new) == {s \in Live(new) : s[1] = c /\ o # "fail"}
<1>1. Sound(room) /\ Live(room) \subseteq Live(tb) /\ Alive(room, held)
  <2>1. tb.size \in Nat /\ 2 * tb.size \in Nat /\ 2 * tb.size >= tb.size
    BY DEF Sound
  <2>2. LET new == Grow(tb, 2 * tb.size, g)
        IN  Sound(new) /\ Live(new) \subseteq Live(tb) /\ Alive(new, held)
    BY <2>1, GrowKeeps
  <2> QED
    BY <2>2
<1> HIDE DEF room
<1>2. Sound(after) /\ Live(after) \subseteq Live(room) /\ Alive(after, held)
  BY <1>1, AllocateKeeps
<1>3. \A s \in Live(after) : s[1] # c
  BY <1>1, <1>2
<1>4. Create(tb, c, g, o) = IF o = "fail" \/ Unused(after, c) = {} THEN after
                            ELSE LinkString(after, CHOOSE s \in Unused(after, c) : TRUE)
  BY DEF Create, room
<1> HIDE DEF after
<1>5. CASE o = "fail" \/ Unused(after, c) = {}
  <2>1. Create(tb, c, g, o) = after
    BY <1>4, <1>5
  <2>2. str(after) = {}
    BY <1>3
  <2> QED
    BY <2>1, <2>2, <1>2
<1>6. CASE ~(o = "fail" \/ Unused(after, c) = {})
  <2> DEFINE s == CHOOSE s \in Unused(after, c) : TRUE
             new == LinkString(after, s)
  <2>1. s \in Unused(after, c)
    BY <1>6
  <2> HIDE DEF s
  <2>2. s \in Str /\ s[1] = c
    BY <2>1 DEF Unused, Str
  <2>3. \A r \in Live(after) : r[1] # s[1]
    BY <2>2, <1>3
  <2>4. /\ Sound(new) /\ Live(new) = Live(after) \cup {s} /\ new.cache = after.cache
        /\ new.color = [after.color EXCEPT ![s] = "live"]
    BY <2>2, <2>3, <1>2, LinkKeeps
  <2>5. Create(tb, c, g, o) = new
    BY <1>4, <1>6 DEF s
  <2> HIDE DEF new
  <2>6. str(new) = {s}
    BY <2>2, <2>4, <1>3, <1>6
  <2>7. after \in Tables(after.size)
    BY <1>2 DEF Sound
  <2>8. Alive(new, held \cup {s})
    BY <2>2, <2>4, <2>7, <1>2, MemErrMsgIsStr DEF Alive, Tables
  <2> QED
    BY <2>4, <2>5, <2>6, <2>8
<1> QED
  BY <1>5, <1>6

LEMMA ResurrectKeeps ==
    ASSUME NEW tb, Sound(tb), Alive(tb, held), NEW s \in Live(tb)
    PROVE  Sound(Resurrect(tb, s)) /\ Alive(Resurrect(tb, s), held \cup {s})
<1> DEFINE color == [tb.color EXCEPT ![s] = IF @ = "dead" THEN "live" ELSE @]
           new == Resurrect(tb, s)
<1>1. tb \in Tables(tb.size) /\ s \in Str /\ tb.color[s] # "free"
  BY DEF Sound, Live
<1>2. /\ tb.color \in [Str -> {"live", "dead", "free"}]
      /\ tb.cache \in [1..STRCACHE_M -> Str]
  BY <1>1 DEF Tables
<1>3. color \in [Str -> {"live", "dead", "free"}] /\ color[s] = "live"
      /\ \A r \in Str \ {s} : color[r] = tb.color[r]
  BY <1>1, <1>2
<1>4. new = [tb EXCEPT !.color = color]
  BY DEF Resurrect
<1> HIDE DEF color
<1>5. /\ new \in Tables(tb.size) /\ new.hash = tb.hash /\ new.nuse = tb.nuse
      /\ new.color = color /\ new.cache = tb.cache
  BY <1>1, <1>3, <1>4 DEF Tables
<1> HIDE DEF new
<1>6. \A r \in Str : new.color[r] = "free" <=> tb.color[r] = "free"
  BY <1>1, <1>3, <1>5
<1>7. Sound(new)
  BY <1>5, <1>6, SameStrings
<1>8. Alive(new, held \cup {s})
  BY <1>1, <1>2, <1>3, <1>5, MemErrMsgIsStr DEF Alive
<1> QED
  BY <1>7, <1>8 DEF new

LEMMA InternKeeps ==
    ASSUME NEW tb, Sound(tb), Alive(tb, held), NEW c \in Content, NEW g, NEW o
    PROVE  LET r == Intern(tb, c, g, o)
           IN  /\ Sound(r.tb) /\ Alive(r.tb, held \cup r.str) /\ r.cycle \in BOOLEAN
<1> DEFINE r == Intern(tb, c, g, o)
<1>1. Matches(tb, c) = {s \in Live(tb) : s[1] = c}
  BY MatchesAre
<1>2. CASE Matches(tb, c) # {}
  <2> DEFINE s == CHOOSE s \in Matches(tb, c) : TRUE
  <2>1. s \in Live(tb)
    BY <1>1, <1>2
  <2>2. r.tb = Resurrect(tb, s) /\ r.str = {s} /\ r.cycle = FALSE
    BY <1>2 DEF Intern
  <2> HIDE DEF s, r
  <2> QED
    BY <2>1, <2>2, ResurrectKeeps DEF r
<1>3. CASE Matches(tb, c) = {}
  <2> DEFINE new == Create(tb, c, g, o)
             str == {s \in Live(new) : s[1] = c /\ o # "fail"}
  <2>1. \A s \in Live(tb) : s[1] # c
    BY <1>1, <1>3
  <2>2. Sound(new) /\ Alive(new, held \cup str)
    BY <2>1, CreateKeeps
  <2>3. /\ r.tb = new /\ r.str = str
        /\ r.cycle = (Collected(FALSE, o) \/ (NeedsRoom(tb) /\ Collected(FALSE, g)))
    BY <1>3 DEF Intern
  <2>4. r.cycle \in BOOLEAN
    BY <2>3 DEF Collected
  <2> HIDE DEF new, str, r
  <2> QED
    BY <2>2, <2>3, <2>4 DEF r
<1> QED
  BY <1>2, <1>3

-----------------------------------------------------------------------------
(* The steps.                                                              *)

LEMMA InitKeeps == StringInit => StringInv
<1> DEFINE empty == [hash |-> [i \in 0..MINSTRTABSIZE - 1 |-> {}], size |-> MINSTRTABSIZE,
                     nuse |-> 0, color |-> [s \in Str |-> "free"],
                     cache |-> [j \in 1..STRCACHE_M |-> memerrmsg]]
<1>1. Sound(empty)
  <2>1. empty \in Tables(MINSTRTABSIZE) /\ empty.size \in Nat \ {0}
    BY StringConstants, MemErrMsgIsStr DEF Tables
  <2>2. Live(empty) = {}
    BY DEF Live
  <2>3. Chained(empty)
    BY <2>2 DEF Chained, Spread, ChainAt
  <2>4. NoTwins(empty) /\ empty.nuse = Cardinality(Live(empty))
    BY <2>2, FS_EmptySet DEF NoTwins
  <2> QED
    BY <2>1, <2>3, <2>4 DEF Sound
<1>2. Live(empty) = {} /\ empty.cache = [j \in 1..STRCACHE_M |-> memerrmsg]
      /\ empty.color = [s \in Str |-> "free"]
  BY DEF Live
<1> DEFINE new == LinkString(empty, memerrmsg)
<1> HIDE DEF empty
<1>3. /\ Sound(new) /\ new.cache = empty.cache
      /\ new.color = [empty.color EXCEPT ![memerrmsg] = "live"]
  BY <1>1, <1>2, MemErrMsgIsStr, LinkKeeps
<1> HIDE DEF new
<1>4. Alive(new, {})
  BY <1>2, <1>3, MemErrMsgIsStr DEF Alive
<1> QED
  BY <1>3, <1>4 DEF StringInit, StringInv, empty, new

\* The invariant of the next state.
LEMMA StepIs ==
    ASSUME Sound(strt'), Alive(strt', held'), sweeping' \in BOOLEAN
    PROVE  StringInv'
<1>1. Sound(strt)'
  BY DEF Sound, Tables, Chained, NoTwins, Live, Spread, ChainAt, Position
<1>2. Alive(strt, held)'
  BY DEF Alive
<1> QED
  BY <1>1, <1>2 DEF StringInv

LEMMA NewLStrKeeps ==
    ASSUME StringInv, NEW c \in Content, NewLStr(c)
    PROVE  StringInv'
<1>1. PICK o \in AnswersIf(Creates(c)), g \in AnswersIf(Creates(c) /\ NeedsRoom(strt)) :
          LET r == Intern(strt, c, g, o) IN
          /\ strt' = r.tb /\ held' = held \cup r.str
          /\ sweeping' = (sweeping /\ ~r.cycle)
  BY DEF NewLStr
<1> DEFINE r == Intern(strt, c, g, o)
<1>2. Sound(r.tb) /\ Alive(r.tb, held \cup r.str) /\ r.cycle \in BOOLEAN
  BY InternKeeps DEF StringInv
<1>3. strt' = r.tb /\ held' = held \cup r.str /\ sweeping' = (sweeping /\ ~r.cycle)
  BY <1>1
<1> HIDE DEF r
<1>4. Sound(strt') /\ Alive(strt', held') /\ sweeping' \in BOOLEAN
  BY <1>2, <1>3
<1> QED
  BY <1>4, StepIs

\* The entries of the cache move.
LEMMA CacheKeeps ==
    ASSUME NEW tb, NEW h, Sound(tb), Alive(tb, h), NEW cache \in [1..STRCACHE_M -> Str],
           \A j \in 1..STRCACHE_M : \E k \in 1..STRCACHE_M : cache[j] = tb.cache[k]
    PROVE  LET new == [tb EXCEPT !.cache = cache]
           IN  Sound(new) /\ Alive(new, h) /\ new.cache = cache
<1> DEFINE new == [tb EXCEPT !.cache = cache]
<1>1. /\ new \in Tables(tb.size) /\ new.hash = tb.hash /\ new.nuse = tb.nuse
      /\ new.color = tb.color /\ new.cache = cache
  BY DEF Sound, Tables
<1> HIDE DEF new
<1>2. \A s \in Str : new.color[s] = "free" <=> tb.color[s] = "free"
  BY <1>1
<1>3. Sound(new)
  BY <1>1, <1>2, SameStrings
<1>4. Alive(new, h)
  BY <1>1 DEF Alive
<1> QED
  BY <1>1, <1>3, <1>4 DEF new

\* luaS_new notes in its cache a string that the program gets.
LEMMA NoteKeeps ==
    ASSUME NEW tb, NEW h, NEW s, NEW new, Sound(tb), Alive(tb, h), s \in h,
           new = [tb EXCEPT !.cache[1] = s]
    PROVE  Sound(new) /\ Alive(new, h)
<1>1. s \in Str /\ tb \in Tables(tb.size)
  BY DEF Sound, Alive
<1>2. /\ new \in Tables(tb.size) /\ new.hash = tb.hash /\ new.nuse = tb.nuse
      /\ new.color = tb.color /\ new.size = tb.size
      /\ \A j \in 1..STRCACHE_M : new.cache[j] = s \/ new.cache[j] = tb.cache[j]
  BY <1>1 DEF Tables
<1>3. \A r \in Str : new.color[r] = "free" <=> tb.color[r] = "free"
  BY <1>2
<1>4. Sound(new)
  BY <1>2, <1>3, SameStrings
<1>5. Alive(new, h)
  BY <1>2 DEF Alive
<1> QED
  BY <1>4, <1>5

LEMMA NewStringKeeps ==
    ASSUME StringInv, NEW c \in Content, NewString(c)
    PROVE  StringInv'
<1>0. Sound(strt) /\ Alive(strt, held) /\ sweeping \in BOOLEAN
  BY DEF StringInv
<1>c. strt.cache \in [1..STRCACHE_M -> Str]
  BY <1>0 DEF Sound, Tables
<1>1. CASE Hits(c) # {}
  <2>1. PICK j \in Hits(c) : held' = held \cup {strt.cache[j]} /\ UNCHANGED <<strt, sweeping>>
    BY <1>1 DEF NewString
  <2>2. strt.cache[j] \in Str /\ strt.color[strt.cache[j]] = "live"
    BY <1>0, <1>c DEF Hits, Alive
  <2>3. Alive(strt, held')
    BY <2>1, <2>2, <1>0 DEF Alive
  <2> QED
    BY <2>1, <2>3, <1>0, StepIs
<1>2. CASE Hits(c) = {}
  <2> DEFINE shifted == [strt EXCEPT !.cache = Shifted(strt.cache)]
             cache == Shifted(strt.cache)
  <2>1. PICK o \in AnswersIf(Creates(c)), g \in AnswersIf(Creates(c) /\ NeedsRoom(strt)) :
          LET r == Intern(shifted, c, g, o) IN
          /\ strt' = IF r.str = {} THEN r.tb
                     ELSE [r.tb EXCEPT !.cache[1] = CHOOSE s \in r.str : TRUE]
          /\ held' = held \cup r.str
          /\ sweeping' = (sweeping /\ ~r.cycle)
    BY <1>2 DEF NewString
  <2> DEFINE r == Intern(shifted, c, g, o)
             s == CHOOSE s \in r.str : TRUE
  <2>2. /\ strt' = IF r.str = {} THEN r.tb ELSE [r.tb EXCEPT !.cache[1] = s]
        /\ held' = held \cup r.str /\ sweeping' = (sweeping /\ ~r.cycle)
    BY <2>1
  <2>3. /\ cache \in [1..STRCACHE_M -> Str]
        /\ \A j \in 1..STRCACHE_M : \E k \in 1..STRCACHE_M : cache[j] = strt.cache[k]
    <3>1. \A j \in 1..STRCACHE_M : (IF j = 1 THEN 1 ELSE j - 1) \in 1..STRCACHE_M
      BY StringConstants
    <3> QED
      BY <1>c, <3>1 DEF Shifted
  <2>4. Sound(shifted) /\ Alive(shifted, held)
    <3> HIDE DEF cache
    <3>1. LET new == [strt EXCEPT !.cache = cache]
          IN  Sound(new) /\ Alive(new, held) /\ new.cache = cache
      BY <2>3, <1>0, CacheKeeps
    <3> QED
      BY <3>1 DEF cache
  <2> HIDE DEF shifted, cache
  <2>5. Sound(r.tb) /\ Alive(r.tb, held \cup r.str) /\ r.cycle \in BOOLEAN
    BY <2>4, InternKeeps
  <2> HIDE DEF r
  <2>6. Sound(strt') /\ Alive(strt', held \cup r.str)
    <3>1. CASE r.str = {}
      BY <3>1, <2>2, <2>5
    <3>2. CASE r.str # {}
      <4>1. s \in r.str
        BY <3>2
      <4> HIDE DEF s
      <4>2. strt' = [r.tb EXCEPT !.cache[1] = s] /\ s \in held \cup r.str
        BY <2>2, <3>2, <4>1
      <4> DEFINE made == r.tb
                 holds == held \cup r.str
      <4>3. /\ Sound(made) /\ Alive(made, holds) /\ s \in holds
            /\ strt' = [made EXCEPT !.cache[1] = s]
        BY <4>2, <2>5
      <4> HIDE DEF made, holds
      <4>4. Sound(strt') /\ Alive(strt', holds)
        BY <4>3, NoteKeeps
      <4> QED
        BY <4>4 DEF holds
    <3> QED
      BY <3>1, <3>2
  <2>7. sweeping' \in BOOLEAN /\ Alive(strt', held')
    BY <2>2, <2>5, <2>6, <1>0
  <2> QED
    BY <2>6, <2>7, StepIs
<1> QED
  BY <1>1, <1>2

LEMMA ForgetKeeps ==
    ASSUME StringInv, NEW s \in held, Forget(s)
    PROVE  StringInv'
<1>1. Sound(strt) /\ Alive(strt, held) /\ sweeping \in BOOLEAN
  BY DEF StringInv
<1>2. strt' = strt /\ sweeping' = sweeping /\ held' \subseteq held
  BY DEF Forget
<1>3. Alive(strt, held')
  BY <1>1, <1>2 DEF Alive
<1> QED
  BY <1>1, <1>2, <1>3, StepIs

LEMMA AtomicKeeps ==
    ASSUME StringInv, Atomic
    PROVE  StringInv'
<1>0. /\ Sound(strt) /\ Alive(strt, held) /\ strt \in Tables(strt.size)
      /\ strt.cache \in [1..STRCACHE_M -> Str]
      /\ strt.color \in [Str -> {"live", "dead", "free"}]
  BY DEF StringInv, Sound, Tables
<1>1. PICK floating \in SUBSET (Live(strt) \ held) :
          LET marked == held \cup floating \cup {memerrmsg}
          IN  strt' = [strt EXCEPT
                  !.cache = ClearCache(@, marked),
                  !.color = [s \in Str |-> IF @[s] = "free" THEN "free"
                                           ELSE IF s \in marked THEN "live" ELSE "dead"]]
  BY DEF Atomic
<1> DEFINE marked == held \cup floating \cup {memerrmsg}
           cache == ClearCache(strt.cache, marked)
           color == [s \in Str |-> IF strt.color[s] = "free" THEN "free"
                                   ELSE IF s \in marked THEN "live" ELSE "dead"]
<1>2. strt' = [strt EXCEPT !.cache = cache, !.color = color]
  BY <1>1
<1>3. held \cup {memerrmsg} \subseteq Live(strt)
  BY <1>0, AliveIsLive
<1>4. /\ marked \in SUBSET Str /\ memerrmsg \in marked /\ marked \subseteq Live(strt)
      /\ held \subseteq marked
  BY <1>3 DEF Live
<1>5. color \in [Str -> {"live", "dead", "free"}]
  OBVIOUS
<1>6. /\ \A s \in marked : color[s] = "live"
      /\ \A s \in Str : color[s] = "free" <=> strt.color[s] = "free"
  BY <1>4 DEF Live
<1> HIDE DEF marked, color
<1>7. cache \in [1..STRCACHE_M -> Str] /\ \A j \in 1..STRCACHE_M : cache[j] \in marked
  BY <1>0, <1>4, Cleared
<1> HIDE DEF cache
<1>8. /\ strt' \in Tables(strt.size) /\ strt'.hash = strt.hash /\ strt'.nuse = strt.nuse
      /\ strt'.color = color /\ strt'.cache = cache
  BY <1>0, <1>2, <1>5, <1>7 DEF Tables
<1>9. Sound(strt')
  BY <1>0, <1>6, <1>8, SameStrings
<1>10. Alive(strt', held)
  BY <1>0, <1>4, <1>6, <1>7, <1>8 DEF Alive
<1>11. held' = held /\ sweeping' \in BOOLEAN
  BY DEF Atomic
<1> QED
  BY <1>9, <1>10, <1>11, StepIs

LEMMA SweepKeeps ==
    ASSUME StringInv, NEW s \in Str, Sweep(s)
    PROVE  StringInv'
<1>1. /\ Sound(strt) /\ Alive(strt, held) /\ sweeping \in BOOLEAN
      /\ strt.color[s] = "dead" /\ strt' = RemoveStrings(strt, {s})
      /\ held' = held /\ sweeping' = sweeping
  BY DEF StringInv, Sweep
<1>2. {s} \in SUBSET Live(strt)
  BY <1>1 DEF Live
<1>3. /\ Sound(strt') /\ strt'.cache = strt.cache
      /\ \A r \in Str \ {s} : strt'.color[r] = strt.color[r]
  BY <1>1, <1>2, RemoveKeeps
<1>4. strt.cache \in [1..STRCACHE_M -> Str]
  BY <1>1 DEF Sound, Tables
<1>5. Alive(strt', held)
  BY <1>1, <1>3, <1>4, MemErrMsgIsStr DEF Alive
<1> QED
  BY <1>1, <1>3, <1>5, StepIs

LEMMA CheckSizesKeeps ==
    ASSUME StringInv, CheckSizes
    PROVE  StringInv'
<1>1. /\ Sound(strt) /\ Alive(strt, held) /\ held' = held /\ sweeping' \in BOOLEAN
      /\ strt.size \in Nat /\ strt.nuse \in Nat
  BY DEF StringInv, CheckSizes, Sound, Tables
<1>2. CASE strt.nuse < strt.size \div 4
  <2>1. PICK answer \in Answers : strt' = Shrink(strt, strt.size \div 2, TRUE, answer)
    BY <1>2 DEF CheckSizes
  <2>2. strt.size \div 2 \in Nat \ {0} /\ strt.size \div 2 <= strt.size
    BY <1>1, <1>2
  <2>3. Sound(strt') /\ strt'.color = strt.color /\ strt'.cache = strt.cache
    BY <2>1, <2>2, <1>1, ShrinkKeeps
  <2>4. Alive(strt', held)
    BY <2>3, <1>1 DEF Alive
  <2> QED
    BY <2>3, <2>4, <1>1, StepIs
<1>3. CASE ~(strt.nuse < strt.size \div 4)
  <2>1. strt' = strt
    BY <1>3 DEF CheckSizes
  <2> QED
    BY <2>1, <1>1, StepIs
<1> QED
  BY <1>2, <1>3

\* For any set of contents, any hash function and any sizes, the chains of the string
\* table are those that the hash gives and hold each content once, through every resize,
\* failed allocation, emergency collection and sweep.
THEOREM StringInvariance == StringSpec => []StringInv
<1>1. StringInv /\ [StringNext]_stringVars => StringInv'
  <2> SUFFICES ASSUME StringInv, [StringNext]_stringVars
               PROVE  StringInv'
    OBVIOUS
  <2>1. CASE \E c \in Content : NewLStr(c)
    BY <2>1, NewLStrKeeps
  <2>2. CASE \E c \in Literals : NewString(c)
    BY <2>2, NewStringKeeps, StringConstants
  <2>3. CASE \E s \in held : Forget(s)
    BY <2>3, ForgetKeeps
  <2>4. CASE \E s \in Str : Sweep(s)
    BY <2>4, SweepKeeps
  <2>5. CASE Atomic
    BY <2>5, AtomicKeeps
  <2>6. CASE CheckSizes
    BY <2>6, CheckSizesKeeps
  <2>7. CASE UNCHANGED stringVars
    <3>1. strt' = strt /\ held' = held /\ sweeping' = sweeping
      BY <2>7 DEF stringVars
    <3> QED
      BY <3>1, StepIs DEF StringInv
  <2> QED
    BY <2>1, <2>2, <2>3, <2>4, <2>5, <2>6, <2>7 DEF StringNext
<1> QED
  BY <1>1, InitKeeps, PTL DEF StringSpec

\* Equal short strings are the same object: the program may compare pointers, and
\* nothing that it or the cache of luaS_new refers to has been freed.
THEOREM Interned == StringSpec => []StringsInterned
<1>1. StringInv => StringsInterned
  <2> SUFFICES ASSUME StringInv
               PROVE  StringsInterned
    OBVIOUS
  <2>0. Sound(strt) /\ Alive(strt, held)
    BY DEF StringInv
  <2>1. ASSUME NEW s \in Live(strt)
        PROVE  Matches(strt, s[1]) = {s}
    <3>1. s[1] \in Content
      BY DEF Live, Str
    <3>2. Matches(strt, s[1]) = {r \in Live(strt) : r[1] = s[1]}
      BY <2>0, <3>1, MatchesAre
    <3> QED
      BY <2>0, <3>2 DEF Sound, NoTwins
  <2>2. strt.nuse = Cardinality(Live(strt))
    BY <2>0 DEF Sound
  <2>3. \A i \in DOMAIN strt.hash : strt.hash[i] \subseteq Live(strt)
    BY <2>0 DEF Sound, Chained, Spread, ChainAt
  <2>4. CacheLives
    BY <2>0 DEF CacheLives, Alive
  <2> QED
    BY <2>1, <2>2, <2>3, <2>4 DEF StringsInterned
<1> QED
  BY <1>1, StringInvariance, PTL

=============================================================================
