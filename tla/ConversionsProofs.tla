------------------------- MODULE ConversionsProofs --------------------------
(***************************************************************************)
(* Proofs about Conversions for any types with any numbers: every node     *)
(* lists each conversion from its type once, cheapest first, and a look-up *)
(* never finds a wrong one.                                                *)
(*                                                                         *)
(* Conversions from one type have a strict total order, because no two of  *)
(* them cost the same.  So a list in order is one by strict comparisons,   *)
(* inserting keeps it one, and repeated insertion shows that there is a    *)
(* sorted list for sort() to return.                                       *)
(***************************************************************************)
EXTENDS Conversions, DataFacts

\* What the code has by its types.
IdsFit == ConcIds \subseteq Int

\* The conversions from f to the types of T.
Towards(f, T) == {Conversion(f, t) : t \in T}

\* Before is a strict total order on S.
Ordered(S) ==
  /\ \A c \in S : ~Before(c, c)
  /\ \A c, d, e \in S : Before(c, d) /\ Before(d, e) => Before(c, e)
  /\ \A c, d \in S : c = d \/ Before(c, d) \/ Before(d, c)

\* s lists the members of S, n of them, in order.
Lists(s, S, n) ==
  /\ s \in Seq(S) /\ Len(s) = n
  /\ \A c \in S : \E k \in 1 .. n : s[k] = c
  /\ \A j, k \in 1 .. n : j < k => Before(s[j], s[k])

-----------------------------------------------------------------------------
(* The order.                                                              *)

LEMMA FromOneType ==
  ASSUME NEW f \in Int, NEW T \in SUBSET Int
  PROVE  /\ Ordered(Towards(f, T))
         /\ \A t, u \in T : Conversion(f, t) = Conversion(f, u) => t = u
<1>1. \A t \in T :
        /\ Conversion(f, t).to = t /\ Conversion(f, t).from = f
        /\ t - f < 0 => /\ Conversion(f, t).cost.unsafe = -(t - f)
                        /\ Conversion(f, t).cost.safe = 0
        /\ t - f >= 0 => /\ Conversion(f, t).cost.unsafe = 0
                         /\ Conversion(f, t).cost.safe = t - f
  BY DEF Conversion, FromDiff
<1> DEFINE B(t, u) == \/ t < f /\ u < f /\ u < t
                      \/ t >= f /\ u < f
                      \/ t >= f /\ u >= f /\ t < u
<1>2. \A t, u \in T : Before(Conversion(f, t), Conversion(f, u)) <=> B(t, u)
  <2> TAKE t, u \in T
  <2> DEFINE x == Conversion(f, t).cost
             y == Conversion(f, u).cost
  <2>1. /\ t \in Int /\ u \in Int
        /\ t < f => x.unsafe = f - t /\ x.safe = 0
        /\ t >= f => x.unsafe = 0 /\ x.safe = t - f
        /\ u < f => y.unsafe = f - u /\ y.safe = 0
        /\ u >= f => y.unsafe = 0 /\ y.safe = u - f
    <3>1. \A v \in T : v \in Int /\ (v < f => v - f < 0 /\ -(v - f) = f - v)
                            /\ (v >= f => v - f >= 0)
      OBVIOUS
    <3>2. /\ t < f => x.unsafe = f - t /\ x.safe = 0
          /\ t >= f => x.unsafe = 0 /\ x.safe = t - f
      BY <3>1, <1>1
    <3>3. /\ u < f => y.unsafe = f - u /\ y.safe = 0
          /\ u >= f => y.unsafe = 0 /\ y.safe = u - f
      BY <3>1, <1>1
    <3> QED BY <3>1, <3>2, <3>3
  <2>2. Before(Conversion(f, t), Conversion(f, u))
          <=> \/ x.unsafe < y.unsafe
              \/ x.unsafe = y.unsafe /\ x.safe < y.safe
    BY DEF Before, Cheaper
  <2> HIDE DEF x, y
  <2> QED BY <2>1, <2>2
<1>3. \A t, u \in T : Conversion(f, t) = Conversion(f, u) => t = u
  BY <1>1
<1>4. \A c \in Towards(f, T) : \E t \in T : c = Conversion(f, t)
  BY DEF Towards
<1>5. \A t \in T : ~B(t, t)
  OBVIOUS
<1>6. \A t, u, v \in T : B(t, u) /\ B(u, v) => B(t, v)
  OBVIOUS
<1>7. \A t, u \in T : t = u \/ B(t, u) \/ B(u, t)
  OBVIOUS
<1> HIDE DEF B
<1> QED BY <1>2, <1>3, <1>4, <1>5, <1>6, <1>7 DEF Ordered

-----------------------------------------------------------------------------
(* Lists.                                                                  *)

\* s is list with c put at place p.
PutAt(s, list, p, c) ==
  /\ DOMAIN s = 1 .. Len(list) + 1
  /\ \A k \in 1 .. p - 1 : s[k] = list[k]
  /\ s[p] = c
  /\ \A k \in p .. Len(list) : s[k + 1] = list[k]

LEMMA InsertPuts ==
  ASSUME NEW S, NEW list \in Seq(S), NEW c \in S, NEW p \in 1 .. Len(list) + 1
  PROVE  /\ InsertAt(list, p, c) \in Seq(S)
         /\ Len(InsertAt(list, p, c)) = Len(list) + 1
         /\ PutAt(InsertAt(list, p, c), list, p, c)
<1> DEFINE a == SubSeq(list, 1, p - 1)
           b == SubSeq(list, p, Len(list))
           s == (a \o <<c>>) \o b
<1>0. Len(list) \in Nat
  OBVIOUS
<1>1. /\ a \in Seq(S) /\ Len(a) = p - 1
      /\ \A k \in 1 .. p - 1 : a[k] = list[k]
  OBVIOUS
<1>2. /\ b \in Seq(S) /\ Len(b) = Len(list) - p + 1
      /\ \A k \in 1 .. Len(list) - p + 1 : b[k] = list[p + k - 1]
  OBVIOUS
<1> HIDE DEF a, b
<1>3. /\ a \o <<c>> \in Seq(S) /\ Len(a \o <<c>>) = p
      /\ \A k \in 1 .. p - 1 : (a \o <<c>>)[k] = list[k]
      /\ (a \o <<c>>)[p] = c
  BY <1>1
<1>4. /\ s \in Seq(S) /\ Len(s) = Len(list) + 1
      /\ \A k \in 1 .. p : s[k] = (a \o <<c>>)[k]
      /\ \A k \in 1 .. Len(list) - p + 1 : s[p + k] = b[k]
  <2> DEFINE d == a \o <<c>>
             m == Len(list) - p + 1
  <2>1. d \in Seq(S) /\ Len(d) = p /\ b \in Seq(S) /\ Len(b) = m /\ m \in Nat
    BY <1>0, <1>2, <1>3
  <2>2. p \in Nat /\ p + m = Len(list) + 1
    BY <1>0
  <2> HIDE DEF d, m
  <2>3. /\ d \o b \in Seq(S) /\ Len(d \o b) = p + m
        /\ \A k \in 1 .. p : (d \o b)[k] = d[k]
        /\ \A k \in 1 .. m : (d \o b)[p + k] = b[k]
    <3>1. d \o b \in Seq(S) /\ Len(d \o b) = p + m
      BY <2>1, <2>2
    <3>2. \A k \in 1 .. p + m : (d \o b)[k] = IF k <= p THEN d[k] ELSE b[k - p]
      BY <2>1, <2>2
    <3>3. \A k \in 1 .. p : k \in 1 .. p + m /\ k <= p
      BY <2>1, <2>2
    <3>4. \A k \in 1 .. m : p + k \in 1 .. p + m /\ ~(p + k <= p) /\ (p + k) - p = k
      BY <2>1, <2>2
    <3>5. \A k \in 1 .. m : (d \o b)[p + k] = b[(p + k) - p]
      BY <3>2, <3>4
    <3> QED BY <3>1, <3>2, <3>3, <3>4, <3>5
  <2> QED BY <2>2, <2>3 DEF d, m
<1>5. s = InsertAt(list, p, c)
  BY DEF InsertAt, a, b
<1>6. ASSUME NEW k \in p .. Len(list) PROVE s[k + 1] = list[k]
  <2>1. k - p + 1 \in 1 .. Len(list) - p + 1 /\ p + (k - p + 1) = k + 1
    BY <1>0
  <2>2. s[p + (k - p + 1)] = b[k - p + 1] /\ b[k - p + 1] = list[p + (k - p + 1) - 1]
    BY <2>1, <1>2, <1>4
  <2>3. p + (k - p + 1) - 1 = k
    BY <1>0
  <2> QED BY <2>1, <2>2, <2>3
<1>7. DOMAIN s = 1 .. Len(list) + 1
  BY <1>4
<1> HIDE DEF s
<1> QED BY <1>3, <1>4, <1>5, <1>6, <1>7 DEF PutAt

\* Where sortedInsert() puts c.
LEMMA UpperBound ==
  ASSUME NEW S, NEW n \in Nat, NEW list, Lists(list, S, n),
         NEW c, Ordered(S \cup {c})
  PROVE  \E p \in 1 .. n + 1 :
           /\ SortedInsert(list, c) = InsertAt(list, p, c)
           /\ \A k \in 1 .. p - 1 : ~Before(c, list[k])
           /\ \A k \in p .. n : Before(c, list[k])
<1> DEFINE later == {k \in 1 .. n : Before(c, list[k])}
           pos == IF later = {} THEN n + 1
                  ELSE CHOOSE k \in later : \A j \in later : k <= j
<1>1. DOMAIN list = 1 .. n /\ Len(list) = n /\ \A k \in 1 .. n : list[k] \in S
  BY DEF Lists
<1>2. SortedInsert(list, c) = InsertAt(list, pos, c)
  BY <1>1 DEF SortedInsert
<1>3. CASE later = {}
  <2>1. pos = n + 1
    BY <1>3
  <2> QED BY <2>1, <1>2, <1>3
<1>4. CASE later # {}
  <2>1. \E k \in later : \A j \in later : k <= j
    <3>1. later \in SUBSET Nat
      OBVIOUS
    <3> HIDE DEF later
    <3> QED BY <3>1, <1>4, LeastNat
  <2>2. pos \in later /\ \A j \in later : pos <= j
    <3> HIDE DEF later
    <3> QED BY <2>1, <1>4
  <2>3. pos \in 1 .. n /\ Before(c, list[pos])
    BY <2>2
  <2> HIDE DEF pos
  <2>4. ASSUME NEW k \in 1 .. pos - 1 PROVE ~Before(c, list[k])
    BY <2>2, <2>3
  <2>5. ASSUME NEW k \in pos .. n PROVE Before(c, list[k])
    <3>1. k = pos \/ Before(list[pos], list[k])
      BY <2>3 DEF Lists
    <3>2. list[pos] \in S /\ list[k] \in S
      BY <2>3, <1>1
    <3> QED BY <3>1, <3>2, <2>3 DEF Ordered
  <2> QED BY <1>2, <2>3, <2>4, <2>5
<1> QED BY <1>3, <1>4

\* sortedInsert() keeps a list in order.
LEMMA InsertSorts ==
  ASSUME NEW S, NEW n \in Nat, NEW list, Lists(list, S, n),
         NEW c, c \notin S, Ordered(S \cup {c})
  PROVE  Lists(SortedInsert(list, c), S \cup {c}, n + 1)
<1> DEFINE s == SortedInsert(list, c)
           U == S \cup {c}
<1>1. PICK p \in 1 .. n + 1 :
        /\ s = InsertAt(list, p, c)
        /\ \A k \in 1 .. p - 1 : ~Before(c, list[k])
        /\ \A k \in p .. n : Before(c, list[k])
  BY UpperBound
<1>2. /\ list \in Seq(U) /\ Len(list) = n /\ c \in U
      /\ \A k \in 1 .. n : list[k] \in S
  BY DEF Lists
<1>3. s \in Seq(U) /\ Len(s) = n + 1 /\ PutAt(s, list, p, c)
  <2> HIDE DEF s, U
  <2> QED BY <1>1, <1>2, InsertPuts
<1> HIDE DEF s
<1>4. ASSUME NEW d \in U PROVE \E k \in 1 .. n + 1 : s[k] = d
  <2>1. CASE d = c
    BY <2>1, <1>3 DEF PutAt
  <2>2. CASE d \in S
    <3>1. PICK k \in 1 .. n : list[k] = d
      BY <2>2 DEF Lists
    <3>2. CASE k < p
      <4>1. k \in 1 .. p - 1 /\ k \in 1 .. n + 1
        BY <3>2
      <4> QED BY <4>1, <3>1, <1>3 DEF PutAt
    <3>3. CASE k >= p
      <4>1. k \in p .. n /\ k + 1 \in 1 .. n + 1
        BY <3>3
      <4> QED BY <4>1, <3>1, <1>2, <1>3 DEF PutAt
    <3> QED BY <3>2, <3>3
  <2> QED BY <2>1, <2>2
<1>5. ASSUME NEW k \in 1 .. p - 1 PROVE s[k] = list[k] /\ list[k] \in S /\ Before(s[k], c)
  <2>1. k \in 1 .. n
    OBVIOUS
  <2>2. s[k] = list[k] /\ list[k] \in S
    BY <2>1, <1>2, <1>3 DEF PutAt
  <2> QED BY <2>2, <1>1 DEF Ordered
<1>6. ASSUME NEW k \in p + 1 .. n + 1
      PROVE  s[k] = list[k - 1] /\ list[k - 1] \in S /\ Before(c, s[k])
  <2>1. k - 1 \in p .. n /\ k - 1 \in 1 .. n /\ (k - 1) + 1 = k
    OBVIOUS
  <2>2. s[k] = list[k - 1] /\ list[k - 1] \in S
    BY <2>1, <1>2, <1>3 DEF PutAt
  <2> QED BY <2>1, <2>2, <1>1
<1>7. s[p] = c
  BY <1>3 DEF PutAt
<1>8. \A j, k \in 1 .. n : j < k => Before(list[j], list[k])
  BY DEF Lists
<1>9. ASSUME NEW j \in 1 .. n + 1, NEW k \in 1 .. n + 1, j < k
      PROVE  Before(s[j], s[k])
  <2>1. CASE k < p
    <3>1. j \in 1 .. p - 1 /\ k \in 1 .. p - 1 /\ j \in 1 .. n /\ k \in 1 .. n
      BY <1>9, <2>1
    <3> QED BY <3>1, <1>5, <1>8, <1>9
  <2>2. CASE k = p
    <3>1. j \in 1 .. p - 1
      BY <1>9, <2>2
    <3> QED BY <3>1, <2>2, <1>5, <1>7
  <2>3. CASE j = p
    <3>1. k \in p + 1 .. n + 1
      BY <1>9, <2>3
    <3> QED BY <3>1, <2>3, <1>6, <1>7
  <2>4. CASE j > p
    <3>1. /\ j \in p + 1 .. n + 1 /\ k \in p + 1 .. n + 1
          /\ j - 1 \in 1 .. n /\ k - 1 \in 1 .. n /\ j - 1 < k - 1
      BY <1>9, <2>4
    <3> QED BY <3>1, <1>6, <1>8
  <2>5. CASE j < p /\ p < k
    <3>1. j \in 1 .. p - 1 /\ k \in p + 1 .. n + 1
      BY <1>9, <2>5
    <3>2. Before(s[j], c) /\ Before(c, s[k]) /\ s[j] \in U /\ s[k] \in U /\ c \in U
      BY <3>1, <1>5, <1>6
    <3> QED BY <3>2 DEF Ordered
  <2> QED BY <1>9, <2>1, <2>2, <2>3, <2>4, <2>5
<1> QED BY <1>3, <1>4, <1>9 DEF Lists, s

-----------------------------------------------------------------------------
(* sort().                                                                 *)

LEMMA SortedExists ==
  ASSUME NEW S, IsFiniteSet(S), Ordered(S)
  PROVE  \E s : Lists(s, S, Cardinality(S))
<1> DEFINE P == {n \in Nat : \A T \in SUBSET S :
                   Cardinality(T) = n => \E s : Lists(s, T, n)}
<1>1. \A T \in SUBSET S : IsFiniteSet(T) /\ Cardinality(T) \in Nat
  BY FS_Subset, FS_CardinalityType
<1>2. 0 \in P
  <2>1. ASSUME NEW T \in SUBSET S, Cardinality(T) = 0 PROVE Lists(<< >>, T, 0)
    <3>1. T = {}
      BY <2>1, <1>1, FS_EmptySet
    <3> QED BY <3>1 DEF Lists
  <2> QED BY <2>1
<1>3. ASSUME NEW n \in P PROVE n + 1 \in P
  <2>1. SUFFICES ASSUME NEW T \in SUBSET S, Cardinality(T) = n + 1
                 PROVE  \E s : Lists(s, T, n + 1)
    OBVIOUS
  <2>2. PICK c : c \in T
    <3>1. T # {}
      BY <2>1, FS_EmptySet
    <3> QED BY <3>1
  <2> DEFINE U == T \ {c}
  <2>3. U \in SUBSET S /\ Cardinality(U) = n
    <3>1. Cardinality(U) = Cardinality(T) - 1
      BY <2>2, <1>1, FS_RemoveElement
    <3> QED BY <3>1, <2>1
  <2>4. PICK s : Lists(s, U, n)
    BY <2>3
  <2>5. c \notin U /\ U \cup {c} = T /\ Ordered(U \cup {c})
    BY <2>2 DEF Ordered
  <2>6. Lists(SortedInsert(s, c), U \cup {c}, n + 1)
    <3> HIDE DEF U
    <3> QED BY <2>4, <2>5, InsertSorts
  <2> QED BY <2>5, <2>6
<1>4. P = Nat
  <2>1. P \in SUBSET Nat
    OBVIOUS
  <2> HIDE DEF P
  <2> QED BY <2>1, <1>2, <1>3, Induction
<1>5. S \in SUBSET S /\ Cardinality(S) \in P
  BY <1>1, <1>4
<1> QED BY <1>5

LEMMA SortLists ==
  ASSUME NEW S, IsFiniteSet(S), Ordered(S)
  PROVE  Lists(Sorted(S), S, Cardinality(S))
<1> DEFINE n == Cardinality(S)
           Good(s) == /\ s \in [1 .. n -> S]
                      /\ Range(s) = S
                      /\ \A j, k \in DOMAIN s : j < k => ~Before(s[k], s[j])
<1>0. n \in Nat
  BY FS_CardinalityType
<1>1. \E s : Good(s)
  <2>1. PICK s : Lists(s, S, n)
    BY SortedExists
  <2>2. s \in [1 .. n -> S] /\ \A c \in S : \E k \in 1 .. n : s[k] = c
    BY <2>1 DEF Lists
  <2>3. Range(s) = S
    BY <2>2 DEF Range
  <2>4. \A j, k \in 1 .. n : j < k => ~Before(s[k], s[j])
    BY <2>1, <2>2 DEF Lists, Ordered
  <2> QED BY <2>2, <2>3, <2>4
<1>2. Good(Sorted(S))
  <2>1. Sorted(S) = CHOOSE s : Good(s)
    BY DEF Sorted
  <2> HIDE DEF Good
  <2> QED BY <2>1, <1>1
<1> DEFINE s == Sorted(S)
<1>3. /\ s \in [1 .. n -> S] /\ DOMAIN s = 1 .. n
      /\ \A c \in S : \E k \in 1 .. n : s[k] = c
      /\ \A j, k \in 1 .. n : j < k => ~Before(s[k], s[j])
  BY <1>2 DEF Range
<1>4. s \in Seq(S) /\ Len(s) = n
  BY <1>0, <1>3
<1>5. \A j, k \in 1 .. n : s[j] = s[k] => j = k
  <2>1. s \in Surjection(1 .. n, S)
    BY <1>3 DEF Surjection
  <2>2. IsFiniteSet(1 .. n) /\ Cardinality(1 .. n) = n
    BY <1>0, FS_Interval
  <2> HIDE DEF s
  <2>3. s \in Injection(1 .. n, S)
    BY <2>1, <2>2, FS_SurjSameCardinalityImpliesInj
  <2> QED BY <2>3, <1>3 DEF Injection, IsInjective
<1> HIDE DEF s
<1> QED BY <1>3, <1>4, <1>5 DEF Lists, Ordered, s

-----------------------------------------------------------------------------
(* Invariance.                                                             *)

\* Every node's list and entries, whatever the order in which types were added.
ConvInv ==
  /\ nodes \subseteq ConcIds /\ IsFiniteSet(nodes)
  /\ edges = UNION {Towards(f, nodes \ {f}) : f \in nodes}
  /\ DOMAIN outs = nodes
  /\ \A f \in nodes :
       Lists(outs[f], Towards(f, nodes \ {f}), Cardinality(nodes) - 1)
  /\ DOMAIN ins = nodes
  /\ \A t \in nodes : \A c \in ins[t] :
       \E u \in nodes \ {t} : c = Conversion(u, t) \/ c = Conversion(t, u)

LEMMA ConvInit == GraphInit => ConvInv
BY FS_EmptySet DEF GraphInit, ConvInv

LEMMA ConvEdges ==
  ASSUME ConvInv, NEW c
  PROVE  c \in edges <=> \E f \in nodes : \E t \in nodes \ {f} : c = Conversion(f, t)
BY DEF ConvInv, Towards

\* There are as many conversions from a type as types.
LEMMA TowardsCounts ==
  ASSUME NEW f \in Int, NEW T \in SUBSET Int, IsFiniteSet(T)
  PROVE  /\ IsFiniteSet(Towards(f, T))
         /\ Cardinality(Towards(f, T)) = Cardinality(T)
<1> DEFINE b == [t \in T |-> Conversion(f, t)]
           C == Towards(f, T)
<1>1. b \in [T -> C] /\ \A c \in C : \E t \in T : b[t] = c
  BY DEF Towards
<1>2. \A t, u \in T : b[t] = b[u] => t = u
  BY FromOneType
<1>3. ExistsBijection(T, C)
  <2> HIDE DEF b, C
  <2> QED BY <1>1, <1>2, Fun_IsBij, Fun_ExistsBij
<1> QED BY <1>3, FS_Bijection

LEMMA AddKeeps ==
  ASSUME IdsFit, ConvInv, NEW f, AddType(f)
  PROVE  ConvInv'
<1>1. CASE f \notin ConcIds \/ f \in nodes
  BY <1>1 DEF AddType, graphVars, ConvInv
<1>2. CASE f \in ConcIds /\ f \notin nodes
  <2> DEFINE n == Cardinality(nodes)
  <2>1. /\ nodes' = nodes \cup {f}
        /\ edges' = edges \cup UNION {{Conversion(f, t), Conversion(t, f)} : t \in nodes}
        /\ outs' = [t \in nodes' |-> IF t = f THEN NewOut(f)
                                   ELSE SortedInsert(outs[t], Conversion(t, f))]
        /\ ins' = [t \in nodes' |-> IF t = f THEN NewIn(f) ELSE ins[t]]
    BY <1>2 DEF AddType
  <2>2. /\ nodes \subseteq ConcIds /\ nodes \in SUBSET Int /\ f \in Int
        /\ IsFiniteSet(nodes) /\ n \in Nat /\ nodes \cap ConcIds = nodes
    BY <1>2, FS_CardinalityType DEF ConvInv, IdsFit
  <2>3. /\ nodes' \subseteq ConcIds /\ IsFiniteSet(nodes') /\ Cardinality(nodes') = n + 1
    BY <2>1, <2>2, <1>2, FS_AddElement
  <2>4. edges' = UNION {Towards(t, nodes' \ {t}) : t \in nodes'}
    <3>1. ASSUME NEW c \in edges'
          PROVE  \E t \in nodes' : \E u \in nodes' \ {t} : c = Conversion(t, u)
      <4>1. CASE c \in edges
        <5>1. PICK t \in nodes : \E u \in nodes \ {t} : c = Conversion(t, u)
          BY <4>1, ConvEdges
        <5> QED BY <5>1, <2>1
      <4>2. CASE c \in UNION {{Conversion(f, t), Conversion(t, f)} : t \in nodes}
        <5>1. PICK t \in nodes : c = Conversion(f, t) \/ c = Conversion(t, f)
          BY <4>2
        <5>2. t # f /\ t \in nodes' /\ f \in nodes'
          BY <1>2, <2>1
        <5> QED BY <5>1, <5>2
      <4> QED BY <3>1, <4>1, <4>2, <2>1
    <3>2. ASSUME NEW t \in nodes', NEW u \in nodes' \ {t}
          PROVE  Conversion(t, u) \in edges'
      <4>1. CASE t \in nodes /\ u \in nodes
        <5>1. Conversion(t, u) \in edges
          BY <4>1, ConvEdges
        <5> QED BY <5>1, <2>1
      <4>2. CASE t = f
        <5>1. u \in nodes /\ Conversion(t, u) \in {Conversion(f, u), Conversion(u, f)}
          BY <4>2, <2>1
        <5> QED BY <5>1, <2>1
      <4>3. CASE u = f
        <5>1. t \in nodes /\ Conversion(t, u) \in {Conversion(f, t), Conversion(t, f)}
          BY <4>3, <2>1
        <5> QED BY <5>1, <2>1
      <4> QED BY <4>1, <4>2, <4>3, <2>1
    <3> QED BY <3>1, <3>2 DEF Towards
  <2>5. Lists(NewOut(f), Towards(f, nodes), n)
    <3> DEFINE C == Towards(f, nodes)
    <3>1. NewOut(f) = Sorted(C)
      BY <2>2 DEF NewOut, Towards
    <3>2. IsFiniteSet(C) /\ Cardinality(C) = n
      BY <2>2, TowardsCounts
    <3>3. Ordered(C)
      BY <2>2, FromOneType
    <3>4. Lists(Sorted(C), C, Cardinality(C))
      <4> HIDE DEF C
      <4> QED BY <3>2, <3>3, SortLists
    <3> QED BY <3>1, <3>2, <3>4
  <2>6. ASSUME NEW t \in nodes
        PROVE  Lists(SortedInsert(outs[t], Conversion(t, f)), Towards(t, nodes' \ {t}), n)
    <3> DEFINE C == Towards(t, nodes \ {t})
               D == Towards(t, nodes' \ {t})
               c == Conversion(t, f)
    <3>1. t \in Int /\ nodes' \ {t} \in SUBSET Int /\ t # f /\ n - 1 \in Nat
      <4>1. t \in Int /\ nodes' \in SUBSET Int /\ t # f
        BY <1>2, <2>1, <2>2
      <4>2. n # 0
        BY <2>2, FS_EmptySet
      <4> QED BY <4>1, <4>2, <2>2
    <3>2. Ordered(D)
      BY <3>1, FromOneType
    <3>3. nodes' \ {t} = (nodes \ {t}) \cup {f}
      BY <3>1, <2>1
    <3>4. C \cup {c} = D
      BY <3>3 DEF Towards
    <3>5. c \notin C
      <4>1. ASSUME NEW u \in nodes \ {t} PROVE Conversion(t, u) # c
        <5>1. Conversion(t, u).to = u /\ c.to = f
          BY DEF Conversion
        <5> QED BY <5>1, <1>2
      <4> QED BY <4>1 DEF Towards
    <3>6. Lists(outs[t], C, n - 1)
      BY DEF ConvInv
    <3>7. Lists(SortedInsert(outs[t], c), C \cup {c}, (n - 1) + 1)
      <4> HIDE DEF C, D, c, n
      <4> QED BY <3>1, <3>2, <3>4, <3>5, <3>6, InsertSorts
    <3>8. (n - 1) + 1 = n
      BY <2>2
    <3> HIDE DEF C, D, n
    <3> QED BY <3>4, <3>7, <3>8 DEF D
  <2>7. ASSUME NEW t \in nodes'
        PROVE  Lists(outs'[t], Towards(t, nodes' \ {t}), Cardinality(nodes') - 1)
    <3>1. Cardinality(nodes') - 1 = n
      BY <2>2, <2>3
    <3>2. CASE t = f
      <4>1. nodes' \ {t} = nodes /\ outs'[t] = NewOut(f)
        BY <3>2, <1>2, <2>1
      <4> QED BY <4>1, <3>1, <3>2, <2>5
    <3>3. CASE t # f
      <4>1. t \in nodes /\ outs'[t] = SortedInsert(outs[t], Conversion(t, f))
        BY <3>3, <2>1
      <4> QED BY <4>1, <3>1, <2>6
    <3> QED BY <3>2, <3>3
  <2>8. ASSUME NEW t \in nodes', NEW c \in ins'[t]
        PROVE  \E u \in nodes' \ {t} : c = Conversion(u, t) \/ c = Conversion(t, u)
    <3>1. CASE t = f
      <4>1. c \in NewIn(f)
        BY <3>1, <2>1
      <4>2. PICK u \in nodes : c = Conversion(u, f) \/ c = Conversion(f, u)
        BY <4>1 DEF NewIn
      <4>3. u \in nodes' \ {t}
        BY <3>1, <1>2, <2>1
      <4> QED BY <4>2, <4>3, <3>1
    <3>2. CASE t # f
      <4>1. t \in nodes /\ c \in ins[t]
        BY <3>2, <2>1
      <4>2. PICK u \in nodes \ {t} : c = Conversion(u, t) \/ c = Conversion(t, u)
        BY <4>1 DEF ConvInv
      <4> QED BY <4>2, <2>1
    <3> QED BY <3>1, <3>2
  <2>9. DOMAIN outs' = nodes' /\ DOMAIN ins' = nodes'
    BY <2>1
  <2> QED BY <2>3, <2>4, <2>7, <2>8, <2>9 DEF ConvInv
<1> QED BY <1>1, <1>2

\* ConvInv holds in every reachable state, for any types added in any order.
THEOREM ConvInvariance == ASSUME IdsFit PROVE GraphSpec => []ConvInv
<1>1. ConvInv /\ [GraphNext]_graphVars => ConvInv'
  <2> SUFFICES ASSUME ConvInv, [GraphNext]_graphVars PROVE ConvInv'
    OBVIOUS
  <2>1. CASE UNCHANGED graphVars
    BY <2>1 DEF graphVars, ConvInv
  <2>2. CASE GraphNext
    BY <2>2, AddKeeps DEF GraphNext
  <2> QED BY <2>1, <2>2
<1> QED BY <1>1, ConvInit, PTL DEF GraphSpec

LEMMA ListsComplete ==
  ASSUME IdsFit, ConvInv
  PROVE  OutIsComplete
<1> SUFFICES ASSUME NEW f \in nodes
             PROVE  /\ Range(outs[f]) = {c \in edges : c.from = f}
                    /\ {c.to : c \in Range(outs[f])} = nodes \ {f}
                    /\ Len(outs[f]) = Cardinality(nodes) - 1
                    /\ \A j, k \in DOMAIN outs[f] :
                         j < k => ~Before(outs[f][k], outs[f][j])
  BY DEF OutIsComplete
<1> DEFINE n == Cardinality(nodes) - 1
           C == Towards(f, nodes \ {f})
<1>1. Lists(outs[f], C, n)
  BY DEF ConvInv
<1>2. /\ outs[f] \in Seq(C) /\ Len(outs[f]) = n /\ DOMAIN outs[f] = 1 .. n
      /\ \A c \in C : \E k \in 1 .. n : outs[f][k] = c
      /\ \A k \in 1 .. n : outs[f][k] \in C
      /\ \A j, k \in 1 .. n : j < k => Before(outs[f][j], outs[f][k])
  <2> DEFINE s == outs[f]
  <2>1. /\ s \in Seq(C) /\ Len(s) = n
        /\ \A c \in C : \E k \in 1 .. n : s[k] = c
        /\ \A j, k \in 1 .. n : j < k => Before(s[j], s[k])
    BY <1>1 DEF Lists
  <2> HIDE DEF s, C, n
  <2>2. DOMAIN s = 1 .. n /\ \A k \in 1 .. n : s[k] \in C
    BY <2>1
  <2> QED BY <2>1, <2>2 DEF s
<1>3. Range(outs[f]) = C
  <2> HIDE DEF C, n
  <2> QED BY <1>2 DEF Range
<1>4. \A g, t : Conversion(g, t).from = g /\ Conversion(g, t).to = t
  BY DEF Conversion
<1>5. C = {c \in edges : c.from = f}
  <2>1. ASSUME NEW c, c \in edges, c.from = f PROVE c \in C
    <3>1. PICK g \in nodes, t \in nodes : t # g /\ c = Conversion(g, t)
      BY <2>1, ConvEdges
    <3>2. g = f
      BY <3>1, <2>1, <1>4
    <3> QED BY <3>1, <3>2 DEF Towards
  <2>2. ASSUME NEW c \in C PROVE c \in edges /\ c.from = f
    <3>1. PICK t \in nodes \ {f} : c = Conversion(f, t)
      BY DEF Towards
    <3> QED BY <3>1, <1>4, ConvEdges
  <2> HIDE DEF C
  <2> QED BY <2>1, <2>2
<1>6. {c.to : c \in C} = nodes \ {f}
  <2>1. \A c \in C : c.to \in nodes \ {f}
    BY <1>4 DEF Towards
  <2>2. \A t \in nodes \ {f} : \E c \in C : c.to = t
    BY <1>4 DEF Towards
  <2> HIDE DEF C
  <2> QED BY <2>1, <2>2
<1>7. Ordered(C)
  <2>1. f \in Int /\ nodes \ {f} \in SUBSET Int
    BY DEF ConvInv, IdsFit
  <2> QED BY <2>1, FromOneType
<1>8. ASSUME NEW j \in 1 .. n, NEW k \in 1 .. n, j < k
      PROVE  ~Before(outs[f][k], outs[f][j])
  <2>1. Before(outs[f][j], outs[f][k]) /\ outs[f][j] \in C /\ outs[f][k] \in C
    BY <1>2, <1>8
  <2> HIDE DEF C
  <2> QED BY <2>1, <1>7 DEF Ordered
<1> HIDE DEF C, n
<1> QED BY <1>2, <1>3, <1>5, <1>6, <1>8 DEF n

LEMMA FoundRight ==
  ASSUME IdsFit, ConvInv
  PROVE  FoundIsRight
<1> SUFFICES ASSUME NEW f \in nodes, NEW t \in nodes, NEW c \in FindBetween(f, t), f # t
             PROVE  c = Conversion(f, t) /\ (c.cost.unsafe = 0 <=> f < t)
  BY DEF FoundIsRight
<1>1. \A g, u : Conversion(g, u).from = g /\ Conversion(g, u).to = u
  BY DEF Conversion
<1>2. c = Conversion(f, t)
  <2>1. CASE c \in ins[t] /\ c.from = f
    <3>1. PICK u \in nodes \ {t} : c = Conversion(u, t) \/ c = Conversion(t, u)
      BY <2>1 DEF ConvInv
    <3> QED BY <3>1, <2>1, <1>1
  <2>2. CASE c \in Range(outs[f]) /\ c.to = t
    <3>1. OutIsComplete
      BY ListsComplete
    <3>2. c \in edges /\ c.from = f
      BY <3>1, <2>2 DEF OutIsComplete
    <3>3. PICK g \in nodes, u \in nodes : c = Conversion(g, u)
      BY <3>2, ConvEdges
    <3> QED BY <3>2, <3>3, <2>2, <1>1
  <2> QED BY <2>1, <2>2 DEF FindBetween
<1>3. f \in Int /\ t \in Int
  BY DEF ConvInv, IdsFit
<1>4. /\ t - f < 0 => c.cost.unsafe = -(t - f)
      /\ t - f >= 0 => c.cost.unsafe = 0
  <2>1. c.cost = FromDiff(t - f)
    BY <1>2 DEF Conversion
  <2> QED BY <2>1, <1>3 DEF FromDiff
<1> QED BY <1>2, <1>3, <1>4

\* After any sequence of addType() the list that find_from(t) gives holds each
\* conversion from t once, never a cheaper one after a dearer one.
THEOREM OutListsAreRight == ASSUME IdsFit PROVE GraphSpec => []OutIsComplete
<1>1. ConvInv => OutIsComplete
  BY ListsComplete
<1> QED BY <1>1, ConvInvariance, PTL

\* find_between() never takes another conversion for the one it is asked for,
\* though the `in` lists hold conversions of both directions.
THEOREM LookUpsAreRight == ASSUME IdsFit PROVE GraphSpec => []FoundIsRight
<1>1. ConvInv => FoundIsRight
  BY FoundRight
<1> QED BY <1>1, ConvInvariance, PTL
=============================================================================
