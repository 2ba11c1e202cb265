---------------------------- MODULE CombosProofs ----------------------------
(***************************************************************************)
(* Proofs about Combos for queues of any number, length and costs:         *)
(*   - unsorted_eager_merge() asks about every combination and returns     *)
(*     those accepted, in lexicographic order, each with its cost;         *)
(*   - filter_combos() asks about the combinations and beginnings of them  *)
(*     that the answers so far leave open, about all of them and about no  *)
(*     others, and returns the whole ones it accepted, in that order.      *)
(*                                                                         *)
(* The loops keep one vector of indices.  The invariant says which         *)
(* combinations that vector stands for having been asked about (Behind,    *)
(* and for a filter Asked), that the verdicts are about just these, and    *)
(* that the cost kept up by differences is the sum it stands for.          *)
(***************************************************************************)
EXTENDS Combos, DataFacts, SequenceTheorems

\* Folding from the left by adding h[i] at the i-th element.
Added(g, b, h, n) ==
  \A s \in SUBSET (1 .. n) :
    g[s] = IF s = {} THEN b ELSE g[s \ {Max(s)}] + h[Max(s)]

LEMMA MaxIs ==
  ASSUME NEW s \in SUBSET Int, NEW m \in s, \A x \in s : x <= m
  PROVE  Max(s) = m
<1>1. \E x \in s : \A y \in s : x >= y
  OBVIOUS
<1>2. Max(s) \in s /\ \A y \in s : Max(s) >= y
  BY <1>1 DEF Max
<1>3. Max(s) \in Int /\ m \in Int /\ Max(s) >= m /\ Max(s) <= m
  BY <1>2
<1> QED BY <1>3

LEMMA MaxIn ==
  ASSUME NEW n \in Nat, NEW s \in SUBSET (1 .. n), s # {}
  PROVE  Max(s) \in s /\ \A x \in s : x <= Max(s)
<1> DEFINE T == {n - x : x \in s}
<1>1. T \in SUBSET Nat /\ T # {}
  <2>1. \A x \in s : n - x \in Nat
    OBVIOUS
  <2> QED BY <2>1
<1>2. PICK t \in T : \A y \in T : t <= y
  <2> HIDE DEF T
  <2> QED BY <1>1, LeastNat
<1>3. PICK m \in s : t = n - m
  OBVIOUS
<1>4. \A x \in s : x <= m
  BY <1>2, <1>3
<1>5. Max(s) = m
  BY <1>4, MaxIs
<1> QED BY <1>4, <1>5

LEMMA AddedExists ==
  ASSUME NEW N \in Nat, NEW h \in [1 .. N -> Int], NEW b \in Int
  PROVE  \E g \in [SUBSET (1 .. N) -> Int] : Added(g, b, h, N)
<1> DEFINE G(n) == \E g \in [SUBSET (1 .. n) -> Int] : Added(g, b, h, n)
           P == {n \in Nat : n <= N => G(n)}
<1>1. 0 \in P
  <2> DEFINE g == [s \in SUBSET (1 .. 0) |-> b]
  <2>1. g \in [SUBSET (1 .. 0) -> Int] /\ Added(g, b, h, 0)
    BY DEF Added
  <2> QED BY <2>1
<1>2. ASSUME NEW n \in P, n + 1 <= N PROVE G(n + 1)
  <2>0. n \in Nat /\ n <= N /\ G(n)
    <3> HIDE DEF G
    <3> QED BY <1>2
  <2>1. PICK g \in [SUBSET (1 .. n) -> Int] : Added(g, b, h, n)
    BY <2>0
  <2> DEFINE m == n + 1
             t == [s \in SUBSET (1 .. m) |->
                     IF m \in s THEN g[s \ {m}] + h[m] ELSE g[s]]
  <2>2. \A s \in SUBSET (1 .. m) : /\ s \ {m} \in SUBSET (1 .. n)
                                   /\ m \notin s => s \in SUBSET (1 .. n)
    OBVIOUS
  <2>3. t \in [SUBSET (1 .. m) -> Int]
    <3>1. h[m] \in Int
      BY <2>0, <1>2
    <3>2. ASSUME NEW s \in SUBSET (1 .. m)
          PROVE  (IF m \in s THEN g[s \ {m}] + h[m] ELSE g[s]) \in Int
      <4>1. CASE m \in s
        <5>1. g[s \ {m}] \in Int
          BY <2>2
        <5> QED BY <5>1, <4>1, <3>1
      <4>2. CASE m \notin s
        BY <2>2, <4>2
      <4> QED BY <4>1, <4>2
    <3> QED BY <3>2
  <2>4. ASSUME NEW s \in SUBSET (1 .. m), m \in s
        PROVE  t[s] = t[s \ {Max(s)}] + h[Max(s)]
    <3>1. Max(s) = m
      BY <2>4, MaxIs
    <3>2. t[s \ {m}] = g[s \ {m}]
      BY <2>2
    <3> QED BY <3>1, <3>2, <2>4
  <2>5. ASSUME NEW s \in SUBSET (1 .. m), m \notin s, s # {}
        PROVE  t[s] = t[s \ {Max(s)}] + h[Max(s)]
    <3>1. g[s] = g[s \ {Max(s)}] + h[Max(s)]
      BY <2>1, <2>2, <2>5 DEF Added
    <3>2. m \notin s \ {Max(s)} /\ s \ {Max(s)} \in SUBSET (1 .. m)
      BY <2>5
    <3> QED BY <3>1, <3>2, <2>5
  <2>6. t[{}] = b
    BY <2>1 DEF Added
  <2>7. Added(t, b, h, m)
    <3> HIDE DEF t
    <3> QED BY <2>4, <2>5, <2>6 DEF Added
  <2> QED
    <3> HIDE DEF t
    <3> QED BY <2>3, <2>7
<1>3. P = Nat
  <2>1. ASSUME NEW n \in P PROVE n + 1 \in P
    <3> HIDE DEF G
    <3>1. n + 1 \in Nat /\ (n + 1 <= N => G(n + 1))
      BY <1>2
    <3> QED BY <3>1
  <2> HIDE DEF P, G
  <2>2. P \in SUBSET Nat
    BY DEF P
  <2> QED BY <1>1, <2>1, <2>2, Induction
<1>4. G(N)
  <2> HIDE DEF G
  <2> QED BY <1>3
<1> QED BY <1>4

\* The same, for the intervals from 1 only.
AddedUp(g, b, h, n) ==
  /\ g[{}] = b
  /\ \A k \in 1 .. n : g[1 .. k - 1] \in Int => g[1 .. k] = g[1 .. k - 1] + h[k]

\* a[k] is what b is once the first k of h are added to it.
Runs(a, b, h, n) == /\ a \in [0 .. n -> Int]
                    /\ a[0] = b
                    /\ \A k \in 1 .. n : a[k] = a[k - 1] + h[k]

\* The intervals from 1 that lead to 1 .. n, one element at a time.
LEMMA AddedRuns ==
  ASSUME NEW n \in Nat, NEW h \in [1 .. n -> Int], NEW b \in Int, NEW g,
         AddedUp(g, b, h, n)
  PROVE  \E a : Runs(a, b, h, n) /\ g[1 .. n] = a[n]
<1> DEFINE a == [k \in 0 .. n |-> g[1 .. k]]
           P == {k \in Nat : k <= n => g[1 .. k] \in Int}
<1>0. /\ g[{}] = b
      /\ \A k \in 1 .. n : g[1 .. k - 1] \in Int =>
                            g[1 .. k] = g[1 .. k - 1] + h[k]
  BY DEF AddedUp
<1>1. P = Nat
  <2>1. 0 \in P
    <3>1. 1 .. 0 = {}
      OBVIOUS
    <3> QED BY <3>1, <1>0
  <2>2. ASSUME NEW k \in P PROVE k + 1 \in P
    <3>1. CASE k + 1 <= n
      <4>1. k + 1 \in 1 .. n /\ (k + 1) - 1 = k /\ g[1 .. k] \in Int
        BY <3>1
      <4>2. g[1 .. k + 1] = g[1 .. k] + h[k + 1] /\ h[k + 1] \in Int
        BY <4>1, <1>0
      <4> QED BY <4>1, <4>2
    <3>2. CASE ~(k + 1 <= n)
      BY <3>2
    <3> QED BY <3>1, <3>2
  <2> HIDE DEF P
  <2>3. P \in SUBSET Nat
    BY DEF P
  <2> QED BY <2>1, <2>2, <2>3, Induction
<1>2. \A k \in 0 .. n : g[1 .. k] \in Int
  BY <1>1
<1>3. a \in [0 .. n -> Int] /\ g[1 .. n] = a[n]
  BY <1>2
<1>4. a[0] = b
  <2>1. 1 .. 0 = {}
    OBVIOUS
  <2> QED BY <2>1, <1>0
<1>5. \A k \in 1 .. n : a[k] = a[k - 1] + h[k]
  BY <1>0, <1>2
<1> HIDE DEF a
<1> QED BY <1>3, <1>4, <1>5 DEF Runs

\* 1 .. k without its largest member.
LEMMA Shorter ==
  ASSUME NEW n \in Nat, NEW k \in 1 .. n
  PROVE  /\ Max(1 .. k) = k
         /\ 1 .. k \in SUBSET (1 .. n) /\ 1 .. k # {}
         /\ (1 .. k) \ {k} = 1 .. k - 1
<1>1. k \in 1 .. k /\ 1 .. k \in SUBSET Int /\ \A x \in 1 .. k : x <= k
  OBVIOUS
<1>2. Max(1 .. k) = k
  <2> DEFINE s == 1 .. k
  <2>1. k \in s /\ s \in SUBSET Int /\ \A x \in s : x <= k
    BY <1>1
  <2> HIDE DEF s
  <2>2. Max(s) = k
    BY <2>1, MaxIs
  <2> QED BY <2>2 DEF s
<1> QED BY <1>2

\* A sum is reached by adding one element after another.
LEMMA SumRuns ==
  ASSUME NEW n \in Nat, NEW s \in [1 .. n -> Int]
  PROVE  \E a : Runs(a, 0, s, n) /\ Sum(s) = a[n]
<1> DEFINE D(g) == g = [x \in SUBSET (1 .. n) |->
                          IF x = {} THEN 0 ELSE g[x \ {Max(x)}] + s[Max(x)]]
           it == CHOOSE g : D(g)
<1>1. \E g : D(g)
  <2>0. 0 \in Int
    OBVIOUS
  <2>1. PICK g \in [SUBSET (1 .. n) -> Int] : Added(g, 0, s, n)
    BY <2>0, AddedExists
  <2>2. DOMAIN g = SUBSET (1 .. n)
    BY <2>1
  <2>3. \A x \in SUBSET (1 .. n) :
          g[x] = IF x = {} THEN 0 ELSE g[x \ {Max(x)}] + s[Max(x)]
    BY <2>1 DEF Added
  <2>4. D(g)
    BY <2>2, <2>3
  <2> QED BY <2>4
<1>2. D(it)
  BY <1>1
<1>3. Sum(s) = it[1 .. n]
  BY DEF Sum, FoldLeft, MapThenFoldSet
<1>4. \A x \in SUBSET (1 .. n) :
        it[x] = IF x = {} THEN 0 ELSE it[x \ {Max(x)}] + s[Max(x)]
  <2> HIDE DEF it
  <2> QED BY <1>2
<1> HIDE DEF it, D
<1>5. it[{}] = 0 /\ 0 \in Int
  <2>1. \A x \in SUBSET (1 .. n) : x = {} => it[x] = 0
    BY <1>4
  <2> QED BY <2>1
<1>6. \A k \in 1 .. n : it[1 .. k] = it[1 .. k - 1] + s[k]
  BY <1>4, Shorter
<1>7. \E a : Runs(a, 0, s, n) /\ it[1 .. n] = a[n]
  <2>1. AddedUp(it, 0, s, n)
    BY <1>5, <1>6 DEF AddedUp
  <2> QED BY <1>5, <2>1, AddedRuns
<1> QED BY <1>3, <1>7

\* Rolling the queues after the i-th over changes the cost one queue at a time.
LEMMA RolledRuns ==
  ASSUME NEW i \in Nat, NEW m \in Nat, i + m = Len(inds), cost \in Int,
         \A j \in i + 1 .. i + m : queues[j][1] \in Int /\ queues[j][inds[j]] \in Int
  PROVE  \E a \in [0 .. m -> Int] :
           /\ a[0] = cost
           /\ \A k \in 1 .. m :
                a[k] = a[k - 1] + (queues[i + k][1] - queues[i + k][inds[i + k]])
           /\ Rolled(i) = Recost(a[m], i, inds[i] + 1)
<1> DEFINE seq == [j \in 1 .. Len(inds) - i |-> i + j]
           D(g) == g = [x \in SUBSET (1 .. m) |->
                          IF x = {} THEN cost
                          ELSE Recost(g[x \ {Max(x)}], seq[Max(x)], 1)]
           it == CHOOSE g : D(g)
<1>0. Len(inds) - i = m
  OBVIOUS
<1>1. \E b, h : /\ b \in Int /\ b = cost /\ h \in [1 .. m -> Int]
                /\ h = [k \in 1 .. m |-> queues[i + k][1] - queues[i + k][inds[i + k]]]
  <2>1. ASSUME NEW k \in 1 .. m
        PROVE  queues[i + k][1] - queues[i + k][inds[i + k]] \in Int
    <3>1. i + k \in i + 1 .. i + m
      OBVIOUS
    <3> QED BY <3>1
  <2>2. [k \in 1 .. m |-> queues[i + k][1] - queues[i + k][inds[i + k]]]
          \in [1 .. m -> Int]
    BY <2>1
  <2> QED BY <2>2
<1>2. PICK b, h : /\ b \in Int /\ b = cost /\ h \in [1 .. m -> Int]
                  /\ h = [k \in 1 .. m |->
                            queues[i + k][1] - queues[i + k][inds[i + k]]]
  BY <1>1
<1>3. \E g : D(g)
  <2>1. PICK g \in [SUBSET (1 .. m) -> Int] : Added(g, b, h, m)
    BY <1>2, AddedExists
  <2>2. DOMAIN g = SUBSET (1 .. m)
    BY <2>1
  <2>3. ASSUME NEW x \in SUBSET (1 .. m), x # {}
        PROVE  g[x] = Recost(g[x \ {Max(x)}], seq[Max(x)], 1)
    <3> DEFINE k == Max(x)
    <3>1. k \in 1 .. m
      BY <2>3, MaxIn
    <3>2. g[x] = g[x \ {k}] + h[k] /\ g[x \ {k}] \in Int
      BY <2>1, <2>3 DEF Added
    <3> HIDE DEF k
    <3>3. seq[k] = i + k /\ i + k \in i + 1 .. i + m
      BY <3>1, <1>0
    <3>4. /\ h[k] = queues[i + k][1] - queues[i + k][inds[i + k]]
          /\ queues[i + k][1] \in Int /\ queues[i + k][inds[i + k]] \in Int
      BY <3>1, <3>3, <1>2
    <3>5. g[x] = Recost(g[x \ {k}], seq[k], 1)
      BY <3>2, <3>3, <3>4 DEF Recost
    <3> QED BY <3>5 DEF k
  <2>4. \A x \in SUBSET (1 .. m) :
          g[x] = IF x = {} THEN cost ELSE Recost(g[x \ {Max(x)}], seq[Max(x)], 1)
    BY <2>1, <2>3, <1>2 DEF Added
  <2>5. D(g)
    <3> HIDE DEF seq
    <3> QED BY <2>2, <2>4
  <2> QED BY <2>5
<1>4. D(it)
  BY <1>3
<1>5. Rolled(i) = Recost(it[1 .. m], i, inds[i] + 1)
  BY <1>0 DEF Rolled, FoldLeft, MapThenFoldSet
<1>6. \A x \in SUBSET (1 .. m) :
        it[x] = IF x = {} THEN cost ELSE Recost(it[x \ {Max(x)}], seq[Max(x)], 1)
  <2> HIDE DEF it, seq
  <2> QED BY <1>4
<1> HIDE DEF it, D
<1>7. it[{}] = b
  <2>1. \A x \in SUBSET (1 .. m) : x = {} => it[x] = b
    BY <1>6, <1>2
  <2> QED BY <2>1
<1>8. ASSUME NEW k \in 1 .. m, it[1 .. k - 1] \in Int
      PROVE  it[1 .. k] = it[1 .. k - 1] + h[k]
  <2>1. it[1 .. k] = Recost(it[1 .. k - 1], seq[k], 1)
    <3> HIDE DEF seq
    <3> QED BY <1>6, Shorter
  <2>2. seq[k] = i + k /\ i + k \in i + 1 .. i + m
    BY <1>0
  <2> QED BY <2>1, <2>2, <1>2, <1>8 DEF Recost
<1>9. AddedUp(it, b, h, m)
  BY <1>7, <1>8 DEF AddedUp
<1>10. PICK a : Runs(a, b, h, m) /\ it[1 .. m] = a[m]
  <2>1. b \in Int /\ h \in [1 .. m -> Int]
    BY <1>2
  <2> QED BY <2>1, <1>9, AddedRuns
<1> QED BY <1>2, <1>5, <1>10 DEF Runs

-----------------------------------------------------------------------------
(* The order of combinations                                               *)

\* c comes before x, and before all that begin as x does.
Behind(c, x) == \E i \in DOMAIN x : /\ i \in DOMAIN c
                                    /\ c[i] < x[i]
                                    /\ \A j \in 1 .. i - 1 : c[j] = x[j]

\* Two combinations differ within their first n elements; first at k.
Differ(c, x, n) == \E k \in 1 .. n : c[k] # x[k]
DifferAt(c, x, k) == c[k] # x[k] /\ \A j \in 1 .. k - 1 : c[j] = x[j]

LEMMA FirstDifference ==
  ASSUME NEW n \in Nat, NEW c, NEW x, Differ(c, x, n)
  PROVE  \E k \in 1 .. n : DifferAt(c, x, k)
<1> DEFINE D == {k \in 1 .. n : c[k] # x[k]}
<1>1. D \in SUBSET Nat /\ D # {}
  BY DEF Differ
<1>2. PICK k \in D : \A j \in D : k <= j
  <2> HIDE DEF D
  <2> QED BY <1>1, LeastNat
<1>3. ASSUME NEW j \in 1 .. k - 1 PROVE c[j] = x[j]
  <2>1. j \in 1 .. n /\ j < k
    OBVIOUS
  <2> QED BY <2>1, <1>2
<1> QED BY <1>3 DEF DifferAt

\* y, of m elements, is x, of l, with the next element at row r; none of its
\* later elements is after that of c, of n elements.
NextAt(n, l, m, r, x, y, c) ==
  /\ n \in Nat /\ l \in 1 .. n /\ m \in 1 .. n /\ r \in 1 .. m /\ r <= l
  /\ c \in [1 .. n -> Int] /\ x \in [1 .. l -> Int] /\ y \in [1 .. m -> Int]
  /\ \A j \in 1 .. r - 1 : y[j] = x[j]
  /\ y[r] = x[r] + 1
  /\ \A j \in r + 1 .. m : y[j] <= c[j]

\* Behind y is then what was behind x, and what agrees with x up to r.
LEMMA BehindNext ==
  ASSUME NEW n, NEW l, NEW m, NEW r, NEW x, NEW y, NEW c, NextAt(n, l, m, r, x, y, c)
  PROVE  Behind(c, y) <=> Behind(c, x) \/ \A j \in 1 .. r : c[j] = x[j]
<1> USE DEF NextAt
<1>1. ASSUME Behind(c, y), ~Behind(c, x) PROVE \A j \in 1 .. r : c[j] = x[j]
  <2>1. PICK i \in 1 .. m : c[i] < y[i] /\ \A j \in 1 .. i - 1 : c[j] = y[j]
    BY <1>1 DEF Behind
  <2>2. i <= r
    BY <2>1
  <2>3. CASE i < r
    <3>1. i \in 1 .. l /\ i \in 1 .. n /\ c[i] < x[i]
      BY <2>1, <2>3
    <3>2. \A j \in 1 .. i - 1 : c[j] = x[j]
      BY <2>1, <2>3
    <3> QED BY <3>1, <3>2, <1>1 DEF Behind
  <2>4. CASE i = r
    <3>1. \A j \in 1 .. r - 1 : c[j] = x[j]
      BY <2>1, <2>4
    <3>2. r \in 1 .. l /\ r \in 1 .. n /\ c[r] \in Int /\ x[r] \in Int
      OBVIOUS
    <3>3. ~(c[r] < x[r])
      BY <3>1, <3>2, <1>1 DEF Behind
    <3>4. c[r] = x[r]
      BY <3>2, <3>3, <2>1, <2>4
    <3> QED BY <3>1, <3>4
  <2> QED BY <2>2, <2>3, <2>4
<1>2. ASSUME Behind(c, x) PROVE Behind(c, y)
  <2>1. PICK i \in 1 .. l : /\ i \in 1 .. n /\ c[i] < x[i]
                            /\ \A j \in 1 .. i - 1 : c[j] = x[j]
    BY <1>2 DEF Behind
  <2>2. CASE i < r
    <3>1. i \in 1 .. m /\ c[i] < y[i] /\ \A j \in 1 .. i - 1 : c[j] = y[j]
      BY <2>1, <2>2
    <3> QED BY <3>1, <2>1 DEF Behind
  <2>3. CASE r <= i
    <3>1. r \in 1 .. n /\ r \in 1 .. l /\ c[r] \in Int /\ x[r] \in Int
      OBVIOUS
    <3>2. c[r] <= x[r]
      <4>1. CASE i = r
        BY <4>1, <3>1, <2>1
      <4>2. CASE r < i
        <5>1. r \in 1 .. i - 1
          BY <4>2
        <5> QED BY <5>1, <3>1, <2>1
      <4> QED BY <4>1, <4>2, <2>3
    <3>3. c[r] < y[r]
      BY <3>1, <3>2
    <3>4. \A j \in 1 .. r - 1 : c[j] = y[j]
      BY <2>1, <2>3
    <3> QED BY <3>1, <3>3, <3>4 DEF Behind
  <2> QED BY <2>2, <2>3
<1>3. ASSUME \A j \in 1 .. r : c[j] = x[j] PROVE Behind(c, y)
  <2>1. r \in 1 .. n /\ r \in 1 .. l /\ c[r] \in Int
    OBVIOUS
  <2>2. c[r] < y[r] /\ \A j \in 1 .. r - 1 : c[j] = y[j]
    BY <1>3, <2>1
  <2> QED BY <2>1, <2>2 DEF Behind
<1> QED BY <1>1, <1>2, <1>3

\* What is behind is earlier.
LEMMA BehindIsEarlier ==
  ASSUME NEW n \in Nat, NEW c \in [1 .. n -> Int], NEW x \in [1 .. n -> Int],
         Behind(c, x)
  PROVE  Earlier(c, x)
BY DEF Behind, Earlier

-----------------------------------------------------------------------------
(* The queues                                                              *)

\* What the bounds are.
BoundsFit == MaxQueues \in Nat /\ MaxElements \in Nat /\ Costs \subseteq Int

\* The queues hold costs; a queue without any ends a loop at once.
QueuesFit ==
  /\ loop \in {"merge", "filter"} /\ done \in BOOLEAN
  /\ queues \in Seq(Seq(Int)) /\ Len(queues) \in Nat \ {0}
  /\ \A i \in 1 .. Len(queues) : Len(queues[i]) <= MaxElements
  /\ SomeEmpty(queues) => done

LEMMA QueuesAre ==
  ASSUME QueuesFit
  PROVE  /\ DOMAIN queues = 1 .. Len(queues)
         /\ \A i \in 1 .. Len(queues) :
              /\ queues[i] \in Seq(Int) /\ Len(queues[i]) \in Nat
              /\ \A k \in 1 .. Len(queues[i]) : queues[i][k] \in Int
         /\ ~SomeEmpty(queues) => \A i \in 1 .. Len(queues) : Len(queues[i]) >= 1
<1>1. DOMAIN queues = 1 .. Len(queues)
  BY DEF QueuesFit
<1>2. ASSUME NEW i \in 1 .. Len(queues)
      PROVE  /\ queues[i] \in Seq(Int) /\ Len(queues[i]) \in Nat
             /\ \A k \in 1 .. Len(queues[i]) : queues[i][k] \in Int
  <2>1. queues[i] \in Seq(Int)
    BY DEF QueuesFit
  <2> QED BY <2>1
<1>3. ASSUME ~SomeEmpty(queues), NEW i \in 1 .. Len(queues)
      PROVE  Len(queues[i]) >= 1
  <2>1. queues[i] # << >>
    BY <1>1, <1>3 DEF SomeEmpty
  <2>2. queues[i] \in Seq(Int) /\ Len(queues[i]) \in Nat
    BY <1>2
  <2> QED BY <2>1, <2>2, EmptySeq
<1> QED BY <1>1, <1>2, <1>3

\* A whole combination has one element of each queue.
LEMMA WholeIs ==
  ASSUME QueuesFit, BoundsFit, NEW c
  PROVE  c \in Whole <=>
           /\ c \in [1 .. Len(queues) -> Int]
           /\ \A i \in 1 .. Len(queues) : c[i] \in 1 .. Len(queues[i])
<1> DEFINE n == Len(queues)
<1>1. DOMAIN queues = 1 .. n
  BY QueuesAre
<1>2. \A i \in 1 .. n : Len(queues[i]) \in Nat /\ Len(queues[i]) <= MaxElements
  BY QueuesAre DEF QueuesFit
<1>3. MaxElements \in Nat
  BY DEF BoundsFit
<1> HIDE DEF n
<1>4. ASSUME c \in Whole
      PROVE  /\ c \in [1 .. n -> Int]
             /\ \A i \in 1 .. n : c[i] \in 1 .. Len(queues[i])
  <2>1. /\ c \in [1 .. n -> 1 .. MaxElements]
        /\ \A i \in 1 .. n : c[i] <= Len(queues[i])
    BY <1>1, <1>4 DEF Whole
  <2>2. \A i \in 1 .. n : c[i] \in 1 .. MaxElements
    BY <2>1
  <2>3. \A i \in 1 .. n : c[i] \in Int /\ c[i] \in 1 .. Len(queues[i])
    BY <2>1, <2>2, <1>2, <1>3
  <2> QED BY <2>1, <2>3
<1>5. ASSUME /\ c \in [1 .. n -> Int]
             /\ \A i \in 1 .. n : c[i] \in 1 .. Len(queues[i])
      PROVE  c \in Whole
  <2>1. \A i \in 1 .. n : c[i] \in 1 .. MaxElements /\ c[i] <= Len(queues[i])
    BY <1>5, <1>2, <1>3
  <2>2. c \in [1 .. n -> 1 .. MaxElements]
    BY <1>5, <2>1
  <2> QED BY <1>1, <2>1, <2>2 DEF Whole
<1> QED BY <1>4, <1>5 DEF n

\* A beginning has one element of each of the first queues.
LEMMA PartialIs ==
  ASSUME QueuesFit, BoundsFit, NEW p
  PROVE  p \in Partial <=>
           /\ p \in Seq(Int) /\ Len(p) \in 1 .. Len(queues)
           /\ \A i \in 1 .. Len(p) : p[i] \in 1 .. Len(queues[i])
<1>1. PICK n : n = Len(queues)
  OBVIOUS
<1>2. n \in Nat /\ DOMAIN queues = 1 .. n
  BY <1>1, QueuesAre DEF QueuesFit
<1>3. \A i \in 1 .. n : Len(queues[i]) \in Nat /\ Len(queues[i]) <= MaxElements
  BY <1>1, QueuesAre DEF QueuesFit
<1>4. MaxElements \in Nat
  BY DEF BoundsFit
<1>5. ASSUME p \in Partial
      PROVE  /\ p \in Seq(Int) /\ Len(p) \in 1 .. n
             /\ \A i \in 1 .. Len(p) : p[i] \in 1 .. Len(queues[i])
  <2>1. PICK m \in 1 .. n : p \in [1 .. m -> 1 .. MaxElements]
    BY <1>2, <1>5 DEF Partial
  <2>2. m \in Nat /\ DOMAIN p = 1 .. m /\ \A i \in 1 .. m : p[i] \in 1 .. MaxElements
    BY <2>1, <1>2
  <2>3. \A i \in 1 .. m : i \in 1 .. n /\ p[i] <= Len(queues[i])
    BY <2>1, <2>2, <1>2, <1>5 DEF Partial
  <2>4. \A i \in 1 .. m : p[i] \in Int /\ p[i] \in 1 .. Len(queues[i])
    BY <2>2, <2>3, <1>3, <1>4
  <2>5. p \in Seq(Int) /\ Len(p) = m
    BY <2>1, <2>2, <2>4
  <2> QED BY <2>1, <2>4, <2>5
<1>6. ASSUME /\ p \in Seq(Int) /\ Len(p) \in 1 .. n
             /\ \A i \in 1 .. Len(p) : p[i] \in 1 .. Len(queues[i])
      PROVE  p \in Partial
  <2>1. PICK m : m = Len(p)
    OBVIOUS
  <2>2. m \in 1 .. n /\ DOMAIN p = 1 .. m
    BY <2>1, <1>6
  <2>3. \A i \in 1 .. m : i \in 1 .. n
    BY <2>2, <1>2
  <2>4. \A i \in 1 .. m : p[i] \in 1 .. MaxElements /\ p[i] <= Len(queues[i])
    BY <2>1, <2>3, <1>3, <1>4, <1>6
  <2>5. p \in [1 .. m -> 1 .. MaxElements]
    BY <2>1, <2>2, <2>4, <1>6
  <2> QED BY <2>2, <2>4, <2>5, <1>2 DEF Partial
<1> QED BY <1>1, <1>5, <1>6

LEMMA QueuesInit ==
  ASSUME BoundsFit, Init
  PROVE  QueuesFit
<1>1. PICK n \in 1 .. MaxQueues : queues \in [1 .. n -> SeqOf(ElementCosts, MaxElements)]
  BY DEF Init
<1>2. n \in Nat \ {0}
  BY DEF BoundsFit
<1>3. ElementCosts \subseteq Int /\ MaxElements \in Nat
  BY DEF BoundsFit, ElementCosts
<1>4. ASSUME NEW i \in 1 .. n
      PROVE  queues[i] \in Seq(Int) /\ Len(queues[i]) <= MaxElements
  <2>1. queues[i] \in SeqOf(ElementCosts, MaxElements)
    BY <1>1
  <2>2. PICK m \in 0 .. MaxElements : queues[i] \in [1 .. m -> ElementCosts]
    BY <2>1 DEF SeqOf
  <2>3. \A k \in 1 .. m : queues[i][k] \in Int
    BY <2>2, <1>3
  <2>4. m \in Nat /\ m <= MaxElements
    BY <1>3
  <2>5. queues[i] \in [1 .. m -> Int]
    BY <2>2, <2>3
  <2> QED BY <2>4, <2>5
<1>5. queues \in [1 .. n -> Seq(Int)] /\ queues \in Seq(Seq(Int)) /\ Len(queues) = n
  BY <1>1, <1>2, <1>4
<1>6. loop \in {"merge", "filter"} /\ done = SomeEmpty(queues) /\ done \in BOOLEAN
  BY DEF Init, SomeEmpty
<1> QED BY <1>2, <1>4, <1>5, <1>6 DEF QueuesFit

LEMMA QueuesStep ==
  ASSUME QueuesFit, [Next]_vars
  PROVE  QueuesFit' /\ queues' = queues /\ loop' = loop
<1>1. queues' = queues /\ loop' = loop
  BY DEF Next, MergeStep, FilterStep, vars
<1>2. done' \in BOOLEAN /\ (done => done')
  BY DEF Next, MergeStep, FilterStep, NextIndex, Backtrack, vars, QueuesFit
<1> QED BY <1>1, <1>2 DEF QueuesFit, SomeEmpty

-----------------------------------------------------------------------------
(* The running cost                                                        *)

\* The cost of a whole combination, one queue after another.
LEMMA CostRuns ==
  ASSUME QueuesFit, BoundsFit, NEW c, c \in Whole
  PROVE  \E a : /\ a \in [0 .. Len(queues) -> Int]
                /\ a[0] = 0
                /\ \A k \in 1 .. Len(queues) : a[k] = a[k - 1] + queues[k][c[k]]
                /\ CostOf(c) = a[Len(queues)]
<1>1. /\ c \in [1 .. Len(queues) -> Int]
      /\ \A i \in 1 .. Len(queues) : c[i] \in 1 .. Len(queues[i])
  BY WholeIs
<1>2. Len(queues) \in Nat
  BY DEF QueuesFit
<1>3. \A i \in 1 .. Len(queues) : queues[i][c[i]] \in Int
  BY <1>1, QueuesAre
<1>4. \E n, s : /\ n = Len(queues)
                /\ s = [i \in 1 .. Len(queues) |-> queues[i][c[i]]]
  OBVIOUS
<1>5. PICK n, s : /\ n = Len(queues)
                  /\ s = [i \in 1 .. Len(queues) |-> queues[i][c[i]]]
  BY <1>4
<1>6. n \in Nat /\ s \in [1 .. n -> Int]
  BY <1>2, <1>3, <1>5
<1>7. PICK a : Runs(a, 0, s, n) /\ Sum(s) = a[n]
  BY <1>6, SumRuns
<1>8. CostOf(c) = Sum(s)
  BY <1>1, <1>5 DEF CostOf
<1> QED BY <1>5, <1>7, <1>8 DEF Runs

\* The row that is advanced has elements left, and those after it have none.
LEMMA RowIs ==
  ASSUME QueuesFit, BoundsFit, inds \in Whole
  PROVE  /\ Rows \in SUBSET (1 .. Len(queues)) /\ DOMAIN inds = 1 .. Len(queues)
         /\ Len(inds) = Len(queues)
         /\ \A i \in 1 .. Len(queues) : i \notin Rows => inds[i] = Len(queues[i])
         /\ \A i \in Rows : inds[i] + 1 \in 1 .. Len(queues[i])
         /\ Rows # {} => /\ Max(Rows) \in Rows
                         /\ \A i \in Max(Rows) + 1 .. Len(queues) : i \notin Rows
<1>1. /\ inds \in [1 .. Len(queues) -> Int]
      /\ \A i \in 1 .. Len(queues) : inds[i] \in 1 .. Len(queues[i])
  BY WholeIs
<1>2. \A i \in 1 .. Len(queues) : Len(queues[i]) \in Nat
  BY QueuesAre
<1>3. Len(queues) \in Nat
  BY DEF QueuesFit
<1>4. /\ Rows \in SUBSET (1 .. Len(queues))
      /\ \A i \in 1 .. Len(queues) : i \in Rows <=> inds[i] < Len(queues[i])
  BY <1>1 DEF Rows, HasNext
<1>5. ASSUME Rows # {}
      PROVE  /\ Max(Rows) \in Rows
             /\ \A i \in Max(Rows) + 1 .. Len(queues) : i \notin Rows
  <2>1. \E n, s : n = Len(queues) /\ s = Rows
    OBVIOUS
  <2>2. PICK n, s : n = Len(queues) /\ s = Rows
    BY <2>1
  <2>3. n \in Nat /\ s \in SUBSET (1 .. n) /\ s # {}
    BY <2>2, <1>3, <1>4, <1>5
  <2>4. Max(s) \in s /\ \A x \in s : x <= Max(s)
    BY <2>3, MaxIn
  <2>5. Max(s) \in 1 .. n
    BY <2>3, <2>4
  <2> QED BY <2>2, <2>3, <2>4, <2>5
<1>6. Len(inds) = Len(queues)
  BY <1>1, <1>3
<1>7. \A i \in 1 .. Len(queues) : i \notin Rows => inds[i] = Len(queues[i])
  BY <1>1, <1>2, <1>4
<1>8. \A i \in Rows : inds[i] + 1 \in 1 .. Len(queues[i])
  BY <1>1, <1>2, <1>4
<1> QED BY <1>1, <1>4, <1>5, <1>6, <1>7, <1>8

LEMMA AdvancedFits ==
  ASSUME QueuesFit, BoundsFit, ~SomeEmpty(queues), inds \in Whole, Rows # {}
  PROVE  Advanced(Max(Rows)) \in Whole
<1> DEFINE r == Max(Rows)
           y == Advanced(r)
<1>1. /\ r \in Rows /\ r \in 1 .. Len(queues) /\ inds[r] + 1 \in 1 .. Len(queues[r])
      /\ DOMAIN inds = 1 .. Len(queues)
  BY RowIs
<1>2. /\ inds \in [1 .. Len(queues) -> Int]
      /\ \A i \in 1 .. Len(queues) : inds[i] \in 1 .. Len(queues[i])
  BY WholeIs
<1>3. \A i \in 1 .. Len(queues) : 1 \in 1 .. Len(queues[i])
  BY QueuesAre
<1> HIDE DEF r
<1>4. \A i \in 1 .. Len(queues) :
        y[i] = IF i < r THEN inds[i] ELSE IF i = r THEN inds[i] + 1 ELSE 1
  BY <1>1 DEF Advanced
<1>5. \A i \in 1 .. Len(queues) : y[i] \in Int /\ y[i] \in 1 .. Len(queues[i])
  BY <1>1, <1>2, <1>3, <1>4
<1>6. DOMAIN y = 1 .. Len(queues) /\ y = [i \in 1 .. Len(queues) |-> y[i]]
  BY <1>1 DEF Advanced
<1> HIDE DEF y
<1>7. y \in [1 .. Len(queues) -> Int]
  BY <1>5, <1>6
<1> QED BY <1>5, <1>7, WholeIs DEF r, y

\* Rolling queues over by differences ends at the cost of what is next.
LEMMA RolledIsCost ==
  ASSUME QueuesFit, BoundsFit, ~SomeEmpty(queues), inds \in Whole,
         cost = CostOf(inds), Rows # {}
  PROVE  Rolled(Max(Rows)) = CostOf(Advanced(Max(Rows)))
<1>1. \E n, r, y, q, x, c :
        /\ n = Len(queues) /\ r = Max(Rows) /\ y = Advanced(Max(Rows))
        /\ q = queues /\ x = inds /\ c = cost
  OBVIOUS
<1>2. PICK n, r, y, q, x, c :
        /\ n = Len(queues) /\ r = Max(Rows) /\ y = Advanced(Max(Rows))
        /\ q = queues /\ x = inds /\ c = cost
  BY <1>1
<1>3. n \in Nat \ {0}
  BY <1>2 DEF QueuesFit
<1>4. r \in 1 .. n /\ DOMAIN x = 1 .. n /\ Len(x) = n /\ x[r] + 1 \in 1 .. Len(q[r])
  BY <1>2, RowIs
<1>5. y \in Whole /\ x \in Whole
  BY <1>2, AdvancedFits
<1>6. \A i \in 1 .. n :
        y[i] = IF i < r THEN x[i] ELSE IF i = r THEN x[i] + 1 ELSE 1
  BY <1>2, <1>4 DEF Advanced
<1>7. \A i \in 1 .. n : x[i] \in 1 .. Len(q[i]) /\ y[i] \in 1 .. Len(q[i])
  BY <1>2, <1>5, WholeIs
<1>8. \A i \in 1 .. n : q[i][x[i]] \in Int /\ q[i][y[i]] \in Int
  BY <1>2, <1>7, QueuesAre
<1>9. PICK X : /\ X \in [0 .. n -> Int]
               /\ \A k \in 1 .. n : X[k] = X[k - 1] + q[k][x[k]]
               /\ X[0] = 0 /\ c = X[n]
  BY <1>2, <1>5, CostRuns
<1>10. PICK Y : /\ Y \in [0 .. n -> Int]
                /\ \A k \in 1 .. n : Y[k] = Y[k - 1] + q[k][y[k]]
                /\ Y[0] = 0 /\ CostOf(y) = Y[n]
  BY <1>2, <1>5, CostRuns
<1>11. PICK m : m \in Nat /\ r + m = n
  <2>1. n - r \in Nat /\ r + (n - r) = n
    BY <1>3, <1>4
  <2> QED BY <2>1
<1>12. PICK F : /\ F \in [0 .. m -> Int]
                /\ F[0] = c
                /\ \A k \in 1 .. m :
                     F[k] = F[k - 1] + (q[r + k][1] - q[r + k][x[r + k]])
                /\ Rolled(r) = Recost(F[m], r, x[r] + 1)
  <2>1. r \in Nat /\ m \in Nat /\ r + m = Len(inds)
    BY <1>2, <1>4, <1>11
  <2>2. cost \in Int
    BY <1>2, <1>3, <1>9
  <2>3. ASSUME NEW j \in r + 1 .. r + m
        PROVE  queues[j][1] \in Int /\ queues[j][inds[j]] \in Int
    <3>1. j \in 1 .. n /\ ~(j < r) /\ j # r
      BY <1>4, <1>11
    <3>2. y[j] = 1
      BY <3>1, <1>6
    <3> QED BY <3>1, <3>2, <1>8, <1>2
  <2>4. \E F : /\ F \in [0 .. m -> Int]
               /\ F[0] = cost
               /\ \A k \in 1 .. m :
                    F[k] = F[k - 1] + (queues[r + k][1] - queues[r + k][inds[r + k]])
               /\ Rolled(r) = Recost(F[m], r, inds[r] + 1)
    BY <2>1, <2>2, <2>3, RolledRuns
  <2> QED BY <2>4, <1>2
<1>13. X[r - 1] = Y[r - 1]
  <2> DEFINE P == {k \in Nat : k <= r - 1 => X[k] = Y[k]}
  <2>1. 0 \in P
    BY <1>9, <1>10
  <2>2. ASSUME NEW k \in P PROVE k + 1 \in P
    <3>1. CASE k + 1 <= r - 1
      <4>1. /\ k + 1 \in 1 .. n /\ (k + 1) - 1 = k /\ k + 1 < r
            /\ k \in Nat /\ X[k] = Y[k]
        BY <3>1, <1>4
      <4>2. y[k + 1] = x[k + 1]
        BY <4>1, <1>6
      <4>3. X[k + 1] = X[k] + q[k + 1][x[k + 1]] /\ Y[k + 1] = Y[k] + q[k + 1][y[k + 1]]
        BY <4>1, <1>9, <1>10
      <4>4. X[k + 1] = Y[k + 1]
        BY <4>1, <4>2, <4>3
      <4> QED BY <4>1, <4>4
    <3>2. CASE ~(k + 1 <= r - 1)
      BY <3>2
    <3> QED BY <3>1, <3>2
  <2>3. P = Nat
    <3> HIDE DEF P
    <3>1. P \in SUBSET Nat
      BY DEF P
    <3> QED BY <2>1, <2>2, <3>1, Induction
  <2>4. r - 1 \in Nat
    BY <1>4
  <2> QED BY <2>3, <2>4
<1>14. F[m] - c = (Y[n] - Y[r]) - (X[n] - X[r])
  <2> DEFINE P == {k \in Nat : k <= m =>
                     F[k] - c = (Y[r + k] - Y[r]) - (X[r + k] - X[r])}
  <2>0. \A k \in 0 .. n : X[k] \in Int /\ Y[k] \in Int
    BY <1>9, <1>10
  <2>1. 0 \in P
    <3>1. r + 0 = r /\ r \in 0 .. n /\ F[0] = c /\ c \in Int
      BY <1>3, <1>4, <1>9, <1>12
    <3>2. X[r] \in Int /\ Y[r] \in Int
      BY <3>1, <2>0
    <3> QED BY <3>1, <3>2
  <2>2. ASSUME NEW k \in P PROVE k + 1 \in P
    <3>1. CASE k + 1 <= m
      <4>1. /\ k \in Nat /\ k + 1 \in 1 .. m /\ (k + 1) - 1 = k
            /\ F[k] - c = (Y[r + k] - Y[r]) - (X[r + k] - X[r])
        BY <3>1, <1>11
      <4>2. /\ r + (k + 1) \in 1 .. n /\ (r + (k + 1)) - 1 = r + k
            /\ r + k \in 0 .. n /\ ~(r + (k + 1) < r) /\ r + (k + 1) # r
        BY <4>1, <1>4, <1>11
      <4> DEFINE j == r + (k + 1)
      <4>3. y[j] = 1 /\ q[j][x[j]] \in Int /\ q[j][1] \in Int
        <5>1. y[j] = 1
          BY <4>2, <1>6
        <5>2. q[j][x[j]] \in Int /\ q[j][y[j]] \in Int
          BY <4>2, <1>8
        <5> QED BY <5>1, <5>2
      <4>4. /\ X[j] = X[r + k] + q[j][x[j]] /\ Y[j] = Y[r + k] + q[j][1]
            /\ F[k + 1] = F[k] + (q[j][1] - q[j][x[j]])
        BY <4>1, <4>2, <4>3, <1>9, <1>10, <1>12
      <4>5. /\ X[r + k] \in Int /\ Y[r + k] \in Int /\ X[r] \in Int /\ Y[r] \in Int
            /\ F[k] \in Int /\ c \in Int
        <5>1. r \in 0 .. n /\ k \in 0 .. m /\ n \in 0 .. n
          BY <4>1, <1>3, <1>4, <1>11
        <5>2. F[k] \in Int
          BY <5>1, <1>12
        <5>3. c \in Int
          BY <5>1, <2>0, <1>9
        <5> QED BY <5>1, <5>2, <5>3, <4>2, <2>0
      <4> HIDE DEF j
      <4>6. F[k + 1] - c = (Y[j] - Y[r]) - (X[j] - X[r])
        BY <4>1, <4>3, <4>4, <4>5
      <4> QED BY <4>1, <4>6 DEF j
    <3>2. CASE ~(k + 1 <= m)
      BY <3>2
    <3> QED BY <3>1, <3>2
  <2>3. P = Nat
    <3> HIDE DEF P
    <3>1. P \in SUBSET Nat
      BY DEF P
    <3> QED BY <2>1, <2>2, <3>1, Induction
  <2>4. F[m] - c = (Y[r + m] - Y[r]) - (X[r + m] - X[r])
    BY <2>3, <1>11
  <2> QED BY <2>4, <1>11
<1>15. /\ X[r] = X[r - 1] + q[r][x[r]] /\ Y[r] = Y[r - 1] + q[r][x[r] + 1]
       /\ q[r][x[r]] \in Int /\ q[r][x[r] + 1] \in Int
  <2>1. r \in 1 .. n /\ y[r] = x[r] + 1
    BY <1>4, <1>6
  <2> QED BY <2>1, <1>8, <1>9, <1>10
<1>16. Recost(F[m], r, x[r] + 1) = F[m] + q[r][x[r] + 1] - q[r][x[r]]
  BY <1>2 DEF Recost
<1>17. /\ X[n] \in Int /\ Y[n] \in Int /\ X[r] \in Int /\ Y[r] \in Int
       /\ X[r - 1] \in Int /\ F[m] \in Int /\ c \in Int
  <2>1. n \in 0 .. n /\ r \in 0 .. n /\ r - 1 \in 0 .. n /\ m \in 0 .. m
    BY <1>3, <1>4, <1>11
  <2> QED BY <2>1, <1>9, <1>10, <1>12
<1>18. F[m] + q[r][x[r] + 1] - q[r][x[r]] = Y[n]
  <2>1. c = X[n]
    BY <1>9
  <2> QED BY <2>1, <1>13, <1>14, <1>15, <1>17
<1> QED BY <1>2, <1>10, <1>12, <1>16, <1>18

-----------------------------------------------------------------------------
(* for_each_cost_combo()                                                   *)

\* The whole combinations a loop is done with.
Tried == {c \in Whole : done \/ Behind(c, inds)}

\* What the merge returns of the combinations C.
Merged(C) == {[cost |-> CostOf(c), combo |-> c] : c \in {d \in C : Said(d, "ACCEPT")}}

\* The merge has asked about the combinations before inds, whose cost it knows,
\* and has listed those that were accepted.
MergeInv ==
  loop = "merge" /\ ~SomeEmpty(queues) =>
    /\ ~done => inds \in Whole /\ cost = CostOf(inds)
    /\ DOMAIN verdict = Tried
    /\ out \in Seq(Merged(Tried)) /\ Range(out) = Merged(Tried)
    /\ InOrder([i \in DOMAIN out |-> out[i].combo])

\* The first combination: nothing is behind it.
LEMMA FirstIs ==
  ASSUME QueuesFit, BoundsFit, ~SomeEmpty(queues)
  PROVE  /\ Ones(Len(queues)) \in Whole
         /\ \A c \in Whole : ~Behind(c, Ones(Len(queues)))
<1> DEFINE n == Len(queues)
           x == Ones(n)
<1>1. n \in Nat \ {0}
  BY DEF QueuesFit
<1>2. x \in [1 .. n -> Int] /\ \A i \in 1 .. n : x[i] = 1
  BY DEF Ones
<1>3. \A i \in 1 .. n : x[i] \in 1 .. Len(queues[i])
  BY <1>2, QueuesAre
<1>4. x \in Whole
  <2> HIDE DEF x
  <2> QED BY <1>2, <1>3, WholeIs
<1>5. ASSUME NEW c \in Whole PROVE ~Behind(c, x)
  <2>1. \A i \in 1 .. n : c[i] \in 1 .. Len(queues[i]) /\ Len(queues[i]) \in Nat
    BY WholeIs, QueuesAre
  <2>2. \A i \in 1 .. n : ~(c[i] < x[i])
    BY <2>1, <1>2
  <2>3. DOMAIN x = 1 .. n
    BY <1>2
  <2> QED BY <2>2, <2>3 DEF Behind
<1> QED BY <1>4, <1>5

LEMMA MergeInit ==
  ASSUME BoundsFit, Init
  PROVE  MergeInv
<1> SUFFICES ASSUME loop = "merge", ~SomeEmpty(queues)
             PROVE  /\ ~done => inds \in Whole /\ cost = CostOf(inds)
                    /\ DOMAIN verdict = Tried
                    /\ out \in Seq(Merged(Tried)) /\ Range(out) = Merged(Tried)
                    /\ InOrder([i \in DOMAIN out |-> out[i].combo])
  BY DEF MergeInv
<1>1. QueuesFit
  BY QueuesInit
<1>2. /\ ~done /\ inds = Ones(Len(queues)) /\ cost = CostOf(inds)
      /\ out = << >> /\ verdict = << >>
  BY DEF Init
<1>3. inds \in Whole /\ \A c \in Whole : ~Behind(c, inds)
  BY <1>1, <1>2, FirstIs
<1>4. Tried = {}
  BY <1>2, <1>3 DEF Tried
<1>5. Merged(Tried) = {}
  BY <1>4 DEF Merged
<1>6. DOMAIN verdict = {} /\ DOMAIN out = {} /\ Range(out) = {}
  BY <1>2 DEF Range
<1>7. out \in Seq(Merged(Tried))
  BY <1>2
<1>8. InOrder([i \in DOMAIN out |-> out[i].combo])
  BY <1>6 DEF InOrder
<1> QED BY <1>2, <1>3, <1>4, <1>5, <1>6, <1>7, <1>8

\* One turn takes inds to those that are tried.
LEMMA TriedGrows ==
  ASSUME QueuesFit, BoundsFit, ~SomeEmpty(queues), inds \in Whole, ~done, NextIndex,
         queues' = queues
  PROVE  Tried' = Tried \cup {inds}
<1> DEFINE n == Len(queues)
<1>1. Whole' = Whole
  BY DEF Whole
<1>2. n \in Nat \ {0} /\ inds \in [1 .. n -> Int]
  BY WholeIs DEF QueuesFit
<1>3. /\ Rows \in SUBSET (1 .. n) /\ DOMAIN inds = 1 .. n
      /\ \A i \in 1 .. n : i \notin Rows => inds[i] = Len(queues[i])
      /\ Rows # {} => /\ Max(Rows) \in Rows
                      /\ \A i \in Max(Rows) + 1 .. n : i \notin Rows
  BY RowIs
<1> SUFFICES ASSUME NEW c \in Whole
             PROVE  done' \/ Behind(c, inds') <=> Behind(c, inds) \/ c = inds
  <2>1. inds \in Whole
    OBVIOUS
  <2> QED BY <2>1, <1>1 DEF Tried
<1>4. /\ c \in [1 .. n -> Int]
      /\ \A i \in 1 .. n : c[i] \in 1 .. Len(queues[i]) /\ Len(queues[i]) \in Nat
  BY WholeIs, QueuesAre
<1> DEFINE Agree(r) == \A j \in 1 .. r : c[j] = inds[j]
<1>5. ASSUME NEW r \in 0 .. n, \A i \in r + 1 .. n : i \notin Rows, Agree(r)
      PROVE  Behind(c, inds) \/ c = inds
  <2> SUFFICES ASSUME c # inds PROVE Behind(c, inds)
    OBVIOUS
  <2>1. \E k \in 1 .. n : c[k] # inds[k]
    BY <1>2, <1>4
  <2>2. PICK k \in 1 .. n : c[k] # inds[k] /\ \A j \in 1 .. k - 1 : c[j] = inds[j]
    <3>1. PICK m, x : m = n /\ x = inds
      OBVIOUS
    <3>2. m \in Nat /\ Differ(c, x, m)
      BY <3>1, <2>1, <1>2 DEF Differ
    <3>3. \E k \in 1 .. m : DifferAt(c, x, k)
      BY <3>2, FirstDifference
    <3> QED BY <3>1, <3>3 DEF DifferAt
  <2>3. k \in r + 1 .. n
    BY <2>2, <1>5
  <2>4. inds[k] = Len(queues[k]) /\ c[k] \in 1 .. Len(queues[k])
    BY <2>3, <1>3, <1>4, <1>5
  <2>5. c[k] < inds[k]
    BY <2>2, <2>4, <1>4
  <2> QED BY <2>2, <2>5, <1>3, <1>4 DEF Behind
<1>6. CASE Rows = {}
  <2>1. done'
    BY <1>6 DEF NextIndex
  <2>2. Agree(0) /\ 0 \in 0 .. n
    BY <1>2
  <2>3. Behind(c, inds) \/ c = inds
    <3> HIDE DEF Agree
    <3> QED BY <2>2, <1>5, <1>6
  <2> QED BY <2>1, <2>3
<1>7. CASE Rows # {}
  <2>1. PICK r : r = Max(Rows)
    OBVIOUS
  <2>2. r \in Rows /\ r \in 1 .. n /\ \A i \in r + 1 .. n : i \notin Rows
    BY <2>1, <1>3, <1>7
  <2>3. inds' = Advanced(r) /\ ~done'
    BY <2>1, <1>7 DEF NextIndex
  <2>4. inds' \in [1 .. n -> Int] /\ inds' \in Whole
    BY <2>1, <2>3, <1>7, AdvancedFits, WholeIs
  <2>5. /\ \A j \in 1 .. r - 1 : inds'[j] = inds[j]
        /\ inds'[r] = inds[r] + 1
        /\ \A j \in r + 1 .. n : inds'[j] = 1
    BY <2>2, <2>3, <1>2, <1>3 DEF Advanced
  <2>6. \A j \in r + 1 .. n : inds'[j] <= c[j]
    BY <2>2, <2>5, <1>4
  <2>7. Behind(c, inds') <=> Behind(c, inds) \/ Agree(r)
    <3>1. \E m, x, y : m = n /\ x = inds /\ y = inds'
      OBVIOUS
    <3>2. PICK m, x, y : m = n /\ x = inds /\ y = inds'
      BY <3>1
    <3>3. /\ m \in Nat /\ m \in 1 .. m /\ r \in 1 .. m /\ r <= m
          /\ c \in [1 .. m -> Int] /\ x \in [1 .. m -> Int] /\ y \in [1 .. m -> Int]
          /\ \A j \in 1 .. r - 1 : y[j] = x[j]
          /\ y[r] = x[r] + 1
          /\ \A j \in r + 1 .. m : y[j] <= c[j]
      BY <3>2, <2>2, <2>4, <2>5, <2>6, <1>2, <1>4
    <3>7. NextAt(m, m, m, r, x, y, c)
      BY <3>3 DEF NextAt
    <3>4. Behind(c, y) <=> Behind(c, x) \/ \A j \in 1 .. r : c[j] = x[j]
      BY <3>7, BehindNext
    <3>5. (\A j \in 1 .. r : c[j] = x[j]) <=> Agree(r)
      BY <3>2
    <3>6. (Behind(c, y) <=> Behind(c, inds')) /\ (Behind(c, x) <=> Behind(c, inds))
      BY <3>2
    <3> HIDE DEF Agree
    <3> QED BY <3>4, <3>5, <3>6
  <2>8. c = inds => Agree(r)
    OBVIOUS
  <2>9. Agree(r) => Behind(c, inds) \/ c = inds
    <3>1. r \in 0 .. n
      BY <2>2
    <3> HIDE DEF Agree
    <3> QED BY <3>1, <2>2, <1>5
  <2> QED BY <2>3, <2>7, <2>8, <2>9
<1> QED BY <1>6, <1>7

\* What is said of inds is remembered beside what was said before.
LEMMA Remembers ==
  ASSUME NEW v, verdict' = Heard(v)
  PROVE  /\ DOMAIN verdict' = {inds} \cup DOMAIN verdict
         /\ \A c, f : Said(c, f)' <=> IF c = inds THEN f = v ELSE Said(c, f)
<1>1. DOMAIN verdict' = {inds} \cup DOMAIN verdict
  BY DEF Heard
<1>2. \A c \in DOMAIN verdict' :
        verdict'[c] = IF c = inds THEN v ELSE verdict[c]
  BY DEF Heard
<1>3. ASSUME NEW c, NEW f
      PROVE  Said(c, f)' <=> IF c = inds THEN f = v ELSE Said(c, f)
  <2>1. Said(c, f)' <=> c \in DOMAIN verdict' /\ verdict'[c] = f
    BY DEF Said
  <2>2. Said(c, f) <=> c \in DOMAIN verdict /\ verdict[c] = f
    BY DEF Said
  <2>3. CASE c = inds
    BY <2>1, <2>3, <1>1, <1>2
  <2>4. CASE c # inds
    BY <2>1, <2>2, <2>4, <1>1, <1>2
  <2> QED BY <2>3, <2>4
<1> QED BY <1>1, <1>3

\* t is s, a list of members of S, and e after it.
Appended(t, S, s, e) ==
  /\ t \in Seq(S \cup {e}) /\ Len(s) \in Nat
  /\ DOMAIN t = 1 .. Len(s) + 1 /\ DOMAIN s = 1 .. Len(s)
  /\ \A i \in 1 .. Len(s) : t[i] = s[i] /\ s[i] \in S
  /\ t[Len(s) + 1] = e
  /\ Range(t) = Range(s) \cup {e}

LEMMA AppendAdds ==
  ASSUME NEW S, NEW s \in Seq(S), NEW e
  PROVE  Appended(Append(s, e), S, s, e)
<1>1. s \in Seq(S \cup {e}) /\ e \in S \cup {e} /\ Len(s) \in Nat
  BY SeqMonotonic
<1>2. /\ Append(s, e) \in Seq(S \cup {e})
      /\ DOMAIN Append(s, e) = 1 .. Len(s) + 1 /\ DOMAIN s = 1 .. Len(s)
      /\ \A i \in 1 .. Len(s) : Append(s, e)[i] = s[i] /\ s[i] \in S
      /\ Append(s, e)[Len(s) + 1] = e
  BY <1>1
<1>3. 1 .. Len(s) + 1 = (1 .. Len(s)) \cup {Len(s) + 1}
  BY <1>1
<1>4. Range(Append(s, e)) = Range(s) \cup {e}
  BY <1>2, <1>3 DEF Range
<1> QED BY <1>1, <1>2, <1>4 DEF Appended

LEMMA MergeKeeps ==
  ASSUME QueuesFit, BoundsFit, MergeInv, MergeStep, ~SomeEmpty(queues)
  PROVE  MergeInv'
<1>1. /\ ~done /\ loop = "merge" /\ NextIndex
      /\ loop' = loop /\ queues' = queues /\ iter' = iter
  BY DEF MergeStep
<1>2. PICK v \in {"ACCEPT", "REJECT_THIS"} :
        /\ verdict' = Heard(v)
        /\ out' = IF v = "ACCEPT" THEN Append(out, [cost |-> cost, combo |-> inds])
                                  ELSE out
  BY DEF MergeStep
<1>3. /\ inds \in Whole /\ cost = CostOf(inds)
      /\ DOMAIN verdict = Tried
      /\ out \in Seq(Merged(Tried)) /\ Range(out) = Merged(Tried)
      /\ InOrder([i \in DOMAIN out |-> out[i].combo])
  BY <1>1 DEF MergeInv
<1>4. Tried' = Tried \cup {inds}
  BY <1>1, <1>3, TriedGrows
<1>5. \A c \in Tried : c \in Whole /\ Behind(c, inds) /\ c # inds
  <2>1. \A c \in Tried : c \in Whole /\ Behind(c, inds)
    BY <1>1 DEF Tried
  <2>2. ~Behind(inds, inds)
    <3>1. inds \in [1 .. Len(queues) -> Int]
      BY <1>3, WholeIs
    <3> QED BY <3>1 DEF Behind
  <2> QED BY <2>1, <2>2
<1>6. Whole' = Whole /\ \A c : CostOf(c)' = CostOf(c)
  BY <1>1 DEF Whole, CostOf
<1>7. ~done' => inds' \in Whole' /\ cost' = CostOf(inds)'
  <2> SUFFICES ASSUME ~done' PROVE inds' \in Whole /\ cost' = CostOf(inds)'
    BY <1>6
  <2>1. /\ Rows # {} /\ inds' = Advanced(Max(Rows)) /\ cost' = Rolled(Max(Rows))
    BY <1>1 DEF NextIndex
  <2>2. inds' \in Whole
    BY <2>1, <1>3, AdvancedFits
  <2>3. Rolled(Max(Rows)) = CostOf(inds')
    BY <2>1, <1>3, RolledIsCost
  <2>4. CostOf(inds)' = CostOf(inds')
    BY <1>1 DEF CostOf
  <2> QED BY <2>1, <2>2, <2>3, <2>4
<1>8. DOMAIN verdict' = Tried'
  BY <1>2, <1>3, <1>4, Remembers
<1> DEFINE e == [cost |-> cost, combo |-> inds]
<1>9. Merged(Tried)' = IF v = "ACCEPT" THEN Merged(Tried) \cup {e} ELSE Merged(Tried)
  <2>1. \A c, f : Said(c, f)' <=> IF c = inds THEN f = v ELSE Said(c, f)
    BY <1>2, Remembers
  <2>2. {d \in Tried' : Said(d, "ACCEPT")'}
          = {d \in Tried : Said(d, "ACCEPT")} \cup (IF v = "ACCEPT" THEN {inds} ELSE {})
    BY <2>1, <1>4, <1>5
  <2>3. Merged(Tried)' = {[cost |-> CostOf(c), combo |-> c] :
                            c \in {d \in Tried' : Said(d, "ACCEPT")'}}
    BY <1>6 DEF Merged
  <2> QED BY <2>2, <2>3, <1>3 DEF Merged
<1>10. CASE v = "ACCEPT"
  <2>1. out' = Append(out, e) /\ Merged(Tried)' = Merged(Tried) \cup {e}
    BY <1>2, <1>9, <1>10
  <2>2. /\ out' \in Seq(Merged(Tried) \cup {e}) /\ Range(out') = Range(out) \cup {e}
        /\ DOMAIN out' = 1 .. Len(out) + 1 /\ Len(out) \in Nat
        /\ DOMAIN out = 1 .. Len(out)
        /\ \A i \in 1 .. Len(out) : out'[i] = out[i] /\ out[i] \in Merged(Tried)
        /\ out'[Len(out) + 1] = e
    <3>1. PICK S, s, x : S = Merged(Tried) /\ s = out /\ x = e
      OBVIOUS
    <3>2. s \in Seq(S)
      BY <3>1, <1>3
    <3> HIDE DEF e
    <3>3. Appended(Append(s, x), S, s, x)
      BY <3>2, AppendAdds
    <3>4. out' = Append(s, x) /\ Range(out') = Range(Append(s, x)) /\ Range(out) = Range(s)
      BY <3>1, <2>1
    <3> QED BY <3>1, <3>3, <3>4 DEF Appended
  <2>3. InOrder([i \in DOMAIN out' |-> out'[i].combo])
    <3> SUFFICES ASSUME NEW i \in DOMAIN out', NEW j \in DOMAIN out', i < j
                 PROVE  Earlier(out'[i].combo, out'[j].combo)
      BY DEF InOrder
    <3>1. i \in 1 .. Len(out) /\ out'[i] = out[i] /\ out[i] \in Merged(Tried)
      BY <2>2
    <3>2. CASE j \in 1 .. Len(out)
      <4>1. Earlier(out[i].combo, out[j].combo)
        BY <3>1, <3>2, <2>2, <1>3 DEF InOrder
      <4> QED BY <3>1, <3>2, <4>1, <2>2
    <3>3. CASE j = Len(out) + 1
      <4>1. out'[j].combo = inds
        BY <2>2, <3>3
      <4>2. PICK c : c = out[i].combo /\ c \in Tried
        BY <3>1 DEF Merged
      <4>3. PICK n, x : n = Len(queues) /\ x = inds
        OBVIOUS
      <4>4. n \in Nat /\ c \in [1 .. n -> Int] /\ x \in [1 .. n -> Int] /\ Behind(c, x)
        BY <4>2, <4>3, <1>3, <1>5, WholeIs DEF QueuesFit
      <4>5. Earlier(c, x)
        BY <4>4, BehindIsEarlier
      <4> QED BY <3>1, <4>1, <4>2, <4>3, <4>5
    <3> QED BY <2>2, <3>2, <3>3
  <2>4. out' \in Seq(Merged(Tried)') /\ Range(out') = Merged(Tried)'
    BY <2>1, <2>2, <1>3
  <2>5. Range(out)' = Range(out')
    BY DEF Range
  <2>6. InOrder([i \in DOMAIN out |-> out[i].combo])'
    BY <2>3 DEF InOrder, Earlier
  <2> QED BY <1>7, <1>8, <2>4, <2>5, <2>6 DEF MergeInv
<1>11. CASE v # "ACCEPT"
  <2>1. out' = out /\ Merged(Tried)' = Merged(Tried)
    BY <1>2, <1>9, <1>11
  <2>2. Range(out)' = Range(out)
    BY <2>1 DEF Range
  <2>3. InOrder([i \in DOMAIN out |-> out[i].combo])'
    BY <2>1, <1>3 DEF InOrder, Earlier
  <2> QED BY <1>3, <1>7, <1>8, <2>1, <2>2, <2>3 DEF MergeInv
<1> QED BY <1>10, <1>11

-----------------------------------------------------------------------------
(* filter_combos()                                                         *)

\* The first i elements of x, and those with k for the i-th.
Pre(x, i) == SubSeq(x, 1, i)
Alt(x, i, k) == Append(SubSeq(x, 1, i - 1), k)

\* p is shorter than x, which begins as p does.
Leads(p, x) == Len(p) < Len(x) /\ \A j \in 1 .. Len(p) : p[j] = x[j]

\* What they are.
IsPre(p, x, i) == /\ p \in Seq(Int) /\ Len(p) = i /\ p \in [1 .. i -> Int]
                  /\ \A j \in 1 .. i : p[j] = x[j]
IsAlt(p, x, i, k) == /\ p \in Seq(Int) /\ Len(p) = i /\ p \in [1 .. i -> Int]
                     /\ p[i] = k
                     /\ \A j \in 1 .. i - 1 : p[j] = x[j]

LEMMA PreIs ==
  ASSUME NEW x \in Seq(Int), NEW i \in 0 .. Len(x)
  PROVE  IsPre(Pre(x, i), x, i)
<1>1. /\ Pre(x, i) \in Seq(Int) /\ Len(Pre(x, i)) = i
      /\ \A j \in 1 .. i : Pre(x, i)[j] = x[j]
  BY DEF Pre
<1> QED BY <1>1 DEF IsPre

LEMMA AltIs ==
  ASSUME NEW x \in Seq(Int), NEW i \in 1 .. Len(x), NEW k \in Int
  PROVE  IsAlt(Alt(x, i, k), x, i, k)
<1>1. i - 1 \in 0 .. Len(x) /\ Len(x) \in Nat
  OBVIOUS
<1>2. IsPre(Pre(x, i - 1), x, i - 1)
  BY <1>1, PreIs
<1>3. Alt(x, i, k) = Append(Pre(x, i - 1), k)
  BY DEF Alt, Pre
<1>4. /\ Alt(x, i, k) \in Seq(Int) /\ Len(Alt(x, i, k)) = i
      /\ \A j \in 1 .. i - 1 : Alt(x, i, k)[j] = x[j]
      /\ Alt(x, i, k)[i] = k
  BY <1>2, <1>3 DEF IsPre
<1> QED BY <1>4 DEF IsAlt

\* There is only one of each.
LEMMA OnePre ==
  ASSUME NEW x, NEW i, NEW p, NEW q, IsPre(p, x, i), IsPre(q, x, i)
  PROVE  p = q
BY DEF IsPre

LEMMA OneAlt ==
  ASSUME NEW x, NEW i \in Nat, NEW k, NEW p, NEW q, IsAlt(p, x, i, k), IsAlt(q, x, i, k)
  PROVE  p = q
<1>1. \A j \in 1 .. i : p[j] = q[j]
  <2>1. \A j \in 1 .. i : j = i \/ j \in 1 .. i - 1
    OBVIOUS
  <2> QED BY <2>1 DEF IsAlt
<1> QED BY <1>1 DEF IsAlt

\* Beginnings are the same where the elements are.
LEMMA SameBeginnings ==
  ASSUME NEW x \in Seq(Int), NEW y \in Seq(Int),
         NEW i \in 0 .. Len(x), i <= Len(y), \A j \in 1 .. i : x[j] = y[j]
  PROVE  Pre(x, i) = Pre(y, i)
<1>1. i \in 0 .. Len(y)
  OBVIOUS
<1>2. IsPre(Pre(x, i), x, i) /\ IsPre(Pre(y, i), y, i)
  BY <1>1, PreIs
<1>3. IsPre(Pre(y, i), x, i)
  BY <1>2 DEF IsPre
<1> QED BY <1>2, <1>3, OnePre

LEMMA SameAlternatives ==
  ASSUME NEW x \in Seq(Int), NEW y \in Seq(Int), NEW k \in Int,
         NEW i \in 1 .. Len(x), i <= Len(y), \A j \in 1 .. i - 1 : x[j] = y[j]
  PROVE  Alt(x, i, k) = Alt(y, i, k)
<1>1. i - 1 \in 0 .. Len(x) /\ i - 1 <= Len(y)
  OBVIOUS
<1>2. Pre(x, i - 1) = Pre(y, i - 1)
  BY <1>1, SameBeginnings
<1> QED BY <1>2 DEF Alt, Pre

\* Nothing that c's own acceptance depends on comes after x if c is behind x.
LEMMA BehindAvoids ==
  ASSUME NEW c \in Seq(Int), NEW x \in Seq(Int), Behind(c, x), NEW i \in 1 .. Len(c)
  PROVE  Pre(c, i) # x /\ \A k \in Int : k < c[i] => Alt(c, i, k) # x
<1>1. PICK b \in 1 .. Len(x) : /\ b \in 1 .. Len(c) /\ c[b] < x[b]
                               /\ \A j \in 1 .. b - 1 : c[j] = x[j]
  <2>1. DOMAIN x = 1 .. Len(x) /\ DOMAIN c = 1 .. Len(c)
    OBVIOUS
  <2> QED BY <2>1 DEF Behind
<1>2. c[b] \in Int /\ x[b] \in Int /\ c[b] # x[b] /\ c[i] \in Int
  <2>1. c[b] \in Int /\ x[b] \in Int /\ c[i] \in Int
    BY <1>1, ElementOfSeq
  <2> QED BY <2>1, <1>1
<1>3. ASSUME Pre(c, i) = x PROVE FALSE
  <2>1. Len(x) = i /\ \A j \in 1 .. i : x[j] = c[j]
    <3>1. i \in 0 .. Len(c)
      OBVIOUS
    <3> QED BY <3>1, <1>3, PreIs DEF IsPre
  <2> QED BY <2>1, <1>1, <1>2
<1>4. ASSUME NEW k \in Int, k < c[i], Alt(c, i, k) = x PROVE FALSE
  <2>1. Len(x) = i /\ x[i] = k /\ \A j \in 1 .. i - 1 : x[j] = c[j]
    <3>1. IsAlt(Alt(c, i, k), c, i, k)
      BY AltIs
    <3> QED BY <3>1, <1>4 DEF IsAlt
  <2>2. CASE b = i
    BY <2>1, <2>2, <1>1, <1>2, <1>4
  <2>3. CASE b # i
    <3>1. b \in 1 .. i - 1
      BY <2>1, <2>3, <1>1
    <3> QED BY <3>1, <2>1, <1>2
  <2> QED BY <2>2, <2>3
<1> QED BY <1>3, <1>4

\* The prefixes of x were accepted, and no element before those of x rejected
\* what follows it.
Way(x) == \A i \in 1 .. Len(x) :
            /\ i < Len(x) => Said(Pre(x, i), "ACCEPT")
            /\ \A k \in 1 .. x[i] - 1 : ~Said(Alt(x, i, k), "REJECT_AFTER")

\* Where a filter stands that is not done: the iterator holds all of inds but
\* its last element, and what has been asked is behind inds or leads to it.
Standing ==
  /\ inds \in Seq(Int) /\ Len(inds) \in 1 .. Len(queues)
  /\ \A i \in 1 .. Len(inds) : inds[i] \in 1 .. Len(queues[i])
  /\ iter = Pre(inds, Len(inds) - 1)
  /\ \A p \in DOMAIN verdict : p \in Seq(Int) /\ (Behind(p, inds) \/ Leads(p, inds))
  /\ Way(inds)

\* What the filter returns of the combinations C.
Filtered(C) == {c \in C : Passes(c)}

\* Behind x, leading to it, or x itself.
UpTo(p, x) == Behind(p, x) \/ Leads(p, x) \/ p = x

\* What has been asked about: all that inds has passed and its Way led to.
Asked == {p \in Partial : Way(p) /\ (done \/ Behind(p, inds) \/ Leads(p, inds))}

FilterInv ==
  loop = "filter" =>
    /\ ~done => Standing
    /\ ~SomeEmpty(queues) => DOMAIN verdict = Asked
    /\ out \in Seq(Filtered(Tried)) /\ Range(out) = Filtered(Tried)
    /\ InOrder(out)

\* inds has not been asked about.
LEMMA NotAsked ==
  ASSUME Standing
  PROVE  inds \notin DOMAIN verdict
<1>1. inds \in Seq(Int) /\ Len(inds) \in Nat
  BY DEF Standing
<1>2. ~Leads(inds, inds)
  BY <1>1 DEF Leads
<1>3. ~Behind(inds, inds)
  <2>1. \A i \in DOMAIN inds : inds[i] \in Int
    BY <1>1
  <2> QED BY <2>1 DEF Behind
<1> QED BY <1>2, <1>3 DEF Standing

LEMMA PassesIs ==
  ASSUME QueuesFit, BoundsFit, NEW c \in Whole
  PROVE  /\ c \in Seq(Int) /\ Len(c) = Len(queues)
         /\ c \in [1 .. Len(queues) -> Int]
         /\ Passes(c) <=>
              \A i \in 1 .. Len(c) :
                /\ Said(Pre(c, i), "ACCEPT")
                /\ \A k \in 1 .. c[i] - 1 : ~Said(Alt(c, i, k), "REJECT_AFTER")
<1>1. c \in [1 .. Len(queues) -> Int] /\ Len(queues) \in Nat
  BY WholeIs DEF QueuesFit
<1>2. c \in Seq(Int) /\ Len(c) = Len(queues) /\ DOMAIN c = 1 .. Len(c)
  BY <1>1
<1> QED BY <1>1, <1>2 DEF Passes, Pre, Alt

\* What one turn does: the combination asked about is inds.
LEMMA FilterStepIs ==
  ASSUME Standing, FilterStep
  PROVE  \E flag \in Verdicts :
           /\ verdict' = Heard(flag)
           /\ out' = IF flag = "ACCEPT" /\ Len(inds) = Len(queues)
                       THEN Append(out, inds) ELSE out
           /\ IF flag = "ACCEPT" /\ Len(inds) # Len(queues)
                THEN iter' = inds /\ inds' = Append(inds, 1) /\ done' = done
                ELSE Backtrack(RowsLeft(flag))
<1>1. inds \in Seq(Int) /\ Len(inds) \in Nat \ {0} /\ iter = Pre(inds, Len(inds) - 1)
  <2>1. Len(inds) \in Nat
    BY DEF Standing
  <2> QED BY <2>1 DEF Standing
<1>2. Append(iter, Last(inds)) = inds
  <2>1. PICK x, l : x = inds /\ l = Len(inds)
    OBVIOUS
  <2>2. /\ x \in Seq(Int) /\ Len(x) = l /\ l \in 1 .. Len(x) /\ x[l] \in Int
        /\ l \in Nat
    BY <2>1, <1>1
  <2>3. IsAlt(Alt(x, l, x[l]), x, l, x[l])
    BY <2>2, AltIs
  <2>4. IsAlt(x, x, l, x[l])
    BY <2>2 DEF IsAlt
  <2>5. Alt(x, l, x[l]) = x
    BY <2>2, <2>3, <2>4, OneAlt
  <2> QED BY <2>1, <2>5, <1>1 DEF Alt, Pre, Last
<1> QED BY <1>2 DEF FilterStep

\* The row gone back to has elements left; those after it have none, or the last
\* one's were given up.
RowIn(r, flag) ==
  /\ r \in 0 .. Len(inds)
  /\ r > 0 => /\ inds[r] + 1 \in 1 .. Len(queues[r])
              /\ ~(r = Len(inds) /\ flag = "REJECT_AFTER")
  /\ \A i \in r + 1 .. Len(inds) :
       inds[i] = Len(queues[i]) \/ (i = Len(inds) /\ flag = "REJECT_AFTER")

LEMMA BacktrackIs ==
  ASSUME QueuesFit, Standing, NEW flag \in Verdicts, Backtrack(RowsLeft(flag))
  PROVE  \E r : /\ RowIn(r, flag)
                /\ done' = (r = 0)
                /\ r > 0 => /\ inds' = Alt(inds, r, inds[r] + 1)
                            /\ iter' = Pre(iter, r - 1)
<1> DEFINE l == Len(inds)
           rows == RowsLeft(flag)
<1>1. /\ inds \in Seq(Int) /\ l \in Nat /\ l \in 1 .. Len(queues)
      /\ \A i \in 1 .. l : inds[i] \in 1 .. Len(queues[i]) /\ Len(queues[i]) \in Nat
      /\ DOMAIN inds = 1 .. l
  <2>1. inds \in Seq(Int) /\ l \in Nat /\ l \in 1 .. Len(queues) /\ DOMAIN inds = 1 .. l
    BY DEF Standing
  <2>2. Len(queues) \in Nat
    BY DEF QueuesFit
  <2>3. \A i \in 1 .. l : i \in 1 .. Len(queues)
    BY <2>1, <2>2
  <2> QED BY <2>1, <2>3, QueuesAre DEF Standing
<1>2. /\ rows \in SUBSET (1 .. l)
      /\ \A i \in 1 .. l :
           i \in rows <=> /\ inds[i] < Len(queues[i])
                          /\ ~(i = l /\ flag = "REJECT_AFTER")
  BY <1>1 DEF RowsLeft, Rows, HasNext
<1> HIDE DEF rows
<1>5. ASSUME NEW i \in 1 .. l, i \notin rows
      PROVE  inds[i] = Len(queues[i]) \/ (i = l /\ flag = "REJECT_AFTER")
  <2>1. inds[i] \in 1 .. Len(queues[i]) /\ Len(queues[i]) \in Nat
    BY <1>1
  <2>2. ~(inds[i] < Len(queues[i])) \/ (i = l /\ flag = "REJECT_AFTER")
    BY <1>2, <1>5
  <2> QED BY <2>1, <2>2
<1>6. ASSUME NEW i \in 1 .. l, i \in rows
      PROVE  inds[i] + 1 \in 1 .. Len(queues[i]) /\ ~(i = l /\ flag = "REJECT_AFTER")
  <2>1. inds[i] \in 1 .. Len(queues[i]) /\ Len(queues[i]) \in Nat
    BY <1>1
  <2>2. inds[i] < Len(queues[i]) /\ ~(i = l /\ flag = "REJECT_AFTER")
    BY <1>2, <1>6
  <2> QED BY <2>1, <2>2
<1>3. CASE rows = {}
  <2>1. RowIn(0, flag)
    <3>1. 0 \in 0 .. l /\ ~(0 > 0)
      BY <1>1
    <3>2. \A i \in 0 + 1 .. l : i \in 1 .. l /\ i \notin rows
      BY <1>1, <1>3
    <3> QED BY <3>1, <3>2, <1>5 DEF RowIn
  <2>2. done' = (0 = 0) /\ ~(0 > 0)
    BY <1>3 DEF Backtrack, rows
  <2> QED BY <2>1, <2>2
<1>4. CASE rows # {}
  <2>1. PICK n, s : n = l /\ s = rows
    OBVIOUS
  <2>2. n \in Nat /\ s \in SUBSET (1 .. n) /\ s # {}
    BY <2>1, <1>1, <1>2, <1>4
  <2>3. Max(s) \in s /\ \A x \in s : x <= Max(s)
    BY <2>2, MaxIn
  <2> DEFINE r == Max(s)
  <2>4. r \in 1 .. n /\ r \in rows /\ \A i \in r + 1 .. n : i \notin rows
    <3>1. r \in 1 .. n /\ r \in rows
      BY <2>1, <2>2, <2>3
    <3>2. \A x \in s : x <= r
      BY <2>3
    <3> HIDE DEF r
    <3>3. \A i \in r + 1 .. n : i \notin s
      BY <2>2, <3>1, <3>2
    <3> QED BY <2>1, <3>1, <3>3
  <2>5. RowIn(r, flag) /\ r > 0
    <3> HIDE DEF r
    <3>1. r \in 0 .. l /\ r > 0 /\ r \in 1 .. l
      BY <2>1, <2>4, <1>1
    <3>2. /\ inds[r] + 1 \in 1 .. Len(queues[r])
          /\ ~(r = l /\ flag = "REJECT_AFTER")
      BY <3>1, <2>4, <1>6
    <3>3. ASSUME NEW i \in r + 1 .. l
          PROVE  inds[i] = Len(queues[i]) \/ (i = l /\ flag = "REJECT_AFTER")
      <4>1. i \in 1 .. l /\ i \notin rows
        BY <2>1, <2>4, <1>1
      <4> QED BY <4>1, <1>5
    <3> QED BY <3>1, <3>2, <3>3 DEF RowIn
  <2>6. /\ done' = (rows = {})
        /\ inds' = Alt(inds, r, inds[r] + 1) /\ iter' = Pre(iter, r - 1)
    BY <2>1, <1>4 DEF Backtrack, rows, Alt, Pre
  <2>7. done' = (r = 0)
    BY <2>6, <2>5, <1>4
  <2> HIDE DEF r
  <2> QED BY <2>5, <2>6, <2>7
<1> QED BY <1>3, <1>4

\* c has the first r elements of inds.
Agrees(c, r) == \A j \in 1 .. r : c[j] = inds[j]

\* Where Standing puts inds.
LEMMA IndsAre ==
  ASSUME QueuesFit, Standing
  PROVE  /\ inds \in Seq(Int) /\ inds \in [1 .. Len(inds) -> Int]
         /\ Len(inds) \in Nat /\ Len(inds) \in 1 .. Len(queues)
         /\ Len(queues) \in Nat \ {0}
         /\ \A i \in 1 .. Len(inds) : /\ inds[i] \in 1 .. Len(queues[i])
                                      /\ Len(queues[i]) \in Nat
<1>1. inds \in Seq(Int) /\ Len(inds) \in Nat /\ Len(inds) \in 1 .. Len(queues)
  BY DEF Standing
<1>2. Len(queues) \in Nat \ {0}
  BY DEF QueuesFit
<1>3. \A i \in 1 .. Len(inds) : i \in 1 .. Len(queues)
  BY <1>1, <1>2
<1> QED BY <1>1, <1>2, <1>3, QueuesAre DEF Standing

\* After going back to row r: what is tried is what was, and what agrees up to r.
LEMMA TriedBack ==
  ASSUME QueuesFit, BoundsFit, Standing, NEW flag \in Verdicts, NEW r, RowIn(r, flag),
         queues' = queues, done' = (r = 0),
         r > 0 => inds' = Alt(inds, r, inds[r] + 1),
         NEW c \in Whole
  PROVE  c \in Tried' <=> Behind(c, inds) \/ Agrees(c, r)
<1>1. c \in Whole'
  BY DEF Whole
<1>2. CASE r = 0
  <2>1. done'
    BY <1>2
  <2>2. Agrees(c, r)
    BY <1>2 DEF Agrees
  <2> QED BY <2>1, <2>2, <1>1 DEF Tried
<1>3. CASE r # 0
  <2>1. r \in 1 .. Len(inds) /\ r > 0 /\ ~done' /\ inds[r] + 1 \in Int /\ r \in Nat
    <3>1. Len(inds) \in Nat /\ r \in 0 .. Len(inds)
      BY IndsAre DEF RowIn
    <3>2. r \in 1 .. Len(inds) /\ r > 0 /\ r \in Nat
      BY <3>1, <1>3
    <3>3. inds[r] \in 1 .. Len(queues[r])
      BY <3>2, IndsAre
    <3>4. inds[r] + 1 \in Int
      BY <3>3
    <3>5. ~done'
      BY <1>3
    <3> QED BY <3>2, <3>4, <3>5
  <2>2. PICK n, l, x, y : n = Len(queues) /\ l = Len(inds) /\ x = inds /\ y = inds'
    OBVIOUS
  <2>3. n \in Nat /\ l \in 1 .. n /\ l = Len(x) /\ x \in Seq(Int) /\ x \in [1 .. l -> Int]
    BY <2>2, IndsAre
  <2>4. c \in [1 .. n -> Int]
    BY <2>2, PassesIs
  <2>5. IsAlt(y, x, r, x[r] + 1)
    <3>1. r \in 1 .. Len(x) /\ x[r] + 1 \in Int
      BY <2>1, <2>2
    <3>2. IsAlt(Alt(x, r, x[r] + 1), x, r, x[r] + 1)
      BY <2>3, <3>1, AltIs
    <3> QED BY <2>1, <2>2, <3>2
  <2>6. NextAt(n, l, r, r, x, y, c)
    <3>1. r \in 1 .. n /\ r \in 1 .. r /\ r <= l
      BY <2>1, <2>2, <2>3
    <3>2. y \in [1 .. r -> Int] /\ y[r] = x[r] + 1 /\ \A j \in 1 .. r - 1 : y[j] = x[j]
      BY <2>5 DEF IsAlt
    <3>3. \A j \in r + 1 .. r : y[j] <= c[j]
      BY <2>1
    <3> QED BY <3>1, <3>2, <3>3, <2>3, <2>4 DEF NextAt
  <2>7. Behind(c, y) <=> Behind(c, x) \/ \A j \in 1 .. r : c[j] = x[j]
    BY <2>6, BehindNext
  <2>8. /\ Behind(c, y) <=> Behind(c, inds')
        /\ Behind(c, x) <=> Behind(c, inds)
        /\ (\A j \in 1 .. r : c[j] = x[j]) <=> Agrees(c, r)
    BY <2>2 DEF Agrees
  <2>9. c \in Tried' <=> Behind(c, inds')
    BY <1>1, <2>1 DEF Tried
  <2> QED BY <2>7, <2>8, <2>9
<1> QED BY <1>2, <1>3

\* Extending an accepted prefix tries nothing.
LEMMA TriedOn ==
  ASSUME QueuesFit, BoundsFit, Standing, Len(inds) # Len(queues), ~done,
         queues' = queues, done' = done, inds' = Append(inds, 1),
         NEW c \in Whole
  PROVE  c \in Tried' <=> Behind(c, inds)
<1>1. c \in Whole'
  BY DEF Whole
<1>2. PICK n, l, x, y : n = Len(queues) /\ l = Len(inds) /\ x = inds /\ y = inds'
  OBVIOUS
<1>3. /\ n \in Nat /\ l \in 1 .. n /\ l # n /\ l \in Nat
      /\ l = Len(x) /\ x \in Seq(Int) /\ DOMAIN x = 1 .. l
  BY <1>2, IndsAre
<1>4. /\ c \in [1 .. n -> Int]
      /\ \A i \in 1 .. n : c[i] \in 1 .. Len(queues[i])
  BY <1>2, WholeIs
<1>5. y = Append(x, 1)
  BY <1>2
<1>6. /\ DOMAIN y = 1 .. l + 1 /\ y[l + 1] = 1
      /\ \A i \in 1 .. l : y[i] = x[i]
  BY <1>3, <1>5
<1>7. ASSUME Behind(c, x) PROVE Behind(c, y)
  <2>1. PICK i \in 1 .. l : i \in 1 .. n /\ c[i] < x[i] /\ \A j \in 1 .. i - 1 : c[j] = x[j]
    BY <1>3, <1>4, <1>7 DEF Behind
  <2>2. i \in 1 .. l + 1 /\ y[i] = x[i] /\ \A j \in 1 .. i - 1 : y[j] = x[j]
    BY <2>1, <1>3, <1>6
  <2> QED BY <2>1, <2>2, <1>4, <1>6 DEF Behind
<1>8. ASSUME Behind(c, y) PROVE Behind(c, x)
  <2>1. PICK i \in 1 .. l + 1 : /\ i \in 1 .. n /\ c[i] < y[i]
                                /\ \A j \in 1 .. i - 1 : c[j] = y[j]
    BY <1>4, <1>6, <1>8 DEF Behind
  <2>2. i # l + 1
    <3>1. c[i] >= 1
      <4>1. c[i] \in 1 .. Len(queues[i]) /\ Len(queues[i]) \in Nat
        BY <2>1, <1>2, <1>4, QueuesAre
      <4> QED BY <4>1
    <3> QED BY <3>1, <2>1, <1>4, <1>6
  <2>3. i \in 1 .. l /\ c[i] < x[i] /\ \A j \in 1 .. i - 1 : c[j] = x[j]
    BY <2>1, <2>2, <1>3, <1>6
  <2> QED BY <2>1, <2>3, <1>3, <1>4 DEF Behind
<1>9. c \in Tried' <=> Behind(c, inds')
  BY <1>1 DEF Tried
<1> QED BY <1>2, <1>7, <1>8, <1>9

\* What is said of inds changes nothing for what is behind it.
LEMMA PassesKept ==
  ASSUME QueuesFit, BoundsFit, Standing, NEW flag, verdict' = Heard(flag), queues' = queues,
         NEW c \in Whole, Behind(c, inds)
  PROVE  Passes(c)' <=> Passes(c)
<1>1. PICK x : x = inds
  OBVIOUS
<1>2. c \in Seq(Int) /\ x \in Seq(Int) /\ Behind(c, x)
  BY <1>1, PassesIs, IndsAre
<1>3. \A p, f : Said(p, f)' <=> IF p = x THEN f = flag ELSE Said(p, f)
  BY <1>1, Remembers
<1>4. /\ DOMAIN c = 1 .. Len(c)
      /\ \A i \in 1 .. Len(c) : c[i] \in Int
  BY <1>2
<1>5. ASSUME NEW i \in 1 .. Len(c), NEW f
      PROVE  Said(Pre(c, i), f)' <=> Said(Pre(c, i), f)
  <2>1. Pre(c, i) # x
    BY <1>2, BehindAvoids
  <2> QED BY <2>1, <1>3
<1>6. ASSUME NEW i \in 1 .. Len(c), NEW k \in 1 .. c[i] - 1, NEW f
      PROVE  Said(Alt(c, i, k), f)' <=> Said(Alt(c, i, k), f)
  <2>1. k \in Int /\ k < c[i]
    BY <1>4
  <2>2. Alt(c, i, k) # x
    BY <2>1, <1>2, BehindAvoids
  <2> QED BY <2>2, <1>3
<1>7. Passes(c) <=> \A i \in 1 .. Len(c) :
                      /\ Said(Pre(c, i), "ACCEPT")
                      /\ \A k \in 1 .. c[i] - 1 : ~Said(Alt(c, i, k), "REJECT_AFTER")
  BY PassesIs
<1>8. Passes(c)' <=> \A i \in 1 .. Len(c) :
                       /\ Said(Pre(c, i), "ACCEPT")'
                       /\ \A k \in 1 .. c[i] - 1 : ~Said(Alt(c, i, k), "REJECT_AFTER")'
  BY <1>4 DEF Passes, Pre, Alt
<1> QED BY <1>5, <1>6, <1>7, <1>8

\* Of what agrees with inds up to the row gone back to and is not behind it,
\* inds itself passes, if it is whole and accepted, and nothing else does.
LEMMA PassesAfter ==
  ASSUME QueuesFit, BoundsFit, Standing, NEW flag \in Verdicts, verdict' = Heard(flag),
         queues' = queues, ~(flag = "ACCEPT" /\ Len(inds) # Len(queues)),
         NEW r, RowIn(r, flag), NEW c \in Whole, Agrees(c, r), ~Behind(c, inds)
  PROVE  Passes(c)' <=> flag = "ACCEPT" /\ Len(inds) = Len(queues) /\ c = inds
<1>1. PICK x, l, n : x = inds /\ l = Len(inds) /\ n = Len(queues)
  OBVIOUS
<1>2. /\ c \in Seq(Int) /\ Len(c) = n /\ n \in Nat
      /\ x \in Seq(Int) /\ Len(x) = l /\ l \in Nat /\ l \in 1 .. n
  BY <1>1, PassesIs, IndsAre
<1>3. \A p, f : Said(p, f)' <=> IF p = x THEN f = flag ELSE Said(p, f)
  BY <1>1, Remembers
<1>4. /\ DOMAIN c = 1 .. Len(c)
      /\ \A i \in 1 .. n : c[i] \in Int /\ c[i] \in 1 .. Len(queues[i])
      /\ \A i \in 1 .. l : x[i] \in Int
  BY <1>1, <1>2, WholeIs
<1>5. Passes(c)' <=> \A i \in 1 .. Len(c) :
                       /\ Said(Pre(c, i), "ACCEPT")'
                       /\ \A k \in 1 .. c[i] - 1 : ~Said(Alt(c, i, k), "REJECT_AFTER")'
  BY <1>4 DEF Passes, Pre, Alt
<1>6. CASE \E k \in 1 .. l : c[k] # x[k]
  <2>1. PICK k \in 1 .. l : c[k] # x[k] /\ \A j \in 1 .. k - 1 : c[j] = x[j]
    <3>1. l \in Nat /\ Differ(c, x, l)
      BY <1>2, <1>6 DEF Differ
    <3>2. \E k \in 1 .. l : DifferAt(c, x, k)
      BY <3>1, FirstDifference
    <3> QED BY <3>2 DEF DifferAt
  <2>2. k \in r + 1 .. l
    <3>1. r \in 0 .. l /\ \A j \in 1 .. r : c[j] = x[j]
      BY <1>1 DEF RowIn, Agrees
    <3>2. k \notin 1 .. r
      BY <2>1, <3>1
    <3> QED BY <3>1, <3>2, <1>2
  <2>3. k \in 1 .. n /\ c[k] \in Int /\ x[k] \in Int /\ Len(queues[k]) \in Nat
    BY <1>1, <1>2, <1>4, QueuesAre
  <2>4. ~(c[k] < x[k])
    <3>1. DOMAIN inds = 1 .. l /\ DOMAIN c = 1 .. n
      BY <1>1, <1>2
    <3> QED BY <2>1, <2>3, <3>1, <1>1 DEF Behind
  <2>5. k = l /\ flag = "REJECT_AFTER"
    <3>1. x[k] = Len(queues[k]) \/ (k = l /\ flag = "REJECT_AFTER")
      BY <2>2, <1>1 DEF RowIn
    <3>2. c[k] <= Len(queues[k])
      BY <2>3, <1>4
    <3> QED BY <3>1, <3>2, <2>1, <2>3, <2>4
  <2>6. Alt(c, l, x[l]) = x
    <3>1. l \in 1 .. Len(c) /\ l \in 1 .. Len(x) /\ x[l] \in Int
      BY <1>2, <2>3, <2>5
    <3>2. IsAlt(Alt(c, l, x[l]), c, l, x[l])
      BY <1>2, <3>1, AltIs
    <3>3. IsAlt(Alt(c, l, x[l]), x, l, x[l])
      BY <2>1, <2>5, <3>2 DEF IsAlt
    <3>4. IsAlt(x, x, l, x[l])
      BY <1>2 DEF IsAlt
    <3> QED BY <3>3, <3>4, <1>2, OneAlt
  <2>7. Said(Alt(c, l, x[l]), "REJECT_AFTER")'
    BY <2>5, <2>6, <1>3
  <2>8. x[l] \in 1 .. c[l] - 1 /\ l \in 1 .. Len(c)
    <3>1. x[l] >= 1
      BY <1>1, <1>2, IndsAre
    <3> QED BY <3>1, <2>1, <2>3, <2>4, <2>5, <1>2
  <2>9. ~Passes(c)'
    BY <2>7, <2>8, <1>5
  <2> QED BY <2>5, <2>9
<1>7. CASE \A k \in 1 .. l : c[k] = x[k]
  <2>1. Pre(c, l) = x
    <3>1. l \in 0 .. Len(c) /\ l \in 0 .. Len(x) /\ l <= Len(x)
      BY <1>2
    <3>2. IsPre(Pre(c, l), c, l)
      BY <1>2, <3>1, PreIs
    <3>3. IsPre(x, c, l)
      BY <1>2, <1>7 DEF IsPre
    <3> QED BY <3>2, <3>3, OnePre
  <2>2. Said(Pre(c, l), "ACCEPT")' <=> flag = "ACCEPT"
    BY <2>1, <1>3
  <2>3. l \in 1 .. Len(c)
    BY <1>2
  <2>4. Passes(c)' => flag = "ACCEPT"
    BY <2>2, <2>3, <1>5
  <2>5. Passes(c)' => l = n
    BY <2>4, <1>1
  <2>6. l = n => c = x
    BY <1>2, <1>7, SeqEqual
  <2>7. ASSUME flag = "ACCEPT", l = n, c = x PROVE Passes(c)'
    <3>1. Way(c)
      BY <2>7, <1>1 DEF Standing
    <3>2. ASSUME NEW i \in 1 .. Len(c) PROVE Said(Pre(c, i), "ACCEPT")'
      <4>1. CASE i = l
        BY <4>1, <2>2, <2>7
      <4>2. CASE i # l
        <5>1. i < Len(c)
          BY <4>2, <2>7, <1>2
        <5>2. Said(Pre(c, i), "ACCEPT")
          BY <5>1, <3>1 DEF Way
        <5> QED BY <5>2, <1>3, <2>7
      <4> QED BY <4>1, <4>2
    <3>3. ASSUME NEW i \in 1 .. Len(c), NEW k \in 1 .. c[i] - 1
          PROVE  ~Said(Alt(c, i, k), "REJECT_AFTER")'
      <4>1. ~Said(Alt(c, i, k), "REJECT_AFTER")
        BY <3>1 DEF Way
      <4> QED BY <4>1, <1>3, <2>7
    <3> QED BY <3>2, <3>3, <1>5
  <2> QED BY <2>4, <2>5, <2>6, <2>7, <1>1
<1> QED BY <1>6, <1>7

\* After a turn the filter has listed what passes of what is tried.
LEMMA FilteredGrows ==
  ASSUME QueuesFit, BoundsFit, ~done, Standing, NEW flag \in Verdicts,
         verdict' = Heard(flag), queues' = queues,
         IF flag = "ACCEPT" /\ Len(inds) # Len(queues)
           THEN inds' = Append(inds, 1) /\ done' = done
           ELSE Backtrack(RowsLeft(flag))
  PROVE  Filtered(Tried)' =
           Filtered(Tried) \cup
             (IF flag = "ACCEPT" /\ Len(inds) = Len(queues) THEN {inds} ELSE {})
<1>1. Filtered(Tried)' = {c \in Tried' : Passes(c)'}
  BY DEF Filtered
<1>2. Tried' \subseteq Whole /\ Tried = {c \in Whole : Behind(c, inds)}
  BY DEF Tried, Whole
<1>3. ASSUME NEW c \in Whole, Behind(c, inds)
      PROVE  c \in Filtered(Tried) <=> Passes(c)'
  BY <1>2, <1>3, PassesKept DEF Filtered
<1>4. CASE flag = "ACCEPT" /\ Len(inds) # Len(queues)
  <2>1. \A c \in Whole : c \in Tried' <=> Behind(c, inds)
    BY <1>4, TriedOn
  <2> QED BY <2>1, <1>1, <1>2, <1>3, <1>4 DEF Filtered
<1>5. CASE ~(flag = "ACCEPT" /\ Len(inds) # Len(queues))
  <2>1. PICK r : /\ RowIn(r, flag)
                 /\ done' = (r = 0)
                 /\ r > 0 => /\ inds' = Alt(inds, r, inds[r] + 1)
                             /\ iter' = Pre(iter, r - 1)
    BY <1>5, BacktrackIs
  <2>2. \A c \in Whole : c \in Tried' <=> Behind(c, inds) \/ Agrees(c, r)
    BY <2>1, TriedBack
  <2>3. ASSUME NEW c \in Whole, ~Behind(c, inds), Agrees(c, r)
        PROVE  Passes(c)' <=> flag = "ACCEPT" /\ Len(inds) = Len(queues) /\ c = inds
    BY <2>1, <2>3, <1>5, PassesAfter
  <2>4. ASSUME Len(inds) = Len(queues)
        PROVE  inds \in Whole /\ ~Behind(inds, inds) /\ Agrees(inds, r)
    <3>1. inds \in Whole
      BY <2>4, IndsAre, WholeIs
    <3>2. ~Behind(inds, inds)
      <4>1. inds \in [1 .. Len(inds) -> Int]
        BY IndsAre
      <4> QED BY <4>1 DEF Behind
    <3> QED BY <3>1, <3>2 DEF Agrees
  <2>5. ASSUME NEW c \in Whole
        PROVE  c \in Tried' /\ Passes(c)' <=>
                 \/ c \in Filtered(Tried)
                 \/ flag = "ACCEPT" /\ Len(inds) = Len(queues) /\ c = inds
    <3>1. CASE Behind(c, inds)
      BY <3>1, <2>2, <2>4, <1>3
    <3>2. CASE ~Behind(c, inds)
      <4>1. c \notin Filtered(Tried)
        BY <3>2, <1>2 DEF Filtered
      <4>2. CASE Agrees(c, r)
        BY <4>1, <4>2, <3>2, <2>2, <2>3
      <4>3. CASE ~Agrees(c, r)
        BY <4>1, <4>3, <3>2, <2>2, <2>4
      <4> QED BY <4>2, <4>3
    <3> QED BY <3>1, <3>2
  <2>6. Filtered(Tried) \subseteq Whole
    BY <1>2 DEF Filtered
  <2>7. CASE flag = "ACCEPT" /\ Len(inds) = Len(queues)
    BY <2>4, <2>5, <2>6, <2>7, <1>1, <1>2
  <2>8. CASE ~(flag = "ACCEPT" /\ Len(inds) = Len(queues))
    BY <2>5, <2>6, <2>8, <1>1, <1>2
  <2> QED BY <2>7, <2>8
<1> QED BY <1>4, <1>5

\* An accepted prefix is extended.
LEMMA StandsOn ==
  ASSUME QueuesFit, ~SomeEmpty(queues), Standing, Len(inds) # Len(queues),
         verdict' = Heard("ACCEPT"), queues' = queues,
         iter' = inds, inds' = Append(inds, 1)
  PROVE  Standing'
<1>1. PICK x, l, n, y : x = inds /\ l = Len(inds) /\ n = Len(queues) /\ y = inds'
  OBVIOUS
<1>2. /\ n \in Nat /\ x \in Seq(Int) /\ Len(x) = l /\ l \in Nat \ {0}
      /\ l \in 1 .. n /\ l + 1 \in 1 .. n
      /\ \A i \in 1 .. l : x[i] \in Int
  BY <1>1, IndsAre
<1>3. y = Append(x, 1)
  BY <1>1
<1>4. /\ y \in Seq(Int) /\ Len(y) = l + 1 /\ y[l + 1] = 1
      /\ \A i \in 1 .. l : y[i] = x[i]
  BY <1>2, <1>3
<1>5. /\ DOMAIN verdict' = {x} \cup DOMAIN verdict
      /\ \A p, f : Said(p, f)' <=> IF p = x THEN f = "ACCEPT" ELSE Said(p, f)
  BY <1>1, Remembers
<1>6. \A i \in 1 .. l + 1 : y[i] \in 1 .. Len(queues[i])
  <2>1. 1 \in 1 .. Len(queues[l + 1])
    BY <1>1, <1>2, QueuesAre
  <2>2. \A i \in 1 .. l : x[i] \in 1 .. Len(queues[i])
    BY <1>1, IndsAre
  <2>3. \A i \in 1 .. l + 1 : i = l + 1 \/ i \in 1 .. l
    BY <1>2
  <2> QED BY <2>1, <2>2, <2>3, <1>4
<1>7. \A i \in 0 .. l : Pre(y, i) = Pre(x, i)
  <2> SUFFICES ASSUME NEW i \in 0 .. l PROVE Pre(y, i) = Pre(x, i)
    OBVIOUS
  <2>1. i \in 0 .. Len(y) /\ i <= Len(x) /\ \A j \in 1 .. i : y[j] = x[j]
    BY <1>2, <1>4
  <2> QED BY <2>1, <1>2, <1>4, SameBeginnings
<1>8. Pre(x, l) = x
  <2>1. l \in 0 .. Len(x)
    BY <1>2
  <2>2. IsPre(Pre(x, l), x, l)
    BY <2>1, <1>2, PreIs
  <2>3. IsPre(x, x, l)
    BY <1>2 DEF IsPre
  <2> QED BY <2>2, <2>3, OnePre
<1>9. ASSUME NEW p \in DOMAIN verdict'
      PROVE  p \in Seq(Int) /\ (Behind(p, y) \/ Leads(p, y))
  <2>1. CASE p = x
    BY <2>1, <1>2, <1>4 DEF Leads
  <2>2. CASE p \in DOMAIN verdict
    <3>1. p \in Seq(Int) /\ (Behind(p, x) \/ Leads(p, x))
      BY <2>2, <1>1 DEF Standing
    <3>2. DOMAIN x = 1 .. l /\ DOMAIN y = 1 .. l + 1
      BY <1>2, <1>4
    <3>3. CASE Behind(p, x)
      <4>1. PICK i \in 1 .. l : /\ i \in DOMAIN p /\ p[i] < x[i]
                                /\ \A j \in 1 .. i - 1 : p[j] = x[j]
        BY <3>2, <3>3 DEF Behind
      <4>2. i \in 1 .. l + 1 /\ y[i] = x[i] /\ \A j \in 1 .. i - 1 : y[j] = x[j]
        BY <4>1, <1>2, <1>4
      <4>3. Behind(p, y)
        BY <4>1, <4>2, <3>2 DEF Behind
      <4> QED BY <4>3, <3>1
    <3>4. CASE Leads(p, x)
      <4>1. Len(p) \in Nat /\ Len(p) < l /\ \A j \in 1 .. Len(p) : p[j] = x[j]
        BY <3>1, <3>4, <1>2 DEF Leads
      <4>2. Leads(p, y)
        BY <4>1, <1>2, <1>4 DEF Leads
      <4> QED BY <4>2, <3>1
    <3> QED BY <3>1, <3>3, <3>4
  <2> QED BY <2>1, <2>2, <1>5
<1>10. Way(x)
  BY <1>1 DEF Standing
<1>11. ASSUME NEW i \in 1 .. l + 1
       PROVE  /\ i < l + 1 => Said(Pre(y, i), "ACCEPT")'
              /\ \A k \in 1 .. y[i] - 1 : ~Said(Alt(y, i, k), "REJECT_AFTER")'
  <2>1. CASE i = l + 1
    <3>1. ~(i < l + 1) /\ 1 .. y[i] - 1 = {}
      BY <2>1, <1>2, <1>4
    <3> QED BY <3>1
  <2>2. CASE i # l + 1
    <3>1. i \in 1 .. l /\ i \in 0 .. l /\ y[i] = x[i]
      BY <2>2, <1>2, <1>4
    <3>2. Said(Pre(y, i), "ACCEPT")'
      <4>1. Pre(y, i) = Pre(x, i)
        BY <3>1, <1>7
      <4>2. CASE i = l
        BY <4>1, <4>2, <1>5, <1>8
      <4>3. CASE i # l
        <5>1. Said(Pre(x, i), "ACCEPT")
          BY <3>1, <4>3, <1>2, <1>10 DEF Way
        <5> QED BY <4>1, <5>1, <1>5
      <4> QED BY <4>2, <4>3
    <3>3. ASSUME NEW k \in 1 .. y[i] - 1
          PROVE  ~Said(Alt(y, i, k), "REJECT_AFTER")'
      <4>1. ~Said(Alt(x, i, k), "REJECT_AFTER")
        BY <3>1, <1>2, <1>10 DEF Way
      <4>2. Alt(y, i, k) = Alt(x, i, k)
        <5>1. i - 1 \in 0 .. l
          BY <3>1, <1>2
        <5> QED BY <5>1, <1>7 DEF Alt, Pre
      <4> QED BY <4>1, <4>2, <1>5
    <3> QED BY <3>2, <3>3
  <2> QED BY <2>1, <2>2
<1>12. inds' \in Seq(Int) /\ Len(inds') \in 1 .. Len(queues')
  BY <1>1, <1>2, <1>4
<1>13. \A i \in 1 .. Len(inds') : inds'[i] \in 1 .. Len(queues'[i])
  BY <1>1, <1>4, <1>6
<1>14. iter' = Pre(inds', Len(inds') - 1)
  <2>1. Len(inds') - 1 = l /\ l \in 0 .. l
    BY <1>1, <1>2, <1>4
  <2> QED BY <2>1, <1>1, <1>7, <1>8
<1>15. Way(inds)'
  BY <1>1, <1>4, <1>11 DEF Way
<1> QED BY <1>1, <1>9, <1>12, <1>13, <1>14, <1>15 DEF Standing

\* Going back to row r.
LEMMA StandsBack ==
  ASSUME QueuesFit, Standing, NEW flag \in Verdicts, verdict' = Heard(flag),
         queues' = queues, NEW r, RowIn(r, flag), r > 0,
         inds' = Alt(inds, r, inds[r] + 1), iter' = Pre(iter, r - 1)
  PROVE  Standing'
<1>1. PICK x, l, n, y : x = inds /\ l = Len(inds) /\ n = Len(queues) /\ y = inds'
  OBVIOUS
<1>2. /\ n \in Nat /\ x \in Seq(Int) /\ Len(x) = l /\ l \in Nat \ {0}
      /\ l \in 1 .. n /\ \A i \in 1 .. l : x[i] \in Int /\ x[i] \in 1 .. Len(queues[i])
  BY <1>1, IndsAre
<1>3. /\ r \in 1 .. l /\ r \in Nat
      /\ x[r] + 1 \in 1 .. Len(queues[r])
      /\ ~(r = l /\ flag = "REJECT_AFTER")
  BY <1>1, <1>2 DEF RowIn
<1>4. IsAlt(y, x, r, x[r] + 1)
  <2>1. r \in 1 .. Len(x) /\ x[r] + 1 \in Int
    BY <1>2, <1>3
  <2>2. IsAlt(Alt(x, r, x[r] + 1), x, r, x[r] + 1)
    BY <1>2, <2>1, AltIs
  <2> QED BY <1>1, <2>2
<1>5. /\ y \in Seq(Int) /\ Len(y) = r /\ y[r] = x[r] + 1 /\ DOMAIN y = 1 .. r
      /\ \A i \in 1 .. r - 1 : y[i] = x[i]
  BY <1>4 DEF IsAlt
<1>6. /\ DOMAIN verdict' = {x} \cup DOMAIN verdict
      /\ \A p, f : Said(p, f)' <=> IF p = x THEN f = flag ELSE Said(p, f)
  BY <1>1, Remembers
<1>7. \A i \in 0 .. r - 1 : Pre(y, i) = Pre(x, i)
  <2> SUFFICES ASSUME NEW i \in 0 .. r - 1 PROVE Pre(y, i) = Pre(x, i)
    OBVIOUS
  <2>1. i \in 0 .. Len(y) /\ i <= Len(x) /\ \A j \in 1 .. i : y[j] = x[j]
    BY <1>2, <1>3, <1>5
  <2> QED BY <2>1, <1>2, <1>5, SameBeginnings
<1>8. ASSUME NEW p \in DOMAIN verdict'
      PROVE  p \in Seq(Int) /\ (Behind(p, y) \/ Leads(p, y))
  <2>1. CASE p = x
    <3>1. r \in DOMAIN x /\ r \in DOMAIN y /\ x[r] < y[r]
      BY <1>2, <1>3, <1>5
    <3>2. Behind(x, y)
      BY <3>1, <1>5 DEF Behind
    <3> QED BY <2>1, <3>2, <1>2
  <2>2. CASE p \in DOMAIN verdict
    <3>1. p \in Seq(Int) /\ (Behind(p, x) \/ Leads(p, x))
      BY <2>2, <1>1 DEF Standing
    <3>2. DOMAIN x = 1 .. l /\ DOMAIN p = 1 .. Len(p) /\ Len(p) \in Nat
      BY <3>1, <1>2
    <3>3. CASE Behind(p, x)
      <4>1. PICK i \in 1 .. l : /\ i \in 1 .. Len(p) /\ p[i] < x[i]
                                /\ \A j \in 1 .. i - 1 : p[j] = x[j]
        BY <3>2, <3>3 DEF Behind
      <4>2. CASE i < r
        <5>1. i \in 1 .. r /\ y[i] = x[i] /\ \A j \in 1 .. i - 1 : y[j] = x[j]
          BY <4>1, <4>2, <1>3, <1>5
        <5> QED BY <3>1, <4>1, <5>1, <3>2, <1>5 DEF Behind
      <4>3. CASE i >= r
        <5>1. r \in 1 .. Len(p) /\ \A j \in 1 .. r - 1 : p[j] = y[j]
          BY <4>1, <4>3, <3>2, <1>3, <1>5
        <5>2. p[r] \in Int /\ x[r] \in Int
          BY <5>1, <3>1, <1>2, <1>3
        <5>3. p[r] <= x[r]
          <6>1. CASE i = r
            BY <6>1, <4>1, <5>2
          <6>2. CASE i # r
            <7>1. r \in 1 .. i - 1
              BY <6>2, <4>3, <4>1, <1>3
            <7> QED BY <7>1, <4>1, <5>2
          <6> QED BY <6>1, <6>2
        <5>4. p[r] < y[r] /\ r \in DOMAIN y
          BY <5>2, <5>3, <1>3, <1>5
        <5> QED BY <3>1, <5>1, <5>4, <3>2 DEF Behind
      <4> QED BY <4>1, <4>2, <4>3, <1>3
    <3>4. CASE Leads(p, x)
      <4>1. Len(p) < l /\ \A j \in 1 .. Len(p) : p[j] = x[j]
        BY <3>4, <1>2 DEF Leads
      <4>2. CASE Len(p) < r
        <5>1. \A j \in 1 .. Len(p) : p[j] = y[j]
          BY <4>1, <4>2, <3>2, <1>3, <1>5
        <5> QED BY <3>1, <4>2, <5>1, <1>5 DEF Leads
      <4>3. CASE Len(p) >= r
        <5>1. r \in 1 .. Len(p) /\ p[r] = x[r] /\ \A j \in 1 .. r - 1 : p[j] = y[j]
          BY <4>1, <4>3, <3>2, <1>3, <1>5
        <5>2. p[r] < y[r] /\ r \in DOMAIN y
          BY <5>1, <1>2, <1>3, <1>5
        <5> QED BY <3>1, <5>1, <5>2, <3>2 DEF Behind
      <4> QED BY <4>2, <4>3, <3>2, <1>3
    <3> QED BY <3>1, <3>3, <3>4
  <2> QED BY <2>1, <2>2, <1>6
<1>9. Way(x)
  BY <1>1 DEF Standing
<1>10. ASSUME NEW i \in 1 .. r, i < r PROVE Said(Pre(y, i), "ACCEPT")'
  <2>1. i \in 1 .. l /\ i < l /\ i \in 0 .. r - 1 /\ i \in 0 .. Len(x)
    BY <1>10, <1>2, <1>3
  <2>2. Said(Pre(x, i), "ACCEPT")
    BY <2>1, <1>2, <1>9 DEF Way
  <2>3. IsPre(Pre(x, i), x, i)
    BY <2>1, <1>2, PreIs
  <2>4. Pre(x, i) # x
    BY <2>1, <2>3, <1>2 DEF IsPre
  <2> QED BY <2>1, <2>2, <2>4, <1>6, <1>7
<1>11. ASSUME NEW i \in 1 .. r, NEW k \in 1 .. y[i] - 1
       PROVE  ~Said(Alt(y, i, k), "REJECT_AFTER")'
  <2>1. i - 1 \in 0 .. r - 1 /\ i \in 1 .. l /\ i \in 1 .. Len(x) /\ k \in Int
    BY <1>2, <1>3
  <2>2. Alt(y, i, k) = Alt(x, i, k)
    BY <2>1, <1>7 DEF Alt, Pre
  <2>3. IsAlt(Alt(x, i, k), x, i, k)
    BY <2>1, <1>2, AltIs
  <2>4. CASE k \in 1 .. x[i] - 1
    <3>1. ~Said(Alt(x, i, k), "REJECT_AFTER")
      BY <2>1, <2>4, <1>2, <1>9 DEF Way
    <3>2. Alt(x, i, k) # x
      <4>1. k # x[i]
        BY <2>1, <2>4, <1>2
      <4> QED BY <4>1, <2>3 DEF IsAlt
    <3> QED BY <2>2, <3>1, <3>2, <1>6
  <2>5. CASE k \notin 1 .. x[i] - 1
    <3>1. i = r
      <4>1. i < r => y[i] = x[i]
        BY <1>3, <1>5
      <4> QED BY <4>1, <2>5, <1>3
    <3>2. k = x[r]
      <4>1. x[r] \in Int /\ k \in 1 .. (x[r] + 1) - 1 /\ k \notin 1 .. x[r] - 1
        BY <3>1, <2>5, <1>2, <1>3, <1>5
      <4> QED BY <4>1
    <3>3. CASE r = l
      <4>1. IsAlt(x, x, r, x[r])
        BY <3>3, <1>2 DEF IsAlt
      <4>2. Alt(x, r, x[r]) = x
        BY <4>1, <2>3, <3>1, <3>2, <1>3, OneAlt
      <4> QED BY <2>2, <3>1, <3>2, <3>3, <4>2, <1>3, <1>6
    <3>4. CASE r # l
      <4>1. r \in 0 .. Len(x) /\ r < l /\ r < Len(x)
        BY <3>4, <1>2, <1>3
      <4>2. Said(Pre(x, r), "ACCEPT")
        BY <4>1, <1>2, <1>3, <1>9 DEF Way
      <4>3. IsPre(Pre(x, r), x, r)
        BY <4>1, <1>2, PreIs
      <4>4. IsAlt(Pre(x, r), x, r, x[r])
        BY <4>3, <1>3 DEF IsPre, IsAlt
      <4>5. Alt(x, r, x[r]) = Pre(x, r)
        BY <4>4, <2>3, <3>1, <3>2, <1>3, OneAlt
      <4>6. Pre(x, r) # x
        BY <4>1, <4>3, <1>2 DEF IsPre
      <4>7. ~Said(Pre(x, r), "REJECT_AFTER")
        BY <4>2 DEF Said
      <4> QED BY <2>2, <3>1, <3>2, <4>5, <4>6, <4>7, <1>6
    <3> QED BY <3>3, <3>4
  <2> QED BY <2>4, <2>5
<1>12. inds' \in Seq(Int) /\ Len(inds') \in 1 .. Len(queues')
  BY <1>1, <1>2, <1>3, <1>5
<1>13. \A i \in 1 .. Len(inds') : inds'[i] \in 1 .. Len(queues'[i])
  <2>1. \A i \in 1 .. r : i = r \/ i \in 1 .. r - 1
    BY <1>3
  <2>2. \A i \in 1 .. r - 1 : i \in 1 .. l
    BY <1>2, <1>3
  <2> QED BY <2>1, <2>2, <1>1, <1>2, <1>3, <1>5
<1>14. iter' = Pre(inds', Len(inds') - 1)
  <2>1. iter' = Pre(Pre(x, l - 1), r - 1)
    BY <1>1 DEF Standing
  <2>2. l - 1 \in 0 .. Len(x) /\ r - 1 \in 0 .. l - 1 /\ r - 1 \in 0 .. Len(x)
    BY <1>2, <1>3
  <2>3. PICK z : z = Pre(x, l - 1)
    OBVIOUS
  <2>4. IsPre(z, x, l - 1)
    BY <2>2, <2>3, <1>2, PreIs
  <2>5. IsPre(Pre(z, r - 1), z, r - 1)
    <3>1. z \in Seq(Int) /\ r - 1 \in 0 .. Len(z)
      BY <2>2, <2>4 DEF IsPre
    <3> QED BY <3>1, PreIs
  <2>6. \A j \in 1 .. r - 1 : j \in 1 .. l - 1
    BY <2>2, <1>2, <1>3
  <2>7. IsPre(Pre(z, r - 1), x, r - 1)
    BY <2>4, <2>5, <2>6 DEF IsPre
  <2>8. IsPre(Pre(x, r - 1), x, r - 1)
    BY <2>2, <1>2, PreIs
  <2>9. Pre(z, r - 1) = Pre(x, r - 1)
    BY <2>7, <2>8, OnePre
  <2>10. Pre(y, r - 1) = Pre(x, r - 1)
    BY <2>2, <1>3, <1>7
  <2> QED BY <2>1, <2>3, <2>9, <2>10, <1>1, <1>5
<1>15. Way(inds)'
  BY <1>1, <1>5, <1>10, <1>11 DEF Way
<1> QED BY <1>1, <1>8, <1>12, <1>13, <1>14, <1>15 DEF Standing

-----------------------------------------------------------------------------
(* What a filter asks about                                                *)

\* What is said of x changes nothing for what is up to it.
LEMMA WayKept ==
  ASSUME NEW flag, verdict' = Heard(flag), NEW p \in Seq(Int), NEW x \in Seq(Int),
         x = inds, UpTo(p, x)
  PROVE  Way(p)' <=> Way(p)
<1>1. \A q, f : Said(q, f)' <=> IF q = x THEN f = flag ELSE Said(q, f)
  BY Remembers
<1>2. /\ Len(p) \in Nat /\ Len(x) \in Nat
      /\ \A i \in 1 .. Len(p) : p[i] \in Int
  OBVIOUS
<1>3. ASSUME NEW i \in 1 .. Len(p)
      PROVE  /\ i < Len(p) => Pre(p, i) # x
             /\ \A k \in 1 .. p[i] - 1 : Alt(p, i, k) # x
  <2>1. CASE Behind(p, x)
    <3>1. Pre(p, i) # x /\ \A k \in Int : k < p[i] => Alt(p, i, k) # x
      BY <2>1, BehindAvoids
    <3>2. \A k \in 1 .. p[i] - 1 : k \in Int /\ k < p[i]
      BY <1>2
    <3> QED BY <3>1, <3>2
  <2>2. CASE Leads(p, x) \/ p = x
    <3>1. Len(p) <= Len(x) /\ \A j \in 1 .. Len(p) : p[j] = x[j]
      BY <2>2, <1>2 DEF Leads
    <3>2. ASSUME i < Len(p), Pre(p, i) = x PROVE FALSE
      <4>1. i \in 0 .. Len(p)
        BY <1>2
      <4>2. Len(x) = i
        BY <4>1, <3>2, PreIs DEF IsPre
      <4> QED BY <4>2, <3>1, <3>2, <1>2
    <3>3. ASSUME NEW k \in 1 .. p[i] - 1, Alt(p, i, k) = x PROVE FALSE
      <4>1. k \in Int /\ k # p[i]
        BY <1>2
      <4>2. IsAlt(x, p, i, k)
        BY <4>1, <3>3, AltIs
      <4>3. x[i] = k
        BY <4>2 DEF IsAlt
      <4> QED BY <4>1, <4>3, <3>1
    <3> QED BY <3>2, <3>3
  <2> QED BY <2>1, <2>2 DEF UpTo
<1>4. ASSUME NEW i \in 1 .. Len(p), i < Len(p)
      PROVE  Said(Pre(p, i), "ACCEPT")' <=> Said(Pre(p, i), "ACCEPT")
  BY <1>1, <1>3, <1>4
<1>5. ASSUME NEW i \in 1 .. Len(p), NEW k \in 1 .. p[i] - 1
      PROVE  Said(Alt(p, i, k), "REJECT_AFTER")' <=> Said(Alt(p, i, k), "REJECT_AFTER")
  BY <1>1, <1>3
<1>6. Way(p)' <=> \A i \in 1 .. Len(p) :
                    /\ i < Len(p) => Said(Pre(p, i), "ACCEPT")'
                    /\ \A k \in 1 .. p[i] - 1 : ~Said(Alt(p, i, k), "REJECT_AFTER")'
  BY DEF Way
<1> QED BY <1>4, <1>5, <1>6 DEF Way

\* Extending x passes x, and nothing besides.
LEMMA UpToOn ==
  ASSUME NEW x \in Seq(Int), NEW y, y = Append(x, 1),
         NEW p \in Seq(Int), \A i \in 1 .. Len(p) : p[i] >= 1
  PROVE  Behind(p, y) \/ Leads(p, y) <=> UpTo(p, x)
<1>1. PICK l, m : l = Len(x) /\ m = Len(p)
  OBVIOUS
<1>2. /\ l \in Nat /\ m \in Nat /\ DOMAIN x = 1 .. l /\ DOMAIN p = 1 .. m
      /\ y \in Seq(Int) /\ Len(y) = l + 1 /\ DOMAIN y = 1 .. l + 1 /\ y[l + 1] = 1
      /\ \A i \in 1 .. l : y[i] = x[i]
      /\ \A i \in 1 .. m : p[i] \in Int
  BY <1>1
<1>3. ASSUME Behind(p, x) PROVE Behind(p, y)
  <2>1. PICK i \in 1 .. l : i \in 1 .. m /\ p[i] < x[i] /\ \A j \in 1 .. i - 1 : p[j] = x[j]
    BY <1>2, <1>3 DEF Behind
  <2>2. i \in 1 .. l + 1 /\ y[i] = x[i] /\ \A j \in 1 .. i - 1 : y[j] = x[j]
    BY <2>1, <1>2
  <2> QED BY <2>1, <2>2, <1>2 DEF Behind
<1>4. ASSUME Leads(p, x) \/ p = x PROVE Leads(p, y)
  <2>1. m <= l /\ \A j \in 1 .. m : p[j] = x[j]
    BY <1>1, <1>2, <1>4 DEF Leads
  <2>2. m < l + 1 /\ \A j \in 1 .. m : p[j] = y[j]
    BY <2>1, <1>2
  <2> QED BY <2>2, <1>1, <1>2 DEF Leads
<1>5. ASSUME Behind(p, y) PROVE Behind(p, x)
  <2>1. PICK i \in 1 .. l + 1 : /\ i \in 1 .. m /\ p[i] < y[i]
                                /\ \A j \in 1 .. i - 1 : p[j] = y[j]
    BY <1>2, <1>5 DEF Behind
  <2>2. i # l + 1
    BY <2>1, <1>1, <1>2
  <2>3. i \in 1 .. l /\ p[i] < x[i] /\ \A j \in 1 .. i - 1 : p[j] = x[j]
    BY <2>1, <2>2, <1>2
  <2> QED BY <2>1, <2>3, <1>2 DEF Behind
<1>6. ASSUME Leads(p, y) PROVE Leads(p, x) \/ p = x
  <2>1. m < l + 1 /\ \A j \in 1 .. m : p[j] = y[j]
    BY <1>1, <1>2, <1>6 DEF Leads
  <2>2. m <= l /\ \A j \in 1 .. m : p[j] = x[j]
    BY <2>1, <1>2
  <2>3. CASE m = l
    BY <2>2, <2>3, <1>1, SeqEqual
  <2>4. CASE m # l
    BY <2>2, <2>4, <1>1, <1>2 DEF Leads
  <2> QED BY <2>3, <2>4
<1> QED BY <1>3, <1>4, <1>5, <1>6 DEF UpTo

\* Going back to row r of x passes what is up to x and what agrees up to r.
LEMMA UpToBack ==
  ASSUME NEW x \in Seq(Int), NEW r \in 1 .. Len(x), NEW y, IsAlt(y, x, r, x[r] + 1),
         NEW p \in Seq(Int)
  PROVE  Behind(p, y) \/ Leads(p, y) <=>
           UpTo(p, x) \/ (r <= Len(p) /\ \A j \in 1 .. r : p[j] = x[j])
<1>1. PICK l, m : l = Len(x) /\ m = Len(p)
  OBVIOUS
<1>2. /\ l \in Nat /\ m \in Nat /\ r \in 1 .. l /\ r \in Nat
      /\ DOMAIN x = 1 .. l /\ DOMAIN p = 1 .. m /\ DOMAIN y = 1 .. r
      /\ Len(y) = r /\ y[r] = x[r] + 1
      /\ \A j \in 1 .. r - 1 : y[j] = x[j]
      /\ \A i \in 1 .. m : p[i] \in Int
      /\ \A i \in 1 .. l : x[i] \in Int
  BY <1>1 DEF IsAlt
<1>3. ASSUME r <= m, \A j \in 1 .. r : p[j] = x[j] PROVE Behind(p, y)
  <2>1. r \in 1 .. r /\ r \in 1 .. m /\ p[r] < y[r] /\ \A j \in 1 .. r - 1 : p[j] = y[j]
    BY <1>2, <1>3
  <2> QED BY <2>1, <1>2 DEF Behind
<1>4. ASSUME Behind(p, x) PROVE Behind(p, y)
  <2>1. PICK b \in 1 .. l : b \in 1 .. m /\ p[b] < x[b] /\ \A j \in 1 .. b - 1 : p[j] = x[j]
    BY <1>2, <1>4 DEF Behind
  <2>2. CASE b <= r
    <3>1. b \in 1 .. r /\ p[b] < y[b] /\ \A j \in 1 .. b - 1 : p[j] = y[j]
      <4>1. p[b] < y[b]
        <5>1. CASE b = r
          BY <5>1, <2>1, <1>2
        <5>2. CASE b # r
          <6>1. b \in 1 .. r - 1
            BY <5>2, <2>1, <2>2, <1>2
          <6> QED BY <6>1, <2>1, <1>2
        <5> QED BY <5>1, <5>2
      <4>2. \A j \in 1 .. b - 1 : j \in 1 .. r - 1
        BY <2>1, <2>2, <1>2
      <4> QED BY <4>1, <4>2, <2>1, <2>2, <1>2
    <3> QED BY <3>1, <2>1, <1>2 DEF Behind
  <2>3. CASE ~(b <= r)
    <3>1. r <= m /\ \A j \in 1 .. r : j \in 1 .. b - 1
      BY <2>1, <2>3, <1>2
    <3> QED BY <3>1, <2>1, <1>3
  <2> QED BY <2>2, <2>3
<1>5. ASSUME Leads(p, x) \/ p = x PROVE Behind(p, y) \/ Leads(p, y)
  <2>1. m <= l /\ \A j \in 1 .. m : p[j] = x[j]
    BY <1>1, <1>2, <1>5 DEF Leads
  <2>2. CASE m < r
    <3>1. \A j \in 1 .. m : p[j] = y[j]
      BY <2>1, <2>2, <1>2
    <3> QED BY <3>1, <2>2, <1>1, <1>2 DEF Leads
  <2>3. CASE ~(m < r)
    BY <2>1, <2>3, <1>2, <1>3
  <2> QED BY <2>2, <2>3
<1>6. ASSUME Behind(p, y)
      PROVE  Behind(p, x) \/ (r <= m /\ \A j \in 1 .. r : p[j] = x[j])
  <2>1. PICK b \in 1 .. r : b \in 1 .. m /\ p[b] < y[b] /\ \A j \in 1 .. b - 1 : p[j] = y[j]
    BY <1>2, <1>6 DEF Behind
  <2>2. b \in 1 .. l /\ \A j \in 1 .. b - 1 : p[j] = x[j]
    BY <2>1, <1>2
  <2>3. CASE p[b] < x[b]
    BY <2>1, <2>2, <2>3, <1>2 DEF Behind
  <2>4. CASE ~(p[b] < x[b])
    <3>1. b = r
      <4>1. ASSUME b # r PROVE FALSE
        <5>1. b \in 1 .. r - 1
          BY <4>1, <1>2
        <5> QED BY <5>1, <2>1, <2>4, <1>2
      <4> QED BY <4>1
    <3>2. p[r] = x[r]
      BY <3>1, <2>1, <2>2, <2>4, <1>2
    <3>3. \A j \in 1 .. r : j = r \/ j \in 1 .. b - 1
      BY <3>1, <1>2
    <3> QED BY <3>1, <3>2, <3>3, <2>1, <2>2, <1>2
  <2> QED BY <2>3, <2>4
<1>7. ASSUME Leads(p, y) PROVE Leads(p, x)
  <2>1. m < r /\ \A j \in 1 .. m : p[j] = y[j]
    BY <1>1, <1>2, <1>7 DEF Leads
  <2>2. m < l /\ \A j \in 1 .. m : p[j] = x[j]
    BY <2>1, <1>2
  <2> QED BY <2>2, <1>1 DEF Leads
<1> QED BY <1>1, <1>3, <1>4, <1>5, <1>6, <1>7 DEF UpTo

\* Of what agrees with inds up to the row gone back to, the answers leave nothing
\* open that comes after inds.
LEMMA NoneSkipped ==
  ASSUME QueuesFit, BoundsFit, Standing, NEW flag \in Verdicts, verdict' = Heard(flag),
         ~(flag = "ACCEPT" /\ Len(inds) # Len(queues)),
         NEW r, RowIn(r, flag), NEW p \in Partial, Agrees(p, r), Way(p)'
  PROVE  UpTo(p, inds)
<1>1. PICK x, l, n, m : x = inds /\ l = Len(inds) /\ n = Len(queues) /\ m = Len(p)
  OBVIOUS
<1>2. /\ p \in Seq(Int) /\ Len(p) = m /\ m \in Nat /\ m \in 1 .. n /\ n \in Nat
      /\ x \in Seq(Int) /\ Len(x) = l /\ l \in Nat /\ l \in 1 .. n
      /\ DOMAIN p = 1 .. m /\ DOMAIN x = 1 .. l
  BY <1>1, PartialIs, IndsAre
<1>3. \A q, f : Said(q, f)' <=> IF q = x THEN f = flag ELSE Said(q, f)
  BY <1>1, Remembers
<1>4. /\ \A i \in 1 .. m : p[i] \in Int /\ p[i] \in 1 .. Len(queues[i])
      /\ \A i \in 1 .. l : x[i] \in Int /\ x[i] \in 1 .. Len(queues[i])
  BY <1>1, <1>2, PartialIs, IndsAre
<1>5. \A i \in 1 .. m :
        /\ i < m => Said(Pre(p, i), "ACCEPT")'
        /\ \A k \in 1 .. p[i] - 1 : ~Said(Alt(p, i, k), "REJECT_AFTER")'
  BY <1>1 DEF Way
<1>6. CASE \E k \in 1 .. l : k <= m /\ p[k] # x[k]
  <2>1. PICK k \in 1 .. l : /\ k \in 1 .. m /\ p[k] # x[k]
                            /\ \A j \in 1 .. k - 1 : p[j] = x[j]
    <3>1. PICK d \in 1 .. l : d <= m /\ p[d] # x[d]
      BY <1>6
    <3>2. d \in Nat /\ Differ(p, x, d)
      BY <3>1, <1>2 DEF Differ
    <3>3. PICK k \in 1 .. d : DifferAt(p, x, k)
      BY <3>2, FirstDifference
    <3>4. k \in 1 .. l /\ k \in 1 .. m
      BY <3>1, <3>3, <1>2
    <3> QED BY <3>3, <3>4 DEF DifferAt
  <2>2. CASE p[k] < x[k]
    BY <2>1, <2>2, <1>1, <1>2 DEF Behind, UpTo
  <2>3. CASE ~(p[k] < x[k])
    <3>1. k \in r + 1 .. l
      <4>1. r \in 0 .. l /\ \A j \in 1 .. r : p[j] = x[j]
        BY <1>1 DEF RowIn, Agrees
      <4>2. k \notin 1 .. r
        BY <2>1, <4>1
      <4> QED BY <4>1, <4>2, <1>2
    <3>2. p[k] \in Int /\ x[k] \in Int /\ Len(queues[k]) \in Nat /\ p[k] <= Len(queues[k])
      <4>1. k \in 1 .. n
        BY <2>1, <1>2
      <4>2. Len(queues[k]) \in Nat
        BY <4>1, <1>1, QueuesAre
      <4>3. p[k] \in 1 .. Len(queues[k])
        BY <2>1, <1>4
      <4> QED BY <4>2, <4>3, <2>1, <1>4
    <3>3. k = l /\ flag = "REJECT_AFTER"
      <4>1. x[k] = Len(queues[k]) \/ (k = l /\ flag = "REJECT_AFTER")
        BY <3>1, <1>1 DEF RowIn
      <4> QED BY <4>1, <3>2, <2>1, <2>3
    <3>4. Alt(p, l, x[l]) = x
      <4>1. l \in 1 .. Len(p) /\ l \in 1 .. Len(x) /\ x[l] \in Int
        BY <3>2, <3>3, <2>1, <1>2
      <4>2. IsAlt(Alt(p, l, x[l]), p, l, x[l])
        BY <4>1, <1>2, AltIs
      <4>3. IsAlt(Alt(p, l, x[l]), x, l, x[l])
        BY <4>2, <2>1, <3>3 DEF IsAlt
      <4>4. IsAlt(x, x, l, x[l])
        BY <1>2 DEF IsAlt
      <4> QED BY <4>3, <4>4, <1>2, OneAlt
    <3>5. Said(Alt(p, l, x[l]), "REJECT_AFTER")'
      BY <3>3, <3>4, <1>3
    <3>6. x[l] \in 1 .. p[l] - 1 /\ l \in 1 .. m
      <4>1. x[l] >= 1
        BY <3>3, <2>1, <1>4
      <4> QED BY <4>1, <3>2, <3>3, <2>1, <2>3
    <3> QED BY <3>5, <3>6, <1>5
  <2> QED BY <2>2, <2>3
<1>7. CASE \A k \in 1 .. l : k <= m => p[k] = x[k]
  <2>1. CASE m < l
    BY <2>1, <1>1, <1>2, <1>7 DEF Leads, UpTo
  <2>2. CASE m = l
    <3>1. p = x
      BY <2>2, <1>2, <1>7, SeqEqual
    <3> QED BY <3>1, <1>1 DEF UpTo
  <2>3. CASE m > l
    <3>1. Pre(p, l) = x
      <4>1. l \in 0 .. Len(p) /\ \A j \in 1 .. l : p[j] = x[j]
        BY <2>3, <1>2, <1>7
      <4>2. IsPre(Pre(p, l), p, l)
        BY <4>1, <1>2, PreIs
      <4>3. IsPre(x, p, l)
        BY <4>1, <1>2 DEF IsPre
      <4> QED BY <4>2, <4>3, OnePre
    <3>2. l \in 1 .. m /\ l < m
      BY <2>3, <1>2
    <3>3. flag = "ACCEPT"
      BY <3>1, <3>2, <1>3, <1>5
    <3>4. l = n
      BY <3>3, <1>1
    <3> QED BY <3>4, <2>3, <1>2
  <2> QED BY <2>1, <2>2, <2>3, <1>2
<1> QED BY <1>6, <1>7

\* After a turn, inds has been asked about, and nothing else that had not been.
LEMMA AskedGrows ==
  ASSUME QueuesFit, BoundsFit, ~done, Standing, NEW flag \in Verdicts,
         verdict' = Heard(flag), queues' = queues,
         IF flag = "ACCEPT" /\ Len(inds) # Len(queues)
           THEN inds' = Append(inds, 1) /\ done' = done
           ELSE Backtrack(RowsLeft(flag))
  PROVE  Asked' = Asked \cup {inds}
<1>1. PICK x, y : x = inds /\ y = inds'
  OBVIOUS
<1>2. x \in Seq(Int) /\ x \in Partial /\ Way(x)
  BY <1>1, IndsAre, PartialIs DEF Standing
<1>3. Partial' = Partial
  BY DEF Partial
<1>4. ASSUME NEW p \in Partial
      PROVE  Way(p)' /\ (done' \/ Behind(p, y) \/ Leads(p, y)) <=> Way(p)' /\ UpTo(p, x)
  <2>1. p \in Seq(Int) /\ \A i \in 1 .. Len(p) : p[i] >= 1
    <3>1. p \in Seq(Int) /\ \A i \in 1 .. Len(p) : p[i] \in 1 .. Len(queues[i])
      BY PartialIs
    <3> QED BY <3>1
  <2>2. CASE flag = "ACCEPT" /\ Len(inds) # Len(queues)
    <3>1. y = Append(x, 1) /\ ~done'
      BY <2>2, <1>1
    <3> QED BY <3>1, <2>1, <1>2, UpToOn
  <2>3. CASE ~(flag = "ACCEPT" /\ Len(inds) # Len(queues))
    <3>1. PICK r : /\ RowIn(r, flag)
                   /\ done' = (r = 0)
                   /\ r > 0 => inds' = Alt(inds, r, inds[r] + 1)
      BY <2>3, BacktrackIs
    <3>2. r \in 0 .. Len(x) /\ Len(x) \in Nat
      BY <3>1, <1>1, <1>2 DEF RowIn
    <3>3. Agrees(p, r) /\ Way(p)' => UpTo(p, x)
      BY <2>3, <3>1, <1>1, NoneSkipped
    <3>4. CASE r = 0
      <4>1. done' = TRUE
        BY <3>1, <3>4
      <4>2. Agrees(p, r)
        BY <3>4 DEF Agrees
      <4> QED BY <4>1, <4>2, <3>3
    <3>5. CASE r # 0
      <4>1. r \in 1 .. Len(x) /\ ~done' /\ x[r] + 1 \in Int /\ y = Alt(x, r, x[r] + 1)
        <5>1. r \in 1 .. Len(x) /\ r > 0
          BY <3>2, <3>5
        <5>2. x[r] \in Int
          BY <5>1, <1>2
        <5>3. ~done'
          BY <3>1, <3>5
        <5>4. y = Alt(x, r, x[r] + 1)
          BY <5>1, <3>1, <1>1
        <5>5. x[r] + 1 \in Int
          BY <5>2
        <5> QED BY <5>1, <5>3, <5>4, <5>5
      <4>2. IsAlt(y, x, r, x[r] + 1)
        BY <4>1, <1>2, AltIs
      <4>3. Behind(p, y) \/ Leads(p, y) <=>
              UpTo(p, x) \/ (r <= Len(p) /\ \A j \in 1 .. r : p[j] = x[j])
        BY <4>1, <4>2, <2>1, <1>2, UpToBack
      <4> QED BY <4>1, <4>3, <3>3, <1>1 DEF Agrees
    <3> QED BY <3>4, <3>5
  <2> QED BY <2>2, <2>3
<1>5. ASSUME NEW p \in Partial
      PROVE  Way(p)' /\ UpTo(p, x) <=> Way(p) /\ UpTo(p, x)
  <2>1. p \in Seq(Int)
    BY PartialIs
  <2> QED BY <2>1, <1>1, <1>2, WayKept
<1>6. ASSUME NEW p
      PROVE  p \in Asked' <=> /\ p \in Partial
                              /\ Way(p)' /\ (done' \/ Behind(p, y) \/ Leads(p, y))
  <2>1. /\ Behind(p, inds)' <=> Behind(p, y)
        /\ Leads(p, inds)' <=> Leads(p, y)
    BY <1>1 DEF Behind, Leads
  <2> QED BY <2>1, <1>3 DEF Asked
<1>7. ASSUME NEW p
      PROVE  p \in Asked \cup {x} <=> p \in Partial /\ Way(p) /\ UpTo(p, x)
  BY <1>1, <1>2 DEF Asked, UpTo
<1> QED BY <1>1, <1>4, <1>5, <1>6, <1>7

LEMMA FilterInit ==
  ASSUME BoundsFit, Init
  PROVE  FilterInv
<1> SUFFICES ASSUME loop = "filter"
             PROVE  /\ ~done => Standing
                    /\ ~SomeEmpty(queues) => DOMAIN verdict = Asked
                    /\ out \in Seq(Filtered(Tried)) /\ Range(out) = Filtered(Tried)
                    /\ InOrder(out)
  BY DEF FilterInv
<1>1. QueuesFit
  BY QueuesInit
<1>2. /\ done <=> SomeEmpty(queues)
      /\ ~done => inds = <<1>>
      /\ iter = << >> /\ out = << >> /\ verdict = << >>
  BY DEF Init
<1>3. ASSUME ~done PROVE Standing
  <2>1. \A i \in 1 .. Len(queues) : Len(queues[i]) \in Nat /\ Len(queues[i]) >= 1
    BY <1>1, <1>2, <1>3, QueuesAre
  <2>2. Len(queues) \in Nat \ {0}
    BY <1>1 DEF QueuesFit
  <2>3. inds = <<1>> /\ inds \in Seq(Int) /\ Len(inds) = 1 /\ inds[1] = 1
    <3>1. <<1>> \in Seq(Int) /\ Len(<<1>>) = 1 /\ <<1>>[1] = 1
      OBVIOUS
    <3>2. inds = <<1>>
      BY <1>2, <1>3
    <3> QED BY <3>1, <3>2
  <2>4. \A i \in 1 .. Len(inds) : i = 1
    BY <2>3
  <2>5. 1 \in 1 .. Len(queues) /\ inds[1] \in 1 .. Len(queues[1])
    BY <2>1, <2>2, <2>3
  <2>6. iter = Pre(inds, Len(inds) - 1)
    BY <1>2, <2>3 DEF Pre
  <2>7. DOMAIN verdict = {}
    BY <1>2
  <2>8. Way(inds)
    <3>1. ~(1 < 1) /\ 1 .. 1 - 1 = {}
      OBVIOUS
    <3> QED BY <3>1, <2>3, <2>4 DEF Way
  <2> QED BY <2>3, <2>4, <2>5, <2>6, <2>7, <2>8 DEF Standing
<1>4. Tried = {}
  <2>1. CASE done
    <3>1. PICK i \in DOMAIN queues : queues[i] = << >>
      BY <1>2, <2>1 DEF SomeEmpty
    <3>2. i \in 1 .. Len(queues) /\ 1 .. Len(queues[i]) = {}
      BY <3>1, <1>1, QueuesAre
    <3> QED BY <3>2, <1>1, WholeIs DEF Tried
  <2>2. CASE ~done
    <3>1. inds = <<1>> /\ DOMAIN inds = 1 .. 1 /\ inds[1] = 1
      BY <1>2, <2>2
    <3>2. ASSUME NEW c \in Whole PROVE ~Behind(c, inds)
      <4>1. 1 \in 1 .. Len(queues) /\ Len(queues[1]) \in Nat
        BY <1>1, QueuesAre DEF QueuesFit
      <4>2. c[1] \in 1 .. Len(queues[1])
        BY <4>1, <1>1, WholeIs
      <4>3. ~(c[1] < inds[1])
        BY <3>1, <4>1, <4>2
      <4>4. \A i \in DOMAIN inds : i = 1
        BY <3>1
      <4> QED BY <4>3, <4>4 DEF Behind
    <3> QED BY <2>2, <3>2 DEF Tried
  <2> QED BY <2>1, <2>2
<1>5. Filtered(Tried) = {}
  BY <1>4 DEF Filtered
<1>6. out \in Seq(Filtered(Tried)) /\ Range(out) = {} /\ InOrder(out)
  <2>1. DOMAIN out = {}
    BY <1>2
  <2> QED BY <1>2, <2>1 DEF Range, InOrder
<1>7. ASSUME ~SomeEmpty(queues) PROVE DOMAIN verdict = Asked
  <2>1. ~done /\ inds = <<1>> /\ DOMAIN verdict = {}
    BY <1>2, <1>7
  <2>2. DOMAIN inds = 1 .. 1 /\ inds[1] = 1 /\ Len(inds) = 1
    BY <2>1
  <2>3. ASSUME NEW p \in Partial PROVE ~Behind(p, inds) /\ ~Leads(p, inds)
    <3>1. p \in Seq(Int) /\ Len(p) \in 1 .. Len(queues) /\ p[1] \in 1 .. Len(queues[1])
      <4>1. p \in Seq(Int) /\ Len(p) \in 1 .. Len(queues) /\ Len(p) \in Nat
        BY <1>1, PartialIs
      <4>2. 1 \in 1 .. Len(p)
        BY <4>1
      <4> QED BY <4>1, <4>2, <1>1, PartialIs
    <3>2. 1 \in 1 .. Len(queues) /\ Len(queues[1]) \in Nat
      BY <1>1, QueuesAre DEF QueuesFit
    <3>3. ~(p[1] < inds[1]) /\ \A i \in DOMAIN inds : i = 1
      BY <3>1, <3>2, <2>2
    <3>4. ~(Len(p) < Len(inds))
      BY <3>1, <3>2, <2>2
    <3> QED BY <3>3, <3>4 DEF Behind, Leads
  <2> QED BY <2>1, <2>3 DEF Asked
<1> QED BY <1>3, <1>5, <1>6, <1>7

LEMMA FilterKeeps ==
  ASSUME QueuesFit, BoundsFit, FilterInv, FilterStep
  PROVE  FilterInv'
<1>1. loop = "filter" /\ ~done /\ loop' = loop /\ queues' = queues
  BY DEF FilterStep
<1>2. /\ Standing
      /\ ~SomeEmpty(queues) => DOMAIN verdict = Asked
      /\ out \in Seq(Filtered(Tried)) /\ Range(out) = Filtered(Tried)
      /\ InOrder(out)
  BY <1>1 DEF FilterInv
<1>3. PICK flag \in Verdicts :
        /\ verdict' = Heard(flag)
        /\ out' = IF flag = "ACCEPT" /\ Len(inds) = Len(queues)
                    THEN Append(out, inds) ELSE out
        /\ IF flag = "ACCEPT" /\ Len(inds) # Len(queues)
             THEN iter' = inds /\ inds' = Append(inds, 1) /\ done' = done
             ELSE Backtrack(RowsLeft(flag))
  BY <1>2, FilterStepIs
<1>4. Filtered(Tried)' =
        Filtered(Tried) \cup
          (IF flag = "ACCEPT" /\ Len(inds) = Len(queues) THEN {inds} ELSE {})
  BY <1>1, <1>2, <1>3, FilteredGrows
<1>5. ~done' => Standing'
  <2>1. CASE flag = "ACCEPT" /\ Len(inds) # Len(queues)
    <3>1. ~SomeEmpty(queues)
      BY <1>1 DEF QueuesFit
    <3> QED BY <3>1, <2>1, <1>1, <1>2, <1>3, StandsOn
  <2>2. CASE ~(flag = "ACCEPT" /\ Len(inds) # Len(queues))
    <3>1. PICK r : /\ RowIn(r, flag)
                   /\ done' = (r = 0)
                   /\ r > 0 => /\ inds' = Alt(inds, r, inds[r] + 1)
                               /\ iter' = Pre(iter, r - 1)
      BY <2>2, <1>2, <1>3, BacktrackIs
    <3>2. ASSUME ~done' PROVE r > 0
      <4>1. r \in 0 .. Len(inds) /\ Len(inds) \in Nat /\ r # 0
        BY <3>1, <3>2, <1>2, IndsAre DEF RowIn
      <4> QED BY <4>1
    <3> QED BY <3>1, <3>2, <1>1, <1>2, <1>3, StandsBack
  <2> QED BY <2>1, <2>2
<1>6. Range(out)' = Range(out')
  BY DEF Range
<1>9. ASSUME ~SomeEmpty(queues)' PROVE (DOMAIN verdict = Asked)'
  <2>1. DOMAIN verdict = Asked
    BY <1>1, <1>2, <1>9 DEF SomeEmpty
  <2>2. Asked' = Asked \cup {inds}
    BY <1>1, <1>2, <1>3, AskedGrows
  <2>3. DOMAIN verdict' = {inds} \cup DOMAIN verdict
    BY <1>3, Remembers
  <2> QED BY <2>1, <2>2, <2>3
<1>7. CASE flag = "ACCEPT" /\ Len(inds) = Len(queues)
  <2>1. PICK S, s, x, n : S = Filtered(Tried) /\ s = out /\ x = inds /\ n = Len(queues)
    OBVIOUS
  <2>2. s \in Seq(S) /\ out' = Append(s, x)
    BY <2>1, <1>2, <1>3, <1>7
  <2>3. Appended(out', S, s, x)
    BY <2>2, AppendAdds
  <2>4. Filtered(Tried)' = S \cup {x}
    BY <2>1, <1>4, <1>7
  <2>5. out' \in Seq(S \cup {x}) /\ Range(out') = S \cup {x}
    BY <2>1, <2>3, <1>2 DEF Appended
  <2>6. InOrder(out')
    <3> SUFFICES ASSUME NEW i \in DOMAIN out', NEW j \in DOMAIN out', i < j
                 PROVE  Earlier(out'[i], out'[j])
      BY DEF InOrder
    <3>1. i \in 1 .. Len(s) /\ out'[i] = s[i] /\ s[i] \in S
      BY <2>3 DEF Appended
    <3>2. CASE j \in 1 .. Len(s)
      <4>1. i \in DOMAIN s /\ j \in DOMAIN s /\ out'[j] = s[j]
        BY <3>1, <3>2, <2>3 DEF Appended
      <4>2. Earlier(s[i], s[j])
        BY <4>1, <2>1, <1>2 DEF InOrder
      <4> QED BY <3>1, <4>1, <4>2
    <3>3. CASE j = Len(s) + 1
      <4>1. out'[j] = x
        BY <3>3, <2>3 DEF Appended
      <4>2. PICK c : c = s[i]
        OBVIOUS
      <4>3. c \in Whole /\ Behind(c, x)
        BY <2>1, <3>1, <4>2, <1>1 DEF Filtered, Tried
      <4>4. n \in Nat /\ c \in [1 .. n -> Int] /\ x \in [1 .. n -> Int]
        BY <2>1, <4>3, <1>2, <1>7, IndsAre, PassesIs
      <4>5. Earlier(c, x)
        BY <4>3, <4>4, BehindIsEarlier
      <4> QED BY <3>1, <4>1, <4>2, <4>5
    <3> QED BY <2>3, <3>2, <3>3 DEF Appended
  <2>7. InOrder(out)' <=> InOrder(out')
    BY DEF InOrder, Earlier
  <2> QED BY <2>4, <2>5, <2>6, <2>7, <1>5, <1>6, <1>9 DEF FilterInv
<1>8. CASE ~(flag = "ACCEPT" /\ Len(inds) = Len(queues))
  <2>1. out' = out /\ Filtered(Tried)' = Filtered(Tried)
    BY <1>3, <1>4, <1>8
  <2>2. InOrder(out)' <=> InOrder(out')
    BY DEF InOrder, Earlier
  <2> QED BY <2>1, <2>2, <1>2, <1>5, <1>6, <1>9 DEF FilterInv
<1> QED BY <1>7, <1>8

-----------------------------------------------------------------------------
(* Both loops                                                              *)

CombosInv == QueuesFit /\ MergeInv /\ FilterInv

LEMMA CombosInit ==
  ASSUME BoundsFit, Init
  PROVE  CombosInv
BY QueuesInit, MergeInit, FilterInit DEF CombosInv

LEMMA CombosStep ==
  ASSUME BoundsFit, CombosInv, [Next]_vars
  PROVE  CombosInv'
<1>1. QueuesFit' /\ queues' = queues /\ loop' = loop
  BY QueuesStep DEF CombosInv
<1>2. CASE MergeStep
  <2>1. loop = "merge" /\ FilterInv'
    BY <1>1, <1>2 DEF MergeStep, FilterInv
  <2>2. MergeInv'
    <3>1. CASE SomeEmpty(queues)
      BY <3>1, <1>1 DEF MergeInv, SomeEmpty
    <3>2. CASE ~SomeEmpty(queues)
      BY <3>2, <1>2, MergeKeeps DEF CombosInv
    <3> QED BY <3>1, <3>2
  <2> QED BY <1>1, <2>1, <2>2 DEF CombosInv
<1>3. CASE FilterStep
  <2>1. MergeInv'
    BY <1>1, <1>3 DEF FilterStep, MergeInv
  <2>2. FilterInv'
    BY <1>3, FilterKeeps DEF CombosInv
  <2> QED BY <1>1, <2>1, <2>2 DEF CombosInv
<1>4. CASE UNCHANGED vars
  <2>1. /\ loop' = loop /\ queues' = queues /\ inds' = inds /\ cost' = cost
        /\ iter' = iter /\ out' = out /\ verdict' = verdict /\ done' = done
    BY <1>4 DEF vars
  <2>2. Whole' = Whole /\ Tried' = Tried
    BY <2>1 DEF Whole, Tried
  <2>3. /\ \A c : CostOf(c)' = CostOf(c)
        /\ \A c, f : Said(c, f)' <=> Said(c, f)
    BY <2>1 DEF CostOf, Said
  <2>4. \A c : Passes(c)' <=> Passes(c)
    BY <2>1 DEF Passes, Said
  <2>5. Merged(Tried)' = Merged(Tried) /\ Filtered(Tried)' = Filtered(Tried)
    BY <2>2, <2>3, <2>4 DEF Merged, Filtered
  <2>6. (Way(inds)' <=> Way(inds)) /\ (Standing' <=> Standing)
    BY <2>1 DEF Way, Standing, Said
  <2>7. Range(out)' = Range(out)
    BY <2>1 DEF Range
  <2>8. MergeInv'
    BY <2>1, <2>2, <2>3, <2>5, <2>7
       DEF CombosInv, MergeInv, InOrder, Earlier, CostOf, SomeEmpty
  <2>9. FilterInv'
    <3>1. Asked' = Asked /\ (SomeEmpty(queues)' <=> SomeEmpty(queues))
      <4>1. Partial' = Partial /\ (SomeEmpty(queues)' <=> SomeEmpty(queues))
        BY <2>1 DEF Partial, SomeEmpty
      <4>2. ASSUME NEW p
            PROVE  /\ Way(p)' <=> Way(p)
                   /\ Behind(p, inds)' <=> Behind(p, inds)
                   /\ Leads(p, inds)' <=> Leads(p, inds)
        BY <2>1 DEF Way, Said, Behind, Leads
      <4> QED BY <2>1, <4>1, <4>2 DEF Asked
    <3> QED BY <3>1, <2>1, <2>5, <2>6, <2>7 DEF CombosInv, FilterInv, InOrder, Earlier
  <2> QED BY <1>1, <2>8, <2>9 DEF CombosInv
<1> QED BY <1>2, <1>3, <1>4 DEF Next

LEMMA CombosAlways ==
  ASSUME BoundsFit
  PROVE  Spec => []CombosInv
<1>1. Init => CombosInv
  BY CombosInit
<1>2. CombosInv /\ [Next]_vars => CombosInv'
  BY CombosStep
<1> QED BY <1>1, <1>2, PTL DEF Spec

\* unsorted_eager_merge() asks about every combination and returns every valid
\* one, in order, with the sum of its costs, for any queues.
THEOREM MergeIsRight ==
  ASSUME BoundsFit
  PROVE  Spec => []CombosAreAll
<1>1. CombosInv => CombosAreAll
  <2> SUFFICES ASSUME QueuesFit, MergeInv, loop = "merge", done, ~SomeEmpty(queues)
               PROVE  /\ DOMAIN verdict = Whole
                      /\ InOrder([i \in DOMAIN out |-> out[i].combo])
                      /\ Range(out) = {[cost |-> CostOf(c), combo |-> c] :
                                         c \in {d \in Whole : Said(d, "ACCEPT")}}
    BY DEF CombosInv, CombosAreAll
  <2>1. Tried = Whole
    BY DEF Tried
  <2> QED BY <2>1 DEF MergeInv, Merged
<1> QED BY <1>1, CombosAlways, PTL

\* filter_combos() asks about every combination and every beginning of one that
\* no answer rules out, and about nothing else; it returns exactly the whole ones
\* it accepted, in order, each once: for any queues, whatever is answered.
THEOREM FilterIsRight ==
  ASSUME BoundsFit
  PROVE  Spec => []FilterIsExact
<1>1. CombosInv => FilterIsExact
  <2> SUFFICES ASSUME QueuesFit, FilterInv, loop = "filter", done
               PROVE  /\ ~SomeEmpty(queues) => DOMAIN verdict = {c \in Partial : Due(c)}
                      /\ Range(out) = {c \in Whole : Passes(c)} /\ InOrder(out)
    BY DEF CombosInv, FilterIsExact
  <2>1. Tried = Whole
    BY DEF Tried
  <2>2. ASSUME NEW c \in Partial PROVE Due(c) <=> Way(c)
    <3>1. DOMAIN c = 1 .. Len(c)
      BY PartialIs
    <3> QED BY <3>1 DEF Due, Way, Pre, Alt
  <2>3. Asked = {c \in Partial : Due(c)}
    BY <2>2 DEF Asked
  <2> QED BY <2>1, <2>3 DEF FilterInv, Filtered
<1> QED BY <1>1, CombosAlways, PTL
=============================================================================
