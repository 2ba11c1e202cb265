---------------------------- MODULE BlocksProofs ----------------------------
(***************************************************************************)
(* What is proved of the driver's blocks, for all declarations, expressions*)
(* and bounds: the tables' findAll() gives what the open blocks declare,   *)
(* the collector's loop reaches each declaration in force once, and the    *)
(* metrics agree with both.                                                *)
(*                                                                         *)
(* The argument: each of the scoped maps keeps a scope for every open      *)
(* block, whose entries list that block's declarations (BlocksInv).  What  *)
(* is read from scopes like these is shown once, for any table and kind of *)
(* declarations: by findAll() (FindsIs), by the iterator, which passes     *)
(* empty scopes (TracedIs), and by n_decls_for() (InForceCount).           *)
(***************************************************************************)
EXTENDS Blocks, DataFacts

-----------------------------------------------------------------------------
(* Lists                                                                   *)

\* The lists of two disjoint sets are a list of their union.
LEMMA Joined ==
  ASSUME NEW s, NEW t, NEW S, NEW T, IsSeq(s), IsSeq(t), ListsOnce(s, S),
         ListsOnce(t, T), S \cap T = {}
  PROVE  IsSeq(s \o t) /\ ListsOnce(s \o t, S \cup T)
<1>1. ToSet(s) = S /\ ToSet(t) = T /\ IsInjective(s) /\ IsInjective(t)
  BY DEF ListsOnce
<1>2. /\ IsSeq(s \o t) /\ ToSet(s \o t) = S \cup T
      /\ IsInjective(s \o t)
  BY <1>1, ConcatIs, Zenon
<1> QED BY <1>2 DEF ListsOnce

\* Appending adds a member.
LEMMA AppendListsOnce ==
  ASSUME NEW s, NEW S, NEW d, IsSeq(s), ListsOnce(s, S), d \notin S
  PROVE  IsSeq(Append(s, d)) /\ ListsOnce(Append(s, d), S \cup {d})
<1>1. IsSeq(<<d>>) /\ ListsOnce(<<d>>, {d})
  <2>1. DOMAIN <<d>> = {1}
    OBVIOUS
  <2> QED BY <2>1, OneIs DEF ListsOnce, IsInjective
<1>2. Append(s, d) = s \o <<d>>
  <2>1. s \in Seq(ToSet(s) \cup {d})
    BY SeqMonotonic DEF IsSeq
  <2> QED BY <2>1, AppendIsConcat
<1>3. S \cap {d} = {}
  OBVIOUS
<1> DEFINE t == <<d>>
           T == {d}
<1> HIDE DEF t, T
<1>4. IsSeq(s \o t) /\ ListsOnce(s \o t, S \cup T)
  BY <1>1, <1>3, Joined DEF t, T
<1> QED BY <1>2, <1>4 DEF t, T

\* The first n sets, together.
Together(part, n) == UNION {part[i] : i \in 1 .. n}

\* So are those of many, one after the other, are a list of their union.
LEMMA FlattenedIs ==
  ASSUME NEW n \in Nat, NEW lists, IsSeq(lists), Len(lists) = n,
         NEW part, \A i \in 1 .. n : IsSeq(lists[i]) /\ ListsOnce(lists[i], part[i]),
         \A i, j \in 1 .. n : i # j => part[i] \cap part[j] = {}
  PROVE  /\ IsSeq(FlattenSeq(lists))
         /\ ListsOnce(FlattenSeq(lists), Together(part, n))
<1> DEFINE whole == UNION {part[i] : i \in 1 .. n}
           upTo(m) == UNION {part[i] : i \in 1 .. m}
<1>0. Together(part, n) = whole
  BY DEF Together
<1>1. CASE n = 0
  <2>1. FlattenSeq(lists) = lists /\ lists = << >>
    BY <1>1, SeqIs DEF FlattenSeq
  <2> QED BY <2>1, <1>0, <1>1, EmptyIs DEF ListsOnce
<1>2. CASE n # 0
  <2> DEFINE S == Seq(whole)
             step == [p \in Nat \X S |-> IF p[1] \in 1 .. n THEN p[2] \o lists[p[1]] ELSE p[2]]
             Flat1(f) == f = [i \in 1 .. n |-> IF i = 1 THEN lists[i] ELSE f[i - 1] \o lists[i]]
             g == CHOOSE f : Flat1(f)
  <2>1. \A i \in 1 .. n : lists[i] \in S
    <3> TAKE i \in 1 .. n
    <3>1. part[i] \subseteq whole
      OBVIOUS
    <3>2. lists[i] \in Seq(part[i])
      BY DEF IsSeq, ListsOnce
    <3> QED BY <3>1, <3>2, SeqMonotonic
  <2>2. 1 \in 1 .. n /\ n \in 1 .. n
    BY <1>2
  <2>3. step \in [Nat \X S -> S]
    <3>1. ASSUME NEW p \in Nat \X S, p[1] \in 1 .. n PROVE p[2] \o lists[p[1]] \in S
      <4>1. p[2] \in Seq(whole) /\ lists[p[1]] \in Seq(whole)
        BY <2>1, <3>1
      <4> HIDE DEF whole
      <4> QED BY <4>1, ConcatProperties
    <3> QED BY <3>1
  <2>4. lists[1] \in S
    BY <2>1, <2>2
  <2>5. PICK f : Steps(f, S, 1, n, lists[1], step)
    <3> HIDE DEF S, step
    <3> QED BY <2>3, <2>4, RecursionExists
  <2>6. Flat1(f)
    <3>0. /\ f \in [1 .. n -> S]
          /\ \A i \in 1 .. n : f[i] = IF i = 1 THEN lists[1] ELSE step[<<i, f[i - 1]>>]
      BY <2>5 DEF Steps
    <3>1. \A i \in 1 .. n : i # 1 => step[<<i, f[i - 1]>>] = f[i - 1] \o lists[i]
      <4> TAKE i \in 1 .. n
      <4> HAVE i # 1
      <4>1. i - 1 \in 1 .. n
        OBVIOUS
      <4>2. f[i - 1] \in S
        BY <4>1, <3>0
      <4> DEFINE x == f[i - 1]
      <4> HIDE DEF x, S
      <4>3. <<i, x>> \in Nat \X S /\ <<i, x>>[1] = i /\ <<i, x>>[2] = x
        BY <4>2 DEF x
      <4>4. step[<<i, x>>] = x \o lists[i]
        BY <4>3
      <4> QED BY <4>4 DEF x
    <3>2. f = [i \in 1 .. n |-> f[i]]
      BY <3>0
    <3>3. \A i \in 1 .. n : f[i] = IF i = 1 THEN lists[i] ELSE f[i - 1] \o lists[i]
      <4> HIDE DEF step, S
      <4> QED BY <3>0, <3>1
    <3> QED BY <3>2, <3>3
  <2>7. Flat1(g)
    <3> HIDE DEF Flat1
    <3> QED BY <2>6
  <2>8. FlattenSeq(lists) = g[n]
    BY <1>2 DEF FlattenSeq
  <2> HIDE DEF g
  <2>9. /\ g[1] = lists[1]
        /\ \A i \in 1 .. n : i # 1 => g[i] = g[i - 1] \o lists[i]
    BY <2>2, <2>7
  <2> HIDE DEF Flat1, whole
  <2> DEFINE P == {m \in Nat : m + 1 \in 1 .. n => IsSeq(g[m + 1]) /\ ListsOnce(g[m + 1], upTo(m + 1))}
  <2>10. 0 \in P
    <3>1. upTo(0 + 1) = part[1]
      OBVIOUS
    <3>2. IsSeq(lists[1]) /\ ListsOnce(lists[1], part[1])
      BY <2>2
    <3>3. 0 + 1 = 1 /\ 0 \in Nat
      OBVIOUS
    <3> HIDE DEF upTo
    <3> QED BY <3>1, <3>2, <3>3, <2>9
  <2>11. ASSUME NEW m \in P PROVE m + 1 \in P
    <3> DEFINE l == m + 1
    <3> SUFFICES ASSUME l + 1 \in 1 .. n
                 PROVE  IsSeq(g[l + 1]) /\ ListsOnce(g[l + 1], upTo(l + 1))
      OBVIOUS
    <3>1. l \in 1 .. n /\ l \in Nat /\ l + 1 # 1 /\ (l + 1) - 1 = l
      OBVIOUS
    <3>2. IsSeq(g[l]) /\ ListsOnce(g[l], upTo(l))
      BY <3>1
    <3>3. g[l + 1] = g[l] \o lists[l + 1]
      BY <2>9, <3>1
    <3>4. upTo(l + 1) = upTo(l) \cup part[l + 1]
      <4>1. 1 .. l + 1 = (1 .. l) \cup {l + 1}
        BY <3>1
      <4> HIDE DEF l
      <4> QED BY <4>1
    <3>5. upTo(l) \cap part[l + 1] = {}
      <4>1. \A i \in 1 .. l : i \in 1 .. n /\ i # l + 1
        BY <3>1
      <4> QED BY <4>1
    <3>6. IsSeq(lists[l + 1]) /\ ListsOnce(lists[l + 1], part[l + 1])
      OBVIOUS
    <3> HIDE DEF l, upTo
    <3>7. /\ IsSeq(g[l] \o lists[l + 1])
          /\ ListsOnce(g[l] \o lists[l + 1], upTo(l) \cup part[l + 1])
      BY <3>2, <3>5, <3>6, Joined
    <3> QED BY <3>3, <3>4, <3>7
  <2> HIDE DEF P
  <2>12. P = Nat
    <3>1. P \in SUBSET Nat
      BY DEF P
    <3> QED BY <3>1, <2>10, <2>11, Induction
  <2>13. n - 1 \in P /\ (n - 1) + 1 = n
    BY <2>12, <1>2
  <2> QED BY <1>0, <2>2, <2>8, <2>13 DEF P, whole
<1> QED BY <1>1, <1>2

-----------------------------------------------------------------------------
(* Looking up a key                                                        *)

\* F[i] is what findAll() has found once it has looked into the scopes from
\* the i-th outward.
Found(scopes, key, F) ==
  /\ F[0] = << >>
  /\ \A i \in 1 .. Len(scopes) :
       F[i] = IF key \in DOMAIN scopes[i] THEN <<scopes[i][key]>> \o F[i - 1] ELSE F[i - 1]

LEMMA FindAllIs ==
  ASSUME NEW scopes, IsSeq(scopes), NEW key
  PROVE  \E F : /\ Found(scopes, key, F) /\ \A i \in 0 .. Len(scopes) : IsSeq(F[i])
                /\ FindAll(scopes, key) = F[Len(scopes)]
<1> DEFINE n == Len(scopes)
           V == {scopes[i][key] : i \in 1 .. n}
           S == Seq(V)
           step == [p \in Nat \X S |->
                      IF p[1] \in 1 .. n /\ key \in DOMAIN scopes[p[1]]
                        THEN <<scopes[p[1]][key]>> \o p[2] ELSE p[2]]
           All(f) == f = [i \in 0 .. n |->
                            IF i = 0 THEN << >>
                            ELSE IF key \in DOMAIN scopes[i]
                                   THEN <<scopes[i][key]>> \o f[i - 1]
                            ELSE f[i - 1]]
           g == CHOOSE f : All(f)
<1>1. n \in Nat
  BY SeqIs
<1>2. FindAll(scopes, key) = g[n]
  BY DEF FindAll
<1> HIDE DEF n
<1>3. << >> \in S
  OBVIOUS
<1>4. step \in [Nat \X S -> S]
  <2> SUFFICES ASSUME NEW p \in Nat \X S, p[1] \in 1 .. n
               PROVE  <<scopes[p[1]][key]>> \o p[2] \in S
    OBVIOUS
  <2>1. scopes[p[1]][key] \in V
    OBVIOUS
  <2> HIDE DEF V
  <2>2. <<scopes[p[1]][key]>> \in Seq(V) /\ p[2] \in Seq(V)
    BY <2>1
  <2> QED BY <2>2, ConcatProperties
<1>5. PICK f : Steps(f, S, 0, n, << >>, step)
  <2> HIDE DEF S, step
  <2> QED BY <1>1, <1>3, <1>4, RecursionExists
<1>6. All(f)
  <2>1. /\ f \in [0 .. n -> S]
        /\ \A i \in 0 .. n : f[i] = IF i = 0 THEN << >> ELSE step[<<i, f[i - 1]>>]
    BY <1>5 DEF Steps
  <2>2. \A i \in 0 .. n : i # 0 =>
          step[<<i, f[i - 1]>>] = IF key \in DOMAIN scopes[i]
                                    THEN <<scopes[i][key]>> \o f[i - 1] ELSE f[i - 1]
    <3> TAKE i \in 0 .. n
    <3> HAVE i # 0
    <3> DEFINE x == f[i - 1]
    <3>1. i - 1 \in 0 .. n /\ i \in 1 .. n
      BY <1>1
    <3>2. x \in S
      BY <3>1, <2>1
    <3> HIDE DEF x, S
    <3>3. <<i, x>> \in Nat \X S /\ <<i, x>>[1] = i /\ <<i, x>>[2] = x
      BY <3>2, <1>1
    <3>4. step[<<i, x>>] = IF key \in DOMAIN scopes[i] THEN <<scopes[i][key]>> \o x ELSE x
      BY <3>1, <3>3
    <3> QED BY <3>4 DEF x
  <2>3. f = [i \in 0 .. n |-> f[i]]
    BY <2>1
  <2>4. \A i \in 0 .. n : f[i] = IF i = 0 THEN << >>
                                 ELSE IF key \in DOMAIN scopes[i]
                                        THEN <<scopes[i][key]>> \o f[i - 1]
                                 ELSE f[i - 1]
    <3> HIDE DEF step, S
    <3> QED BY <2>1, <2>2
  <2> QED BY <2>3, <2>4
<1>7. All(g)
  <2> HIDE DEF All
  <2> QED BY <1>6
<1> HIDE DEF g
<1>8. /\ g[0] = << >>
      /\ \A i \in 1 .. n : g[i] = IF key \in DOMAIN scopes[i]
                                    THEN <<scopes[i][key]>> \o g[i - 1] ELSE g[i - 1]
  <2>1. \A i \in 1 .. n : i \in 0 .. n /\ i # 0
    BY <1>1
  <2>2. 0 \in 0 .. n
    BY <1>1
  <2> QED BY <1>7, <2>1, <2>2
<1> HIDE DEF All
<1> DEFINE P == {m \in Nat : m <= n => IsSeq(g[m])}
<1>9. 0 \in P
  BY <1>8, EmptyIs
<1>10. ASSUME NEW m \in P PROVE m + 1 \in P
  <2> SUFFICES ASSUME m + 1 <= n PROVE IsSeq(g[m + 1])
    OBVIOUS
  <2>1. m \in Nat /\ m + 1 \in 1 .. n /\ (m + 1) - 1 = m /\ IsSeq(g[m])
    BY <1>1
  <2> DEFINE x == scopes[m + 1][key]
  <2>2. g[m + 1] \in {<<x>> \o g[m], g[m]}
    BY <2>1, <1>8
  <2> HIDE DEF x
  <2>3. IsSeq(<<x>>)
    BY OneIs
  <2>4. IsSeq(<<x>> \o g[m])
    BY <2>1, <2>3, ConcatIs
  <2> QED BY <2>1, <2>2, <2>4
<1> HIDE DEF P
<1>11. P = Nat
  <2>1. P \in SUBSET Nat
    BY DEF P
  <2> QED BY <2>1, <1>9, <1>10, Induction
<1>12. \A i \in 0 .. n : IsSeq(g[i])
  BY <1>1, <1>11 DEF P
<1> QED BY <1>2, <1>8, <1>12 DEF Found, n

\* The scopes that have a key, and how many of some scopes are not outside one.
Having(scopes, key) == {i \in 1 .. Len(scopes) : key \in DOMAIN scopes[i]}
NthOf(has, i) == Cardinality({j \in has : j >= i})

\* What is found: the values in the scopes that have the key, each at its place
\* among them, counted from the innermost.
LEMMA FoundAt ==
  ASSUME NEW scopes, IsSeq(scopes), NEW key
  PROVE  /\ IsSeq(FindAll(scopes, key))
         /\ Len(FindAll(scopes, key)) = Cardinality(Having(scopes, key))
         /\ \A i \in Having(scopes, key) :
              FindAll(scopes, key)[NthOf(Having(scopes, key), i)] = scopes[i][key]
<1> DEFINE n == Len(scopes)
           has == {i \in 1 .. n : key \in DOMAIN scopes[i]}
           upTo(m) == {j \in has : j <= m}
           from(i, m) == {j \in has : i <= j /\ j <= m}
<1>1. n \in Nat /\ has \subseteq 1 .. n
  BY SeqIs
<1>2. PICK F : /\ Found(scopes, key, F) /\ \A i \in 0 .. n : IsSeq(F[i])
               /\ FindAll(scopes, key) = F[n]
  BY FindAllIs
<1>3. /\ F[0] = << >>
      /\ \A i \in 1 .. n : F[i] = IF i \in has THEN <<scopes[i][key]>> \o F[i - 1]
                                               ELSE F[i - 1]
  BY <1>2 DEF Found
<1>4. IsFiniteSet(has) /\ \A m, i : IsFiniteSet(upTo(m)) /\ IsFiniteSet(from(i, m))
  <2>1. IsFiniteSet(1 .. n)
    BY <1>1, FS_Interval
  <2>2. IsFiniteSet(has)
    BY <2>1, <1>1, FS_Subset
  <2> QED BY <2>2, FS_Subset
<1> HIDE DEF n
<1> DEFINE Good(m) == /\ Len(F[m]) = Cardinality(upTo(m))
                      /\ \A i \in upTo(m) :
                           /\ Cardinality(from(i, m)) \in 1 .. Len(F[m])
                           /\ F[m][Cardinality(from(i, m))] = scopes[i][key]
           P == {m \in Nat : m <= n => Good(m)}
<1>5. 0 \in P
  <2>1. upTo(0) = {}
    BY <1>1
  <2> QED BY <2>1, <1>3, FS_EmptySet
<1>6. ASSUME NEW m \in P, m + 1 <= n PROVE Good(m + 1)
  <2>1. /\ m \in Nat /\ m + 1 \in 1 .. n /\ m \in 0 .. n /\ m + 1 \in 0 .. n
        /\ (m + 1) - 1 = m
    BY <1>1, <1>6
  <2>2. Good(m)
    BY <2>1
  <2>3. IsSeq(F[m]) /\ Len(F[m]) \in Nat
    BY <2>1, <1>2, SeqIs
  <2>4. \A j \in has : j \in Nat /\ (j <= m + 1 <=> j <= m \/ j = m + 1)
    BY <2>1, <1>1
  <2>5. CASE m + 1 \notin has
    <3>1. F[m + 1] = F[m]
      BY <2>1, <2>5, <1>3
    <3>2. upTo(m + 1) = upTo(m) /\ \A i : from(i, m + 1) = from(i, m)
      BY <2>4, <2>5
    <3> HIDE DEF upTo, from
    <3> QED BY <3>1, <3>2, <2>2
  <2>6. CASE m + 1 \in has
    <3> DEFINE x == scopes[m + 1][key]
               l == Len(F[m])
    <3>1. F[m + 1] = <<x>> \o F[m]
      BY <2>1, <2>6, <1>3
    <3>2. /\ Len(<<x>> \o F[m]) = l + 1
          /\ (<<x>> \o F[m])[1] = x
          /\ \A k \in 1 .. l : (<<x>> \o F[m])[k + 1] = F[m][k]
      <4> DEFINE T == ToSet(F[m]) \cup {x}
      <4>1. <<x>> \in Seq(T) /\ F[m] \in Seq(T) /\ Len(<<x>>) = 1 /\ <<x>>[1] = x
        BY <2>3, SeqMonotonic DEF IsSeq
      <4> HIDE DEF T, x
      <4>2. /\ Len(<<x>> \o F[m]) = 1 + l
            /\ \A k \in 1 .. 1 + l : (<<x>> \o F[m])[k] = IF k <= 1 THEN <<x>>[k]
                                                          ELSE F[m][k - 1]
        BY <4>1, ConcatProperties
      <4> HIDE DEF l
      <4>3. l \in Nat
        BY <2>3 DEF l
      <4>4. 1 \in 1 .. 1 + l
        BY <4>3
      <4>5. ASSUME NEW k \in 1 .. l PROVE (<<x>> \o F[m])[k + 1] = F[m][k]
        <5>1. k + 1 \in 1 .. 1 + l /\ ~(k + 1 <= 1) /\ (k + 1) - 1 = k
          BY <4>3
        <5> QED BY <5>1, <4>2
      <4> QED BY <4>1, <4>2, <4>3, <4>4, <4>5
    <3>3. upTo(m + 1) = upTo(m) \cup {m + 1} /\ m + 1 \notin upTo(m)
      BY <2>1, <2>4, <2>6
    <3>4. Cardinality(upTo(m + 1)) = Cardinality(upTo(m)) + 1
      <4> HIDE DEF upTo
      <4> QED BY <3>3, <1>4, FS_AddElement
    <3>5. ASSUME NEW i \in upTo(m + 1)
          PROVE  /\ Cardinality(from(i, m + 1)) \in 1 .. Len(F[m + 1])
                 /\ F[m + 1][Cardinality(from(i, m + 1))] = scopes[i][key]
      <4>1. CASE i = m + 1
        <5>1. from(i, m + 1) = {m + 1}
          BY <4>1, <2>4, <2>6
        <5>2. Cardinality(from(i, m + 1)) = 1
          BY <5>1, FS_Singleton
        <5>3. F[m + 1][1] = scopes[i][key] /\ 1 \in 1 .. Len(F[m + 1])
          BY <4>1, <3>1, <3>2, <2>3
        <5> QED BY <5>2, <5>3
      <4>2. CASE i # m + 1
        <5>1. i \in upTo(m)
          BY <4>2, <3>3, <3>5
        <5>2. from(i, m + 1) = from(i, m) \cup {m + 1} /\ m + 1 \notin from(i, m)
          BY <5>1, <2>1, <2>4, <2>6
        <5> DEFINE c == Cardinality(from(i, m))
        <5>3. Cardinality(from(i, m + 1)) = c + 1
          <6> HIDE DEF from
          <6> QED BY <5>2, <1>4, FS_AddElement
        <5>4. c \in 1 .. l /\ F[m][c] = scopes[i][key]
          BY <5>1, <2>2
        <5> HIDE DEF c, from, x
        <5>5. c + 1 \in 1 .. l + 1
          BY <5>4, <2>3
        <5> HIDE DEF l
        <5> QED BY <5>3, <5>4, <5>5, <3>1, <3>2
      <4> QED BY <4>1, <4>2
    <3>6. Len(F[m + 1]) = Cardinality(upTo(m + 1))
      BY <3>1, <3>2, <3>4, <2>2
    <3> QED BY <3>5, <3>6
  <2> QED BY <2>5, <2>6
<1> HIDE DEF Good
<1>7. ASSUME NEW m \in P PROVE m + 1 \in P
  BY <1>6, <1>7
<1> HIDE DEF P
<1>8. P = Nat
  <2>1. P \in SUBSET Nat
    BY DEF P
  <2> QED BY <2>1, <1>5, <1>7, Induction
<1>9. Good(n)
  BY <1>1, <1>8 DEF P
<1>10. upTo(n) = has /\ \A i \in has : from(i, n) = {j \in has : j >= i}
  BY <1>1
<1>11. n \in 0 .. n
  BY <1>1
<1>12. \A i \in has : NthOf(has, i) = Cardinality(from(i, n))
  BY <1>10 DEF NthOf
<1>13. has = Having(scopes, key)
  BY DEF Having, n
<1> HIDE DEF upTo, from, has
<1> QED BY <1>2, <1>9, <1>10, <1>11, <1>12, <1>13 DEF Good, n

-----------------------------------------------------------------------------
(* Counting                                                                *)

SumTo(s, g) == g = [n \in 0 .. Len(s) |-> IF n = 0 THEN 0 ELSE g[n - 1] + s[n]]
SumOf(s) == (CHOOSE g : SumTo(s, g))[Len(s)]

\* g holds the sums of s's first numbers, the last of its n is SumOf's.
Sums(s, n, g) ==
  /\ g \in [0 .. n -> Nat]
  /\ g[0] = 0 /\ \A i \in 1 .. n : g[i] = g[i - 1] + s[i]
  /\ SumOf(s) = g[n]

\* The sum of a sequence is reached one number at a time.
LEMMA SumIs ==
  ASSUME NEW s \in Seq(Nat)
  PROVE  \E g : Sums(s, Len(s), g)
<1> DEFINE n == Len(s)
           step == [p \in Nat \X Nat |-> IF p[1] \in 1 .. n THEN p[2] + s[p[1]] ELSE p[2]]
           g == CHOOSE h : SumTo(s, h)
<1>1. n \in Nat /\ \A i \in 1 .. n : s[i] \in Nat
  BY LenProperties
<1> HIDE DEF n
<1>2. step \in [Nat \X Nat -> Nat]
  BY <1>1
<1>3. PICK f : Steps(f, Nat, 0, n, 0, step)
  <2> HIDE DEF step
  <2>1. 0 \in Nat
    OBVIOUS
  <2> QED BY <2>1, <1>1, <1>2, RecursionExists
<1>4. /\ f \in [0 .. n -> Nat]
      /\ \A i \in 0 .. n : f[i] = IF i = 0 THEN 0 ELSE step[<<i, f[i - 1]>>]
  BY <1>3 DEF Steps
<1>5. \A i \in 0 .. n : f[i] = IF i = 0 THEN 0 ELSE f[i - 1] + s[i]
  <2> SUFFICES ASSUME NEW i \in 0 .. n, i # 0
               PROVE  step[<<i, f[i - 1]>>] = f[i - 1] + s[i]
    <3> HIDE DEF step
    <3> QED BY <1>4
  <2>1. i - 1 \in 0 .. n /\ i \in 1 .. n
    BY <1>1
  <2>2. <<i, f[i - 1]>> \in Nat \X Nat
    BY <2>1, <1>1, <1>4
  <2> QED BY <2>1, <2>2
<1>6. f = [i \in 0 .. n |-> f[i]]
  BY <1>4
<1> HIDE DEF step
<1>7. SumTo(s, f)
  BY <1>5, <1>6 DEF SumTo, n
<1>8. SumTo(s, g)
  BY <1>7
<1> HIDE DEF g
<1>9. \A i \in 0 .. n : g[i] = IF i = 0 THEN 0 ELSE g[i - 1] + s[i]
  BY <1>8 DEF SumTo, n
<1>10. g[0] = 0 /\ \A i \in 1 .. n : g[i] = g[i - 1] + s[i]
  <2>1. \A i \in 1 .. n : i \in 0 .. n /\ i # 0
    BY <1>1
  <2>2. 0 \in 0 .. n
    BY <1>1
  <2> QED BY <1>9, <2>1, <2>2
<1> DEFINE P == {m \in Nat : m <= n => g[m] \in Nat}
<1>11. 0 \in P
  BY <1>10
<1>12. ASSUME NEW m \in P PROVE m + 1 \in P
  <2>1. m + 1 <= n => m + 1 \in 1 .. n /\ (m + 1) - 1 = m
    BY <1>1
  <2> QED BY <2>1, <1>1, <1>10
<1> HIDE DEF P
<1>13. P = Nat
  <2>1. P \in SUBSET Nat
    BY DEF P
  <2> QED BY <2>1, <1>11, <1>12, Induction
<1>14. g = [i \in 0 .. n |-> g[i]]
  <2>1. DOMAIN g = 0 .. n /\ g = [i \in DOMAIN g |-> g[i]]
    BY <1>8 DEF SumTo, n
  <2> QED BY <2>1
<1>15. \A i \in 0 .. n : g[i] \in Nat
  BY <1>1, <1>13 DEF P
<1>16. g \in [0 .. n -> Nat]
  BY <1>14, <1>15
<1>17. SumOf(s) = g[n]
  BY DEF SumOf, g, n
<1> QED BY <1>10, <1>16, <1>17 DEF n, Sums

LEMMA SumOfEmpty == SumOf(<< >>) = 0
<1>1. << >> \in Seq(Nat) /\ Len(<< >>) = 0
  OBVIOUS
<1>2. PICK g : Sums(<< >>, 0, g)
  BY <1>1, SumIs
<1> QED BY <1>2 DEF Sums

\* A number before the others adds itself to their sum.
LEMMA SumOfMore ==
  ASSUME NEW x \in Nat, NEW s \in Seq(Nat)
  PROVE  SumOf(<<x>> \o s) = x + SumOf(s) /\ SumOf(s) \in Nat
<1> DEFINE t == <<x>> \o s
           n == Len(s)
<1>1. n \in Nat
  BY LenProperties
<1>2. /\ t \in Seq(Nat) /\ Len(t) = n + 1 /\ t[1] = x
      /\ \A i \in 1 .. n : t[i + 1] = s[i]
  <2>1. <<x>> \in Seq(Nat) /\ Len(<<x>>) = 1 /\ <<x>>[1] = x
    OBVIOUS
  <2>2. /\ t \in Seq(Nat) /\ Len(t) = 1 + n
        /\ \A i \in 1 .. 1 + n : t[i] = IF i <= 1 THEN <<x>>[i] ELSE s[i - 1]
    BY <2>1, ConcatProperties
  <2> HIDE DEF t, n
  <2>3. t \in Seq(Nat) /\ Len(t) = n + 1
    BY <2>2, <1>1
  <2>4. t[1] = x
    <3>1. 1 \in 1 .. 1 + n
      BY <1>1
    <3> QED BY <2>1, <2>2, <3>1
  <2>5. ASSUME NEW i \in 1 .. n PROVE t[i + 1] = s[i]
    <3>1. i + 1 \in 1 .. 1 + n /\ ~(i + 1 <= 1) /\ (i + 1) - 1 = i
      BY <1>1
    <3>2. t[i + 1] = IF i + 1 <= 1 THEN <<x>>[i + 1] ELSE s[(i + 1) - 1]
      BY <2>2, <3>1
    <3> QED BY <3>1, <3>2
  <2> QED BY <2>3, <2>4, <2>5
<1>3. PICK g : Sums(s, n, g)
  <2>1. \E g : Sums(s, Len(s), g)
    BY SumIs
  <2> QED BY <2>1
<1>4. PICK h : Sums(t, n + 1, h)
  <2> HIDE DEF t, n
  <2> QED BY <1>2, SumIs
<1> HIDE DEF t, n
<1> DEFINE P == {m \in Nat : m <= n => h[m + 1] = x + g[m]}
<1>5. 0 \in P
  <2>1. 1 \in 1 .. n + 1 /\ 1 - 1 = 0 /\ 0 + 1 = 1
    BY <1>1
  <2>2. h[1] = h[0] + t[1]
    BY <2>1, <1>4 DEF Sums
  <2> QED BY <2>1, <2>2, <1>2, <1>3, <1>4 DEF Sums
<1>6. ASSUME NEW m \in P PROVE m + 1 \in P
  <2> SUFFICES ASSUME m + 1 <= n PROVE h[(m + 1) + 1] = x + g[m + 1]
    OBVIOUS
  <2>1. /\ m \in Nat /\ m + 1 \in 1 .. n /\ (m + 1) + 1 \in 1 .. n + 1 /\ m \in 0 .. n
        /\ (m + 1) - 1 = m /\ ((m + 1) + 1) - 1 = m + 1
    BY <1>1
  <2>2. h[(m + 1) + 1] = h[m + 1] + s[m + 1] /\ g[m + 1] = g[m] + s[m + 1]
    BY <2>1, <1>2, <1>3, <1>4 DEF Sums
  <2>3. h[m + 1] = x + g[m] /\ s[m + 1] \in Nat
    BY <2>1, LenProperties DEF n
  <2>4. g[m] \in Nat
    BY <2>1, <1>3 DEF Sums
  <2> QED BY <2>2, <2>3, <2>4
<1> HIDE DEF P
<1>7. P = Nat
  <2>1. P \in SUBSET Nat
    BY DEF P
  <2> QED BY <2>1, <1>5, <1>6, Induction
<1>8. h[n + 1] = x + g[n] /\ g[n] \in Nat
  <2>1. n \in P /\ n \in 0 .. n
    BY <1>1, <1>7
  <2>2. g[n] \in Nat
    BY <2>1, <1>3 DEF Sums
  <2> QED BY <1>1, <2>1, <2>2 DEF P
<1> QED BY <1>3, <1>4, <1>8 DEF t, Sums

\* The numbers of the scopes' entries for a name count the blocks' declarations.
LEMMA CountIs ==
  ASSUME NEW scopes, IsSeq(scopes), NEW key, NEW part,
         \A i \in 1 .. Len(scopes) :
           /\ IsFiniteSet(part[i])
           /\ key \in DOMAIN scopes[i] <=> part[i] # {}
           /\ key \in DOMAIN scopes[i] => scopes[i][key] = Cardinality(part[i]),
         \A i, j \in 1 .. Len(scopes) : i # j => part[i] \cap part[j] = {}
  PROVE  NDeclsFor(scopes, key) = Cardinality(Together(part, Len(scopes)))
<1> DEFINE n == Len(scopes)
           upTo(m) == UNION {part[i] : i \in 1 .. m}
<1>1. n \in Nat
  BY SeqIs
<1>2. PICK F : /\ Found(scopes, key, F) /\ \A i \in 0 .. n : IsSeq(F[i])
               /\ FindAll(scopes, key) = F[n]
  BY FindAllIs
<1>3. /\ F[0] = << >>
      /\ \A i \in 1 .. n : F[i] = IF key \in DOMAIN scopes[i]
                                    THEN <<scopes[i][key]>> \o F[i - 1] ELSE F[i - 1]
  BY <1>2 DEF Found
<1>4. NDeclsFor(scopes, key) = SumOf(F[n])
  BY <1>2 DEF NDeclsFor, SumOf, SumTo
<1> HIDE DEF n
<1> DEFINE Good(m) == /\ F[m] \in Seq(Nat) /\ IsFiniteSet(upTo(m))
                      /\ SumOf(F[m]) = Cardinality(upTo(m))
           P == {m \in Nat : m <= n => Good(m)}
<1>5. 0 \in P
  <2>1. upTo(0) = {}
    OBVIOUS
  <2>2. F[0] \in Seq(Nat)
    BY <1>3
  <2> HIDE DEF upTo
  <2> QED BY <2>1, <2>2, <1>3, SumOfEmpty, FS_EmptySet
<1>6. ASSUME NEW m \in P, m + 1 <= n PROVE Good(m + 1)
  <2>1. m \in Nat /\ m + 1 \in 1 .. n /\ (m + 1) - 1 = m /\ Good(m)
    BY <1>1, <1>6
  <2>2. upTo(m + 1) = upTo(m) \cup part[m + 1]
    <3>1. 1 .. m + 1 = (1 .. m) \cup {m + 1}
      BY <2>1
    <3> QED BY <3>1
  <2>3. upTo(m) \cap part[m + 1] = {}
    <3>1. \A i \in 1 .. m : i \in 1 .. n /\ i # m + 1
      BY <2>1, <1>1
    <3> QED BY <3>1, <2>1 DEF n
  <2>4. IsFiniteSet(part[m + 1])
    BY <2>1 DEF n
  <2> DEFINE c == Cardinality(part[m + 1])
  <2>5. /\ IsFiniteSet(upTo(m + 1)) /\ c \in Nat
        /\ Cardinality(upTo(m + 1)) = Cardinality(upTo(m)) + c
    <3> HIDE DEF upTo
    <3> QED BY <2>1, <2>2, <2>3, <2>4, CardinalityOfDisjoint, FS_CardinalityType
  <2>6. CASE key \in DOMAIN scopes[m + 1]
    <3>1. scopes[m + 1][key] = c
      BY <2>1, <2>6 DEF n
    <3>2. F[m + 1] = <<c>> \o F[m]
      BY <2>1, <2>6, <3>1, <1>3
    <3> HIDE DEF c, upTo
    <3>3. SumOf(F[m + 1]) = c + SumOf(F[m]) /\ SumOf(F[m]) \in Nat
      BY <2>1, <2>5, <3>2, SumOfMore
    <3>4. <<c>> \in Seq(Nat)
      BY <2>5
    <3>5. F[m + 1] \in Seq(Nat)
      BY <2>1, <3>2, <3>4, ConcatProperties
    <3> QED BY <2>1, <2>5, <3>3, <3>5
  <2>7. CASE key \notin DOMAIN scopes[m + 1]
    <3>1. F[m + 1] = F[m]
      BY <2>1, <2>7, <1>3
    <3>2. part[m + 1] = {}
      BY <2>1, <2>7 DEF n
    <3>3. upTo(m + 1) = upTo(m)
      BY <2>2, <3>2
    <3> HIDE DEF upTo
    <3> QED BY <3>1, <3>3, <2>1
  <2> QED BY <2>6, <2>7
<1> HIDE DEF Good
<1>7. ASSUME NEW m \in P PROVE m + 1 \in P
  BY <1>6, <1>7
<1> HIDE DEF P
<1>8. P = Nat
  <2>1. P \in SUBSET Nat
    BY DEF P
  <2> QED BY <2>1, <1>5, <1>7, Induction
<1>9. Good(n)
  BY <1>1, <1>8 DEF P
<1> QED BY <1>4, <1>9 DEF Good, n, Together

-----------------------------------------------------------------------------
(* Iterating                                                               *)

\* What can be iterated over: the keys of one scope or more.
Scopes(keys) ==
  /\ IsSeq(keys) /\ keys # << >>
  /\ \A i \in 1 .. Len(keys) : IsSeq(keys[i])

\* The places of the entries, and those of them that are not before a place.
Entered(keys) == UNION {{i} \X (1 .. Len(keys[i])) : i \in 1 .. Len(keys)}
Ahead(keys, at) ==
  {p \in Entered(keys) : p[1] < at[1] \/ (p[1] = at[1] /\ p[2] >= at[2])}

LEMMA PlacesAre ==
  ASSUME NEW keys, Scopes(keys)
  PROVE  /\ Len(keys) \in Nat /\ Len(keys) >= 1
         /\ \A i \in 1 .. Len(keys) : Len(keys[i]) \in Nat /\ (keys[i] = << >> <=> Len(keys[i]) = 0)
         /\ \A i, k : <<i, k>> \in Places(keys)
                        <=> i \in 1 .. Len(keys) /\ k \in 1 .. Len(keys[i]) + 1
         /\ \A i, k : <<i, k>> \in Entered(keys)
                        <=> i \in 1 .. Len(keys) /\ k \in 1 .. Len(keys[i])
         /\ \A p \in Places(keys) : p = <<p[1], p[2]>>
         /\ \A p \in Entered(keys) : p = <<p[1], p[2]>> /\ p \in Places(keys)
<1>1. Len(keys) \in Nat /\ Len(keys) >= 1 /\ DOMAIN keys = 1 .. Len(keys)
  BY SeqIs DEF Scopes
<1>2. \A i \in 1 .. Len(keys) : Len(keys[i]) \in Nat /\ (keys[i] = << >> <=> Len(keys[i]) = 0)
  <2> TAKE i \in 1 .. Len(keys)
  <2>1. IsSeq(keys[i])
    BY DEF Scopes
  <2> QED BY <2>1, SeqIs
<1>3. /\ \A i, k : <<i, k>> \in Places(keys)
                     <=> i \in 1 .. Len(keys) /\ k \in 1 .. Len(keys[i]) + 1
      /\ \A p \in Places(keys) : p = <<p[1], p[2]>>
  BY <1>1 DEF Places
<1>4. /\ \A i, k : <<i, k>> \in Entered(keys)
                     <=> i \in 1 .. Len(keys) /\ k \in 1 .. Len(keys[i])
      /\ \A p \in Entered(keys) : p = <<p[1], p[2]>>
  BY DEF Entered
<1>5. \A p \in Entered(keys) : p \in Places(keys)
  <2> SUFFICES ASSUME NEW p \in Entered(keys) PROVE <<p[1], p[2]>> \in Places(keys)
    BY <1>4
  <2>1. p[1] \in 1 .. Len(keys) /\ p[2] \in 1 .. Len(keys[p[1]])
    BY <1>4
  <2>2. p[2] \in 1 .. Len(keys[p[1]]) + 1
    BY <2>1, <1>2
  <2> QED BY <2>1, <2>2, <1>3
<1> QED BY <1>1, <1>2, <1>3, <1>4, <1>5

\* at is at an entry, or no entry is ahead of it: the loop can stop.
Stops(keys, at) ==
  /\ at \in Places(keys)
  /\ at \in Entered(keys) \/ Ahead(keys, at) = {}

\* next_valid() passes no entry, and stops at one if one is ahead.
LEMMA ValidIs ==
  ASSUME NEW keys, Scopes(keys), NEW i, NEW k, <<i, k>> \in Places(keys)
  PROVE  /\ Stops(keys, Valid(keys, i, k))
         /\ Ahead(keys, Valid(keys, i, k)) = Ahead(keys, <<i, k>>)
<1> DEFINE n == Len(keys)
           Begin(f) == f = [j \in 1 .. n |-> IF keys[j] = << >> /\ j > 1 THEN f[j - 1]
                                             ELSE <<j, 1>>]
           g == CHOOSE f : Begin(f)
           S == Places(keys)
           step == [p \in Nat \X S |-> IF p[1] \in 1 .. n /\ keys[p[1]] # << >>
                                         THEN <<p[1], 1>> ELSE p[2]]
<1>1. /\ n \in Nat /\ n >= 1
      /\ \A j \in 1 .. n : Len(keys[j]) \in Nat /\ (keys[j] = << >> <=> Len(keys[j]) = 0)
  BY PlacesAre
<1>2. \A j, l : <<j, l>> \in S <=> j \in 1 .. n /\ l \in 1 .. Len(keys[j]) + 1
  BY PlacesAre
<1>3. \A j, l : <<j, l>> \in Entered(keys) <=> j \in 1 .. n /\ l \in 1 .. Len(keys[j])
  BY PlacesAre
<1>4. Valid(keys, i, k) = IF k > Len(keys[i]) /\ i > 1 THEN g[i - 1] ELSE <<i, k>>
  BY DEF Valid
<1> HIDE DEF n, S
<1>5. \A j \in 1 .. n : <<j, 1>> \in S
  BY <1>1, <1>2
<1>6. step \in [Nat \X S -> S]
  BY <1>5
<1>7. PICK f : Steps(f, S, 1, n, <<1, 1>>, step)
  <2>1. <<1, 1>> \in S
    BY <1>1, <1>5
  <2> HIDE DEF step
  <2> QED BY <2>1, <1>1, <1>6, RecursionExists
<1>8. Begin(f)
  <2>1. /\ f \in [1 .. n -> S]
        /\ \A j \in 1 .. n : f[j] = IF j = 1 THEN <<1, 1>> ELSE step[<<j, f[j - 1]>>]
    BY <1>7 DEF Steps
  <2>2. \A j \in 1 .. n : j # 1 =>
          step[<<j, f[j - 1]>>] = IF keys[j] = << >> THEN f[j - 1] ELSE <<j, 1>>
    <3> TAKE j \in 1 .. n
    <3> HAVE j # 1
    <3>1. j - 1 \in 1 .. n /\ j \in Nat
      BY <1>1
    <3>2. <<j, f[j - 1]>> \in Nat \X S
      BY <3>1, <2>1
    <3> QED BY <3>2
  <2>3. f = [j \in 1 .. n |-> f[j]]
    BY <2>1
  <2>4. \A j \in 1 .. n : j > 1 <=> j # 1
    BY <1>1
  <2>5. \A j \in 1 .. n : f[j] = IF keys[j] = << >> /\ j > 1 THEN f[j - 1] ELSE <<j, 1>>
    <3> HIDE DEF step
    <3> QED BY <2>1, <2>2, <2>4
  <2> QED BY <2>3, <2>5
<1> HIDE DEF step
<1>9. Begin(g)
  <2> HIDE DEF Begin
  <2> QED BY <1>8
<1> HIDE DEF g
<1>10. \A j \in 1 .. n : g[j] = IF keys[j] = << >> /\ j > 1 THEN g[j - 1] ELSE <<j, 1>>
  BY <1>9
<1> HIDE DEF Begin
<1> DEFINE Good(j) == Stops(keys, g[j]) /\ Ahead(keys, g[j]) = Ahead(keys, <<j, 1>>)
           P == {m \in Nat : m + 1 <= n => Good(m + 1)}
<1>11. \A j \in 1 .. n : keys[j] # << >> => Stops(keys, <<j, 1>>)
  <2> SUFFICES ASSUME NEW j \in 1 .. n, keys[j] # << >> PROVE Stops(keys, <<j, 1>>)
    OBVIOUS
  <2>1. 1 \in 1 .. Len(keys[j])
    BY <1>1
  <2> QED BY <2>1, <1>3, <1>5 DEF Stops, S
<1>12. \A p \in Entered(keys) : p[1] \in 1 .. n /\ p[2] \in 1 .. Len(keys[p[1]])
  BY <1>3, PlacesAre
<1>13. 0 \in P
  <2>1. 1 \in 1 .. n /\ 0 + 1 = 1 /\ ~(1 > 1)
    BY <1>1
  <2>2. g[1] = <<1, 1>>
    BY <2>1, <1>10
  <2>3. keys[1] = << >> => Ahead(keys, <<1, 1>>) = {}
    <3> SUFFICES ASSUME keys[1] = << >>, NEW p \in Ahead(keys, <<1, 1>>) PROVE FALSE
      OBVIOUS
    <3>1. p[1] \in 1 .. n /\ p[2] \in 1 .. Len(keys[p[1]]) /\ (p[1] < 1 \/ p[1] = 1)
      BY <1>12 DEF Ahead
    <3>2. Len(keys[1]) = 0
      BY <2>1, <1>1
    <3> QED BY <3>1, <3>2, <1>1
  <2>4. Stops(keys, <<1, 1>>)
    BY <2>1, <2>3, <1>5, <1>11 DEF Stops, S
  <2> QED BY <2>1, <2>2, <2>4
<1>14. ASSUME NEW m \in P PROVE m + 1 \in P
  <2> DEFINE j == (m + 1) + 1
  <2> SUFFICES ASSUME j <= n PROVE Good(j)
    OBVIOUS
  <2>1. /\ m \in Nat /\ j \in 1 .. n /\ j > 1 /\ j - 1 = m + 1 /\ m + 1 \in 1 .. n
        /\ Good(m + 1)
    BY <1>1
  <2>2. CASE keys[j] # << >>
    BY <2>1, <2>2, <1>10, <1>11
  <2>3. CASE keys[j] = << >>
    <3>1. g[j] = g[m + 1]
      <4> HIDE DEF j
      <4>1. g[j] = g[j - 1]
        BY <2>1, <2>3, <1>10
      <4> QED BY <4>1, <2>1
    <3>2. Ahead(keys, <<m + 1, 1>>) = Ahead(keys, <<j, 1>>)
      <4> SUFFICES ASSUME NEW p \in Entered(keys)
                   PROVE  (p[1] < m + 1 \/ (p[1] = m + 1 /\ p[2] >= 1))
                            <=> (p[1] < j \/ (p[1] = j /\ p[2] >= 1))
        BY DEF Ahead
      <4>1. p[1] \in 1 .. n /\ p[2] \in 1 .. Len(keys[p[1]])
        BY <1>12
      <4>2. Len(keys[j]) = 0 /\ p[1] # j
        BY <4>1, <2>1, <2>3, <1>1
      <4>3. Len(keys[p[1]]) \in Nat
        BY <4>1, <1>1
      <4> QED BY <4>1, <4>2, <4>3, <1>1
    <3> HIDE DEF j
    <3> QED BY <3>1, <3>2, <2>1
  <2> QED BY <2>2, <2>3
<1> HIDE DEF Good, P
<1>15. P = Nat
  <2>1. P \in SUBSET Nat
    BY DEF P
  <2> QED BY <2>1, <1>13, <1>14, Induction
<1>16. i \in 1 .. n /\ k \in 1 .. Len(keys[i]) + 1 /\ Len(keys[i]) \in Nat
  BY <1>1, <1>2 DEF S
<1>17. CASE k > Len(keys[i]) /\ i > 1
  <2>1. i - 2 \in Nat /\ (i - 2) + 1 = i - 1 /\ i - 1 <= n /\ i - 1 \in 1 .. n
    BY <1>1, <1>16, <1>17
  <2>2. Good(i - 1)
    BY <2>1, <1>15 DEF P
  <2>3. Ahead(keys, <<i - 1, 1>>) = Ahead(keys, <<i, k>>)
    <3> SUFFICES ASSUME NEW p \in Entered(keys)
                 PROVE  (p[1] < i - 1 \/ (p[1] = i - 1 /\ p[2] >= 1))
                          <=> (p[1] < i \/ (p[1] = i /\ p[2] >= k))
      BY DEF Ahead
    <3>1. p[1] \in 1 .. n /\ p[2] \in 1 .. Len(keys[p[1]]) /\ Len(keys[p[1]]) \in Nat
      BY <1>12, <1>1
    <3>2. p[1] = i => ~(p[2] >= k)
      BY <3>1, <1>16, <1>17
    <3> QED BY <3>1, <3>2, <1>1, <1>16
  <2> QED BY <2>2, <2>3, <1>4, <1>17 DEF Good
<1>18. CASE ~(k > Len(keys[i]) /\ i > 1)
  <2>1. CASE k \in 1 .. Len(keys[i])
    <3>1. <<i, k>> \in Entered(keys)
      BY <2>1, <1>3, <1>16
    <3> QED BY <3>1, <1>4, <1>18 DEF Stops
  <2>2. CASE k \notin 1 .. Len(keys[i])
    <3>1. i = 1 /\ k = Len(keys[1]) + 1
      BY <2>2, <1>16, <1>18, <1>1
    <3>2. ASSUME NEW p \in Ahead(keys, <<i, k>>) PROVE FALSE
      <4>1. /\ p[1] \in 1 .. n /\ p[2] \in 1 .. Len(keys[p[1]])
            /\ p[1] < 1 \/ (p[1] = 1 /\ p[2] >= Len(keys[1]) + 1)
        BY <1>12, <3>1, <3>2 DEF Ahead
      <4> QED BY <4>1, <1>1, <1>16, <3>1
    <3> QED BY <3>2, <1>4, <1>18 DEF Stops
  <2> QED BY <2>1, <2>2
<1> QED BY <1>17, <1>18

\* The places ahead of an entry are its own and those ahead of the next stop.
LEMMA NextIs ==
  ASSUME NEW keys, Scopes(keys), NEW at \in Entered(keys)
  PROVE  /\ Stops(keys, Valid(keys, at[1], at[2] + 1))
         /\ Ahead(keys, Valid(keys, at[1], at[2] + 1)) = Ahead(keys, at) \ {at}
         /\ at \in Ahead(keys, at)
<1> DEFINE i == at[1]
           k == at[2]
<1>1. at = <<i, k>>
  BY PlacesAre
<1>2. i \in 1 .. Len(keys) /\ k \in 1 .. Len(keys[i]) /\ Len(keys[i]) \in Nat
  BY <1>1, PlacesAre
<1>3. i \in Nat /\ k \in Nat /\ k + 1 \in 1 .. Len(keys[i]) + 1
  BY <1>2, PlacesAre
<1>4. <<i, k + 1>> \in Places(keys)
  BY <1>2, <1>3, PlacesAre
<1>5. Ahead(keys, <<i, k + 1>>) = Ahead(keys, at) \ {at}
  <2> SUFFICES ASSUME NEW p \in Entered(keys)
               PROVE  (p[1] < i \/ (p[1] = i /\ p[2] >= k + 1))
                        <=> (p[1] < i \/ (p[1] = i /\ p[2] >= k)) /\ p # at
    BY DEF Ahead
  <2>1. p = <<p[1], p[2]>> /\ p[1] \in 1 .. Len(keys) /\ p[2] \in 1 .. Len(keys[p[1]])
        /\ Len(keys) \in Nat /\ Len(keys[p[1]]) \in Nat
    BY PlacesAre
  <2>2. p = at <=> p[1] = i /\ p[2] = k
    BY <2>1, <1>1
  <2>3. p[1] \in Nat /\ p[2] \in Nat
    BY <2>1
  <2> HIDE DEF i, k
  <2> QED BY <2>2, <2>3, <1>3
<1>6. at \in Ahead(keys, at)
  BY <1>3 DEF Ahead
<1> HIDE DEF i, k
<1> QED BY <1>4, <1>5, <1>6, ValidIs DEF i, k

\* What the loop visits from a place on.
From(keys, f) ==
  f = [at \in Places(keys) |->
         IF at[2] > Len(keys[at[1]]) THEN << >>
         ELSE <<at>> \o f[Valid(keys, at[1], at[2] + 1)]]

LEMMA AheadIsFinite ==
  ASSUME NEW keys, Scopes(keys)
  PROVE  /\ IsFiniteSet(Entered(keys))
         /\ \A at : IsFiniteSet(Ahead(keys, at)) /\ Cardinality(Ahead(keys, at)) \in Nat
                    /\ Cardinality(Ahead(keys, at)) <= Cardinality(Entered(keys))
<1> DEFINE row(i) == {i} \X (1 .. Len(keys[i]))
           n == Len(keys)
           upTo(m) == UNION {row(i) : i \in 1 .. m}
<1>1. n \in Nat /\ \A i \in 1 .. n : Len(keys[i]) \in Nat
  BY PlacesAre
<1>2. \A i \in 1 .. n : IsFiniteSet(row(i))
  <2> TAKE i \in 1 .. n
  <2> DEFINE l == Len(keys[i])
  <2>1. l \in Int /\ 1 \in Int
    BY <1>1
  <2> HIDE DEF l
  <2>2. IsFiniteSet(1 .. l)
    BY <2>1, FS_Interval
  <2>3. IsFiniteSet({i})
    BY FS_Singleton
  <2>4. IsFiniteSet({i} \X (1 .. l))
    BY <2>2, <2>3, FS_Product
  <2> QED BY <2>4 DEF l
<1>3. Entered(keys) = UNION {row(i) : i \in 1 .. n}
  BY DEF Entered
<1>4. IsFiniteSet(UNION {row(i) : i \in 1 .. n})
  <2>1. IsFiniteSet(1 .. n)
    BY <1>1, FS_Interval
  <2> HIDE DEF row, n
  <2>2. IsFiniteSet({row(i) : i \in 1 .. n})
    <3> DEFINE h == [i \in 1 .. n |-> row(i)]
    <3>1. {row(i) : i \in 1 .. n} = {h[i] : i \in 1 .. n}
      OBVIOUS
    <3>2. h \in Surjection(1 .. n, {row(i) : i \in 1 .. n})
      BY DEF Surjection
    <3> HIDE DEF h
    <3> QED BY <2>1, <3>2, FS_Surjection
  <2> QED BY <1>2, <2>2, FS_UNION
<1>5. IsFiniteSet(Entered(keys))
  BY <1>3, <1>4
<1>6. \A at : Ahead(keys, at) \subseteq Entered(keys)
  BY DEF Ahead
<1> QED BY <1>5, <1>6, FS_Subset, FS_CardinalityType

LEMMA FromExists ==
  ASSUME NEW keys, Scopes(keys)
  PROVE  \E f : From(keys, f)
<1> DEFINE S == Places(keys)
           c(at) == Cardinality(Ahead(keys, at))
           next(at) == Valid(keys, at[1], at[2] + 1)
           Good(f, at) == f[at] = IF at[2] > Len(keys[at[1]]) THEN << >>
                                  ELSE <<at>> \o f[next(at)]
           P == {m \in Nat : \E f : \A at \in S : c(at) <= m => Good(f, at)}
<1>1. \A at \in S : at \in Entered(keys) <=> ~(at[2] > Len(keys[at[1]]))
  <2> TAKE at \in S
  <2>1. at = <<at[1], at[2]>> /\ at[1] \in 1 .. Len(keys) /\ at[2] \in 1 .. Len(keys[at[1]]) + 1
        /\ Len(keys[at[1]]) \in Nat
    BY PlacesAre
  <2>2. at \in Entered(keys) <=> at[2] \in 1 .. Len(keys[at[1]])
    BY <2>1, PlacesAre
  <2> QED BY <2>1, <2>2
<1>2. \A at \in S : c(at) \in Nat /\ c(at) <= Cardinality(Entered(keys))
  BY AheadIsFinite
<1>3. \A at \in Entered(keys) : next(at) \in S /\ c(next(at)) = c(at) - 1 /\ c(at) > 0
  <2> TAKE at \in Entered(keys)
  <2>1. /\ next(at) \in S /\ at \in Ahead(keys, at)
        /\ Ahead(keys, next(at)) = Ahead(keys, at) \ {at}
    BY NextIs DEF Stops
  <2>2. IsFiniteSet(Ahead(keys, at)) /\ c(at) \in Nat /\ c(next(at)) \in Nat
    BY AheadIsFinite
  <2> HIDE DEF next
  <2>3. c(next(at)) = c(at) - 1
    BY <2>1, <2>2, FS_RemoveElement
  <2> QED BY <2>1, <2>2, <2>3
<1> HIDE DEF S, c, next
<1>4. 0 \in P
  <2> DEFINE f == [at \in S |-> << >>]
  <2>1. ASSUME NEW at \in S, c(at) <= 0 PROVE Good(f, at)
    <3>1. at \notin Entered(keys)
      BY <2>1, <1>2, <1>3
    <3> QED BY <3>1, <1>1
  <2> QED BY <2>1
<1>5. ASSUME NEW m \in P PROVE m + 1 \in P
  <2>1. m \in Nat /\ m + 1 \in Nat
    OBVIOUS
  <2>2. PICK f : \A at \in S : c(at) <= m => Good(f, at)
    OBVIOUS
  <2> DEFINE h == [at \in S |-> IF c(at) <= m THEN f[at] ELSE
                                IF at[2] > Len(keys[at[1]]) THEN << >>
                                ELSE <<at>> \o f[next(at)]]
  <2>3. \A at \in S : c(at) <= m => h[at] = f[at]
    OBVIOUS
  <2>4. \A at \in S : ~(c(at) <= m) =>
          h[at] = IF at[2] > Len(keys[at[1]]) THEN << >> ELSE <<at>> \o f[next(at)]
    OBVIOUS
  <2> HIDE DEF h
  <2>5. ASSUME NEW at \in S, c(at) <= m + 1 PROVE Good(h, at)
    <3>1. h[at] = IF at[2] > Len(keys[at[1]]) THEN << >> ELSE <<at>> \o f[next(at)]
      BY <2>2, <2>3, <2>4
    <3>2. ~(at[2] > Len(keys[at[1]])) => h[next(at)] = f[next(at)]
      <4> HAVE ~(at[2] > Len(keys[at[1]]))
      <4>1. at \in Entered(keys)
        BY <1>1
      <4>2. next(at) \in S /\ c(next(at)) <= m
        BY <4>1, <1>2, <1>3, <2>1, <2>5
      <4> QED BY <4>2, <2>3
    <3> QED BY <3>1, <3>2
  <2> HIDE DEF Good
  <2> QED BY <2>1, <2>5
<1> HIDE DEF P
<1>6. P = Nat
  <2>1. P \in SUBSET Nat
    BY DEF P
  <2> QED BY <2>1, <1>4, <1>5, Induction
<1>7. Cardinality(Entered(keys)) \in Nat
  BY AheadIsFinite, FS_CardinalityType
<1>8. PICK f : \A at \in S : Good(f, at)
  <2>1. PICK f : \A at \in S : c(at) <= Cardinality(Entered(keys)) => Good(f, at)
    BY <1>6, <1>7 DEF P
  <2> HIDE DEF Good
  <2> QED BY <2>1, <1>2
<1> DEFINE h == [at \in S |-> f[at]]
<1>9. \A at \in S : ~(at[2] > Len(keys[at[1]])) => next(at) \in S
  BY <1>1, <1>3
<1>10. \A at \in S : h[at] = IF at[2] > Len(keys[at[1]]) THEN << >>
                             ELSE <<at>> \o h[next(at)]
  BY <1>8, <1>9
<1>11. h = [at \in S |-> h[at]]
  OBVIOUS
<1> HIDE DEF h
<1>12. h = [at \in S |-> IF at[2] > Len(keys[at[1]]) THEN << >> ELSE <<at>> \o h[next(at)]]
  BY <1>10, <1>11
<1>13. From(keys, h)
  BY <1>12 DEF From, next, S
<1> QED BY <1>13

\* A loop over a scoped map visits every entry once.
LEMMA VisitIs ==
  ASSUME NEW keys, Scopes(keys)
  PROVE  IsSeq(Visit(keys)) /\ ListsOnce(Visit(keys), Entered(keys))
<1> DEFINE g == CHOOSE f : From(keys, f)
           begin == Valid(keys, Len(keys), 1)
           next(at) == Valid(keys, at[1], at[2] + 1)
           c(at) == Cardinality(Ahead(keys, at))
           Good(at) == IsSeq(g[at]) /\ ListsOnce(g[at], Ahead(keys, at))
           P == {m \in Nat : \A at : Stops(keys, at) /\ c(at) <= m => Good(at)}
<1>1. From(keys, g)
  BY FromExists
<1>2. Visit(keys) = g[begin]
  BY DEF Visit, From
<1> HIDE DEF g
<1>3. \A at \in Places(keys) :
        g[at] = IF at[2] > Len(keys[at[1]]) THEN << >> ELSE <<at>> \o g[next(at)]
  BY <1>1 DEF From
<1>4. \A at \in Places(keys) : at \in Entered(keys) <=> ~(at[2] > Len(keys[at[1]]))
  <2> TAKE at \in Places(keys)
  <2>1. at = <<at[1], at[2]>> /\ at[1] \in 1 .. Len(keys) /\ at[2] \in 1 .. Len(keys[at[1]]) + 1
        /\ Len(keys[at[1]]) \in Nat
    BY PlacesAre
  <2>2. at \in Entered(keys) <=> at[2] \in 1 .. Len(keys[at[1]])
    BY <2>1, PlacesAre
  <2> QED BY <2>1, <2>2
<1>5. ASSUME NEW at, Stops(keys, at), at \notin Entered(keys) PROVE Good(at)
  <2>1. g[at] = << >> /\ Ahead(keys, at) = {}
    BY <1>3, <1>4, <1>5 DEF Stops
  <2> QED BY <2>1, EmptyIs DEF ListsOnce
<1>6. ASSUME NEW at \in Entered(keys)
      PROVE  /\ Stops(keys, next(at)) /\ c(next(at)) = c(at) - 1
             /\ c(at) \in Nat /\ c(at) > 0
             /\ Good(next(at)) => Good(at)
  <2>1. /\ Stops(keys, next(at)) /\ at \in Ahead(keys, at)
        /\ Ahead(keys, next(at)) = Ahead(keys, at) \ {at}
    BY NextIs
  <2>2. IsFiniteSet(Ahead(keys, at)) /\ c(at) \in Nat /\ c(next(at)) \in Nat
    BY AheadIsFinite
  <2>3. g[at] = <<at>> \o g[next(at)]
    BY <1>3, <1>4, PlacesAre
  <2> HIDE DEF next
  <2>4. c(next(at)) = c(at) - 1
    BY <2>1, <2>2, FS_RemoveElement
  <2>5. ASSUME Good(next(at)) PROVE Good(at)
    <3>1. IsSeq(<<at>>) /\ ListsOnce(<<at>>, {at})
      <4>1. DOMAIN <<at>> = {1}
        OBVIOUS
      <4> QED BY <4>1, OneIs DEF ListsOnce, IsInjective
    <3>2. /\ IsSeq(<<at>> \o g[next(at)])
          /\ ListsOnce(<<at>> \o g[next(at)], {at} \cup Ahead(keys, next(at)))
      <4>1. {at} \cap Ahead(keys, next(at)) = {}
        BY <2>1
      <4> QED BY <3>1, <4>1, <2>5, Joined
    <3>3. {at} \cup Ahead(keys, next(at)) = Ahead(keys, at)
      BY <2>1
    <3> QED BY <3>2, <3>3, <2>3
  <2> HIDE DEF Good
  <2> QED BY <2>1, <2>2, <2>4, <2>5
<1> HIDE DEF Good, next
<1>7. 0 \in P
  <2> SUFFICES ASSUME NEW at, Stops(keys, at), c(at) <= 0 PROVE Good(at)
    OBVIOUS
  <2>1. at \notin Entered(keys)
    BY <1>6
  <2> QED BY <2>1, <1>5
<1>8. ASSUME NEW m \in P PROVE m + 1 \in P
  <2> SUFFICES ASSUME NEW at, Stops(keys, at), c(at) <= m + 1 PROVE Good(at)
    OBVIOUS
  <2>1. CASE at \in Entered(keys)
    <3>1. Stops(keys, next(at)) /\ c(next(at)) <= m
      <4> HIDE DEF c
      <4> QED BY <2>1, <1>6
    <3> QED BY <3>1, <2>1, <1>6
  <2>2. CASE at \notin Entered(keys)
    BY <2>2, <1>5
  <2> QED BY <2>1, <2>2
<1> HIDE DEF P
<1>9. P = Nat
  <2>1. P \in SUBSET Nat
    BY DEF P
  <2> QED BY <2>1, <1>7, <1>8, Induction
<1>10. Stops(keys, begin) /\ Ahead(keys, begin) = Entered(keys)
  <2> DEFINE n == Len(keys)
  <2>1. n \in 1 .. n /\ 1 \in 1 .. Len(keys[n]) + 1
    BY PlacesAre
  <2>2. <<n, 1>> \in Places(keys)
    BY <2>1, PlacesAre
  <2>3. Stops(keys, begin) /\ Ahead(keys, begin) = Ahead(keys, <<n, 1>>)
    <3> HIDE DEF n
    <3> QED BY <2>2, ValidIs DEF n
  <2>4. Ahead(keys, <<n, 1>>) = Entered(keys)
    <3> SUFFICES ASSUME NEW p \in Entered(keys)
                 PROVE  p[1] < n \/ (p[1] = n /\ p[2] >= 1)
      BY DEF Ahead
    <3>1. p[1] \in 1 .. n /\ p[2] \in 1 .. Len(keys[p[1]]) /\ n \in Nat
          /\ Len(keys[p[1]]) \in Nat
      BY PlacesAre
    <3> QED BY <3>1
  <2> QED BY <2>3, <2>4
<1>11. Good(begin)
  <2> HIDE DEF begin
  <2>1. c(begin) \in Nat
    BY AheadIsFinite
  <2> QED BY <2>1, <1>9, <1>10 DEF P
<1> QED BY <1>2, <1>10, <1>11 DEF Good

-----------------------------------------------------------------------------
(* The table of declarations                                               *)

Named(D, name) == {d \in D : d.name = name}

\* index has the declarations of D, in a list for each key.
IndexFits(index, D, key) ==
  /\ DOMAIN index = {key[d] : d \in D}
  /\ \A k \in DOMAIN index : /\ IsSeq(index[k])
                             /\ ListsOnce(index[k], {d \in D : key[d] = k})

\* Of each block, a table has a scope, with the declarations of a kind.
TableFits(table, blocks, kind, key) ==
  /\ IsSeq(table) /\ Len(table) = Len(blocks)
  /\ \A i \in 1 .. Len(blocks) :
       /\ DOMAIN table[i] = {d.name : d \in blocks[i] \cap kind}
       /\ \A name \in DOMAIN table[i] :
            IndexFits(table[i][name], Named(blocks[i] \cap kind, name), key)

\* No block declares what another does.
BlocksFit(blocks) ==
  /\ IsSeq(blocks) /\ blocks # << >>
  /\ \A i \in 1 .. Len(blocks) : blocks[i] \subseteq Decls /\ IsFiniteSet(blocks[i])
  /\ \A i, j \in 1 .. Len(blocks) : i # j => blocks[i] \cap blocks[j] = {}

\* The image of a finite set is finite.
LEMMA ImageIsFinite ==
  ASSUME NEW D, IsFiniteSet(D), NEW key
  PROVE  IsFiniteSet({key[d] : d \in D})
<1> DEFINE h == [d \in D |-> key[d]]
<1>1. h \in Surjection(D, {key[d] : d \in D})
  BY DEF Surjection
<1> HIDE DEF h
<1> QED BY <1>1, FS_Surjection

\* Iterating over an index gives its declarations.
LEMMA FlatIs ==
  ASSUME NEW index, NEW D, NEW key, IsFiniteSet(D), IndexFits(index, D, key)
  PROVE  IsSeq(Flat(index)) /\ ListsOnce(Flat(index), D)
<1> DEFINE keys == SetToSeq(DOMAIN index)
           n == Len(keys)
           lists == [i \in 1 .. n |-> index[keys[i]]]
           part == [i \in 1 .. n |-> {d \in D : key[d] = keys[i]}]
<1>1. IsFiniteSet(DOMAIN index)
  BY ImageIsFinite DEF IndexFits
<1>2. IsSeq(keys) /\ IsInjective(keys) /\ ToSet(keys) = DOMAIN index
  BY <1>1, SetToSeqIs
<1>3. Flat(index) = FlattenSeq(lists)
  BY DEF Flat
<1> HIDE DEF keys
<1>4. /\ n \in Nat /\ \A i, j \in 1 .. n : keys[i] = keys[j] => i = j
      /\ DOMAIN index = {keys[i] : i \in 1 .. n}
  BY <1>2, SeqIs DEF IsInjective
<1> HIDE DEF n
<1>5. IsSeq(lists) /\ Len(lists) = n
  <2>1. lists \in [1 .. n -> {index[keys[i]] : i \in 1 .. n}]
    OBVIOUS
  <2> HIDE DEF lists
  <2> QED BY <1>4, <2>1, MapIsSeq
<1>6. \A i \in 1 .. n : IsSeq(lists[i]) /\ ListsOnce(lists[i], part[i])
  BY <1>4 DEF IndexFits
<1>7. \A i, j \in 1 .. n : i # j => part[i] \cap part[j] = {}
  BY <1>4
<1>8. Together(part, n) = D
  <2>1. \A d \in D : \E i \in 1 .. n : key[d] = keys[i]
    BY <1>4 DEF IndexFits
  <2> QED BY <2>1 DEF Together
<1> HIDE DEF lists, part
<1>9. /\ IsSeq(FlattenSeq(lists))
      /\ ListsOnce(FlattenSeq(lists), Together(part, n))
  BY <1>4, <1>5, <1>6, <1>7, FlattenedIs
<1> QED BY <1>3, <1>8, <1>9

\* insert() adds the declaration.
LEMMA IndexedFits ==
  ASSUME NEW index, NEW D, NEW key, IndexFits(index, D, key), NEW d, d \notin D
  PROVE  IndexFits(Indexed(index, key[d], d), D \cup {d}, key)
<1> DEFINE l == key[d]
           of(k) == {x \in D : key[x] = k}
           old == IF l \in DOMAIN index THEN index[l] ELSE << >>
           new == Indexed(index, l, d)
<1>1. /\ DOMAIN new = DOMAIN index \cup {l}
      /\ \A k \in DOMAIN new : new[k] = IF k # l THEN index[k] ELSE Append(old, d)
  BY DEF Indexed
<1>2. IsSeq(old) /\ ListsOnce(old, of(l))
  <2>1. CASE l \in DOMAIN index
    BY <2>1 DEF IndexFits
  <2>2. CASE l \notin DOMAIN index
    <3>1. of(l) = {} /\ old = << >>
      BY <2>2 DEF IndexFits
    <3> QED BY <3>1, EmptyIs DEF ListsOnce
  <2> QED BY <2>1, <2>2
<1>3. IsSeq(Append(old, d)) /\ ListsOnce(Append(old, d), of(l) \cup {d})
  BY <1>2, AppendListsOnce
<1> HIDE DEF new, old
<1>4. DOMAIN new = {key[x] : x \in D \cup {d}}
  BY <1>1 DEF IndexFits
<1>5. ASSUME NEW k \in DOMAIN new
      PROVE  IsSeq(new[k]) /\ ListsOnce(new[k], {x \in D \cup {d} : key[x] = k})
  <2>1. CASE k = l
    <3>1. {x \in D \cup {d} : key[x] = k} = of(l) \cup {d}
      BY <2>1
    <3> QED BY <3>1, <2>1, <1>1, <1>3
  <2>2. CASE k # l
    <3>1. {x \in D \cup {d} : key[x] = k} = of(k)
      BY <2>2
    <3> QED BY <3>1, <2>2, <1>1 DEF IndexFits
  <2> QED BY <2>1, <2>2
<1> QED BY <1>4, <1>5 DEF IndexFits, new

\* The resolver finds what the blocks declare.
LEMMA FindsIs ==
  ASSUME NEW table, NEW kind, NEW key, BlocksFit(read), TableFits(table, read, kind, key),
         NEW name
  PROVE  FindsDeclared(table, kind, name)
<1> DEFINE n == Len(read)
           declared(i) == {d \in read[i] \cap kind : d.name = name}
           has == {i \in 1 .. Len(table) : name \in DOMAIN table[i]}
           blocks == {i \in DOMAIN read : declared(i) # {}}
<1>1. n \in Nat /\ DOMAIN read = 1 .. n
  BY SeqIs DEF BlocksFit
<1>2. IsSeq(table) /\ Len(table) = n
  BY DEF TableFits
<1>3. \A i \in 1 .. n : name \in DOMAIN table[i] <=> declared(i) # {}
  <2> TAKE i \in 1 .. n
  <2>1. DOMAIN table[i] = {d.name : d \in read[i] \cap kind}
    BY DEF TableFits
  <2> QED BY <2>1
<1>4. blocks = has
  BY <1>1, <1>2, <1>3
<1>5. /\ Len(FindAll(table, name)) = Cardinality(has)
      /\ \A i \in has : FindAll(table, name)[Cardinality({j \in has : j >= i})]
                          = table[i][name]
  <2>1. has = Having(table, name) /\ \A i : NthOf(has, i) = Cardinality({j \in has : j >= i})
    BY DEF Having, NthOf
  <2> HIDE DEF has
  <2> QED BY <2>1, <1>2, FoundAt
<1>6. ASSUME NEW i \in has PROVE ListsOnce(Flat(table[i][name]), declared(i))
  <2>1. i \in 1 .. n /\ name \in DOMAIN table[i]
    BY <1>2
  <2>2. IndexFits(table[i][name], declared(i), key)
    BY <2>1 DEF TableFits, Named
  <2>3. IsFiniteSet(declared(i))
    <3>1. IsFiniteSet(read[i]) /\ declared(i) \subseteq read[i]
      BY <2>1 DEF BlocksFit
    <3> QED BY <3>1, FS_Subset
  <2> HIDE DEF declared
  <2> QED BY <2>2, <2>3, FlatIs
<1> HIDE DEF has
<1> QED BY <1>4, <1>5, <1>6 DEF FindsDeclared

\* The collector reaches what the blocks declare.
LEMMA TracedIs ==
  ASSUME NEW table, NEW blocks, NEW key, BlocksFit(blocks),
         TableFits(table, blocks, Decls, key)
  PROVE  ListsOnce(Traced(table), InForce(blocks))
<1> DEFINE n == Len(table)
           keys == [i \in 1 .. n |-> SetToSeq(DOMAIN table[i])]
           places == Visit(keys)
           m == Len(places)
           name(l) == keys[places[l][1]][places[l][2]]
           entries == [l \in 1 .. m |-> table[places[l][1]][keys[places[l][1]][places[l][2]]]]
           part == [l \in 1 .. m |-> Named(blocks[places[l][1]], name(l))]
           lists == [l \in 1 .. m |-> Flat(entries[l])]
<1>1. /\ n \in Nat /\ n >= 1 /\ Len(blocks) = n /\ DOMAIN blocks = 1 .. n
  <2>1. Len(blocks) \in Nat /\ Len(blocks) >= 1 /\ DOMAIN blocks = 1 .. Len(blocks)
    BY SeqIs DEF BlocksFit
  <2> QED BY <2>1 DEF TableFits
<1>2. \A i \in 1 .. n : /\ blocks[i] \cap Decls = blocks[i] /\ IsFiniteSet(blocks[i])
                        /\ DOMAIN table[i] = {d.name : d \in blocks[i]}
  <2> TAKE i \in 1 .. n
  <2>1. blocks[i] \cap Decls = blocks[i] /\ IsFiniteSet(blocks[i])
    BY <1>1 DEF BlocksFit
  <2>2. DOMAIN table[i] = {d.name : d \in blocks[i] \cap Decls}
    BY <1>1 DEF TableFits
  <2> QED BY <2>1, <2>2
<1>3. \A i \in 1 .. n : \A x \in DOMAIN table[i] : IndexFits(table[i][x], Named(blocks[i], x), key)
  <2> TAKE i \in 1 .. n
  <2>1. blocks[i] \cap Decls = blocks[i]
    BY <1>2
  <2> QED BY <1>1, <2>1 DEF TableFits
<1>4. \A i \in 1 .. n : /\ IsSeq(keys[i]) /\ IsInjective(keys[i])
                        /\ ToSet(keys[i]) = DOMAIN table[i]
  <2> TAKE i \in 1 .. n
  <2> DEFINE nm == [d \in blocks[i] |-> d.name]
  <2>1. DOMAIN table[i] = {nm[d] : d \in blocks[i]}
    BY <1>2
  <2> HIDE DEF nm
  <2>2. IsFiniteSet(DOMAIN table[i])
    BY <1>2, <2>1, ImageIsFinite
  <2>3. keys[i] = SetToSeq(DOMAIN table[i])
    OBVIOUS
  <2> QED BY <2>2, <2>3, SetToSeqIs
<1>5. Scopes(keys) /\ Len(keys) = n
  <2>1. keys \in [1 .. n -> {keys[i] : i \in 1 .. n}]
    OBVIOUS
  <2> HIDE DEF keys, n
  <2>2. IsSeq(keys) /\ Len(keys) = n
    BY <1>1, <2>1, MapIsSeq
  <2>3. keys # << >>
    BY <1>1, <2>2, SeqIs
  <2> QED BY <1>4, <2>2, <2>3 DEF Scopes
<1>6. IsSeq(places) /\ ListsOnce(places, Entered(keys))
  <2> HIDE DEF keys
  <2> QED BY <1>5, VisitIs
<1>7. Traced(table) = FlattenSeq(lists)
  <2>1. Entries(table) = entries
    BY DEF Entries
  <2>2. Len(entries) = m
    <3>1. m \in Nat
      BY <1>6, SeqIs
    <3>2. entries \in [1 .. m -> {entries[l] : l \in 1 .. m}]
      OBVIOUS
    <3> HIDE DEF entries, m
    <3> QED BY <3>1, <3>2, MapIsSeq
  <2> HIDE DEF entries, m
  <2> QED BY <2>1, <2>2 DEF Traced
<1> HIDE DEF keys, places
<1>8. /\ m \in Nat
      /\ \A l \in 1 .. m : places[l] \in Entered(keys)
      /\ \A l, k \in 1 .. m : places[l] = places[k] => l = k
      /\ Entered(keys) = {places[l] : l \in 1 .. m}
  BY <1>6, SeqIs DEF ListsOnce, IsInjective
<1> HIDE DEF m, n
<1>9. \A p \in Entered(keys) : /\ p = <<p[1], p[2]>> /\ p[1] \in 1 .. n
                               /\ p[2] \in 1 .. Len(keys[p[1]])
  BY <1>5, PlacesAre
<1>10. \A i \in 1 .. n : /\ \A k \in 1 .. Len(keys[i]) : keys[i][k] \in DOMAIN table[i]
                         /\ \A k, l \in 1 .. Len(keys[i]) : keys[i][k] = keys[i][l] => k = l
                         /\ DOMAIN table[i] = {keys[i][k] : k \in 1 .. Len(keys[i])}
  <2> TAKE i \in 1 .. n
  <2>1. IsSeq(keys[i]) /\ IsInjective(keys[i]) /\ ToSet(keys[i]) = DOMAIN table[i]
    BY <1>4
  <2>2. DOMAIN keys[i] = 1 .. Len(keys[i]) /\ ToSet(keys[i]) = {keys[i][k] : k \in 1 .. Len(keys[i])}
    BY <2>1, SeqIs
  <2> QED BY <2>1, <2>2 DEF IsInjective
<1>11. IsSeq(lists) /\ Len(lists) = m
  <2>1. lists \in [1 .. m -> {lists[l] : l \in 1 .. m}]
    OBVIOUS
  <2> HIDE DEF lists
  <2> QED BY <1>8, <2>1, MapIsSeq
<1>12. ASSUME NEW l \in 1 .. m PROVE IsSeq(lists[l]) /\ ListsOnce(lists[l], part[l])
  <2> DEFINE i == places[l][1]
             x == name(l)
  <2>1. i \in 1 .. n /\ x \in DOMAIN table[i]
    BY <1>8, <1>9, <1>10
  <2>2. lists[l] = Flat(table[i][x]) /\ part[l] = Named(blocks[i], x)
    OBVIOUS
  <2> HIDE DEF i, x
  <2>3. IsFiniteSet(Named(blocks[i], x))
    <3>1. Named(blocks[i], x) \subseteq blocks[i]
      BY DEF Named
    <3> QED BY <3>1, <2>1, <1>2, FS_Subset
  <2> QED BY <2>1, <2>2, <2>3, <1>3, FlatIs
<1>13. ASSUME NEW l \in 1 .. m, NEW k \in 1 .. m, l # k PROVE part[l] \cap part[k] = {}
  <2> SUFFICES ASSUME NEW d, d \in part[l], d \in part[k] PROVE FALSE
    OBVIOUS
  <2> DEFINE p == places[l]
             q == places[k]
  <2>1. p \in Entered(keys) /\ q \in Entered(keys) /\ p # q
    BY <1>8, <1>13
  <2>2. /\ p = <<p[1], p[2]>> /\ q = <<q[1], q[2]>> /\ p[1] \in 1 .. n /\ q[1] \in 1 .. n
        /\ p[2] \in 1 .. Len(keys[p[1]]) /\ q[2] \in 1 .. Len(keys[q[1]])
    BY <2>1, <1>9
  <2>3. d \in blocks[p[1]] /\ d \in blocks[q[1]] /\ d.name = name(l) /\ d.name = name(k)
    BY DEF Named
  <2>4. p[1] = q[1]
    BY <2>2, <2>3, <1>1 DEF BlocksFit
  <2>5. p[2] # q[2]
    BY <2>1, <2>2, <2>4
  <2>6. name(l) # name(k)
    BY <2>2, <2>4, <2>5, <1>10
  <2> QED BY <2>3, <2>6
<1>14. Together(part, m) = InForce(blocks)
  <2>1. ASSUME NEW d \in InForce(blocks) PROVE d \in Together(part, m)
    <3>1. PICK i \in 1 .. n : d \in blocks[i]
      BY <1>1 DEF InForce
    <3>2. PICK k \in 1 .. Len(keys[i]) : d.name = keys[i][k]
      <4>1. d.name \in DOMAIN table[i]
        BY <3>1, <1>2
      <4> QED BY <4>1, <1>10
    <3>3. <<i, k>> \in Entered(keys)
      BY <1>5, PlacesAre
    <3>4. PICK l \in 1 .. m : places[l] = <<i, k>>
      BY <3>3, <1>8
    <3>5. d \in part[l]
      BY <3>1, <3>2, <3>4 DEF Named
    <3> QED BY <3>5 DEF Together
  <2>2. ASSUME NEW d \in Together(part, m) PROVE d \in InForce(blocks)
    <3>1. PICK l \in 1 .. m : d \in part[l]
      BY <2>2 DEF Together
    <3>2. d \in blocks[places[l][1]] /\ places[l][1] \in 1 .. n
      BY <3>1, <1>8, <1>9 DEF Named
    <3> QED BY <3>2, <1>1 DEF InForce
  <2> QED BY <2>1, <2>2
<1> HIDE DEF lists, part
<1>15. ListsOnce(FlattenSeq(lists), Together(part, m))
  BY <1>8, <1>11, <1>12, <1>13, FlattenedIs
<1> QED BY <1>7, <1>14, <1>15

-----------------------------------------------------------------------------
(* What the steps do to the scopes                                         *)

\* Scope by scope, the counts are those of the blocks.
CountsFit(counts, blocks) ==
  /\ IsSeq(counts) /\ Len(counts) = Len(blocks)
  /\ \A i \in 1 .. Len(blocks) :
       /\ DOMAIN counts[i] = {d.name : d \in blocks[i]}
       /\ \A name \in DOMAIN counts[i] : counts[i][name] = Cardinality(Named(blocks[i], name))

\* An update of the last element.
LEMMA LastIs ==
  ASSUME NEW s, IsSeq(s), s # << >>, NEW x
  PROVE  LET t == [s EXCEPT ![Len(s)] = x]
         IN /\ IsSeq(t) /\ Len(t) = Len(s) /\ t # << >> /\ Len(s) \in 1 .. Len(s)
            /\ t[Len(s)] = x
            /\ \A i \in 1 .. Len(s) : i # Len(s) => t[i] = s[i]
<1> DEFINE n == Len(s)
           t == [s EXCEPT ![n] = x]
<1>1. n \in Nat /\ n > 0 /\ DOMAIN s = 1 .. n /\ s \in [1 .. n -> ToSet(s)]
  BY SeqIs
<1> HIDE DEF n
<1>2. /\ n \in 1 .. n /\ t \in [1 .. n -> ToSet(s) \cup {x}] /\ t[n] = x
      /\ \A i \in 1 .. n : i # n => t[i] = s[i]
  BY <1>1
<1> HIDE DEF t
<1>3. IsSeq(t) /\ Len(t) = n
  BY <1>1, <1>2, MapIsSeq
<1>4. t # << >>
  BY <1>1, <1>3, SeqIs
<1> QED BY <1>2, <1>3, <1>4 DEF n, t

\* A new element, after the last.
LEMMA AppendAt ==
  ASSUME NEW s, IsSeq(s), NEW x
  PROVE  /\ IsSeq(Append(s, x)) /\ Len(Append(s, x)) = Len(s) + 1
         /\ Append(s, x) # << >> /\ Append(s, x)[Len(s) + 1] = x
         /\ \A i \in 1 .. Len(s) : Append(s, x)[i] = s[i]
<1> DEFINE S == ToSet(s) \cup {x}
<1>1. s \in Seq(S) /\ x \in S
  BY SeqMonotonic DEF IsSeq
<1> HIDE DEF S
<1>2. /\ Len(Append(s, x)) = Len(s) + 1 /\ Append(s, x)[Len(s) + 1] = x
      /\ \A i \in 1 .. Len(s) : Append(s, x)[i] = s[i]
  BY <1>1, AppendProperties
<1> QED BY <1>2, AppendIs

\* All but the last element.
LEMMA FrontIs ==
  ASSUME NEW s, IsSeq(s), s # << >>
  PROVE  /\ IsSeq(Front(s)) /\ Len(Front(s)) = Len(s) - 1 /\ Len(s) - 1 \in Nat
         /\ \A i \in 1 .. Len(s) - 1 : i \in 1 .. Len(s) /\ Front(s)[i] = s[i]
<1> DEFINE n == Len(s)
           S == ToSet(s)
<1>1. n \in Nat /\ n > 0 /\ s \in Seq(S)
  BY SeqIs DEF IsSeq
<1> HIDE DEF S
<1>2. /\ Front(s) \in Seq(S) /\ Len(Front(s)) = n - 1
      /\ \A i \in 1 .. n - 1 : Front(s)[i] = s[i]
  <2> DEFINE one == 1
             m == n - 1
  <2>1. /\ one \in 1 .. Len(s) + 1 /\ m \in one - 1 .. Len(s) /\ m - one + 1 = m
        /\ \A i \in 1 .. m : one + i - 1 = i
    BY <1>1
  <2>2. Front(s) = SubSeq(s, one, m)
    BY DEF Front
  <2> HIDE DEF one, m, n
  <2>3. /\ SubSeq(s, one, m) \in Seq(S) /\ Len(SubSeq(s, one, m)) = m - one + 1
        /\ \A i \in 1 .. m - one + 1 : SubSeq(s, one, m)[i] = s[one + i - 1]
    BY <1>1, <2>1, SubSeqProperties
  <2> QED BY <2>1, <2>2, <2>3 DEF m
<1> HIDE DEF n
<1>3. n - 1 \in Nat /\ \A i \in 1 .. n - 1 : i \in 1 .. n
  BY <1>1
<1> QED BY <1>2, <1>3, InSeq DEF n

\* insert() or an assignment changes the current scope, at one key.
LEMMA PutIs ==
  ASSUME NEW s, IsSeq(s), s # << >>, NEW k, NEW v, NEW t, t = Put(s, k, v)
  PROVE  /\ IsSeq(t) /\ Len(t) = Len(s) /\ Len(s) \in 1 .. Len(s)
         /\ \A i \in 1 .. Len(s) : i # Len(s) => t[i] = s[i]
         /\ DOMAIN t[Len(s)] = DOMAIN s[Len(s)] \cup {k}
         /\ \A x \in DOMAIN t[Len(s)] : t[Len(s)][x] = IF x = k THEN v ELSE s[Len(s)][x]
<1> DEFINE o == s[Len(s)]
           y == [x \in DOMAIN o \cup {k} |-> IF x = k THEN v ELSE o[x]]
           u == [s EXCEPT ![Len(s)] = y]
<1>1. t = u
  BY DEF Put
<1>2. DOMAIN y = DOMAIN o \cup {k} /\ \A x \in DOMAIN y : y[x] = IF x = k THEN v ELSE o[x]
  OBVIOUS
<1> HIDE DEF y
<1>3. /\ IsSeq(u) /\ Len(u) = Len(s) /\ u # << >> /\ Len(s) \in 1 .. Len(s)
      /\ u[Len(s)] = y
      /\ \A i \in 1 .. Len(s) : i # Len(s) => u[i] = s[i]
  BY LastIs
<1> HIDE DEF u
<1> QED BY <1>1, <1>2, <1>3

\* The blocks with d declared in the innermost one.
Declared(blocks, d) == [blocks EXCEPT ![Len(blocks)] = blocks[Len(blocks)] \cup {d}]

LEMMA DeclaredIs ==
  ASSUME NEW blocks, BlocksFit(blocks), NEW d \in Decls, d \notin InForce(blocks)
  PROVE  /\ BlocksFit(Declared(blocks, d)) /\ Len(Declared(blocks, d)) = Len(blocks)
         /\ Len(blocks) \in 1 .. Len(blocks) /\ d \notin blocks[Len(blocks)]
         /\ Declared(blocks, d)[Len(blocks)] = blocks[Len(blocks)] \cup {d}
         /\ \A i \in 1 .. Len(blocks) : i # Len(blocks) => Declared(blocks, d)[i] = blocks[i]
<1> DEFINE b == Declared(blocks, d)
           n == Len(blocks)
<1>1. /\ IsSeq(b) /\ Len(b) = n /\ b # << >> /\ n \in 1 .. n
      /\ b[n] = blocks[n] \cup {d}
      /\ \A i \in 1 .. n : i # n => b[i] = blocks[i]
  <2> DEFINE x == blocks[n] \cup {d}
             u == [blocks EXCEPT ![n] = x]
  <2>1. b = u /\ IsSeq(blocks) /\ blocks # << >>
    BY DEF Declared, BlocksFit
  <2> HIDE DEF x
  <2>2. /\ IsSeq(u) /\ Len(u) = n /\ u # << >> /\ n \in 1 .. n /\ u[n] = x
        /\ \A i \in 1 .. n : i # n => u[i] = blocks[i]
    BY <2>1, LastIs
  <2> HIDE DEF u, n, b
  <2> QED BY <2>1, <2>2 DEF x
<1> HIDE DEF b
<1>2. \A i \in 1 .. n : d \notin blocks[i]
  <2>1. DOMAIN blocks = 1 .. n
    BY SeqIs DEF BlocksFit
  <2> QED BY <2>1 DEF InForce
<1>3. \A i \in 1 .. n : b[i] \subseteq blocks[i] \cup {d} /\ (i # n => b[i] = blocks[i])
  BY <1>1
<1>4. \A i \in 1 .. n : b[i] \subseteq Decls /\ IsFiniteSet(b[i])
  <2> TAKE i \in 1 .. n
  <2>1. blocks[i] \subseteq Decls /\ IsFiniteSet(blocks[i])
    BY DEF BlocksFit
  <2>2. IsFiniteSet(blocks[i] \cup {d})
    BY <2>1, FS_AddElement
  <2> QED BY <1>3, <2>1, <2>2, FS_Subset
<1>5. \A i, j \in 1 .. n : i # j => b[i] \cap b[j] = {}
  <2> SUFFICES ASSUME NEW i \in 1 .. n, NEW j \in 1 .. n, i # j, NEW x \in b[i], x \in b[j]
               PROVE  FALSE
    OBVIOUS
  <2>1. blocks[i] \cap blocks[j] = {}
    BY DEF BlocksFit
  <2> HIDE DEF n
  <2>2. x \in blocks[i] \/ x = d
    BY <1>3
  <2>3. x \in blocks[j] \/ x = d
    BY <1>3
  <2>4. i # n \/ j # n
    OBVIOUS
  <2>5. x = d => FALSE
    BY <2>4, <1>2, <1>3
  <2> QED BY <2>1, <2>2, <2>3, <2>5
<1>6. BlocksFit(b)
  BY <1>1, <1>4, <1>5 DEF BlocksFit
<1> QED BY <1>1, <1>2, <1>6 DEF b

\* addDecl() keeps a table like the blocks.
LEMMA AddFits ==
  ASSUME NEW table, NEW blocks, NEW kind, NEW key, BlocksFit(blocks),
         TableFits(table, blocks, kind, key), NEW d \in Decls \cap kind, d \notin InForce(blocks)
  PROVE  TableFits(AddTo(table, key[d], d), Declared(blocks, d), kind, key)
<1> DEFINE n == Len(blocks)
           b == Declared(blocks, d)
           name == d.name
           D == blocks[n] \cap kind
           old == IF name \in DOMAIN table[n] THEN table[n][name] ELSE NoEntries
           new == Indexed(old, key[d], d)
           t == Put(table, name, new)
<1>1. /\ Len(b) = n /\ n \in 1 .. n /\ d \notin blocks[n] /\ b[n] = blocks[n] \cup {d}
      /\ \A i \in 1 .. n : i # n => b[i] = blocks[i]
  BY DeclaredIs
<1>2. IsSeq(table) /\ Len(table) = n /\ table # << >>
  <2>1. n \in Nat /\ n > 0
    BY SeqIs DEF BlocksFit
  <2> QED BY <2>1, SeqIs DEF TableFits
<1>3. AddTo(table, key[d], d) = t
  BY <1>2 DEF AddTo, Current, Last
<1> HIDE DEF b, n, new
<1>4. /\ IsSeq(t) /\ Len(t) = n
      /\ \A i \in 1 .. n : i # n => t[i] = table[i]
      /\ DOMAIN t[n] = DOMAIN table[n] \cup {name}
      /\ \A x \in DOMAIN t[n] : t[n][x] = IF x = name THEN new ELSE table[n][x]
  <2> HIDE DEF t, name
  <2>1. t = Put(table, name, new)
    BY DEF t
  <2> QED BY <1>2, <2>1, PutIs
<1>5. /\ DOMAIN table[n] = {e.name : e \in D}
      /\ \A x \in DOMAIN table[n] : IndexFits(table[n][x], Named(D, x), key)
  BY <1>1 DEF TableFits, n
<1>6. IndexFits(old, Named(D, name), key)
  <2>1. CASE name \in DOMAIN table[n]
    BY <2>1, <1>5
  <2>2. CASE name \notin DOMAIN table[n]
    <3>1. Named(D, name) = {}
      BY <2>2, <1>5 DEF Named
    <3>2. DOMAIN NoEntries = {}
      BY DEF NoEntries
    <3> QED BY <2>2, <3>1, <3>2 DEF IndexFits
  <2> QED BY <2>1, <2>2
<1> HIDE DEF old
<1>7. IndexFits(new, Named(D, name) \cup {d}, key)
  <2>1. d \notin Named(D, name)
    BY <1>1 DEF Named
  <2> QED BY <1>6, <2>1, IndexedFits DEF new
<1>8. b[n] \cap kind = D \cup {d}
  BY <1>1
<1> HIDE DEF D, t
<1>9. DOMAIN t[n] = {e.name : e \in b[n] \cap kind}
  BY <1>4, <1>5, <1>8
<1>10. ASSUME NEW x \in DOMAIN t[n] PROVE IndexFits(t[n][x], Named(b[n] \cap kind, x), key)
  <2>1. CASE x = name
    <3>1. Named(b[n] \cap kind, x) = Named(D, name) \cup {d}
      BY <2>1, <1>8 DEF Named
    <3> QED BY <2>1, <3>1, <1>4, <1>7
  <2>2. CASE x # name
    <3>1. Named(b[n] \cap kind, x) = Named(D, x)
      BY <2>2, <1>8 DEF Named
    <3>2. x \in DOMAIN table[n] /\ t[n][x] = table[n][x]
      BY <2>2, <1>4
    <3> QED BY <3>1, <3>2, <1>5
  <2> QED BY <2>1, <2>2
<1>11. ASSUME NEW i \in 1 .. n
       PROVE  /\ DOMAIN t[i] = {e.name : e \in b[i] \cap kind}
              /\ \A x \in DOMAIN t[i] : IndexFits(t[i][x], Named(b[i] \cap kind, x), key)
  <2>1. CASE i = n
    BY <2>1, <1>9, <1>10
  <2>2. CASE i # n
    <3>1. t[i] = table[i] /\ b[i] = blocks[i]
      BY <2>2, <1>1, <1>4
    <3> QED BY <3>1 DEF TableFits, n
  <2> QED BY <2>1, <2>2
<1> QED BY <1>1, <1>3, <1>4, <1>11 DEF TableFits, b

\* A declaration of another kind is not for this table.
LEMMA SkipFits ==
  ASSUME NEW table, NEW blocks, NEW kind, NEW key, BlocksFit(blocks),
         TableFits(table, blocks, kind, key), NEW d \in Decls \ kind, d \notin InForce(blocks)
  PROVE  TableFits(table, Declared(blocks, d), kind, key)
<1> DEFINE n == Len(blocks)
           b == Declared(blocks, d)
<1>1. Len(b) = n /\ \A i \in 1 .. n : b[i] \cap kind = blocks[i] \cap kind
  <2>1. /\ Len(b) = n /\ n \in 1 .. n /\ b[n] = blocks[n] \cup {d}
        /\ \A i \in 1 .. n : i # n => b[i] = blocks[i]
    BY DeclaredIs
  <2> HIDE DEF b, n
  <2>2. ASSUME NEW i \in 1 .. n PROVE b[i] \cap kind = blocks[i] \cap kind
    <3>1. CASE i = n
      BY <3>1, <2>1
    <3>2. CASE i # n
      BY <3>2, <2>1
    <3> QED BY <3>1, <3>2
  <2> QED BY <2>1, <2>2
<1> HIDE DEF b
<1>2. \A i \in 1 .. n :
        /\ DOMAIN table[i] = {e.name : e \in b[i] \cap kind}
        /\ \A x \in DOMAIN table[i] : IndexFits(table[i][x], Named(b[i] \cap kind, x), key)
  <2> TAKE i \in 1 .. n
  <2>1. b[i] \cap kind = blocks[i] \cap kind
    BY <1>1
  <2> QED BY <2>1 DEF TableFits
<1> QED BY <1>1, <1>2 DEF TableFits, b

\* mark_decl() keeps the counts like the blocks.
LEMMA MarkFits ==
  ASSUME NEW counts, NEW blocks, BlocksFit(blocks), CountsFit(counts, blocks),
         NEW d \in Decls, d \notin InForce(blocks)
  PROVE  CountsFit(Put(counts, d.name, Current(counts, d.name, 0) + 1), Declared(blocks, d))
<1> DEFINE n == Len(blocks)
           b == Declared(blocks, d)
           name == d.name
           D == blocks[n]
           old == IF name \in DOMAIN counts[n] THEN counts[n][name] ELSE 0
           new == old + 1
           t == Put(counts, name, new)
<1>1. /\ Len(b) = n /\ n \in 1 .. n /\ d \notin D /\ b[n] = D \cup {d}
      /\ \A i \in 1 .. n : i # n => b[i] = blocks[i]
  BY DeclaredIs
<1>2. IsSeq(counts) /\ Len(counts) = n /\ counts # << >>
  <2>1. n \in Nat /\ n > 0
    BY SeqIs DEF BlocksFit
  <2> QED BY <2>1, SeqIs DEF CountsFit
<1>3. Put(counts, d.name, Current(counts, d.name, 0) + 1) = t
  BY <1>2 DEF Current, Last
<1> HIDE DEF b, n, new
<1>4. /\ IsSeq(t) /\ Len(t) = n
      /\ \A i \in 1 .. n : i # n => t[i] = counts[i]
      /\ DOMAIN t[n] = DOMAIN counts[n] \cup {name}
      /\ \A x \in DOMAIN t[n] : t[n][x] = IF x = name THEN new ELSE counts[n][x]
  <2> HIDE DEF t, name
  <2>1. t = Put(counts, name, new)
    BY DEF t
  <2> QED BY <1>2, <2>1, PutIs
<1>5. /\ DOMAIN counts[n] = {e.name : e \in D}
      /\ \A x \in DOMAIN counts[n] : counts[n][x] = Cardinality(Named(D, x))
  BY <1>1 DEF CountsFit, n
<1>6. IsFiniteSet(Named(D, name)) /\ d \notin Named(D, name)
  <2>1. IsFiniteSet(D)
    BY <1>1 DEF BlocksFit, n
  <2>2. Named(D, name) \subseteq D
    BY DEF Named
  <2> QED BY <2>1, <2>2, <1>1, FS_Subset
<1>7. old = Cardinality(Named(D, name))
  <2>1. CASE name \in DOMAIN counts[n]
    BY <2>1, <1>5
  <2>2. CASE name \notin DOMAIN counts[n]
    <3>1. Named(D, name) = {}
      BY <2>2, <1>5 DEF Named
    <3> QED BY <2>2, <3>1, FS_EmptySet
  <2> QED BY <2>1, <2>2
<1> HIDE DEF old
<1>8. new = Cardinality(Named(D, name) \cup {d})
  BY <1>6, <1>7, FS_AddElement DEF new
<1> HIDE DEF D, t
<1>9. DOMAIN t[n] = {e.name : e \in b[n]}
  BY <1>1, <1>4, <1>5
<1>10. ASSUME NEW x \in DOMAIN t[n] PROVE t[n][x] = Cardinality(Named(b[n], x))
  <2>1. CASE x = name
    <3>1. Named(b[n], x) = Named(D, name) \cup {d}
      BY <2>1, <1>1 DEF Named
    <3> QED BY <2>1, <3>1, <1>4, <1>8
  <2>2. CASE x # name
    <3>1. Named(b[n], x) = Named(D, x)
      BY <2>2, <1>1 DEF Named
    <3>2. x \in DOMAIN counts[n] /\ t[n][x] = counts[n][x]
      BY <2>2, <1>4
    <3> QED BY <3>1, <3>2, <1>5
  <2> QED BY <2>1, <2>2
<1>11. ASSUME NEW i \in 1 .. n
       PROVE  /\ DOMAIN t[i] = {e.name : e \in b[i]}
              /\ \A x \in DOMAIN t[i] : t[i][x] = Cardinality(Named(b[i], x))
  <2>1. CASE i = n
    BY <2>1, <1>9, <1>10
  <2>2. CASE i # n
    <3>1. t[i] = counts[i] /\ b[i] = blocks[i]
      BY <2>2, <1>1, <1>4
    <3> QED BY <3>1 DEF CountsFit, n
  <2> QED BY <2>1, <2>2
<1> QED BY <1>1, <1>3, <1>4, <1>11 DEF CountsFit, b

\* beginScope(): a block without declarations.
LEMMA OpenFits ==
  ASSUME NEW blocks, BlocksFit(blocks)
  PROVE  /\ BlocksFit(Append(blocks, {}))
         /\ \A table, kind, key : TableFits(table, blocks, kind, key)
              => TableFits(BeginScope(table), Append(blocks, {}), kind, key)
         /\ \A counts : CountsFit(counts, blocks)
              => CountsFit(BeginScope(counts), Append(blocks, {}))
<1> DEFINE n == Len(blocks)
           b == Append(blocks, {})
<1>1. /\ IsSeq(b) /\ Len(b) = n + 1 /\ b # << >> /\ b[n + 1] = {}
      /\ \A i \in 1 .. n : b[i] = blocks[i]
  BY AppendAt DEF BlocksFit
<1>2. n \in Nat
  BY SeqIs DEF BlocksFit
<1> HIDE DEF b, n
<1>3. \A i \in 1 .. n + 1 : i = n + 1 \/ i \in 1 .. n
  BY <1>2
<1>4. BlocksFit(b)
  <2>1. \A i \in 1 .. n + 1 : b[i] \subseteq Decls /\ IsFiniteSet(b[i])
    <3>1. \A i \in 1 .. n : blocks[i] \subseteq Decls /\ IsFiniteSet(blocks[i])
      BY DEF BlocksFit, n
    <3> QED BY <3>1, <1>1, <1>3, FS_EmptySet
  <2>2. \A i, j \in 1 .. n + 1 : i # j => b[i] \cap b[j] = {}
    <3>1. \A i, j \in 1 .. n : i # j => blocks[i] \cap blocks[j] = {}
      BY DEF BlocksFit, n
    <3> QED BY <3>1, <1>1, <1>3
  <2> QED BY <1>1, <2>1, <2>2 DEF BlocksFit
<1>5. ASSUME NEW s, IsSeq(s), Len(s) = n
      PROVE  /\ IsSeq(BeginScope(s)) /\ Len(BeginScope(s)) = n + 1
             /\ DOMAIN BeginScope(s)[n + 1] = {}
             /\ \A i \in 1 .. n : BeginScope(s)[i] = s[i]
  <2>1. DOMAIN NoEntries = {}
    BY DEF NoEntries
  <2> QED BY <1>5, <2>1, AppendAt DEF BeginScope
<1>6. ASSUME NEW table, NEW kind, NEW key, TableFits(table, blocks, kind, key)
      PROVE  TableFits(BeginScope(table), b, kind, key)
  <2> DEFINE t == BeginScope(table)
  <2>1. IsSeq(table) /\ Len(table) = n
    BY <1>6 DEF TableFits, n
  <2>2. /\ IsSeq(t) /\ Len(t) = n + 1 /\ DOMAIN t[n + 1] = {}
        /\ \A i \in 1 .. n : t[i] = table[i]
    BY <2>1, <1>5
  <2> HIDE DEF t
  <2>3. ASSUME NEW i \in 1 .. n + 1
        PROVE  /\ DOMAIN t[i] = {d.name : d \in b[i] \cap kind}
               /\ \A x \in DOMAIN t[i] : IndexFits(t[i][x], Named(b[i] \cap kind, x), key)
    <3>1. CASE i = n + 1
      BY <3>1, <2>2, <1>1
    <3>2. CASE i \in 1 .. n
      <4>1. t[i] = table[i] /\ b[i] = blocks[i]
        BY <3>2, <2>2, <1>1
      <4> QED BY <4>1, <3>2, <1>6 DEF TableFits, n
    <3> QED BY <3>1, <3>2, <1>3
  <2> QED BY <1>1, <2>2, <2>3 DEF TableFits, t
<1>7. ASSUME NEW counts, CountsFit(counts, blocks)
      PROVE  CountsFit(BeginScope(counts), b)
  <2> DEFINE t == BeginScope(counts)
  <2>1. IsSeq(counts) /\ Len(counts) = n
    BY <1>7 DEF CountsFit, n
  <2>2. /\ IsSeq(t) /\ Len(t) = n + 1 /\ DOMAIN t[n + 1] = {}
        /\ \A i \in 1 .. n : t[i] = counts[i]
    BY <2>1, <1>5
  <2> HIDE DEF t
  <2>3. ASSUME NEW i \in 1 .. n + 1
        PROVE  /\ DOMAIN t[i] = {d.name : d \in b[i]}
               /\ \A x \in DOMAIN t[i] : t[i][x] = Cardinality(Named(b[i], x))
    <3>1. CASE i = n + 1
      BY <3>1, <2>2, <1>1
    <3>2. CASE i \in 1 .. n
      <4>1. t[i] = counts[i] /\ b[i] = blocks[i]
        BY <3>2, <2>2, <1>1
      <4> QED BY <4>1, <3>2, <1>7 DEF CountsFit, n
    <3> QED BY <3>1, <3>2, <1>3
  <2> QED BY <1>1, <2>2, <2>3 DEF CountsFit, t
<1> QED BY <1>4, <1>6, <1>7 DEF b

\* endScope(): the innermost block's declarations are gone, from all of them.
LEMMA CloseFits ==
  ASSUME NEW blocks, BlocksFit(blocks), Len(blocks) # 1
  PROVE  /\ BlocksFit(Front(blocks))
         /\ \A table, kind, key : TableFits(table, blocks, kind, key)
              => TableFits(EndScope(table), Front(blocks), kind, key)
         /\ \A counts : CountsFit(counts, blocks)
              => CountsFit(EndScope(counts), Front(blocks))
<1> DEFINE n == Len(blocks)
           m == n - 1
           b == Front(blocks)
<1>1. IsSeq(blocks) /\ blocks # << >> /\ n \in Nat /\ n > 0 /\ n # 1
  BY SeqIs DEF BlocksFit
<1>2. /\ IsSeq(b) /\ Len(b) = m /\ m \in Nat
      /\ \A i \in 1 .. m : i \in 1 .. n /\ b[i] = blocks[i]
  BY <1>1, FrontIs
<1>3. b # << >>
  <2> HIDE DEF n
  <2>1. m > 0
    BY <1>1
  <2>2. IsSeq(b) /\ Len(b) = m
    BY <1>2
  <2> HIDE DEF b, m
  <2> QED BY <2>1, <2>2, SeqIs
<1> HIDE DEF b, m
<1>4. BlocksFit(b)
  <2>1. \A i \in 1 .. m : b[i] \subseteq Decls /\ IsFiniteSet(b[i])
    BY <1>2 DEF BlocksFit
  <2>2. \A i, j \in 1 .. m : i # j => b[i] \cap b[j] = {}
    BY <1>2 DEF BlocksFit
  <2> QED BY <1>2, <1>3, <2>1, <2>2 DEF BlocksFit
<1>5. ASSUME NEW s, IsSeq(s), Len(s) = n
      PROVE  /\ IsSeq(EndScope(s)) /\ Len(EndScope(s)) = m
             /\ \A i \in 1 .. m : EndScope(s)[i] = s[i]
  <2>1. s # << >>
    BY <1>1, <1>5, SeqIs
  <2> QED BY <1>5, <2>1, FrontIs DEF EndScope, m
<1>6. ASSUME NEW table, NEW kind, NEW key, TableFits(table, blocks, kind, key)
      PROVE  TableFits(EndScope(table), b, kind, key)
  <2> DEFINE t == EndScope(table)
  <2>1. IsSeq(table) /\ Len(table) = n
    BY <1>6 DEF TableFits
  <2>2. IsSeq(t) /\ Len(t) = m /\ \A i \in 1 .. m : t[i] = table[i]
    BY <2>1, <1>5
  <2> HIDE DEF t
  <2>3. ASSUME NEW i \in 1 .. m
        PROVE  /\ DOMAIN t[i] = {d.name : d \in b[i] \cap kind}
               /\ \A x \in DOMAIN t[i] : IndexFits(t[i][x], Named(b[i] \cap kind, x), key)
    <3>1. t[i] = table[i] /\ b[i] = blocks[i] /\ i \in 1 .. n
      BY <2>2, <1>2
    <3> QED BY <3>1, <1>6 DEF TableFits
  <2> QED BY <1>2, <2>2, <2>3 DEF TableFits, t
<1>7. ASSUME NEW counts, CountsFit(counts, blocks)
      PROVE  CountsFit(EndScope(counts), b)
  <2> DEFINE t == EndScope(counts)
  <2>1. IsSeq(counts) /\ Len(counts) = n
    BY <1>7 DEF CountsFit
  <2>2. IsSeq(t) /\ Len(t) = m /\ \A i \in 1 .. m : t[i] = counts[i]
    BY <2>1, <1>5
  <2> HIDE DEF t
  <2>3. ASSUME NEW i \in 1 .. m
        PROVE  /\ DOMAIN t[i] = {d.name : d \in b[i]}
               /\ \A x \in DOMAIN t[i] : t[i][x] = Cardinality(Named(b[i], x))
    <3>1. t[i] = counts[i] /\ b[i] = blocks[i] /\ i \in 1 .. n
      BY <2>2, <1>2
    <3> QED BY <3>1, <1>7 DEF CountsFit
  <2> QED BY <1>2, <2>2, <2>3 DEF CountsFit, t
<1> QED BY <1>4, <1>6, <1>7 DEF b

\* What n_decls_for() counts is in force.
LEMMA InForceCount ==
  ASSUME NEW counts, NEW blocks, BlocksFit(blocks), CountsFit(counts, blocks), NEW name
  PROVE  NDeclsFor(counts, name) = Cardinality(InForceAs(blocks, name))
<1> DEFINE n == Len(counts)
           part == [i \in 1 .. n |-> Named(blocks[i], name)]
<1>1. IsSeq(counts) /\ Len(blocks) = n /\ DOMAIN blocks = 1 .. n
  BY SeqIs DEF CountsFit, BlocksFit
<1>2. ASSUME NEW i \in 1 .. n
      PROVE  /\ IsFiniteSet(part[i])
             /\ name \in DOMAIN counts[i] <=> part[i] # {}
             /\ name \in DOMAIN counts[i] => counts[i][name] = Cardinality(part[i])
  <2>1. IsFiniteSet(blocks[i]) /\ part[i] \subseteq blocks[i]
    BY <1>1 DEF BlocksFit, Named
  <2>2. DOMAIN counts[i] = {d.name : d \in blocks[i]}
    BY <1>1 DEF CountsFit
  <2>3. name \in DOMAIN counts[i] <=> part[i] # {}
    BY <2>2 DEF Named
  <2>4. name \in DOMAIN counts[i] => counts[i][name] = Cardinality(part[i])
    BY <1>1 DEF CountsFit
  <2> HIDE DEF part
  <2> QED BY <2>1, <2>3, <2>4, FS_Subset
<1>3. \A i, j \in 1 .. n : i # j => part[i] \cap part[j] = {}
  BY <1>1 DEF BlocksFit, Named
<1>4. Together(part, n) = InForceAs(blocks, name)
  BY <1>1 DEF Together, InForceAs, InForce, Named
<1> HIDE DEF part
<1>5. \A i \in 1 .. Len(counts) :
        /\ IsFiniteSet(part[i])
        /\ name \in DOMAIN counts[i] <=> part[i] # {}
        /\ name \in DOMAIN counts[i] => counts[i][name] = Cardinality(part[i])
  BY <1>2
<1>6. \A i, j \in 1 .. Len(counts) : i # j => part[i] \cap part[j] = {}
  BY <1>3
<1>7. NDeclsFor(counts, name) = Cardinality(Together(part, Len(counts)))
  <2> HIDE DEF n
  <2> QED BY <1>1, <1>5, <1>6, CountIs, ZenonT(30)
<1> QED BY <1>4, <1>7

-----------------------------------------------------------------------------
(* Depths of expressions                                                   *)

\* Arguments are lower than what they are the arguments of.
Lower(height) ==
  /\ height \in [Exprs -> 1 .. Cardinality(Exprs)]
  /\ \A e \in Exprs : /\ e.args \in Seq(Exprs)
                      /\ \A k \in DOMAIN e.args : height[e.args[k]] < height[e]

IsGreatest(m, S) == m \in S /\ \A x \in S : x <= m

LEMMA GreatestIsMax ==
  ASSUME NEW S, S \subseteq Int, NEW m, IsGreatest(m, S)
  PROVE  Max(S) = m
<1>1. m \in S /\ \A x \in S : x <= m
  BY DEF IsGreatest
<1>2. \E x \in S : \A y \in S : x >= y
  BY <1>1
<1>3. Max(S) \in S /\ \A y \in S : Max(S) >= y
  BY <1>2 DEF Max
<1>4. Max(S) \in Int /\ m \in Int /\ Max(S) >= m /\ Max(S) <= m
  BY <1>1, <1>3
<1> QED BY <1>4

\* A finite set of natural numbers has a greatest one.
LEMMA GreatestExists ==
  ASSUME NEW S, S \subseteq Nat, IsFiniteSet(S), S # {}
  PROVE  \E m : IsGreatest(m, S)
<1> DEFINE All(n) == \A T \in SUBSET Nat : IsFiniteSet(T) /\ T # {} /\ Cardinality(T) <= n
                                             => \E m : IsGreatest(m, T)
           P == {n \in Nat : All(n)}
<1>1. 0 \in P
  <2> SUFFICES ASSUME NEW T \in SUBSET Nat, IsFiniteSet(T), T # {}, Cardinality(T) <= 0
               PROVE  FALSE
    OBVIOUS
  <2>1. Cardinality(T) \in Nat /\ (Cardinality(T) = 0 <=> T = {})
    BY FS_EmptySet, FS_CardinalityType
  <2>2. Cardinality(T) = 0
    BY <2>1
  <2> QED BY <2>1, <2>2
<1>2. ASSUME NEW n \in P PROVE n + 1 \in P
  <2> SUFFICES ASSUME NEW T \in SUBSET Nat, IsFiniteSet(T), T # {}, Cardinality(T) <= n + 1
               PROVE  \E m : IsGreatest(m, T)
    OBVIOUS
  <2>1. PICK x \in T : TRUE
    OBVIOUS
  <2> DEFINE U == T \ {x}
  <2>2. /\ IsFiniteSet(U) /\ Cardinality(U) = Cardinality(T) - 1
        /\ Cardinality(T) \in Nat /\ U \in SUBSET Nat
    BY <2>1, FS_RemoveElement, FS_CardinalityType
  <2>3. CASE U = {}
    <3>1. IsGreatest(x, T)
      BY <2>1, <2>3 DEF IsGreatest
    <3> QED BY <3>1
  <2>4. CASE U # {}
    <3>1. Cardinality(U) <= n
      BY <2>2
    <3>2. PICK m : IsGreatest(m, U)
      <4> HIDE DEF U
      <4> QED BY <2>2, <2>4, <3>1
    <3>3. IsGreatest(IF x > m THEN x ELSE m, T)
      BY <2>1, <3>2 DEF IsGreatest
    <3> QED BY <3>3
  <2> QED BY <2>3, <2>4
<1>3. P = Nat
  <2> HIDE DEF P
  <2>1. P \subseteq Nat
    BY DEF P
  <2> QED BY <1>1, <1>2, <2>1, Induction
<1>4. Cardinality(S) \in P
  BY <1>3, FS_CardinalityType
<1>5. All(Cardinality(S))
  BY <1>4
<1> HIDE DEF P
<1>6. Cardinality(S) <= Cardinality(S)
  BY FS_CardinalityType
<1> QED BY <1>5, <1>6

\* One more than the depth of each argument of e, by g.
Below(g, e) == {g[e.args[k]] + 1 : k \in DOMAIN e.args}

\* How deep each expression goes: not at all without arguments.
DepthsFit(g) ==
  /\ g \in [Exprs -> Nat]
  /\ \A e \in Exprs : IsGreatest(g[e], {0} \cup Below(g, e))

LEMMA DepthOf ==
  ASSUME NEW e, e.args \in Seq(Exprs), NEW g, \A k \in DOMAIN e.args : g[e.args[k]] \in Nat
  PROVE  \E m \in Nat : IsGreatest(m, {0} \cup Below(g, e))
<1> DEFINE a == e.args
           f == [k \in 1 .. Len(a) |-> g[a[k]] + 1]
           S == {0} \cup Below(g, e)
<1>1. Len(a) \in Nat /\ DOMAIN a = 1 .. Len(a)
  OBVIOUS
<1>2. Below(g, e) = {f[k] : k \in 1 .. Len(a)}
  BY <1>1 DEF Below
<1>3. IsFiniteSet(1 .. Len(a))
  BY <1>1, FS_Interval
<1>4. IsFiniteSet({f[k] : k \in 1 .. Len(a)})
  <2> DEFINE D == 1 .. Len(a)
  <2> HIDE DEF f, D
  <2> QED BY <1>3, ImageIsFinite DEF D
<1>5. IsFiniteSet(S)
  <2>1. IsFiniteSet(Below(g, e) \cup {0})
    BY <1>2, <1>4, FS_AddElement
  <2>2. Below(g, e) \cup {0} = S
    OBVIOUS
  <2> QED BY <2>1, <2>2
<1>6. S \subseteq Nat /\ S # {}
  BY <1>1 DEF Below
<1>7. PICK m : IsGreatest(m, S)
  <2> HIDE DEF S
  <2> QED BY <1>5, <1>6, GreatestExists
<1>8. m \in Nat
  BY <1>6, <1>7 DEF IsGreatest
<1> QED BY <1>7, <1>8

\* There are such depths: those of the lower expressions come first.
LEMMA DepthsExist ==
  ASSUME NEW height, Lower(height)
  PROVE  \E g : DepthsFit(g)
<1> DEFINE L(h) == {e \in Exprs : height[e] <= h}
           Fit(g, h) == /\ g \in [Exprs -> Nat]
                        /\ \A e \in L(h) : IsGreatest(g[e], {0} \cup Below(g, e))
           P == {h \in Nat : \E g : Fit(g, h)}
           N == Cardinality(Exprs)
<1>0. N \in Nat /\ \A e \in Exprs : height[e] \in 1 .. N
  BY ExprsAssumption, FS_CardinalityType DEF Lower
<1>1. 0 \in P
  <2>1. Fit([e \in Exprs |-> 0], 0)
    BY <1>0
  <2> QED BY <2>1
<1>2. ASSUME NEW h \in P PROVE h + 1 \in P
  <2>1. h \in Nat
    OBVIOUS
  <2>2. PICK g : Fit(g, h)
    OBVIOUS
  <2> DEFINE depth(e) == CHOOSE m \in Nat : IsGreatest(m, {0} \cup Below(g, e))
             f == [e \in Exprs |-> IF e \in L(h) THEN g[e] ELSE depth(e)]
  <2>3. ASSUME NEW e \in Exprs
        PROVE  depth(e) \in Nat /\ IsGreatest(depth(e), {0} \cup Below(g, e))
    <3>1. e.args \in Seq(Exprs) /\ \A k \in DOMAIN e.args : e.args[k] \in Exprs
      BY DEF Lower
    <3>2. \E m \in Nat : IsGreatest(m, {0} \cup Below(g, e))
      <4>1. \A k \in DOMAIN e.args : g[e.args[k]] \in Nat
        BY <3>1, <2>2
      <4> QED BY <3>1, <4>1, DepthOf
    <3> DEFINE Is(m) == IsGreatest(m, {0} \cup Below(g, e))
    <3> HIDE DEF Is
    <3>3. \E m \in Nat : Is(m)
      BY <3>2 DEF Is
    <3>4. depth(e) = CHOOSE m \in Nat : Is(m)
      BY DEF Is
    <3>5. depth(e) \in Nat /\ Is(depth(e))
      <4> HIDE DEF depth
      <4> QED BY <3>3, <3>4
    <3> QED BY <3>5 DEF Is
  <2> HIDE DEF depth
  <2>4. f \in [Exprs -> Nat]
    <3>1. \A e \in Exprs : g[e] \in Nat
      BY <2>2
    <3> QED BY <3>1, <2>3
  <2>5. ASSUME NEW e \in L(h + 1) PROVE IsGreatest(f[e], {0} \cup Below(f, e))
    <3>1. Below(f, e) = Below(g, e)
      <4>1. ASSUME NEW k \in DOMAIN e.args
            PROVE  f[e.args[k]] = g[e.args[k]]
        <5>1. e.args[k] \in Exprs /\ height[e.args[k]] < height[e] /\ height[e] <= h + 1
          BY DEF Lower
        <5>2. height[e.args[k]] \in Nat /\ height[e] \in Nat
          BY <1>0, <5>1
        <5>3. e.args[k] \in L(h)
          BY <2>1, <5>1, <5>2
        <5> QED BY <5>1, <5>3
      <4> HIDE DEF f
      <4> QED BY <4>1 DEF Below
    <3>2. CASE e \in L(h)
      <4>1. f[e] = g[e]
        BY <3>2
      <4>2. IsGreatest(g[e], {0} \cup Below(g, e))
        BY <2>2, <3>2
      <4> HIDE DEF f
      <4> QED BY <3>1, <4>1, <4>2
    <3>3. CASE e \notin L(h)
      <4>1. f[e] = depth(e)
        BY <3>3
      <4> HIDE DEF f
      <4> QED BY <3>1, <4>1, <2>3
    <3> QED BY <3>2, <3>3
  <2>6. Fit(f, h + 1)
    <3> HIDE DEF f, L
    <3> QED BY <2>4, <2>5
  <2>7. h + 1 \in Nat
    BY <2>1
  <2> HIDE DEF f, Fit
  <2> QED BY <2>6, <2>7
<1>3. P = Nat
  <2> HIDE DEF P
  <2>1. P \subseteq Nat
    BY DEF P
  <2> QED BY <1>1, <1>2, <2>1, Induction
<1>4. PICK g : Fit(g, N)
  BY <1>0, <1>3
<1>5. L(N) = Exprs
  BY <1>0
<1> QED BY <1>4, <1>5 DEF DepthsFit

\* What is reached of e from d, when its arguments' visits reach G.
Reach(G, e, d, c) == Max({d + c} \cup {G[k] : k \in DOMAIN e.args})

\* What the visits of e's arguments reach, from d + 1.
Reaching(G, g, e, d, c) == \A k \in DOMAIN e.args : G[k] = d + 1 + c + g[e.args[k]]

Reaches(G, g, e, d, c) == Reach(G, e, d, c) = d + c + g[e]

\* What a visit from depth d reaches is what its arguments reach from d + 1, or
\* d itself and what a visit adds.
LEMMA Reached ==
  ASSUME NEW g, DepthsFit(g), NEW e \in Exprs, e.args \in Seq(Exprs), NEW d \in Nat, NEW c \in Nat,
         NEW G, Reaching(G, g, e, d, c)
  PROVE  Reaches(G, g, e, d, c)
<1>0. \A k \in DOMAIN e.args : G[k] = d + 1 + c + g[e.args[k]]
  BY DEF Reaching
<1> DEFINE S == {d + c} \cup {G[k] : k \in DOMAIN e.args}
           m == d + c + g[e]
<1>1. \A k \in DOMAIN e.args : e.args[k] \in Exprs /\ g[e.args[k]] \in Nat
  BY DEF DepthsFit
<1>2. /\ g[e] \in {0} \cup Below(g, e) /\ g[e] \in Nat
      /\ \A x \in {0} \cup Below(g, e) : x <= g[e]
  BY DEF DepthsFit, IsGreatest
<1>3. S \subseteq Int
  BY <1>0, <1>1
<1>4. m \in S
  <2>1. CASE g[e] = 0
    BY <2>1
  <2>2. CASE g[e] # 0
    <3>1. PICK k \in DOMAIN e.args : g[e] = g[e.args[k]] + 1
      BY <2>2, <1>2 DEF Below
    <3>2. G[k] = m
      BY <3>1, <1>0, <1>1
    <3> QED BY <3>2
  <2> QED BY <2>1, <2>2
<1>5. \A x \in S : x <= m
  <2>1. d + c <= m
    BY <1>2
  <2>2. ASSUME NEW k \in DOMAIN e.args PROVE G[k] <= m
    <3>1. g[e.args[k]] + 1 <= g[e]
      BY <1>2 DEF Below
    <3> QED BY <3>1, <1>0, <1>1, <1>2
  <2> QED BY <2>1, <2>2
<1>6. IsGreatest(m, S)
  BY <1>4, <1>5 DEF IsGreatest
<1>7. Max(S) = m
  <2> HIDE DEF S, m
  <2> QED BY <1>3, <1>6, GreatestIsMax
<1> QED BY <1>7 DEF Reach, Reaches

\* F takes each of its values, from those of the arguments one deeper.
Marks(F, c) ==
  \A e \in Exprs, d \in Nat :
    F[<<e, d>>] = Max({d + c} \cup {F[<<e.args[k], d + 1>>] : k \in DOMAIN e.args})

LEMMA MarksAre ==
  ASSUME NEW height, Lower(height), NEW g, DepthsFit(g), NEW F, NEW c \in Nat, Marks(F, c)
  PROVE  \A e \in Exprs, d \in Nat : F[<<e, d>>] = d + c + g[e]
<1> DEFINE P == {h \in Nat : \A e \in Exprs : height[e] <= h
                               => \A d \in Nat : F[<<e, d>>] = d + c + g[e]}
<1>1. \A e \in Exprs : height[e] \in Nat /\ height[e] >= 1
  <2>1. Cardinality(Exprs) \in Nat
    BY ExprsAssumption, FS_CardinalityType
  <2> QED BY <2>1 DEF Lower
<1>2. 0 \in P
  BY <1>1
<1>3. ASSUME NEW h \in P PROVE h + 1 \in P
  <2> SUFFICES ASSUME NEW e \in Exprs, height[e] <= h + 1, NEW d \in Nat
               PROVE  F[<<e, d>>] = d + c + g[e]
    OBVIOUS
  <2> DEFINE G == [k \in DOMAIN e.args |-> F[<<e.args[k], d + 1>>]]
  <2>1. e.args \in Seq(Exprs)
    BY DEF Lower
  <2>2. ASSUME NEW k \in DOMAIN e.args PROVE G[k] = d + 1 + c + g[e.args[k]]
    <3>1. e.args[k] \in Exprs /\ height[e.args[k]] < height[e]
      BY DEF Lower
    <3>2. height[e.args[k]] <= h
      BY <3>1, <1>1
    <3>3. d + 1 \in Nat
      OBVIOUS
    <3>4. F[<<e.args[k], d + 1>>] = d + 1 + c + g[e.args[k]]
      BY <3>1, <3>2, <3>3
    <3> QED BY <3>4
  <2>3. {F[<<e.args[k], d + 1>>] : k \in DOMAIN e.args} = {G[k] : k \in DOMAIN e.args}
    OBVIOUS
  <2>4. F[<<e, d>>] = Max({d + c} \cup {F[<<e.args[k], d + 1>>] : k \in DOMAIN e.args})
    BY DEF Marks
  <2> HIDE DEF G, P
  <2>5. Reaching(G, g, e, d, c)
    BY <2>2 DEF Reaching
  <2>6. Reaches(G, g, e, d, c)
    BY <2>1, <2>5, Reached
  <2>7. Reach(G, e, d, c) = d + c + g[e]
    BY <2>6 DEF Reaches
  <2> QED BY <2>3, <2>4, <2>7 DEF Reach
<1>4. P = Nat
  <2> HIDE DEF P
  <2>1. P \subseteq Nat
    BY DEF P
  <2> QED BY <1>2, <1>3, <2>1, Induction
<1> QED
  <2> TAKE e \in Exprs, d \in Nat
  <2>1. height[e] \in P /\ height[e] <= height[e]
    BY <1>1, <1>4
  <2> QED BY <2>1

\* The parser's depths, and InputExprMetrics' after a visit.
LEMMA LocalDepthIs ==
  ASSUME NEW height, Lower(height), NEW g, DepthsFit(g), NEW e \in Exprs, NEW d \in Nat
  PROVE  LocalDepth(e, d) = d + g[e]
<1> DEFINE R(F) == [p \in Exprs \X Nat |->
                      Max({p[2]} \cup {F[<<p[1].args[k], p[2] + 1>>] : k \in DOMAIN p[1].args})]
           F0 == [p \in Exprs \X Nat |-> p[2] + g[p[1]]]
           M == CHOOSE F : F = R(F)
<1>1. F0 = R(F0)
  <2> SUFFICES ASSUME NEW x \in Exprs, NEW n \in Nat
               PROVE  F0[<<x, n>>] = Max({n} \cup {F0[<<x.args[k], n + 1>>] : k \in DOMAIN x.args})
    OBVIOUS
  <2> DEFINE G == [k \in DOMAIN x.args |-> F0[<<x.args[k], n + 1>>]]
             c == 0
  <2>1. x.args \in Seq(Exprs) /\ g[x] \in Nat
    BY DEF Lower, DepthsFit
  <2>2. \A k \in DOMAIN x.args : G[k] = n + 1 + c + g[x.args[k]]
    <3>1. \A k \in DOMAIN x.args : x.args[k] \in Exprs /\ g[x.args[k]] \in Nat
      BY <2>1 DEF DepthsFit
    <3> QED BY <3>1
  <2>3. {F0[<<x.args[k], n + 1>>] : k \in DOMAIN x.args} = {G[k] : k \in DOMAIN x.args}
    OBVIOUS
  <2>4. F0[<<x, n>>] = n + g[x]
    OBVIOUS
  <2>5. c \in Nat /\ n + c = n /\ n + c + g[x] = n + g[x]
    BY <2>1
  <2> HIDE DEF G, c, F0
  <2>6. Reaching(G, g, x, n, c)
    BY <2>2 DEF Reaching
  <2>7. Reaches(G, g, x, n, c)
    BY <2>1, <2>5, <2>6, Reached
  <2>8. Reach(G, x, n, c) = n + c + g[x]
    BY <2>7 DEF Reaches
  <2> QED BY <2>3, <2>4, <2>5, <2>8 DEF Reach
<1>2. M = R(M)
  <2> HIDE DEF R, F0
  <2> QED BY <1>1
<1>3. LocalDepth(e, d) = M[<<e, d>>]
  BY DEF LocalDepth
<1> HIDE DEF M
<1>4. Marks(M, 0)
  <2> SUFFICES ASSUME NEW x \in Exprs, NEW n \in Nat
               PROVE  M[<<x, n>>] = Max({n + 0} \cup {M[<<x.args[k], n + 1>>] : k \in DOMAIN x.args})
    BY DEF Marks
  <2>1. n + 0 = n
    OBVIOUS
  <2>2. M[<<x, n>>] = R(M)[<<x, n>>]
    <3> HIDE DEF R
    <3> QED BY <1>2
  <2> QED BY <2>1, <2>2
<1> HIDE DEF R, F0
<1>5. M[<<e, d>>] = d + 0 + g[e]
  BY <1>4, MarksAre
<1>6. g[e] \in Nat
  BY DEF DepthsFit
<1> QED BY <1>3, <1>5, <1>6

LEMMA VisitExprIs ==
  ASSUME NEW height, Lower(height), NEW g, DepthsFit(g), NEW e \in Exprs, NEW d \in Nat
  PROVE  VisitExpr(e, d) = d + 1 + g[e]
<1> DEFINE R(F) == [p \in Exprs \X Nat |->
                      Max({p[2] + 1} \cup {F[<<p[1].args[k], p[2] + 1>>] : k \in DOMAIN p[1].args})]
           F0 == [p \in Exprs \X Nat |-> p[2] + 1 + g[p[1]]]
           M == CHOOSE F : F = R(F)
<1>1. F0 = R(F0)
  <2> SUFFICES ASSUME NEW x \in Exprs, NEW n \in Nat
               PROVE  F0[<<x, n>>]
                      = Max({n + 1} \cup {F0[<<x.args[k], n + 1>>] : k \in DOMAIN x.args})
    OBVIOUS
  <2> DEFINE G == [k \in DOMAIN x.args |-> F0[<<x.args[k], n + 1>>]]
             c == 1
  <2>1. x.args \in Seq(Exprs)
    BY DEF Lower
  <2>2. \A k \in DOMAIN x.args : G[k] = n + 1 + c + g[x.args[k]]
    <3>1. \A k \in DOMAIN x.args : x.args[k] \in Exprs /\ g[x.args[k]] \in Nat
      BY <2>1 DEF DepthsFit
    <3> QED BY <3>1
  <2>3. {F0[<<x.args[k], n + 1>>] : k \in DOMAIN x.args} = {G[k] : k \in DOMAIN x.args}
    OBVIOUS
  <2>4. F0[<<x, n>>] = n + c + g[x]
    OBVIOUS
  <2>5. c \in Nat /\ n + c = n + 1
    OBVIOUS
  <2> HIDE DEF G, c, F0
  <2>6. Reaching(G, g, x, n, c)
    BY <2>2 DEF Reaching
  <2>7. Reaches(G, g, x, n, c)
    BY <2>1, <2>5, <2>6, Reached
  <2>8. Reach(G, x, n, c) = n + c + g[x]
    BY <2>7 DEF Reaches
  <2> QED BY <2>3, <2>4, <2>5, <2>8 DEF Reach
<1>2. M = R(M)
  <2> HIDE DEF R, F0
  <2> QED BY <1>1
<1>3. VisitExpr(e, d) = M[<<e, d>>]
  BY DEF VisitExpr
<1> HIDE DEF M
<1>4. Marks(M, 1)
  <2> SUFFICES ASSUME NEW x \in Exprs, NEW n \in Nat
               PROVE  M[<<x, n>>] = Max({n + 1} \cup {M[<<x.args[k], n + 1>>] : k \in DOMAIN x.args})
    BY DEF Marks
  <2>1. M[<<x, n>>] = R(M)[<<x, n>>]
    <3> HIDE DEF R
    <3> QED BY <1>2
  <2> QED BY <2>1
<1> HIDE DEF R, F0
<1>5. M[<<e, d>>] = d + 1 + g[e]
  BY <1>4, MarksAre
<1> QED BY <1>3, <1>5

\* Both readings of an expression agree, but for the visit of the root.
LEMMA DepthsAgree ==
  ASSUME NEW e \in Exprs
  PROVE  VisitExpr(e, 0) = LocalDepth(e, 0) + 1
<1>1. PICK height : Lower(height)
  BY ExprsAssumption DEF Lower
<1>2. PICK g : DepthsFit(g)
  BY <1>1, DepthsExist
<1>3. LocalDepth(e, 0) = 0 + g[e] /\ VisitExpr(e, 0) = 0 + 1 + g[e]
  BY <1>1, <1>2, LocalDepthIs, VisitExprIs
<1>4. g[e] \in Nat
  BY <1>2 DEF DepthsFit
<1> QED BY <1>3, <1>4

-----------------------------------------------------------------------------
(* The invariant                                                           *)

Functions == {d \in Decls : d.func}
NParamsOf == [d \in Decls |-> NParams(d)]
ReturnsOf == [d \in Decls |-> d.returns]
TypeOf == [d \in Decls |-> d.type]

\* The tables that the resolver of this direction has.
TablesFit ==
  IF dir = "bu" THEN TableFits(funcs, read, Decls, NParamsOf)
  ELSE /\ TableFits(funcs, read, Functions, ReturnsOf)
       /\ TableFits(byType, read, Decls, TypeOf)

\* Every open block has a scope in each of the tables and in the metrics.
BlocksInv ==
  /\ dir \in {"bu", "td"}
  /\ BlocksFit(read)
  /\ IsSeq(phases) /\ Len(phases) = Len(read)
  /\ TablesFit
  /\ CountsFit(perName, read)
  /\ maxPerName = mostRead

LEMMA InitIsInv == BlocksInit => BlocksInv
<1> SUFFICES ASSUME BlocksInit PROVE BlocksInv
  OBVIOUS
<1>1. /\ dir \in {"bu", "td"} /\ phases = <<"decls">> /\ read = <<{}>>
      /\ funcs = <<NoEntries>> /\ byType = <<NoEntries>> /\ perName = <<NoEntries>>
      /\ maxPerName = mostRead
  BY DEF BlocksInit
<1>2. \A x : IsSeq(<<x>>) /\ Len(<<x>>) = 1 /\ <<x>>[1] = x /\ <<x>> # << >>
  BY OneIs
<1>3. 1 .. 1 = {1} /\ DOMAIN NoEntries = {}
  BY DEF NoEntries
<1>4. Len(read) = 1 /\ read[1] = {} /\ IsSeq(read) /\ read # << >>
  BY <1>1, <1>2
<1>5. BlocksFit(read)
  BY <1>3, <1>4, FS_EmptySet DEF BlocksFit
<1> DEFINE new == <<NoEntries>>
<1>6. IsSeq(new) /\ Len(new) = 1 /\ DOMAIN new[1] = {}
  BY <1>2, <1>3
<1> HIDE DEF new
<1>7. \A kind, key : TableFits(new, read, kind, key)
  BY <1>3, <1>4, <1>6 DEF TableFits
<1>8. CountsFit(new, read)
  BY <1>3, <1>4, <1>6 DEF CountsFit
<1>9. TablesFit
  <2>1. funcs = new /\ byType = new
    BY <1>1 DEF new
  <2> QED BY <1>7, <2>1 DEF TablesFit
<1>10. IsSeq(phases) /\ Len(phases) = Len(read)
  BY <1>1, <1>2, <1>4
<1>11. perName = new
  BY <1>1 DEF new
<1> QED BY <1>1, <1>5, <1>8, <1>9, <1>10, <1>11 DEF BlocksInv

LEMMA DeclareKeepsInv ==
  ASSUME BlocksInv, NEW d \in Decls, Declare(d)
  PROVE  BlocksInv'
<1> DEFINE name == d.name
<1>1. /\ dir' = dir /\ phases' = phases /\ d \notin InForce(read)
      /\ perName' = Put(perName, name, Current(perName, name, 0) + 1)
      /\ maxPerName' = Max({maxPerName, NDeclsFor(perName', name)})
      /\ read' = Declared(read, d)
      /\ mostRead' = Max({mostRead, Cardinality(InForceAs(read', name))})
      /\ AddDecl(d)
  BY DEF Declare, MarkDecl, Declared
<1>2. /\ dir \in {"bu", "td"} /\ BlocksFit(read) /\ IsSeq(phases)
      /\ Len(phases) = Len(read) /\ TablesFit /\ CountsFit(perName, read)
      /\ maxPerName = mostRead
  BY DEF BlocksInv
<1>3. BlocksFit(read') /\ Len(read') = Len(read)
  BY <1>1, <1>2, DeclaredIs
<1>4. CountsFit(perName', read')
  BY <1>1, <1>2, MarkFits
<1>5. NDeclsFor(perName', name) = Cardinality(InForceAs(read', name))
  <2> HIDE DEF name
  <2> QED BY <1>3, <1>4, InForceCount
<1>6. maxPerName' = mostRead'
  BY <1>1, <1>2, <1>5
<1>7. TablesFit'
  <2>1. CASE dir = "bu"
    <3>1. funcs' = AddTo(funcs, NParamsOf[d], d)
      BY <1>1, <2>1 DEF AddDecl, NParamsOf
    <3>2. TableFits(funcs, read, Decls, NParamsOf)
      BY <1>2, <2>1 DEF TablesFit
    <3>3. d \in Decls \cap Decls
      OBVIOUS
    <3>4. TableFits(funcs', read', Decls, NParamsOf)
      BY <1>1, <1>2, <3>1, <3>2, <3>3, AddFits
    <3> QED BY <1>1, <2>1, <3>4 DEF TablesFit
  <2>2. CASE dir = "td"
    <3>1. byType' = AddTo(byType, TypeOf[d], d)
      BY <1>1, <2>2 DEF AddDecl, TypeOf
    <3>2. TableFits(byType, read, Decls, TypeOf) /\ TableFits(funcs, read, Functions, ReturnsOf)
      BY <1>2, <2>2 DEF TablesFit
    <3>3. d \in Decls \cap Decls
      OBVIOUS
    <3>4. TableFits(byType', read', Decls, TypeOf)
      BY <1>1, <1>2, <3>1, <3>2, <3>3, AddFits
    <3>5. TableFits(funcs', read', Functions, ReturnsOf)
      <4>1. CASE d.func
        <5>1. funcs' = AddTo(funcs, ReturnsOf[d], d)
          BY <1>1, <2>2, <4>1 DEF AddDecl, ReturnsOf
        <5>2. d \in Decls \cap Functions
          BY <4>1 DEF Functions
        <5> QED BY <1>1, <1>2, <3>2, <5>1, <5>2, AddFits
      <4>2. CASE ~d.func
        <5>1. funcs' = funcs
          BY <1>1, <2>2, <4>2 DEF AddDecl
        <5>2. d \in Decls \ Functions
          BY <4>2 DEF Functions
        <5> QED BY <1>1, <1>2, <3>2, <5>1, <5>2, SkipFits
      <4> QED BY <4>1, <4>2
    <3> QED BY <1>1, <2>2, <3>4, <3>5 DEF TablesFit
  <2> QED BY <1>2, <2>1, <2>2
<1> QED BY <1>1, <1>2, <1>3, <1>4, <1>6, <1>7 DEF BlocksInv

LEMMA EndDeclsKeepsInv ==
  ASSUME BlocksInv, EndDecls
  PROVE  BlocksInv'
<1>1. /\ dir' = dir /\ read' = read /\ funcs' = funcs /\ byType' = byType
      /\ perName' = perName /\ maxPerName' = maxPerName /\ mostRead' = mostRead
      /\ phases' = [phases EXCEPT ![Len(phases)] = "body"]
  BY DEF EndDecls
<1>2. IsSeq(phases) /\ Len(phases) = Len(read) /\ phases # << >>
  <2>1. Len(read) > 0
    BY SeqIs DEF BlocksInv, BlocksFit
  <2> QED BY <2>1, SeqIs DEF BlocksInv
<1>3. IsSeq(phases') /\ Len(phases') = Len(phases)
  <2> DEFINE x == "body"
  <2> HIDE DEF x
  <2>1. phases' = [phases EXCEPT ![Len(phases)] = x]
    BY <1>1 DEF x
  <2> QED BY <1>2, <2>1, LastIs
<1> QED BY <1>1, <1>2, <1>3 DEF BlocksInv, TablesFit

LEMMA OpenBlockKeepsInv ==
  ASSUME BlocksInv, OpenBlock
  PROVE  BlocksInv'
<1>1. /\ dir' = dir /\ read' = Append(read, {}) /\ phases' = Append(phases, "decls")
      /\ funcs' = BeginScope(funcs) /\ (dir = "td" => byType' = BeginScope(byType))
      /\ perName' = BeginScope(perName)
      /\ maxPerName' = maxPerName /\ mostRead' = mostRead
  BY DEF OpenBlock
<1>2. /\ dir \in {"bu", "td"} /\ BlocksFit(read) /\ IsSeq(phases)
      /\ Len(phases) = Len(read) /\ TablesFit /\ CountsFit(perName, read)
      /\ maxPerName = mostRead
  BY DEF BlocksInv
<1>3. /\ BlocksFit(read')
      /\ \A table, kind, key : TableFits(table, read, kind, key)
           => TableFits(BeginScope(table), read', kind, key)
      /\ CountsFit(perName', read')
  BY <1>1, <1>2, OpenFits
<1>4. TablesFit'
  BY <1>1, <1>2, <1>3 DEF TablesFit
<1>5. IsSeq(phases') /\ Len(phases') = Len(read')
  BY <1>1, <1>2, AppendAt DEF BlocksFit
<1> QED BY <1>1, <1>2, <1>3, <1>4, <1>5 DEF BlocksInv

LEMMA CloseBlockKeepsInv ==
  ASSUME BlocksInv, CloseBlock
  PROVE  BlocksInv'
<1>1. /\ dir \in {"bu", "td"} /\ BlocksFit(read) /\ IsSeq(phases)
      /\ Len(phases) = Len(read) /\ TablesFit /\ CountsFit(perName, read)
      /\ maxPerName = mostRead
  BY DEF BlocksInv
<1>2. dir' = dir /\ maxPerName' = maxPerName /\ mostRead' = mostRead
  BY DEF CloseBlock
<1>3. CASE Len(phases) = 1
  <2>1. /\ read' = read /\ phases' = phases /\ funcs' = funcs /\ byType' = byType
        /\ perName' = perName
    BY <1>3 DEF CloseBlock
  <2> QED BY <1>1, <1>2, <2>1 DEF BlocksInv, TablesFit
<1>4. CASE Len(phases) # 1
  <2>1. /\ read' = Front(read) /\ phases' = Front(phases)
        /\ funcs' = EndScope(funcs) /\ (dir = "td" => byType' = EndScope(byType))
        /\ perName' = EndScope(perName)
    BY <1>4 DEF CloseBlock
  <2>2. Len(read) # 1
    BY <1>1, <1>4
  <2>3. /\ BlocksFit(read')
        /\ \A table, kind, key : TableFits(table, read, kind, key)
             => TableFits(EndScope(table), read', kind, key)
        /\ CountsFit(perName', read')
    BY <1>1, <2>1, <2>2, CloseFits
  <2>4. TablesFit'
    BY <1>1, <1>2, <2>1, <2>3 DEF TablesFit
  <2>5. read # << >> /\ IsSeq(read)
    BY <1>1 DEF BlocksFit
  <2>6. phases # << >>
    <3>1. Len(read) > 0
      BY <2>5, SeqIs
    <3> QED BY <1>1, <3>1, SeqIs
  <2>7. IsSeq(phases') /\ Len(phases') = Len(phases) - 1
    BY <1>1, <2>1, <2>6, FrontIs
  <2>8. Len(read') = Len(read) - 1
    BY <2>1, <2>5, FrontIs
  <2> QED BY <1>1, <1>2, <2>3, <2>4, <2>7, <2>8 DEF BlocksInv
<1> QED BY <1>3, <1>4

\* The other steps change none of it.
LEMMA RestKeepsInv ==
  ASSUME BlocksInv,
         UNCHANGED <<dir, phases, funcs, byType, perName, maxPerName, read, mostRead>>
  PROVE  BlocksInv'
<1> QED BY DEF BlocksInv, TablesFit

\* Every step keeps the invariant, and so it always holds.
THEOREM BlocksAreScopes == BlocksSpec => []BlocksInv
<1>1. BlocksInv /\ [BlocksNext]_blockVars => BlocksInv'
  <2> SUFFICES ASSUME BlocksInv, [BlocksNext]_blockVars PROVE BlocksInv'
    OBVIOUS
  <2>1. ASSUME NEW d \in Decls, Declare(d) PROVE BlocksInv'
    BY <2>1, DeclareKeepsInv
  <2>2. ASSUME NEW e \in Exprs, ReadExpr(e) PROVE BlocksInv'
    BY <2>2, RestKeepsInv DEF ReadExpr
  <2>3. CASE EndDecls
    BY <2>3, EndDeclsKeepsInv
  <2>4. CASE OpenBlock
    BY <2>4, OpenBlockKeepsInv
  <2>5. CASE CloseBlock
    BY <2>5, CloseBlockKeepsInv
  <2>6. CASE BadLine
    BY <2>6, RestKeepsInv DEF BadLine
  <2>7. CASE EndOfInput
    BY <2>7, RestKeepsInv DEF EndOfInput
  <2>8. CASE UNCHANGED blockVars
    BY <2>8, RestKeepsInv DEF blockVars
  <2> QED BY <2>1, <2>2, <2>3, <2>4, <2>5, <2>6, <2>7, <2>8 DEF BlocksNext
<1> QED BY InitIsInv, <1>1, PTL DEF BlocksSpec

\* "Only in-scope declarations can be used within a block" (parser.h:71): after
\* any sequence of lines, the tables' findAll() gives exactly the declarations
\* of the open blocks, block by block and the innermost one's first.
THEOREM FoundAreAlwaysInScope == BlocksSpec => []FoundAreInScope
<1>1. BlocksInv => FoundAreInScope
  <2> SUFFICES ASSUME BlocksInv, NEW name \in DeclNames
               PROVE  IF dir = "bu" THEN FindsDeclared(funcs, Decls, name)
                      ELSE /\ FindsDeclared(funcs, Functions, name)
                           /\ FindsDeclared(byType, Decls, name)
    BY DEF FoundAreInScope, Functions
  <2>1. BlocksFit(read) /\ TablesFit
    BY DEF BlocksInv
  <2>2. CASE dir = "bu"
    BY <2>1, <2>2, FindsIs DEF TablesFit
  <2>3. CASE dir # "bu"
    BY <2>1, <2>3, FindsIs DEF TablesFit
  <2> QED BY <2>2, <2>3
<1> QED BY <1>1, BlocksAreScopes, PTL

\* The collector's loop over the table reaches each declaration in force, and
\* once, whichever blocks have declared none (ScopedMap's next_valid()).
THEOREM TracedAreAlwaysInForce == BlocksSpec => []TracedAreInForce
<1>1. BlocksInv => TracedAreInForce
  <2> SUFFICES ASSUME BlocksInv
               PROVE  ListsOnce(Traced(IF dir = "td" THEN byType ELSE funcs), InForce(read))
    BY DEF TracedAreInForce
  <2>1. dir \in {"bu", "td"} /\ BlocksFit(read) /\ TablesFit
    BY DEF BlocksInv
  <2>2. CASE dir = "bu"
    <3>1. ListsOnce(Traced(funcs), InForce(read))
      BY <2>1, <2>2, TracedIs DEF TablesFit
    <3> QED BY <2>2, <3>1
  <2>3. CASE dir = "td"
    <3>1. ListsOnce(Traced(byType), InForce(read))
      BY <2>1, <2>3, TracedIs DEF TablesFit
    <3> QED BY <2>3, <3>1
  <2> QED BY <2>1, <2>2, <2>3
<1> QED BY <1>1, BlocksAreScopes, PTL

\* What the metrics count of a name is what is in force of it, their maximum is
\* the greatest that there was, and their depth of an expression the parser's.
THEOREM MetricsAlwaysAgree == BlocksSpec => []MetricsAgree
<1>1. BlocksInv => MetricsAgree
  <2> SUFFICES ASSUME BlocksInv PROVE MetricsAgree
    OBVIOUS
  <2>1. BlocksFit(read) /\ CountsFit(perName, read) /\ maxPerName = mostRead
    BY DEF BlocksInv
  <2>2. \A name : NDeclsFor(perName, name) = Cardinality(InForceAs(read, name))
    BY <2>1, InForceCount
  <2>3. \A e \in Exprs : VisitExpr(e, 0) = LocalDepth(e, 0) + 1
    BY DepthsAgree
  <2> QED BY <2>1, <2>2, <2>3 DEF MetricsAgree
<1> QED BY <1>1, BlocksAreScopes, PTL
=============================================================================
