------------------------------ MODULE DataFacts -----------------------------
(***************************************************************************)
(* Facts about natural numbers, repeated steps and sequences that the      *)
(* proofs share.                                                           *)
(*                                                                         *)
(* Induction is stated about a SET of numbers, so that it can be cited for *)
(* any property: the numbers that have it are such a set.  It rests on the *)
(* finite subsets of Nat being well-founded under strict inclusion.        *)
(***************************************************************************)
EXTENDS Integers, FiniteSets, Lists, FunctionTheorems, FiniteSetTheorems,
        SequenceTheorems, TLAPS

\* at goes from i on, by one step of g at a time.
Iterates(at, g, i) == /\ at[0] = i
                      /\ \A k \in Nat : at[k + 1] = g[at[k]]

\* Where it has been from the a-th step on and before the m-th.
Met(at, a, m) == {at[j] : j \in a .. m - 1}

\* A set of natural numbers that is not empty has a least member.
LEMMA LeastNat ==
  ASSUME NEW T \in SUBSET Nat, T # {}
  PROVE  \E x \in T : \A y \in T : x <= y
<1> DEFINE R == StrictSubsetOrdering(Nat)
           F == {0 .. k : k \in T}
<1>1. IsWellFoundedOn(R, FiniteSubsetsOf(Nat))
  BY FS_StrictSubsetOrderingWellFounded
<1>2. F \subseteq FiniteSubsetsOf(Nat) /\ F # {}
  <2>1. \A k \in T : 0 .. k \in SUBSET Nat /\ IsFiniteSet(0 .. k)
    BY FS_Interval
  <2> QED BY <2>1 DEF FiniteSubsetsOf
<1>3. PICK X \in F : \A Y \in F : ~(<<Y, X>> \in R)
  <2> HIDE DEF F, R
  <2> QED BY <1>1, <1>2, WFMin
<1>4. PICK x \in T : X = 0 .. x
  OBVIOUS
<1>5. ASSUME NEW y \in T, y < x PROVE FALSE
  <2>1. /\ 0 .. y \in F /\ 0 .. y \subseteq 0 .. x
        /\ x \in 0 .. x /\ x \notin 0 .. y
    BY <1>5
  <2>2. <<0 .. y, X>> \in R
    BY <2>1, <1>4 DEF StrictSubsetOrdering
  <2> QED BY <2>1, <2>2, <1>3
<1> QED BY <1>5

\* Induction.
LEMMA Induction ==
  ASSUME NEW P \in SUBSET Nat, 0 \in P, \A n \in P : n + 1 \in P
  PROVE  P = Nat
<1> SUFFICES ASSUME Nat \ P # {} PROVE FALSE
  OBVIOUS
<1>1. PICK x \in Nat \ P : \A y \in Nat \ P : x <= y
  BY LeastNat
<1>2. x - 1 \in P
  BY <1>1
<1> QED BY <1>1, <1>2

-----------------------------------------------------------------------------
\* Two sets that share nothing.
LEMMA CardinalityOfDisjoint ==
  ASSUME NEW A, NEW B, IsFiniteSet(A), IsFiniteSet(B), A \cap B = {}
  PROVE  /\ IsFiniteSet(A \cup B)
         /\ Cardinality(A \cup B) = Cardinality(A) + Cardinality(B)
<1>1. Cardinality(A) \in Nat /\ Cardinality(B) \in Nat
  BY FS_CardinalityType
<1>2. Cardinality(A \cap B) = 0
  BY FS_EmptySet
<1>3. /\ IsFiniteSet(A \cup B)
      /\ Cardinality(A \cup B)
           = Cardinality(A) + Cardinality(B) - Cardinality(A \cap B)
  BY FS_Union
<1> QED BY <1>1, <1>2, <1>3

\* 2 ^ h, as the number of subsets of h elements.
LEMMA PowerDoubles ==
  ASSUME NEW h \in Nat
  PROVE  2 ^ h \in Nat /\ 2 ^ (h + 1) = 2 * 2 ^ h
<1> DEFINE S == 1 .. h
           T == 1 .. h + 1
           W == {s \cup {h + 1} : s \in SUBSET S}
<1>1. /\ IsFiniteSet(S) /\ Cardinality(S) = h
      /\ IsFiniteSet(T) /\ Cardinality(T) = h + 1
  BY FS_Interval
<1>2. /\ IsFiniteSet(SUBSET S) /\ Cardinality(SUBSET S) = 2 ^ h
      /\ IsFiniteSet(SUBSET T) /\ Cardinality(SUBSET T) = 2 ^ (h + 1)
  BY <1>1, FS_SUBSET
<1>3. SUBSET T = (SUBSET S) \cup W
  <2>1. ASSUME NEW t \in SUBSET T PROVE t \in (SUBSET S) \cup W
    <3>1. CASE h + 1 \in t
      <4>1. t \ {h + 1} \in SUBSET S /\ t = (t \ {h + 1}) \cup {h + 1}
        BY <3>1
      <4> QED BY <4>1
    <3>2. CASE h + 1 \notin t
      BY <3>2
    <3> QED BY <3>1, <3>2
  <2>2. ASSUME NEW t \in (SUBSET S) \cup W PROVE t \in SUBSET T
    BY <2>2
  <2> QED BY <2>1, <2>2
<1>4. IsFiniteSet(W) /\ Cardinality(W) = Cardinality(SUBSET S)
  <2> DEFINE b == [s \in SUBSET S |-> s \cup {h + 1}]
  <2>1. ASSUME NEW s \in SUBSET S, NEW t \in SUBSET S, b[s] = b[t]
        PROVE  s = t
    <3>1. h + 1 \notin s /\ h + 1 \notin t
      OBVIOUS
    <3>2. s = b[s] \ {h + 1} /\ t = b[t] \ {h + 1}
      BY <3>1
    <3> QED BY <3>2, <2>1
  <2>2. b \in [SUBSET S -> W] /\ \A w \in W : \E s \in SUBSET S : b[s] = w
    OBVIOUS
  <2>3. ExistsBijection(SUBSET S, W)
    <3> HIDE DEF b, S, W
    <3> QED BY <2>1, <2>2, Fun_IsBij, Fun_ExistsBij
  <2> QED BY <2>3, <1>2, FS_Bijection
<1>5. (SUBSET S) \cap W = {}
  OBVIOUS
<1>6. Cardinality(SUBSET T) = Cardinality(SUBSET S) + Cardinality(W)
  <2> DEFINE A == SUBSET S
             B == SUBSET T
  <2>1. IsFiniteSet(A) /\ IsFiniteSet(W) /\ A \cap W = {} /\ B = A \cup W
    BY <1>2, <1>3, <1>4, <1>5
  <2>2. Cardinality(B) = Cardinality(A) + Cardinality(W)
    <3> HIDE DEF A, B, W
    <3> QED BY <2>1, CardinalityOfDisjoint
  <2> QED BY <2>2
<1> HIDE DEF S, T, W
<1>7. 2 ^ h \in Nat
  BY <1>2, FS_CardinalityType
<1> QED BY <1>2, <1>4, <1>6, <1>7

-----------------------------------------------------------------------------
(* Repeated steps.                                                         *)

\* There is such an at; it is a recursive function's value.
LEMMA IteratesExist ==
  ASSUME NEW D, NEW g \in [D -> D], NEW i \in D
  PROVE  \E at \in [Nat -> D] : Iterates(at, g, i)
<1> DEFINE A(n, s) == /\ s \in [0 .. n -> D]
                      /\ s[0] = i
                      /\ \A k \in 0 .. n - 1 : s[k + 1] = g[s[k]]
           P == {n \in Nat : \E s : A(n, s)}
           C(n) == CHOOSE s : A(n, s)
           at == [n \in Nat |-> C(n)[n]]
<1>1. P = Nat
  <2>1. 0 \in P
    <3>1. A(0, [k \in 0 .. 0 |-> i])
      OBVIOUS
    <3> QED BY <3>1
  <2>2. ASSUME NEW n \in P PROVE n + 1 \in P
    <3>1. PICK s : A(n, s)
      OBVIOUS
    <3> DEFINE t == [k \in 0 .. n + 1 |-> IF k = n + 1 THEN g[s[n]] ELSE s[k]]
    <3>2. s[n] \in D /\ \A k \in 0 .. n : s[k] \in D
      BY <3>1
    <3>3. A(n + 1, t)
      BY <3>1, <3>2
    <3>4. n + 1 \in Nat /\ \E s1 : A(n + 1, s1)
      <4> HIDE DEF A, t
      <4> QED BY <3>3 DEF P
    <3> QED BY <3>4
  <2> HIDE DEF P
  <2>3. P \in SUBSET Nat
    BY DEF P
  <2> QED BY <2>1, <2>2, <2>3, Induction
<1>2. \A n \in Nat : A(n, C(n))
  BY <1>1
<1> HIDE DEF C, P
<1>3. ASSUME NEW n \in Nat PROVE C(n + 1)[n] = C(n)[n]
  <2> DEFINE s == C(n)
             t == C(n + 1)
             Q == {k \in Nat : k <= n => s[k] = t[k]}
  <2>1. A(n, s) /\ A(n + 1, t)
    BY <1>2
  <2> HIDE DEF s, t
  <2>2. 0 \in Q
    BY <2>1
  <2>3. \A k \in Q : k + 1 \in Q
    BY <2>1
  <2>4. Q = Nat
    <3> HIDE DEF Q
    <3>1. Q \in SUBSET Nat
      BY DEF Q
    <3> QED BY <2>2, <2>3, <3>1, Induction
  <2> QED BY <2>4 DEF s, t
<1>4. at \in [Nat -> D] /\ at[0] = i
  BY <1>2
<1>5. ASSUME NEW n \in Nat PROVE at[n + 1] = g[at[n]]
  <2>1. A(n + 1, C(n + 1))
    BY <1>2
  <2>2. C(n + 1)[n + 1] = g[C(n + 1)[n]]
    BY <2>1
  <2> QED BY <2>2, <1>3
<1> QED BY <1>4, <1>5 DEF Iterates

\* Steps in a finite set come back to where they have been, after distinct
\* places, of which there are no more than the set has.
LEMMA Orbit ==
  ASSUME NEW D, IsFiniteSet(D), NEW g \in [D -> D], NEW i \in D,
         NEW at \in [Nat -> D], Iterates(at, g, i)
  PROVE  \E m, k \in Nat :
           /\ k < m /\ at[m] = at[k]
           /\ \A a, b \in 0 .. m - 1 : at[a] = at[b] => a = b
           /\ Cardinality(Met(at, 0, m)) = m
           /\ m <= Cardinality(D)
<1> DEFINE T == {m \in Nat : \E k \in 0 .. m - 1 : at[m] = at[k]}
           n == Cardinality(D)
<1>1. n \in Nat
  BY FS_CardinalityType
<1>2. T # {}
  <2> DEFINE h == [k \in 0 .. n |-> at[k]]
  <2>1. IsFiniteSet(0 .. n) /\ Cardinality(0 .. n) = n + 1
    BY <1>1, FS_Interval
  <2>2. h \in [0 .. n -> D] /\ n < n + 1
    BY <1>1
  <2> HIDE DEF h
  <2>3. PICK x, y \in 0 .. n : x # y /\ h[x] = h[y]
    <3> HIDE DEF n
    <3> QED BY <2>1, <2>2, <1>1, FS_PigeonHole DEF n
  <2>4. at[x] = at[y] /\ x \in Nat /\ y \in Nat
    BY <2>3, <1>1 DEF h
  <2>5. x \in T \/ y \in T
    BY <2>3, <2>4
  <2> QED BY <2>5
<1>3. PICK m \in T : \A x \in T : m <= x
  BY <1>2, LeastNat
<1>4. PICK k \in 0 .. m - 1 : at[m] = at[k]
  OBVIOUS
<1>5. ASSUME NEW a \in 0 .. m - 1, NEW b \in 0 .. m - 1, at[a] = at[b]
      PROVE  a = b
  <2>1. a \in Nat /\ b \in Nat /\ a < m /\ b < m
    OBVIOUS
  <2>2. a < b => b \in T
    BY <2>1, <1>5
  <2>3. b < a => a \in T
    BY <2>1, <1>5
  <2> QED BY <2>1, <2>2, <2>3, <1>3
<1> DEFINE W == Met(at, 0, m)
           e == [j \in 1 .. m |-> at[j - 1]]
<1>6. ExistsBijection(1 .. m, W)
  <2>1. e \in [1 .. m -> W]
    BY DEF Met
  <2>2. \A a, b \in 1 .. m : e[a] = e[b] => a = b
    BY <1>5
  <2>3. \A w \in W : \E j \in 1 .. m : e[j] = w
    <3>1. ASSUME NEW j \in 0 .. m - 1 PROVE \E x \in 1 .. m : e[x] = at[j]
      <4>1. j + 1 \in 1 .. m /\ e[j + 1] = at[j]
        OBVIOUS
      <4> QED BY <4>1
    <3> QED BY <3>1 DEF Met
  <2> HIDE DEF e, W
  <2> QED BY <2>1, <2>2, <2>3, Fun_IsBij, Fun_ExistsBij
<1>7. IsFiniteSet(W) /\ Cardinality(W) = m
  <2> HIDE DEF W
  <2> QED BY <1>6, FS_CountingElements, FS_NatBijection
<1>8. m <= n
  <2>1. W \in SUBSET D
    BY DEF Met
  <2> QED BY <2>1, <1>7, FS_Subset
<1>9. k \in Nat /\ k < m
  BY <1>4
<1> QED BY <1>4, <1>5, <1>7, <1>8, <1>9

-----------------------------------------------------------------------------
(* Sequences                                                               *)

\* A sequence is a function from its indices to its elements.
LEMMA SeqIs ==
  ASSUME NEW s, IsSeq(s)
  PROVE  /\ Len(s) \in Nat /\ DOMAIN s = 1 .. Len(s)
         /\ s \in [1 .. Len(s) -> ToSet(s)]
         /\ ToSet(s) = {s[i] : i \in 1 .. Len(s)}
         /\ s # << >> <=> Len(s) > 0
         /\ s = << >> <=> ToSet(s) = {}
<1>1. /\ Len(s) \in Nat /\ DOMAIN s = 1 .. Len(s)
      /\ s \in [1 .. Len(s) -> ToSet(s)]
  BY LenProperties DEF IsSeq
<1>2. ToSet(s) = {s[i] : i \in 1 .. Len(s)}
  BY <1>1 DEF ToSet
<1>3. s = << >> => Len(s) = 0
  OBVIOUS
<1>4. s # << >> => Len(s) > 0
  BY EmptySeq DEF IsSeq
<1>5. Len(s) > 0 => s[1] \in ToSet(s)
  BY <1>1, <1>2
<1>6. Len(s) = 0 => ToSet(s) = {}
  BY <1>2
<1>7. s # << >> <=> Len(s) > 0
  BY <1>1, <1>3, <1>4
<1>8. s = << >> <=> ToSet(s) = {}
  BY <1>3, <1>4, <1>5, <1>6
<1> QED BY <1>1, <1>2, <1>7, <1>8

\* A sequence of some set is one of its own elements.
LEMMA InSeq ==
  ASSUME NEW S, NEW s \in Seq(S)
  PROVE  IsSeq(s)
<1>1. /\ Len(s) \in Nat /\ DOMAIN s = 1 .. Len(s) /\ s \in [1 .. Len(s) -> S]
  BY LenProperties
<1>2. \A i \in 1 .. Len(s) : s[i] \in ToSet(s)
  BY <1>1 DEF ToSet
<1>3. s \in [1 .. Len(s) -> ToSet(s)]
  BY <1>1, <1>2
<1> QED BY <1>1, <1>3, SeqDef DEF IsSeq

\* A function of 1 .. n is a sequence.
LEMMA MapIsSeq ==
  ASSUME NEW n \in Nat, NEW S, NEW s \in [1 .. n -> S]
  PROVE  IsSeq(s) /\ Len(s) = n
<1>1. s \in Seq(S)
  BY SeqDef
<1>2. Len(s) \in Nat /\ DOMAIN s = 1 .. Len(s)
  BY <1>1, LenProperties
<1>3. 1 .. n = 1 .. Len(s)
  BY <1>2
<1>4. \A m \in Nat : m = 0 \/ m \in 1 .. m
  OBVIOUS
<1>5. \A k, m \in Nat : (k = 0 \/ k \in 1 .. m) /\ (m = 0 \/ m \in 1 .. k) => k = m
  OBVIOUS
<1>6. (Len(s) = 0 \/ Len(s) \in 1 .. n) /\ (n = 0 \/ n \in 1 .. Len(s))
  BY <1>2, <1>3, <1>4
<1> DEFINE k == Len(s)
<1>7. k \in Nat /\ (k = 0 \/ k \in 1 .. n) /\ (n = 0 \/ n \in 1 .. k)
  BY <1>2, <1>6
<1> HIDE DEF k
<1>8. k = n
  BY <1>5, <1>7
<1>9. IsSeq(s)
  BY <1>1, InSeq
<1> QED BY <1>8, <1>9 DEF k

\* The empty sequence.
LEMMA EmptyIs == IsSeq(<< >>) /\ ToSet(<< >>) = {} /\ IsInjective(<< >>)
<1>1. << >> \in Seq({})
  BY EmptySeq
<1>2. DOMAIN << >> = {}
  OBVIOUS
<1> QED BY <1>1, <1>2, InSeq DEF ToSet, IsInjective

\* A sequence of one element.
LEMMA OneIs ==
  ASSUME NEW d
  PROVE  /\ IsSeq(<<d>>) /\ ToSet(<<d>>) = {d} /\ <<d>> # << >>
         /\ <<d>>[1] = d
<1>1. <<d>> \in Seq({d})
  OBVIOUS
<1>2. DOMAIN <<d>> = {1} /\ <<d>>[1] = d
  OBVIOUS
<1>3. <<d>> # << >>
  OBVIOUS
<1> QED BY <1>1, <1>2, <1>3, InSeq DEF ToSet

\* A concatenation has the elements of both parts, and repeats none if they
\* repeat none and share none.
LEMMA ConcatIs ==
  ASSUME NEW s, NEW t, IsSeq(s), IsSeq(t)
  PROVE  /\ IsSeq(s \o t)
         /\ ToSet(s \o t) = ToSet(s) \cup ToSet(t)
         /\ IsInjective(s) /\ IsInjective(t) /\ ToSet(s) \cap ToSet(t) = {}
              => IsInjective(s \o t)
<1> DEFINE S == ToSet(s) \cup ToSet(t)
           m == Len(s)
           n == Len(t)
<1>1. s \in Seq(S) /\ t \in Seq(S)
  BY SeqMonotonic DEF IsSeq
<1>2. /\ s \o t \in Seq(S) /\ Len(s \o t) = m + n
      /\ \A i \in 1 .. m + n : (s \o t)[i] = IF i <= m THEN s[i] ELSE t[i - m]
  BY <1>1, ConcatProperties
<1>3. /\ m \in Nat /\ n \in Nat /\ DOMAIN s = 1 .. m /\ DOMAIN t = 1 .. n
      /\ DOMAIN (s \o t) = 1 .. m + n
  BY <1>1, <1>2, LenProperties
<1> HIDE DEF m, n, S
<1>4. \A i \in 1 .. m : (s \o t)[i] = s[i]
  BY <1>2, <1>3
<1>5. \A i \in 1 .. n : m + i \in 1 .. m + n /\ (s \o t)[m + i] = t[i]
  <2> TAKE i \in 1 .. n
  <2>1. m + i \in 1 .. m + n /\ ~(m + i <= m) /\ (m + i) - m = i
    BY <1>3
  <2> QED BY <2>1, <1>2
<1>6. \A k \in 1 .. m + n : k \in 1 .. m \/ \E i \in 1 .. n : k = m + i
  <2> TAKE k \in 1 .. m + n
  <2>1. ~(k <= m) => k - m \in 1 .. n /\ k = m + (k - m)
    BY <1>3
  <2> QED BY <2>1, <1>3
<1>7. \A x : x \in ToSet(s) <=> \E i \in 1 .. m : x = s[i]
  BY <1>3 DEF ToSet
<1>8. \A x : x \in ToSet(t) <=> \E i \in 1 .. n : x = t[i]
  BY <1>3 DEF ToSet
<1>9. \A x : x \in ToSet(s \o t) <=> \E i \in 1 .. m + n : x = (s \o t)[i]
  BY <1>3 DEF ToSet
<1>10. \A i \in 1 .. m : i \in 1 .. m + n
  BY <1>3
<1>11. ToSet(s \o t) = ToSet(s) \cup ToSet(t)
  <2>1. ASSUME NEW x \in ToSet(s \o t) PROVE x \in ToSet(s) \cup ToSet(t)
    <3>1. PICK k \in 1 .. m + n : x = (s \o t)[k]
      BY <2>1, <1>9
    <3>2. CASE k \in 1 .. m
      BY <3>1, <3>2, <1>4, <1>7
    <3>3. CASE \E i \in 1 .. n : k = m + i
      BY <3>1, <3>3, <1>5, <1>8
    <3> QED BY <3>2, <3>3, <1>6
  <2>2. ASSUME NEW x \in ToSet(s) PROVE x \in ToSet(s \o t)
    BY <2>2, <1>4, <1>7, <1>9, <1>10
  <2>3. ASSUME NEW x \in ToSet(t) PROVE x \in ToSet(s \o t)
    BY <2>3, <1>5, <1>8, <1>9
  <2> QED BY <2>1, <2>2, <2>3
<1>12. ASSUME IsInjective(s), IsInjective(t), ToSet(s) \cap ToSet(t) = {}
       PROVE  IsInjective(s \o t)
  <2>1. \A a, b \in 1 .. m : s[a] = s[b] => a = b
    BY <1>3, <1>12 DEF IsInjective
  <2>2. \A a, b \in 1 .. n : t[a] = t[b] => a = b
    BY <1>3, <1>12 DEF IsInjective
  <2>3. \A a \in 1 .. m, b \in 1 .. n : s[a] # t[b]
    BY <1>7, <1>8, <1>12
  <2> SUFFICES ASSUME NEW a \in 1 .. m + n, NEW b \in 1 .. m + n,
                      (s \o t)[a] = (s \o t)[b]
               PROVE  a = b
    BY <1>3 DEF IsInjective
  <2>4. CASE a \in 1 .. m
    <3>1. CASE b \in 1 .. m
      BY <2>4, <3>1, <1>4, <2>1
    <3>2. CASE \E j \in 1 .. n : b = m + j
      <4>1. PICK j \in 1 .. n : b = m + j
        BY <3>2
      <4>2. s[a] = t[j]
        BY <4>1, <2>4, <1>4, <1>5
      <4> QED BY <4>2, <2>3, <2>4
    <3> QED BY <3>1, <3>2, <1>6
  <2>5. CASE \E i \in 1 .. n : a = m + i
    <3>1. CASE b \in 1 .. m
      <4>1. PICK j \in 1 .. n : a = m + j
        BY <2>5
      <4>2. s[b] = t[j]
        BY <4>1, <3>1, <1>4, <1>5
      <4> QED BY <4>2, <2>3, <3>1
    <3>2. CASE \E j \in 1 .. n : b = m + j
      <4>1. PICK i \in 1 .. n : a = m + i
        BY <2>5
      <4>2. PICK j \in 1 .. n : b = m + j
        BY <3>2
      <4>3. (s \o t)[a] = t[i] /\ (s \o t)[b] = t[j]
        BY <4>1, <4>2, <1>5, <1>8
      <4> QED BY <4>1, <4>2, <4>3, <2>2
    <3> QED BY <3>1, <3>2, <1>6
  <2> QED BY <2>4, <2>5, <1>6
<1> QED BY <1>2, <1>11, <1>12, InSeq

\* Appending adds an element, and leaves the first one first.
LEMMA AppendIs ==
  ASSUME NEW s, IsSeq(s), NEW d
  PROVE  /\ IsSeq(Append(s, d)) /\ ToSet(Append(s, d)) = ToSet(s) \cup {d}
         /\ Append(s, d) # << >>
         /\ s # << >> => Append(s, d)[1] = s[1]
<1> DEFINE S == ToSet(s) \cup {d}
           n == Len(s)
           a == Append(s, d)
<1>1. s \in Seq(S) /\ n \in Nat /\ DOMAIN s = 1 .. n
  BY SeqMonotonic, SeqIs DEF IsSeq
<1>2. /\ a \in Seq(S) /\ Len(a) = n + 1
      /\ \A i \in 1 .. n : a[i] = s[i]
      /\ a[n + 1] = d
  BY <1>1
<1>3. DOMAIN a = 1 .. n + 1
  BY <1>2, LenProperties
<1> HIDE DEF a, n, S
<1>4. IsSeq(a)
  BY <1>2, InSeq
<1>5. ToSet(a) = ToSet(s) \cup {d}
  <2>1. \A x : x \in ToSet(s) <=> \E i \in 1 .. n : x = s[i]
    BY <1>1 DEF ToSet
  <2>2. \A x : x \in ToSet(a) <=> \E i \in 1 .. n + 1 : x = a[i]
    BY <1>3 DEF ToSet
  <2>3. \A i \in 1 .. n + 1 : i \in 1 .. n \/ i = n + 1
    BY <1>1
  <2>4. n + 1 \in 1 .. n + 1 /\ \A i \in 1 .. n : i \in 1 .. n + 1
    BY <1>1
  <2>5. ASSUME NEW x \in ToSet(a) PROVE x \in ToSet(s) \cup {d}
    BY <2>1, <2>2, <2>3, <2>5, <1>2
  <2>6. ASSUME NEW x \in ToSet(s) \cup {d} PROVE x \in ToSet(a)
    BY <2>1, <2>2, <2>4, <2>6, <1>2
  <2> QED BY <2>5, <2>6
<1>6. a # << >>
  BY <1>5, EmptyIs
<1>7. s # << >> => a[1] = s[1]
  BY <1>1, <1>2, SeqIs DEF n
<1> QED BY <1>4, <1>5, <1>6, <1>7 DEF a

\* The tail of a sequence has the elements other than its head.
LEMMA TailIs ==
  ASSUME NEW s, IsSeq(s), s # << >>
  PROVE  /\ IsSeq(Tail(s)) /\ Head(s) = s[1] /\ s[1] \in ToSet(s)
         /\ ToSet(s) = {s[1]} \cup ToSet(Tail(s))
         /\ IsInjective(s) => /\ IsInjective(Tail(s))
                              /\ ToSet(Tail(s)) = ToSet(s) \ {s[1]}
<1> DEFINE S == ToSet(s)
           n == Len(s)
           t == Tail(s)
<1>1. /\ s \in Seq(S) /\ n \in Nat /\ n > 0 /\ DOMAIN s = 1 .. n
  BY SeqIs DEF IsSeq
<1>2. /\ t \in Seq(S) /\ Len(t) = n - 1
      /\ \A i \in 1 .. n - 1 : t[i] = s[i + 1]
  BY <1>1, HeadTailProperties
<1>3. DOMAIN t = 1 .. n - 1 /\ IsSeq(t)
  BY <1>2, LenProperties, InSeq
<1>4. Head(s) = s[1]
  BY <1>1
<1> HIDE DEF S, n, t
<1>5. \A x : x \in ToSet(s) <=> \E i \in 1 .. n : x = s[i]
  BY <1>1 DEF ToSet
<1>6. \A x : x \in ToSet(t) <=> \E i \in 1 .. n - 1 : x = t[i]
  BY <1>3 DEF ToSet
<1>7. \A i \in 1 .. n - 1 : i + 1 \in 1 .. n /\ i + 1 # 1
  BY <1>1
<1>8. \A i \in 1 .. n : i = 1 \/ (i - 1 \in 1 .. n - 1 /\ (i - 1) + 1 = i)
  BY <1>1
<1>9. 1 \in 1 .. n
  BY <1>1
<1>10. ToSet(s) = {s[1]} \cup ToSet(t)
  <2>1. ASSUME NEW x \in ToSet(s) PROVE x \in {s[1]} \cup ToSet(t)
    <3>1. PICK i \in 1 .. n : x = s[i]
      BY <2>1, <1>5
    <3>2. CASE i = 1
      BY <3>1, <3>2
    <3>3. CASE i - 1 \in 1 .. n - 1 /\ (i - 1) + 1 = i
      <4>1. t[i - 1] = s[i]
        BY <3>3, <1>2
      <4> QED BY <4>1, <3>1, <3>3, <1>6
    <3> QED BY <3>2, <3>3, <1>8
  <2>2. ASSUME NEW x \in ToSet(t) PROVE x \in ToSet(s)
    BY <2>2, <1>2, <1>5, <1>6, <1>7
  <2> QED BY <2>1, <2>2, <1>5, <1>9
<1>11. ASSUME IsInjective(s)
       PROVE  IsInjective(t) /\ s[1] \notin ToSet(t)
  <2>1. \A a, b \in 1 .. n : s[a] = s[b] => a = b
    BY <1>1, <1>11 DEF IsInjective
  <2>2. ASSUME NEW a \in 1 .. n - 1, NEW b \in 1 .. n - 1, t[a] = t[b] PROVE a = b
    <3>1. a + 1 = b + 1
      BY <2>1, <2>2, <1>2, <1>7
    <3> QED BY <3>1
  <2>3. \A a \in 1 .. n - 1 : t[a] # s[1]
    BY <2>1, <1>2, <1>7, <1>9
  <2> QED BY <2>2, <2>3, <1>3, <1>6 DEF IsInjective
<1> QED BY <1>3, <1>4, <1>5, <1>9, <1>10, <1>11 DEF t

\* SetToSeq lists each member of a finite set once.
LEMMA SetToSeqIs ==
  ASSUME NEW S, IsFiniteSet(S)
  PROVE  IsSeq(SetToSeq(S)) /\ IsInjective(SetToSeq(S)) /\ ToSet(SetToSeq(S)) = S
<1> DEFINE n == Cardinality(S)
           f == SetToSeq(S)
<1>1. n \in Nat /\ ExistsBijection(1 .. n, S)
  BY FS_CardinalityType
<1>2. PICK b : b \in Bijection(1 .. n, S)
  BY <1>1 DEF ExistsBijection
<1>3. b \in [1 .. n -> S] /\ IsInjective(b)
  BY <1>2 DEF Bijection, Injection, IsInjective
<1>4. f \in [1 .. n -> S] /\ IsInjective(f)
  BY <1>3 DEF SetToSeq
<1>5. IsFiniteSet(1 .. n) /\ Cardinality(1 .. n) = n
  BY <1>1, FS_Interval
<1> HIDE DEF f
<1>6. f \in Injection(1 .. n, S)
  BY <1>4 DEF Injection, IsInjective
<1>7. f \in Surjection(1 .. n, S)
  BY <1>5, <1>6, FS_Injection
<1>8. \A x \in S : \E i \in 1 .. n : f[i] = x
  BY <1>7 DEF Surjection
<1> HIDE DEF n
<1>9. IsSeq(f)
  BY <1>1, <1>4, MapIsSeq
<1>10. ToSet(f) = S
  BY <1>4, <1>8 DEF ToSet
<1> QED BY <1>4, <1>9, <1>10 DEF f

-----------------------------------------------------------------------------
(* Recursion                                                               *)

\* f starts at b, and each of its values is one step from the one before.
Steps(f, S, b, n, start, step) ==
  /\ f \in [b .. n -> S]
  /\ \A i \in b .. n : f[i] = IF i = b THEN start ELSE step[<<i, f[i - 1]>>]

\* Such a function exists.
LEMMA RecursionExists ==
  ASSUME NEW S, NEW b \in Nat, NEW n \in Nat, NEW start \in S,
         NEW step \in [Nat \X S -> S]
  PROVE  \E f : Steps(f, S, b, n, start, step)
<1> DEFINE Rec(m, f) == \A i \in b .. m : f[i] = IF i = b THEN start
                                                 ELSE step[<<i, f[i - 1]>>]
           P == {m \in Nat : \E f \in [b .. b + m -> S] : Rec(b + m, f)}
<1>1. 0 \in P
  <2> DEFINE f == [i \in b .. b + 0 |-> start]
  <2>1. f \in [b .. b + 0 -> S] /\ Rec(b + 0, f)
    OBVIOUS
  <2> QED BY <2>1
<1>2. ASSUME NEW m \in P PROVE m + 1 \in P
  <2>1. m \in Nat /\ m + 1 \in Nat
    OBVIOUS
  <2>2. PICK f \in [b .. b + m -> S] : Rec(b + m, f)
    OBVIOUS
  <2> DEFINE l == b + m
             x == step[<<l + 1, f[l]>>]
             h == [i \in b .. l + 1 |-> IF i = l + 1 THEN x ELSE f[i]]
  <2>3. l \in Nat /\ l + 1 \in Nat /\ l \in b .. l /\ l + 1 # b /\ b + (m + 1) = l + 1
    BY <2>1
  <2>4. f[l] \in S /\ <<l + 1, f[l]>> \in Nat \X S
    BY <2>2, <2>3
  <2>5. x \in S
    BY <2>4
  <2>6. \A i \in b .. l + 1 : i = l + 1 \/ (i \in b .. l /\ i # l + 1)
    BY <2>1
  <2>7. \A i \in b .. l : f[i] \in S /\ i \in b .. l + 1 /\ i # l + 1
    BY <2>1, <2>2
  <2> HIDE DEF x
  <2>8. h \in [b .. l + 1 -> S]
    BY <2>5, <2>6, <2>7
  <2>9. \A i \in b .. l : h[i] = f[i]
    BY <2>7
  <2>10. h[l + 1] = x
    BY <2>3
  <2> HIDE DEF h
  <2>11. ASSUME NEW i \in b .. l + 1
         PROVE  h[i] = IF i = b THEN start ELSE step[<<i, h[i - 1]>>]
    <3>1. CASE i = l + 1
      <4>1. i # b /\ i - 1 = l /\ i - 1 \in b .. l
        BY <3>1, <2>3
      <4> QED BY <4>1, <3>1, <2>9, <2>10 DEF x
    <3>2. CASE i # l + 1
      <4>1. i \in b .. l /\ (i # b => i - 1 \in b .. l)
        BY <3>2, <2>6, <2>3
      <4>2. h[i] = f[i] /\ (i # b => h[i - 1] = f[i - 1])
        BY <4>1, <2>9
      <4> QED BY <4>1, <4>2, <2>2
    <3> QED BY <3>1, <3>2
  <2> QED BY <2>1, <2>3, <2>8, <2>11
<1> HIDE DEF P
<1>3. P = Nat
  <2>1. P \in SUBSET Nat
    BY DEF P
  <2> QED BY <2>1, <1>1, <1>2, Induction
<1>4. CASE b <= n
  <2>1. n - b \in P /\ b + (n - b) = n
    BY <1>3, <1>4
  <2> QED BY <2>1 DEF P, Steps
<1>5. CASE ~(b <= n)
  <2> DEFINE f == [i \in b .. n |-> start]
  <2>1. b .. n = {}
    BY <1>5
  <2>2. f \in [b .. n -> S]
    OBVIOUS
  <2> QED BY <2>1, <2>2 DEF Steps
<1> QED BY <1>4, <1>5

\* The image of a finite set is finite.
LEMMA ImageFinite ==
  ASSUME NEW S, IsFiniteSet(S), NEW F
  PROVE  IsFiniteSet({F[x] : x \in S})
<1> DEFINE T == {F[x] : x \in S}
           G == [x \in S |-> F[x]]
<1>1. G \in Surjection(S, T)
  <2>1. G \in [S -> T] /\ \A y \in T : \E x \in S : G[x] = y
    OBVIOUS
  <2> QED BY <2>1 DEF Surjection
<1> QED BY <1>1, FS_Surjection


-----------------------------------------------------------------------------
(* Sums over finite sets                                                   *)

Weighs(w, S) == IsFiniteSet(S) /\ \A x \in S : w[x] \in Nat

\* it[s] is the sum of w over s, one member at a time.
Folding(it, w, D) ==
  it = [s \in D |-> IF s = {} THEN 0
                    ELSE w[CHOOSE x \in s : TRUE] + it[s \ {CHOOSE x \in s : TRUE}]]

SumOver(w, S) == (CHOOSE it : Folding(it, w, SUBSET S))[S]

\* The subsets of S of at most n members.
Small(S, n) == {s \in SUBSET S : Cardinality(s) <= n}

\* A member less is one less to count.
LEMMA OneLess ==
  ASSUME NEW S, IsFiniteSet(S), NEW n \in Nat, Cardinality(S) <= n + 1, NEW x \in S
  PROVE  IsFiniteSet(S \ {x}) /\ Cardinality(S \ {x}) <= n
<1>1. Cardinality(S) \in Nat
  BY FS_CardinalityType
<1>2. IsFiniteSet(S \ {x}) /\ Cardinality(S \ {x}) = Cardinality(S) - 1
  BY FS_RemoveElement
<1> QED BY <1>1, <1>2

LEMMA FoldingExists ==
  ASSUME NEW S, IsFiniteSet(S), NEW w
  PROVE  \E it : Folding(it, w, SUBSET S)
<1> DEFINE P == {n \in Nat : \E it : Folding(it, w, Small(S, n))}
           one(s) == CHOOSE x \in s : TRUE
<1>1. \A s \in SUBSET S : IsFiniteSet(s) /\ Cardinality(s) \in Nat
  BY FS_Subset, FS_CardinalityType
<1>2. \A s \in SUBSET S : s # {} => one(s) \in s
  OBVIOUS
<1>3. 0 \in P
  <2> DEFINE it == [s \in Small(S, 0) |-> 0]
  <2>1. \A s \in Small(S, 0) : s = {}
    <3> TAKE s \in Small(S, 0)
    <3>1. IsFiniteSet(s) /\ Cardinality(s) = 0
      BY <1>1 DEF Small
    <3> QED BY <3>1, FS_EmptySet
  <2>2. Folding(it, w, Small(S, 0))
    BY <2>1 DEF Folding
  <2> HIDE DEF it
  <2> QED BY <2>2
<1>4. ASSUME NEW n \in P PROVE n + 1 \in P
  <2>1. PICK g : Folding(g, w, Small(S, n))
    OBVIOUS
  <2> DEFINE B == Small(S, n)
             C == Small(S, n + 1)
             h == [s \in C |-> IF s \in B THEN g[s]
                               ELSE IF s = {} THEN 0 ELSE w[one(s)] + g[s \ {one(s)}]]
  <2>2. B \subseteq C /\ C \subseteq SUBSET S
    BY <1>1 DEF Small
  <2>3. \A s \in B : g[s] = IF s = {} THEN 0 ELSE w[one(s)] + g[s \ {one(s)}]
    BY <2>1 DEF Folding
  <2>4. \A s \in C : s # {} => s \ {one(s)} \in B
    <3> SUFFICES ASSUME NEW s \in C, s # {} PROVE s \ {one(s)} \in B
      OBVIOUS
    <3>1. IsFiniteSet(s) /\ Cardinality(s) <= n + 1 /\ one(s) \in s
      BY <1>1, <1>2, <2>2 DEF Small
    <3>2. Cardinality(s \ {one(s)}) <= n
      <4> HIDE DEF one
      <4> QED BY <3>1, OneLess
    <3> QED BY <3>2, <2>2 DEF Small
  <2> HIDE DEF B, C, one
  <2>5. \A s \in B : h[s] = g[s]
    BY <2>2
  <2>6. \A s \in C : h[s] = IF s = {} THEN 0 ELSE w[one(s)] + h[s \ {one(s)}]
    BY <2>2, <2>3, <2>4, <2>5
  <2>7. h = [s \in C |-> h[s]]
    OBVIOUS
  <2> HIDE DEF h
  <2>8. h = [s \in C |-> IF s = {} THEN 0 ELSE w[one(s)] + h[s \ {one(s)}]]
    BY <2>6, <2>7
  <2>9. Folding(h, w, C)
    BY <2>8 DEF Folding, one
  <2> QED BY <2>9 DEF C
<1>5. P = Nat
  <2> HIDE DEF P
  <2>1. P \in SUBSET Nat
    BY DEF P
  <2> QED BY <1>3, <1>4, <2>1, Induction
<1>6. Small(S, Cardinality(S)) = SUBSET S
  BY FS_Subset DEF Small
<1>7. Cardinality(S) \in P
  BY <1>1, <1>5
<1> QED BY <1>6, <1>7

\* Any two of them agree on what both sum.
LEMMA FoldingsAgree ==
  ASSUME NEW A, NEW B, IsFiniteSet(A), NEW w, NEW it, NEW jt,
         Folding(it, w, SUBSET A), Folding(jt, w, SUBSET B),
         \A x \in A : w[x] \in Nat, B \subseteq A
  PROVE  it[B] \in Nat /\ it[B] = jt[B]
<1> DEFINE P == {n \in Nat : \A s \in SUBSET B :
                   Cardinality(s) <= n => it[s] \in Nat /\ it[s] = jt[s]}
           one(s) == CHOOSE x \in s : TRUE
<1>1. \A s \in SUBSET B : IsFiniteSet(s) /\ Cardinality(s) \in Nat
  BY FS_Subset, FS_CardinalityType
<1>0. it[{}] = 0 /\ jt[{}] = 0
  BY DEF Folding
<1>2. \A s \in SUBSET B : s # {} =>
        /\ it[s] = w[one(s)] + it[s \ {one(s)}]
        /\ jt[s] = w[one(s)] + jt[s \ {one(s)}]
        /\ one(s) \in s
  BY DEF Folding
<1> HIDE DEF one
<1>3. 0 \in P
  <2> SUFFICES ASSUME NEW s \in SUBSET B, Cardinality(s) <= 0
               PROVE  it[s] \in Nat /\ it[s] = jt[s]
    OBVIOUS
  <2>1. s = {}
    BY <1>1, FS_EmptySet
  <2> QED BY <2>1, <1>0
<1>4. ASSUME NEW n \in P PROVE n + 1 \in P
  <2> SUFFICES ASSUME NEW s \in SUBSET B, Cardinality(s) <= n + 1
               PROVE  it[s] \in Nat /\ it[s] = jt[s]
    OBVIOUS
  <2>1. CASE s = {}
    BY <2>1, <1>0
  <2>2. CASE s # {}
    <3> DEFINE x == one(s)
               t == s \ {x}
    <3>1. x \in s /\ x \in B /\ t \in SUBSET B
      BY <2>2, <1>2
    <3>2. Cardinality(t) <= n
      BY <3>1, <1>1, OneLess
    <3>3. it[t] \in Nat /\ it[t] = jt[t]
      BY <3>1, <3>2
    <3>4. it[s] = w[x] + it[t] /\ jt[s] = w[x] + jt[t]
      BY <2>2, <1>2
    <3> HIDE DEF x, t
    <3> QED BY <3>1, <3>3, <3>4
  <2> QED BY <2>1, <2>2
<1>5. P = Nat
  <2> HIDE DEF P
  <2>1. P \in SUBSET Nat
    BY DEF P
  <2> QED BY <1>3, <1>4, <2>1, Induction
<1>6. Cardinality(B) \in P /\ Cardinality(B) <= Cardinality(B)
  BY <1>1, <1>5
<1> QED BY <1>6

\* A folding over the subsets of S sums each of them.
LEMMA FoldingSums ==
  ASSUME NEW w, NEW S, IsFiniteSet(S), \A x \in S : w[x] \in Nat,
         NEW f, Folding(f, w, SUBSET S), NEW R, R \subseteq S
  PROVE  f[R] \in Nat /\ f[R] = SumOver(w, R)
<1> DEFINE g == CHOOSE h : Folding(h, w, SUBSET R)
<1>1. Folding(g, w, SUBSET R)
  <2>1. IsFiniteSet(R)
    BY FS_Subset
  <2> QED BY <2>1, FoldingExists
<1>2. SumOver(w, R) = g[R]
  BY DEF SumOver
<1> HIDE DEF g
<1>3. f[R] \in Nat /\ f[R] = g[R]
  BY <1>1, FoldingsAgree
<1> QED BY <1>2, <1>3

\* A sum is that of one member and that of the others.
LEMMA SumOverIs ==
  ASSUME NEW w, NEW S, Weighs(w, S)
  PROVE  /\ SumOver(w, S) \in Nat /\ SumOver(w, {}) = 0
         /\ \A x \in S : SumOver(w, S) = w[x] + SumOver(w, S \ {x})
<1> DEFINE n == Cardinality(S)
           P == {m \in Nat : \A s \in SUBSET S : Cardinality(s) <= m =>
                   /\ SumOver(w, s) \in Nat
                   /\ \A x \in s : SumOver(w, s) = w[x] + SumOver(w, s \ {x})}
           it(s) == CHOOSE f : Folding(f, w, SUBSET s)
           one(s) == CHOOSE x \in s : TRUE
<1>0. \A s \in SUBSET S : /\ IsFiniteSet(s) /\ Cardinality(s) \in Nat
                          /\ \A x \in s : x \in S /\ w[x] \in Nat
  BY FS_Subset, FS_CardinalityType DEF Weighs
<1>1. \A s : SumOver(w, s) = it(s)[s]
  BY DEF SumOver
<1>2. \A s \in SUBSET S : Folding(it(s), w, SUBSET s)
  <2> TAKE s \in SUBSET S
  <2>1. \E f : Folding(f, w, SUBSET s)
    BY <1>0, FoldingExists
  <2> QED BY <2>1
<1> HIDE DEF it
<1>3. \A s \in SUBSET S : it(s)[{}] = 0
  BY <1>2 DEF Folding
<1>4. \A s \in SUBSET S : \A t \in SUBSET s : it(s)[t] \in Nat /\ it(s)[t] = SumOver(w, t)
  <2> TAKE s \in SUBSET S
  <2>1. /\ IsFiniteSet(s) /\ \A x \in s : w[x] \in Nat
        /\ Folding(it(s), w, SUBSET s)
    BY <1>0, <1>2
  <2> QED BY <2>1, FoldingSums
<1>5. SumOver(w, {}) = 0
  BY <1>1, <1>3
<1>6. \A s \in SUBSET S : SumOver(w, s) \in Nat
  BY <1>4
<1>7. ASSUME NEW s \in SUBSET S, s # {}
      PROVE  one(s) \in s /\ SumOver(w, s) = w[one(s)] + SumOver(w, s \ {one(s)})
  <2>1. one(s) \in s
    BY <1>7
  <2>2. it(s)[s] = w[one(s)] + it(s)[s \ {one(s)}]
    BY <1>2, <1>7 DEF Folding
  <2>3. s \ {one(s)} \in SUBSET s
    OBVIOUS
  <2> HIDE DEF one
  <2> QED BY <2>1, <2>2, <2>3, <1>4
<1> HIDE DEF one
<1>8. 0 \in P
  <2> SUFFICES ASSUME NEW s \in SUBSET S, Cardinality(s) <= 0 PROVE s = {}
    BY <1>6
  <2> QED BY <1>0, FS_EmptySet
<1>9. ASSUME NEW m \in P PROVE m + 1 \in P
  <2> SUFFICES ASSUME NEW s \in SUBSET S, Cardinality(s) <= m + 1, NEW x \in s
               PROVE  SumOver(w, s) = w[x] + SumOver(w, s \ {x})
    BY <1>6
  <2> DEFINE y == one(s)
             u == s \ {x}
             t == s \ {y}
             b == u \ {y}
  <2>1. y \in s /\ SumOver(w, s) = w[y] + SumOver(w, t)
    BY <1>7
  <2>2. CASE x = y
    BY <2>1, <2>2
  <2>3. CASE x # y
    <3>1. x \in t /\ y \in u /\ t \ {x} = b /\ t \in SUBSET S /\ u \in SUBSET S
          /\ b \in SUBSET S
      BY <2>1, <2>3
    <3>2. Cardinality(t) <= m /\ Cardinality(u) <= m
      BY <2>1, <1>0, OneLess
    <3> HIDE DEF y, u, t, b
    <3>3. SumOver(w, t) = w[x] + SumOver(w, b)
      BY <3>1, <3>2
    <3>4. SumOver(w, u) = w[y] + SumOver(w, b)
      BY <3>1, <3>2 DEF b
    <3>5. SumOver(w, b) \in Nat /\ w[x] \in Nat /\ w[y] \in Nat
      BY <3>1, <2>1, <1>0, <1>6
    <3>6. SumOver(w, s) = w[x] + SumOver(w, u)
      BY <2>1, <3>3, <3>4, <3>5
    <3> QED BY <3>6 DEF u
  <2> QED BY <2>2, <2>3
<1>10. P = Nat
  <2> HIDE DEF P
  <2>1. P \in SUBSET Nat
    BY DEF P
  <2> QED BY <1>8, <1>9, <2>1, Induction
<1>11. n \in P /\ n <= n
  BY <1>0, <1>10
<1>12. /\ SumOver(w, S) \in Nat
       /\ \A x \in S : SumOver(w, S) = w[x] + SumOver(w, S \ {x})
  BY <1>11
<1> QED BY <1>5, <1>12

\* Sums of parts that share nothing add up.
LEMMA SumApart ==
  ASSUME NEW w, NEW A, NEW B, Weighs(w, A \cup B), A \cap B = {}
  PROVE  /\ SumOver(w, A) \in Nat /\ SumOver(w, B) \in Nat
         /\ SumOver(w, A \cup B) = SumOver(w, A) + SumOver(w, B)
<1> DEFINE P == {n \in Nat : \A s \in SUBSET A : Cardinality(s) <= n =>
                   SumOver(w, s \cup B) = SumOver(w, s) + SumOver(w, B)}
<1>1. \A s \in SUBSET (A \cup B) : /\ IsFiniteSet(s) /\ Cardinality(s) \in Nat
                                   /\ Weighs(w, s)
  BY FS_Subset, FS_CardinalityType DEF Weighs
<1>2. \A s \in SUBSET (A \cup B) :
        /\ SumOver(w, s) \in Nat /\ SumOver(w, {}) = 0
        /\ \A x \in s : SumOver(w, s) = w[x] + SumOver(w, s \ {x})
  BY <1>1, SumOverIs
<1>3. \A x \in A \cup B : w[x] \in Nat
  BY DEF Weighs
<1>4. 0 \in P
  <2> SUFFICES ASSUME NEW s \in SUBSET A, Cardinality(s) <= 0
               PROVE  SumOver(w, s \cup B) = SumOver(w, s) + SumOver(w, B)
    OBVIOUS
  <2>1. s = {} /\ s \cup B = B
    BY <1>1, FS_EmptySet
  <2>2. SumOver(w, s) = 0 /\ SumOver(w, B) \in Nat
    BY <2>1, <1>2
  <2> QED BY <2>1, <2>2
<1>5. ASSUME NEW n \in P PROVE n + 1 \in P
  <2> SUFFICES ASSUME NEW s \in SUBSET A, Cardinality(s) <= n + 1
               PROVE  SumOver(w, s \cup B) = SumOver(w, s) + SumOver(w, B)
    OBVIOUS
  <2>1. CASE s = {}
    <3>1. s \cup B = B /\ B \in SUBSET (A \cup B)
      BY <2>1
    <3>2. SumOver(w, s) = 0
      BY <2>1, <1>2
    <3>3. SumOver(w, B) \in Nat
      BY <3>1, <1>2
    <3> QED BY <3>1, <3>2, <3>3
  <2>2. CASE s # {}
    <3>1. PICK x : x \in s
      BY <2>2
    <3> DEFINE t == s \ {x}
    <3>2. t \in SUBSET A /\ (s \cup B) \ {x} = t \cup B /\ x \in s \cup B
          /\ s \in SUBSET (A \cup B) /\ s \cup B \in SUBSET (A \cup B)
          /\ t \in SUBSET (A \cup B) /\ B \in SUBSET (A \cup B) /\ x \in A \cup B
      BY <3>1
    <3>3. Cardinality(t) <= n
      BY <3>1, <3>2, <1>1, OneLess
    <3> HIDE DEF t
    <3>4. SumOver(w, t \cup B) = SumOver(w, t) + SumOver(w, B)
      BY <3>2, <3>3
    <3>5. SumOver(w, s \cup B) = w[x] + SumOver(w, t \cup B)
      BY <3>2, <1>2
    <3>6. SumOver(w, s) = w[x] + SumOver(w, t)
      BY <3>1, <3>2, <1>2 DEF t
    <3>7. SumOver(w, t) \in Nat /\ SumOver(w, B) \in Nat /\ w[x] \in Nat
      BY <3>2, <1>2, <1>3
    <3> QED BY <3>4, <3>5, <3>6, <3>7
  <2> QED BY <2>1, <2>2
<1>6. P = Nat
  <2> HIDE DEF P
  <2>1. P \in SUBSET Nat
    BY DEF P
  <2> QED BY <1>4, <1>5, <2>1, Induction
<1>7. Cardinality(A) \in P /\ Cardinality(A) <= Cardinality(A)
  BY <1>1, <1>6
<1>8. SumOver(w, A \cup B) = SumOver(w, A) + SumOver(w, B)
  BY <1>7
<1> QED BY <1>2, <1>8

\* What weighs no more in each member weighs no more, and less if less in one.
LEMMA SumLess ==
  ASSUME NEW S, NEW w, NEW v, Weighs(w, S), Weighs(v, S), \A x \in S : w[x] <= v[x]
  PROVE  /\ SumOver(w, S) \in Nat /\ SumOver(v, S) \in Nat
         /\ SumOver(w, S) <= SumOver(v, S)
         /\ (\E x \in S : w[x] < v[x]) => SumOver(w, S) < SumOver(v, S)
<1> DEFINE P == {n \in Nat : \A s \in SUBSET S : Cardinality(s) <= n =>
                   SumOver(w, s) <= SumOver(v, s)}
<1>1. \A s \in SUBSET S : /\ IsFiniteSet(s) /\ Cardinality(s) \in Nat
                          /\ Weighs(w, s) /\ Weighs(v, s)
  BY FS_Subset, FS_CardinalityType DEF Weighs
<1>2. \A s \in SUBSET S :
        /\ SumOver(w, s) \in Nat /\ SumOver(w, {}) = 0
        /\ \A x \in s : SumOver(w, s) = w[x] + SumOver(w, s \ {x})
        /\ SumOver(v, s) \in Nat /\ SumOver(v, {}) = 0
        /\ \A x \in s : SumOver(v, s) = v[x] + SumOver(v, s \ {x})
  BY <1>1, SumOverIs
<1>3. \A x \in S : w[x] \in Nat /\ v[x] \in Nat
  BY DEF Weighs
<1>4. 0 \in P
  <2> SUFFICES ASSUME NEW s \in SUBSET S, Cardinality(s) <= 0
               PROVE  SumOver(w, s) <= SumOver(v, s)
    OBVIOUS
  <2>1. s = {}
    BY <1>1, FS_EmptySet
  <2> QED BY <2>1, <1>2
<1>5. ASSUME NEW n \in P PROVE n + 1 \in P
  <2> SUFFICES ASSUME NEW s \in SUBSET S, Cardinality(s) <= n + 1
               PROVE  SumOver(w, s) <= SumOver(v, s)
    OBVIOUS
  <2>1. CASE s = {}
    BY <2>1, <1>2
  <2>2. CASE s # {}
    <3>1. PICK x : x \in s
      BY <2>2
    <3> DEFINE t == s \ {x}
    <3>2. t \in SUBSET S /\ x \in S
      BY <3>1
    <3>3. Cardinality(t) <= n
      BY <3>1, <3>2, <1>1, OneLess
    <3>4. SumOver(w, s) = w[x] + SumOver(w, t) /\ SumOver(v, s) = v[x] + SumOver(v, t)
      BY <3>1, <3>2, <1>2
    <3> HIDE DEF t
    <3>5. SumOver(w, t) <= SumOver(v, t)
      BY <3>2, <3>3
    <3>6. SumOver(w, t) \in Nat /\ SumOver(v, t) \in Nat /\ w[x] \in Nat /\ v[x] \in Nat
          /\ w[x] <= v[x]
      BY <3>2, <1>2, <1>3
    <3> QED BY <3>4, <3>5, <3>6
  <2> QED BY <2>1, <2>2
<1>6. P = Nat
  <2> HIDE DEF P
  <2>1. P \in SUBSET Nat
    BY DEF P
  <2> QED BY <1>4, <1>5, <2>1, Induction
<1>7. \A s \in SUBSET S : SumOver(w, s) <= SumOver(v, s)
  BY <1>1, <1>6
<1>8. ASSUME NEW x \in S, w[x] < v[x] PROVE SumOver(w, S) < SumOver(v, S)
  <2> DEFINE t == S \ {x}
  <2>1. SumOver(w, S) = w[x] + SumOver(w, t) /\ SumOver(v, S) = v[x] + SumOver(v, t)
    BY <1>2
  <2>2. t \in SUBSET S
    OBVIOUS
  <2> HIDE DEF t
  <2>3. SumOver(w, t) <= SumOver(v, t) /\ SumOver(w, t) \in Nat /\ SumOver(v, t) \in Nat
    BY <2>2, <1>2, <1>7
  <2> QED BY <2>1, <2>3, <1>3, <1>8
<1> QED BY <1>2, <1>7, <1>8

\* A sum does not depend on what its members are called.
LEMMA SumMoved ==
  ASSUME NEW Q, NEW w, NEW v, NEW h, NEW S, Weighs(w, Q),
         \A p, q \in Q : h[p] = h[q] => p = q, \A q \in Q : v[h[q]] = w[q],
         \A q \in Q : h[q] \in S, \A x \in S : \E q \in Q : x = h[q]
  PROVE  SumOver(v, S) = SumOver(w, Q)
<1> DEFINE to(R) == {h[q] : q \in R}
           P == {n \in Nat : \A R \in SUBSET Q : Cardinality(R) <= n =>
                   SumOver(v, to(R)) = SumOver(w, R)}
<1>1. \A R \in SUBSET Q : IsFiniteSet(R) /\ Cardinality(R) \in Nat /\ Weighs(w, R)
  BY FS_Subset, FS_CardinalityType DEF Weighs
<1>2. \A R \in SUBSET Q : Weighs(v, to(R))
  <2> TAKE R \in SUBSET Q
  <2>1. IsFiniteSet(to(R))
    BY <1>1, ImageFinite
  <2>2. \A y \in to(R) : v[y] \in Nat
    BY DEF Weighs
  <2> QED BY <2>1, <2>2 DEF Weighs
<1>3. \A R \in SUBSET Q :
        /\ SumOver(w, R) \in Nat /\ SumOver(w, {}) = 0
        /\ \A x \in R : SumOver(w, R) = w[x] + SumOver(w, R \ {x})
  BY <1>1, SumOverIs
<1>4. \A R \in SUBSET Q :
        /\ SumOver(v, to(R)) \in Nat /\ SumOver(v, {}) = 0
        /\ \A y \in to(R) : SumOver(v, to(R)) = v[y] + SumOver(v, to(R) \ {y})
  BY <1>2, SumOverIs
<1>5. 0 \in P
  <2> SUFFICES ASSUME NEW R \in SUBSET Q, Cardinality(R) <= 0
               PROVE  SumOver(v, to(R)) = SumOver(w, R)
    OBVIOUS
  <2>1. R = {}
    BY <1>1, FS_EmptySet
  <2>2. to(R) = {}
    BY <2>1
  <2> QED BY <2>1, <2>2, <1>3, <1>4
<1>6. ASSUME NEW n \in P PROVE n + 1 \in P
  <2> SUFFICES ASSUME NEW R \in SUBSET Q, Cardinality(R) <= n + 1
               PROVE  SumOver(v, to(R)) = SumOver(w, R)
    OBVIOUS
  <2>1. CASE R = {}
    <3>1. to(R) = {}
      BY <2>1
    <3> QED BY <2>1, <3>1, <1>3, <1>4
  <2>2. CASE R # {}
    <3>1. PICK x : x \in R
      BY <2>2
    <3> DEFINE t == R \ {x}
    <3>2. t \in SUBSET Q /\ x \in Q
      BY <3>1
    <3>3. Cardinality(t) <= n
      BY <3>1, <3>2, <1>1, OneLess
    <3>4. SumOver(w, R) = w[x] + SumOver(w, t)
      BY <3>1, <3>2, <1>3
    <3>5. h[x] \in to(R)
      BY <3>1
    <3>6. to(R) \ {h[x]} = to(t)
      BY <3>1
    <3> HIDE DEF to
    <3>7. SumOver(v, to(R)) = v[h[x]] + SumOver(v, to(t))
      BY <3>5, <3>6, <1>4
    <3>8. SumOver(v, to(t)) = SumOver(w, t)
      BY <3>2, <3>3
    <3> QED BY <3>2, <3>4, <3>7, <3>8
  <2> QED BY <2>1, <2>2
<1>7. P = Nat
  <2> HIDE DEF P
  <2>1. P \in SUBSET Nat
    BY DEF P
  <2> QED BY <1>5, <1>6, <2>1, Induction
<1>8. Cardinality(Q) \in P /\ Cardinality(Q) <= Cardinality(Q)
  BY <1>1, <1>7
<1>9. SumOver(v, to(Q)) = SumOver(w, Q)
  BY <1>8
<1>10. to(Q) = S
  OBVIOUS
<1> QED BY <1>9, <1>10

\* There are finitely many functions between finite sets.
LEMMA FunctionsFinite ==
  ASSUME NEW S, NEW T, IsFiniteSet(S), IsFiniteSet(T)
  PROVE  IsFiniteSet([S -> T])
<1> DEFINE graph(f) == {<<x, f[x]>> : x \in S}
           U == SUBSET (S \X T)
           G == [f \in [S -> T] |-> graph(f)]
<1>1. IsFiniteSet(U)
  BY FS_Product, FS_SUBSET
<1>2. \A f \in [S -> T] : graph(f) \in U
  OBVIOUS
<1>3. ASSUME NEW f \in [S -> T], NEW g \in [S -> T], graph(f) = graph(g)
      PROVE  f = g
  <2>1. ASSUME NEW x \in S PROVE f[x] = g[x]
    <3>1. <<x, f[x]>> \in graph(g)
      BY <1>3
    <3> QED BY <3>1
  <2> QED BY <2>1
<1> DEFINE F == [S -> T]
<1> HIDE DEF graph, U, F
<1>4. G \in [F -> U]
  BY <1>2 DEF F
<1>5. \A f, g \in F : G[f] = G[g] => f = g
  BY <1>3 DEF F
<1> HIDE DEF G
<1>6. G \in Injection(F, U)
  BY <1>4, <1>5 DEF Injection, IsInjective
<1> QED BY <1>1, <1>6, FS_Injection DEF F
=============================================================================
