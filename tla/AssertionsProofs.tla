-------------------------- MODULE AssertionsProofs --------------------------
(***************************************************************************)
(* Proofs about Assertions for every library, tree and depth: every        *)
(* expression that an assertion is bound to fits it, and no assertion of a *)
(* resolved tree, or of an expression bound to one, is forgotten.  Under   *)
(* the conditions of Plain - no alternatives, no assertions of assertions, *)
(* no casts, functions told apart by their result types, and with the      *)
(* cache nothing asserted twice - the one cheapest assignment to all       *)
(* assertions together is found, or there is none.                         *)
(*                                                                         *)
(* All are of the end of a run and need what holds between any two calls   *)
(* of resolveAssertion().  The invariant says it of each resolver (Right): *)
(*   - the choices cached for a key answer every assertion with that key,  *)
(*     in an environment that the resolver's has grown from (KeysFit);     *)
(*   - what an expression that is bound, or may yet be, needs is bound,    *)
(*     deferred, open or still to resolve: it is held (Kept, Held);        *)
(*   - these places share no assertion.  Ids tell assertions apart: an id  *)
(*     is a place in the tree, or extends that of a bound one (Distinct).  *)
(* An ambiguous expression tries its alternatives with resolvers of their  *)
(* own.  J and K are what the outer resolver holds while one of them runs, *)
(* and J stays with what the chosen one left deferred or open.             *)
(*                                                                         *)
(* The loops over a pass's assertions, its deferred choices and the passes *)
(* are recursive functions.  Each proof goes by induction over the calls   *)
(* made so far, and the bound on the depth ends the last.                  *)
(*                                                                         *)
(* For the cheapest assignment, CInv adds to AInv that no assignment goes  *)
(* against what is bound (Forced, Leaves), and that what waits offers the  *)
(* cheapest of everything an assignment could take (Offer).  At the end of *)
(* the pass a cheapest compatible choice then builds an assignment that no *)
(* other beats; if two are as cheap, so are two assignments.               *)
(***************************************************************************)
EXTENDS Assertions, DataFacts, SequenceTheorems, FunctionTheorems

-----------------------------------------------------------------------------
(* Environments                                                            *)

\* x can be bound to d in e.
Fits(L, d, x, e) ==
  /\ d.var \in Var /\ x.impl \in L /\ x.impl.fn = d.fn
  /\ x.impl.val \in {AnyType, e.bound[d.var]}

\* e is an environment whose bindings fit.
EnvFits(L, e) ==
  /\ e = [bound |-> e.bound, asn |-> e.asn]
  /\ e.bound \in [Var -> Val \cup {Free}]
  /\ \A d \in DOMAIN e.asn : Fits(L, d, e.asn[d], e)

\* What the expressions that e has bound need.
Owes(e) == UNION {ToSet(e.asn[d].subs) : d \in DOMAIN e.asn}

\* f keeps what e binds.
Grew(e, f) ==
  /\ DOMAIN e.asn \subseteq DOMAIN f.asn
  /\ \A v \in Var : e.bound[v] \in {Free, f.bound[v]}

\* A variable bound to a type stays bound to it.
LEMMA GrewFits ==
  ASSUME NEW L, NEW e, NEW f, EnvFits(L, e), EnvFits(L, f), Grew(e, f),
         ConstsFit, NEW v \in Var, NEW x \in Val, e.bound[v] = x
  PROVE  f.bound[v] = x
BY DEF Grew, ConstsFit

\* Growing is transitive.
LEMMA GrewOn ==
  ASSUME NEW e, NEW f, NEW g, Grew(e, f), Grew(f, g)
  PROVE  Grew(e, g)
BY DEF Grew

\* The empty environment is an environment, and owes nothing.
LEMMA EmptyFits ==
  ASSUME NEW L
  PROVE  EnvFits(L, EmptyEnv) /\ DOMAIN EmptyEnv.asn = {} /\ Owes(EmptyEnv) = {}
<1>1. DOMAIN EmptyEnv.asn = {}
  BY DEF EmptyEnv
<1>2. Owes(EmptyEnv) = {}
  BY <1>1 DEF Owes
<1>3. /\ EmptyEnv = [bound |-> EmptyEnv.bound, asn |-> EmptyEnv.asn]
      /\ EmptyEnv.bound \in [Var -> Val \cup {Free}]
  BY DEF EmptyEnv
<1> QED BY <1>1, <1>2, <1>3 DEF EnvFits

\* Environments that agree, together.
LEMMA UnionFits ==
  ASSUME ConstsFit, NEW L, LibFits(L), NEW es,
         \A e \in es : EnvFits(L, e), \A e, f \in es : Agree(e, f)
  PROVE  /\ EnvFits(L, Union(es))
         /\ DOMAIN Union(es).asn = UNION {DOMAIN e.asn : e \in es}
         /\ Owes(Union(es)) \subseteq UNION {Owes(e) : e \in es}
         /\ \A e \in es : Grew(e, Union(es))
<1> DEFINE u == Union(es)
           vals(v) == {e.bound[v] : e \in es} \ {Free}
           D == UNION {DOMAIN e.asn : e \in es}
<1>1. /\ u = [bound |-> u.bound, asn |-> u.asn]
      /\ DOMAIN u.bound = Var
      /\ \A v \in Var : u.bound[v] = IF vals(v) = {} THEN Free
                                     ELSE CHOOSE x \in vals(v) : TRUE
      /\ DOMAIN u.asn = D
      /\ \A d \in D : u.asn[d] = (CHOOSE e \in es : d \in DOMAIN e.asn).asn[d]
      /\ u.bound = [v \in Var |-> u.bound[v]]
  BY DEF Union
<1> HIDE DEF u
<1>2. \A v \in Var : \A e \in es : e.bound[v] # Free => u.bound[v] = e.bound[v]
  <2> SUFFICES ASSUME NEW v \in Var, NEW e \in es, e.bound[v] # Free
               PROVE  u.bound[v] = e.bound[v]
    OBVIOUS
  <2>1. e.bound[v] \in vals(v)
    OBVIOUS
  <2>2. \A x \in vals(v) : x = e.bound[v]
    <3> SUFFICES ASSUME NEW f \in es, f.bound[v] # Free PROVE f.bound[v] = e.bound[v]
      OBVIOUS
    <3> QED BY DEF Agree
  <2> HIDE DEF vals
  <2>3. u.bound[v] \in vals(v)
    BY <2>1, <1>1
  <2> QED BY <2>2, <2>3
<1>3. \A v \in Var : u.bound[v] \in Val \cup {Free}
  <2> SUFFICES ASSUME NEW v \in Var PROVE u.bound[v] \in Val \cup {Free}
    OBVIOUS
  <2>1. CASE vals(v) = {}
    BY <2>1, <1>1
  <2>2. CASE vals(v) # {}
    <3>1. u.bound[v] \in vals(v)
      <4> HIDE DEF vals
      <4> QED BY <2>2, <1>1
    <3>2. PICK e \in es : u.bound[v] = e.bound[v]
      BY <3>1
    <3> QED BY <3>2 DEF EnvFits
  <2> QED BY <2>1, <2>2
<1>4. \A d \in D : \E e \in es : d \in DOMAIN e.asn /\ u.asn[d] = e.asn[d]
  <2> SUFFICES ASSUME NEW d \in D
               PROVE  \E e \in es : d \in DOMAIN e.asn /\ u.asn[d] = e.asn[d]
    OBVIOUS
  <2>1. \E e \in es : d \in DOMAIN e.asn
    OBVIOUS
  <2> HIDE DEF D
  <2> QED BY <2>1, <1>1
<1>5. ASSUME NEW d \in D PROVE Fits(L, d, u.asn[d], u)
  <2>1. PICK e \in es : d \in DOMAIN e.asn /\ u.asn[d] = e.asn[d]
    BY <1>4, <1>5
  <2>2. Fits(L, d, u.asn[d], e)
    BY <2>1 DEF EnvFits
  <2>3. u.asn[d].impl.val \in Val \cup {AnyType} /\ Free \notin Val \cup {AnyType}
    BY <2>2 DEF Fits, LibFits, ConstsFit
  <2> QED BY <2>2, <2>3, <1>2 DEF Fits
<1>6. ASSUME NEW x \in Owes(u) PROVE \E e \in es : x \in Owes(e)
  <2> HIDE DEF D
  <2>1. PICK d \in D : x \in ToSet(u.asn[d].subs)
    BY <1>6, <1>1 DEF Owes
  <2>2. PICK e \in es : d \in DOMAIN e.asn /\ u.asn[d] = e.asn[d]
    BY <1>4, <2>1
  <2> QED BY <2>1, <2>2 DEF Owes
<1>7. ASSUME NEW e \in es PROVE Grew(e, u)
  BY <1>1, <1>2, <1>7 DEF Grew
<1>8. EnvFits(L, u)
  <2> HIDE DEF D
  <2>1. u.bound \in [Var -> Val \cup {Free}]
    BY <1>1, <1>3
  <2> QED BY <1>1, <1>5, <2>1 DEF EnvFits
<1>9. DOMAIN u.asn = UNION {DOMAIN e.asn : e \in es}
  BY <1>1
<1> QED BY <1>6, <1>7, <1>8, <1>9 DEF u

\* resolveWithType() binds a variable.
LEMMA BindFits ==
  ASSUME ConstsFit, NEW L, NEW e, EnvFits(L, e), LibFits(L),
         NEW v \in Var, NEW val \in Val \cup {AnyType},
         val = AnyType \/ e.bound[v] \in {Free, val}
  PROVE  LET b == Bind(e, v, val)
         IN /\ EnvFits(L, b) /\ Grew(e, b)
            /\ b.asn = e.asn /\ Owes(b) = Owes(e)
            /\ b.bound = IF val = AnyType THEN e.bound
                         ELSE [e.bound EXCEPT ![v] = val]
            /\ val \in {AnyType, b.bound[v]}
<1> DEFINE b == Bind(e, v, val)
<1>1. CASE val = AnyType
  BY <1>1 DEF Bind, Grew
<1>2. CASE val # AnyType
  <2>1. /\ e = [bound |-> e.bound, asn |-> e.asn]
        /\ e.bound \in [Var -> Val \cup {Free}]
        /\ \A d \in DOMAIN e.asn : Fits(L, d, e.asn[d], e)
    BY DEF EnvFits
  <2>2. b = [bound |-> [e.bound EXCEPT ![v] = val], asn |-> e.asn]
    BY <1>2, <2>1 DEF Bind
  <2>3. /\ b.asn = e.asn /\ b.bound = [e.bound EXCEPT ![v] = val]
        /\ b = [bound |-> b.bound, asn |-> b.asn]
    BY <2>2
  <2> HIDE DEF b
  <2>4. b.bound \in [Var -> Val \cup {Free}] /\ b.bound[v] = val
    BY <1>2, <2>1, <2>3
  <2>5. \A w \in Var : e.bound[w] \in {Free, b.bound[w]}
    BY <1>2, <2>1, <2>3
  <2>6. \A d \in DOMAIN b.asn : Fits(L, d, b.asn[d], b)
    <3> SUFFICES ASSUME NEW d \in DOMAIN e.asn PROVE Fits(L, d, e.asn[d], b)
      BY <2>3
    <3>1. Fits(L, d, e.asn[d], e)
      BY <2>1
    <3>2. e.asn[d].impl.val # Free
      BY <3>1 DEF Fits, LibFits, ConstsFit
    <3> QED BY <3>1, <3>2, <2>5 DEF Fits
  <2>7. Owes(b) = Owes(e)
    BY <2>3 DEF Owes
  <2> QED BY <1>2, <2>3, <2>4, <2>5, <2>6, <2>7 DEF EnvFits, Grew, b
<1> QED BY <1>1, <1>2

\* bindAssertion()
LEMMA AsnFits ==
  ASSUME NEW L, NEW e, EnvFits(L, e), NEW ds, NEW x,
         \A d \in ds : Fits(L, d, x, e)
  PROVE  LET b == BindAssertions(e, ds, x)
         IN /\ EnvFits(L, b) /\ Grew(e, b)
            /\ DOMAIN b.asn = DOMAIN e.asn \cup ds
            /\ Owes(b) \subseteq Owes(e) \cup ToSet(x.subs)
<1> DEFINE b == BindAssertions(e, ds, x)
<1>1. b = [bound |-> e.bound, asn |-> With(e.asn, ds, x)]
  BY DEF EnvFits, BindAssertions
<1>2. /\ b.bound = e.bound /\ b = [bound |-> b.bound, asn |-> b.asn]
      /\ DOMAIN b.asn = DOMAIN e.asn \cup ds
      /\ \A d \in DOMAIN b.asn : b.asn[d] = IF d \in ds THEN x ELSE e.asn[d]
  BY <1>1 DEF With
<1> HIDE DEF b
<1>3. \A d \in DOMAIN b.asn : Fits(L, d, b.asn[d], b)
  BY <1>2 DEF EnvFits, Fits
<1>4. EnvFits(L, b) /\ Grew(e, b)
  BY <1>2, <1>3 DEF EnvFits, Grew
<1>5. Owes(b) \subseteq Owes(e) \cup ToSet(x.subs)
  BY <1>2 DEF Owes
<1> QED BY <1>2, <1>4, <1>5 DEF b

\* The merge after a unique match is not looked at, and succeeds.
LEMMA MatchMerges ==
  ASSUME ConstsFit, NEW L, NEW e, EnvFits(L, e), NEW v \in Var,
         NEW val \in Val \cup {AnyType}, val = AnyType \/ e.bound[v] \in {Free, val},
         NEW d, d \notin DOMAIN e.asn, NEW x
  PROVE  LET f == BindAssertion(e, d, x)
             g == Bind(e, v, val)
         IN Agree(f, g) /\ Union({f, g}) = BindAssertion(g, d, x)
<1> DEFINE f == BindAssertion(e, d, x)
           g == Bind(e, v, val)
<1>1. /\ e = [bound |-> e.bound, asn |-> e.asn]
      /\ e.bound \in [Var -> Val \cup {Free}]
  BY DEF EnvFits
<1>2. f = [bound |-> e.bound, asn |-> With(e.asn, {d}, x)]
  BY <1>1 DEF BindAssertion, BindAssertions
<1>3. /\ g = [bound |-> g.bound, asn |-> e.asn]
      /\ g.bound \in [Var -> Val \cup {Free}]
      /\ \A w \in Var : e.bound[w] \in {Free, g.bound[w]}
  <2>1. CASE val = AnyType
    BY <1>1, <2>1 DEF Bind
  <2>2. CASE val # AnyType
    <3>1. g = [bound |-> [e.bound EXCEPT ![v] = val], asn |-> e.asn]
      BY <1>1, <2>2 DEF Bind
    <3> HIDE DEF g
    <3> QED BY <1>1, <2>2, <3>1
  <2> QED BY <2>1, <2>2
<1>4. /\ f.bound = e.bound /\ DOMAIN f.asn = DOMAIN e.asn \cup {d}
      /\ f.asn[d] = x
      /\ \A c \in DOMAIN e.asn : c # d /\ f.asn[c] = e.asn[c]
  BY <1>2 DEF With
<1>5. g.asn = e.asn
  BY <1>3
<1>6. BindAssertion(g, d, x) = [bound |-> g.bound, asn |-> With(e.asn, {d}, x)]
  <2> HIDE DEF g
  <2>1. BindAssertion(g, d, x) = [bound |-> g.bound, asn |-> With(g.asn, {d}, x)]
    BY <1>3 DEF BindAssertion, BindAssertions
  <2> QED BY <2>1, <1>5
<1> HIDE DEF f, g
<1>7. Agree(f, g)
  BY <1>3, <1>4, <1>5 DEF Agree
<1> DEFINE u == Union({f, g})
<1>8. /\ u = [bound |-> u.bound, asn |-> u.asn]
      /\ u.bound = [w \in Var |-> LET vals == {h.bound[w] : h \in {f, g}} \ {Free}
                                  IN IF vals = {} THEN Free
                                     ELSE CHOOSE y \in vals : TRUE]
      /\ u.asn = [c \in UNION {DOMAIN h.asn : h \in {f, g}} |->
                    (CHOOSE h \in {f, g} : c \in DOMAIN h.asn).asn[c]]
  BY DEF Union
<1> HIDE DEF u
<1>9. u.bound = g.bound
  <2>1. \A w \in Var : u.bound[w] = g.bound[w]
    <3> SUFFICES ASSUME NEW w \in Var PROVE u.bound[w] = g.bound[w]
      OBVIOUS
    <3> DEFINE vals == {h.bound[w] : h \in {f, g}} \ {Free}
    <3>1. u.bound[w] = IF vals = {} THEN Free ELSE CHOOSE y \in vals : TRUE
      BY <1>8
    <3>2. \A y \in vals : y = g.bound[w]
      BY <1>3, <1>4
    <3>3. vals = {} => g.bound[w] = Free
      OBVIOUS
    <3> HIDE DEF vals
    <3> QED BY <3>1, <3>2, <3>3
  <2>2. u.bound = [w \in Var |-> u.bound[w]] /\ g.bound = [w \in Var |-> g.bound[w]]
    BY <1>3, <1>8
  <2> QED BY <2>1, <2>2
<1>10. u.asn = With(e.asn, {d}, x)
  <2>1. UNION {DOMAIN h.asn : h \in {f, g}} = DOMAIN e.asn \cup {d}
    BY <1>4, <1>5
  <2>2. u.asn = [c \in DOMAIN e.asn \cup {d} |->
                    (CHOOSE h \in {f, g} : c \in DOMAIN h.asn).asn[c]]
    BY <1>8, <2>1
  <2>3. ASSUME NEW c \in DOMAIN e.asn \cup {d}
        PROVE  (CHOOSE h \in {f, g} : c \in DOMAIN h.asn).asn[c]
               = IF c \in {d} THEN x ELSE e.asn[c]
    <3> DEFINE h == CHOOSE h \in {f, g} : c \in DOMAIN h.asn
    <3>1. f \in {f, g} /\ c \in DOMAIN f.asn
      BY <1>4, <2>3
    <3>2. h \in {f, g} /\ c \in DOMAIN h.asn
      BY <3>1
    <3> HIDE DEF h
    <3>3. h.asn[c] = IF c \in {d} THEN x ELSE e.asn[c]
      BY <3>2, <1>4, <1>5, <2>3
    <3> QED BY <3>3 DEF h
  <2> QED BY <2>2, <2>3 DEF With
<1>11. u = [bound |-> g.bound, asn |-> With(e.asn, {d}, x)]
  BY <1>8, <1>9, <1>10
<1> QED BY <1>6, <1>7, <1>11 DEF u, f, g

-----------------------------------------------------------------------------
(* Assertions are told apart by their ids.                                 *)

\* subs are the assertions of an expression that is to be bound to h.
Needs(subs, h) ==
  /\ IsSeq(subs)
  /\ \A i \in 1 .. Len(subs) : subs[i].id = Append(h.id, i) /\ subs[i].var = h.var

\* B are bound and U are not.  Each has an id of its own, which is a place in
\* the first n nodes of the tree, or begins with the id of a bound assertion.
Distinct(n, B, U) ==
  /\ B \cap U = {}
  /\ \A x \in B \cup U : x.var \in Var /\ x.id \in Seq(Int) /\ Len(x.id) >= 3
  /\ \A x, y \in B \cup U : x.id = y.id => x = y
  /\ \A x \in B \cup U : IF Len(x.id) = 3 THEN x.id[1] <= n
                         ELSE \E p \in B : p.id = Front(x.id)

\* A child's id is its parent's and a number.
LEMMA ChildIs ==
  ASSUME NEW s \in Seq(Int), NEW i \in Int
  PROVE  /\ Append(s, i) \in Seq(Int) /\ Len(Append(s, i)) = Len(s) + 1
         /\ Front(Append(s, i)) = s /\ Append(s, i)[Len(s) + 1] = i
<1> DEFINE a == Append(s, i)
           n == Len(s)
<1>1. /\ a \in Seq(Int) /\ Len(a) = n + 1 /\ n \in Nat
      /\ \A k \in 1 .. n : a[k] = s[k]
      /\ a[n + 1] = i
  BY LenProperties
<1>2. Front(a) = SubSeq(a, 1, n)
  <2>1. Len(a) - 1 = n
    BY <1>1
  <2> QED BY <2>1 DEF Front
<1> HIDE DEF a
<1>3. /\ SubSeq(a, 1, n) \in Seq(Int) /\ Len(SubSeq(a, 1, n)) = n
      /\ \A k \in 1 .. n : SubSeq(a, 1, n)[k] = a[k]
  <2>1. \A k \in 1 .. n : a[k] \in Int
    BY <1>1, LenProperties, ElementOfSeq
  <2>2. 1 \in Int /\ n \in Int /\ (IF 1 <= n THEN n - 1 + 1 ELSE 0) = n /\ n - 1 + 1 = n
    BY <1>1
  <2>3. \A k \in 1 .. n : 1 + k - 1 = k
    BY <1>1
  <2> QED BY <2>1, <2>2, <2>3, SubSeqProperties
<1>4. SubSeq(a, 1, n) = s
  <2> DEFINE t == SubSeq(a, 1, n)
  <2>1. t \in Seq(Int) /\ Len(t) = Len(s) /\ \A k \in 1 .. Len(t) : t[k] = s[k]
    BY <1>1, <1>3
  <2> HIDE DEF t
  <2>2. t = s
    BY <2>1, SeqEqual
  <2> QED BY <2>2 DEF t
<1> QED BY <1>1, <1>2, <1>4 DEF a

\* Fewer unbound assertions of more nodes are told apart, too.
LEMMA DistinctFewer ==
  ASSUME NEW n \in Int, NEW m \in Int, n <= m, NEW B, NEW U, Distinct(n, B, U),
         NEW V \in SUBSET U
  PROVE  Distinct(m, B, V)
<1>1. \A x \in B \cup U : Len(x.id) = 3 => x.id[1] <= m
  <2> SUFFICES ASSUME NEW x \in B \cup U, Len(x.id) = 3 PROVE x.id[1] <= m
    OBVIOUS
  <2>1. x.id \in Seq(Int) /\ x.id[1] <= n
    BY DEF Distinct
  <2>2. x.id[1] \in Int
    BY <2>1, ElementOfSeq
  <2> QED BY <2>1, <2>2
<1> QED BY <1>1 DEF Distinct

\* Binding tells the same assertions apart.
LEMMA DistinctBound ==
  ASSUME NEW n, NEW B, NEW U, Distinct(n, B, U), NEW ids \in SUBSET U
  PROVE  Distinct(n, B \cup ids, U \ ids)
BY DEF Distinct

\* Binding an assertion uncovers those of its expression.
LEMMA DistinctNeeds ==
  ASSUME NEW n, NEW B, NEW U, Distinct(n, B, U), NEW ids \in SUBSET U,
         NEW h \in ids, NEW subs, Needs(subs, h)
  PROVE  /\ Distinct(n, B \cup ids, (U \ ids) \cup ToSet(subs))
         /\ ToSet(subs) \cap (B \cup U) = {} /\ IsInjective(subs)
<1>1. /\ Len(subs) \in Nat /\ DOMAIN subs = 1 .. Len(subs)
      /\ ToSet(subs) = {subs[i] : i \in 1 .. Len(subs)}
  BY SeqIs DEF Needs
<1>2. h.id \in Seq(Int) /\ Len(h.id) \in Nat /\ Len(h.id) >= 3 /\ h.var \in Var
  BY LenProperties DEF Distinct
<1>3. \A i \in 1 .. Len(subs) :
        /\ subs[i].id = Append(h.id, i) /\ subs[i].var \in Var
        /\ subs[i].id \in Seq(Int) /\ Len(subs[i].id) = Len(h.id) + 1
        /\ Front(subs[i].id) = h.id /\ subs[i].id[Len(h.id) + 1] = i
  <2> TAKE i \in 1 .. Len(subs)
  <2>1. i \in Int
    BY <1>1
  <2>2. subs[i].id = Append(h.id, i) /\ subs[i].var = h.var
    BY DEF Needs
  <2> QED BY <2>1, <2>2, <1>2, ChildIs
<1>4. \A y \in ToSet(subs) : /\ y.var \in Var /\ y.id \in Seq(Int)
                             /\ Len(y.id) = Len(h.id) + 1 /\ Front(y.id) = h.id
  BY <1>1, <1>3
<1>5. \A y \in ToSet(subs) : Len(y.id) >= 3 /\ Len(y.id) # 3
  <2> DEFINE k == Len(h.id)
  <2>1. k + 1 >= 3 /\ k + 1 # 3
    BY <1>2
  <2>2. \A y \in ToSet(subs) : Len(y.id) = k + 1
    BY <1>4
  <2> HIDE DEF k
  <2> QED BY <2>1, <2>2
<1>6. ASSUME NEW y \in ToSet(subs), NEW x \in B \cup U, x.id = y.id PROVE FALSE
  <2>1. PICK p \in B : p.id = h.id
    BY <1>4, <1>5, <1>6 DEF Distinct
  <2>2. p = h
    BY <2>1 DEF Distinct
  <2> QED BY <2>1, <2>2 DEF Distinct
<1>7. \A x, y \in ToSet(subs) : x.id = y.id => x = y
  BY <1>1, <1>3
<1>8. IsInjective(subs)
  BY <1>1, <1>3 DEF IsInjective
<1>9. ToSet(subs) \cap (B \cup U) = {}
  BY <1>6
<1>10. Distinct(n, B \cup ids, U \ ids)
  BY DistinctBound
<1>11. h \in B \cup ids
  OBVIOUS
<1> DEFINE C == B \cup ids
           V == U \ ids
           W == V \cup ToSet(subs)
<1>12. C \cup V = B \cup U /\ C \cap W = {}
  BY <1>9, <1>10 DEF Distinct
<1>13. \A x \in C \cup W : x \in C \cup V \/ x \in ToSet(subs)
  OBVIOUS
<1>14. \A x, y \in C \cup W : x.id = y.id => x = y
  BY <1>6, <1>7, <1>10, <1>12, <1>13 DEF Distinct
<1>15. \A x \in C \cup W : x.var \in Var /\ x.id \in Seq(Int) /\ Len(x.id) >= 3
  BY <1>4, <1>5, <1>10, <1>13 DEF Distinct
<1>16. \A x \in C \cup W : IF Len(x.id) = 3 THEN x.id[1] <= n
                           ELSE \E p \in C : p.id = Front(x.id)
  <2> TAKE x \in C \cup W
  <2>1. CASE x \in C \cup V
    BY <2>1, <1>10 DEF Distinct
  <2>2. CASE x \in ToSet(subs)
    BY <2>2, <1>4, <1>5, <1>11
  <2> QED BY <2>1, <2>2, <1>13
<1> HIDE DEF C, W
<1>17. Distinct(n, C, W)
  BY <1>12, <1>14, <1>15, <1>16 DEF Distinct
<1> QED BY <1>8, <1>9, <1>17 DEF C, W

\* The assertions of the next node of the tree.
LEMMA DistinctDeclared ==
  ASSUME NEW n \in Nat, NEW B, NEW U, Distinct(n, B, U), NEW num \in Int,
         NEW assns, IsSeq(assns), \A j \in 1 .. Len(assns) : assns[j][2] \in Var
  PROVE  LET ds == Declared(assns, n + 1, num)
         IN /\ IsSeq(ds) /\ IsInjective(ds)
            /\ ToSet(ds) \cap (B \cup U) = {}
            /\ Distinct(n + 1, B, U \cup ToSet(ds))
<1> DEFINE k == Len(assns)
           ds == Declared(assns, n + 1, num)
<1>1. k \in Nat
  BY SeqIs
<1>2. ds = [j \in 1 .. k |-> Assertion(assns[j][1], assns[j][2], <<n + 1, num, j>>)]
  BY DEF Declared
<1>3. /\ ds \in [1 .. k -> {ds[j] : j \in 1 .. k}] /\ DOMAIN ds = 1 .. k
      /\ \A j \in 1 .. k : /\ ds[j].id = <<n + 1, num, j>> /\ ds[j].var \in Var
  <2>1. ASSUME NEW j \in 1 .. k
        PROVE  ds[j].id = <<n + 1, num, j>> /\ ds[j].var \in Var
    <3>1. ds[j] = Assertion(assns[j][1], assns[j][2], <<n + 1, num, j>>)
      BY <1>2
    <3>2. ds[j].id = <<n + 1, num, j>> /\ ds[j].var = assns[j][2]
      BY <3>1 DEF Assertion
    <3> QED BY <3>2
  <2>2. ds \in [1 .. k -> {ds[j] : j \in 1 .. k}] /\ DOMAIN ds = 1 .. k
    BY <1>2
  <2> QED BY <2>1, <2>2
<1> HIDE DEF k, ds
<1>4. IsSeq(ds) /\ Len(ds) = k
  BY <1>1, <1>3, MapIsSeq
<1>5. \A j \in 1 .. k :
        /\ ds[j].id \in Seq(Int) /\ Len(ds[j].id) = 3 /\ ds[j].id[1] = n + 1
        /\ ds[j].id[3] = j
  <2> TAKE j \in 1 .. k
  <2>1. n + 1 \in Int /\ num \in Int /\ j \in Int
    BY <1>1
  <2>2. /\ <<n + 1, num, j>> \in Seq(Int) /\ Len(<<n + 1, num, j>>) = 3
        /\ <<n + 1, num, j>>[1] = n + 1 /\ <<n + 1, num, j>>[3] = j
    BY <2>1
  <2>3. ds[j].id = <<n + 1, num, j>>
    BY <1>3
  <2> QED BY <2>2, <2>3
<1>6. \A j \in DOMAIN ds : ds[j].id[3] = j
  BY <1>3, <1>5
<1>7. IsInjective(ds)
  BY <1>6 DEF IsInjective
<1>8. \A y \in ToSet(ds) : \E j \in 1 .. k : y = ds[j]
  BY <1>3 DEF ToSet
<1>9. \A y \in ToSet(ds) : /\ y.var \in Var /\ y.id \in Seq(Int) /\ Len(y.id) = 3
                           /\ y.id[1] = n + 1
  BY <1>3, <1>5, <1>8
<1>10. \A x, y \in ToSet(ds) : x.id = y.id => x = y
  <2> SUFFICES ASSUME NEW x \in ToSet(ds), NEW y \in ToSet(ds), x.id = y.id
               PROVE  x = y
    OBVIOUS
  <2>1. PICK i \in 1 .. k : x = ds[i]
    BY <1>8
  <2>2. PICK j \in 1 .. k : y = ds[j]
    BY <1>8
  <2>3. i = j
    BY <2>1, <2>2, <1>5
  <2> QED BY <2>1, <2>2, <2>3
<1>11. ASSUME NEW y \in ToSet(ds), NEW x \in B \cup U, x.id = y.id PROVE FALSE
  <2>1. n + 1 <= n
    BY <1>9, <1>11 DEF Distinct
  <2> QED BY <2>1
<1> DEFINE W == U \cup ToSet(ds)
<1>12. \A x \in B \cup W : x \in B \cup U \/ x \in ToSet(ds)
  OBVIOUS
<1>13. Distinct(n + 1, B, U)
  BY DistinctFewer
<1>14. B \cap W = {}
  BY <1>11, <1>13 DEF Distinct
<1>15. \A x, y \in B \cup W : x.id = y.id => x = y
  BY <1>10, <1>11, <1>12, <1>13 DEF Distinct
<1>16. \A x \in B \cup W : x.var \in Var /\ x.id \in Seq(Int) /\ Len(x.id) >= 3
  <2>1. \A y \in ToSet(ds) : Len(y.id) >= 3
    <3>1. \A y \in ToSet(ds) : Len(y.id) = 3
      BY <1>9
    <3> QED BY <3>1
  <2> QED BY <2>1, <1>9, <1>12, <1>13 DEF Distinct
<1>17. \A x \in B \cup W : IF Len(x.id) = 3 THEN x.id[1] <= n + 1
                           ELSE \E p \in B : p.id = Front(x.id)
  BY <1>9, <1>12, <1>13 DEF Distinct
<1> HIDE DEF W
<1>18. Distinct(n + 1, B, W)
  BY <1>14, <1>15, <1>16, <1>17 DEF Distinct
<1> QED BY <1>4, <1>7, <1>11, <1>18 DEF ds, W

-----------------------------------------------------------------------------
(* What holds of a resolver's assertions: e is its environment, o is open, *)
(* Q waits, S are the expressions its cache repeats; T is yet to resolve   *)
(* in this pass.  J and K are what the resolver it works for holds.        *)

\* The assertions that wait in the items of Q.
Asked(Q) == UNION {ToSet(q.ids) : q \in Q}

\* The assertions not forgotten.
Held(e, o, Q, T, J) == DOMAIN e.asn \cup Asked(Q) \cup ToSet(o) \cup T \cup J

\* The assertions of the calls among the first n nodes of the tree.
Visited(n) == UNION {ToSet(Declared(tree[i].assns, i, 0)) : i \in 1 .. n}

\* One of es binds v to val, unless that is any type.
Binds(es, v, val) == val = AnyType \/ \E e \in es : e.bound[v] = val

\* Each choice for q fits each assertion that waits for it, in an environment
\* that was made before e.
ItemFits(L, e, q) ==
  /\ q = Item(q.sat, q.ids) /\ IsSeq(q.ids) /\ q.ids # << >>
  /\ \A d \in ToSet(q.ids) : d.var \in Var
  /\ \A s \in q.sat :
       /\ EnvFits(L, s.env) /\ DOMAIN s.env.asn \subseteq DOMAIN e.asn
       /\ Needs(s.expr.subs, q.ids[1]) /\ s.expr.impl \in L
       /\ \A d \in ToSet(q.ids) : /\ s.expr.impl.fn = d.fn
                                  /\ Binds({s.env, e}, d.var, s.expr.impl.val)

\* What is needed by what is bound, or may be, is held.
Kept(e, Q, S, H) ==
  /\ Owes(e) \subseteq H
  /\ \A q \in Q : \A s \in q.sat : Owes(s.env) \subseteq H
  /\ \A x \in S : ToSet(x.subs) \subseteq H

\* No two of these meet.
Apart(A, B, C, D) ==
  /\ A \cap B = {} /\ A \cap C = {} /\ A \cap D = {}
  /\ B \cap C = {} /\ B \cap D = {} /\ C \cap D = {}

\* What is held is in one place, fits, and misses no assertion of n nodes.
Sound(L, n, e, o, Q, S, T, J, K) ==
  /\ EnvFits(L, e)
  /\ IsSeq(o) /\ IsInjective(o)
  /\ \A q \in Q : ItemFits(L, e, q)
  /\ \A p, q \in Q : p = q \/ ToSet(p.ids) \cap ToSet(q.ids) = {}
  /\ Kept(e, Q, S, Held(e, o, Q, T, J))
  /\ Apart(Asked(Q), ToSet(o), T, K)
  /\ Distinct(n, DOMAIN e.asn, Asked(Q) \cup ToSet(o) \cup T \cup K)
  /\ Visited(n) \subseteq Held(e, o, Q, T, J)

\* The choices for what waits go on fitting as the environment grows.
LEMMA ItemsGrow ==
  ASSUME ConstsFit, NEW L, LibFits(L), NEW e, NEW f, EnvFits(L, e), EnvFits(L, f),
         Grew(e, f), NEW q, ItemFits(L, e, q)
  PROVE  ItemFits(L, f, q)
<1>1. ASSUME NEW s \in q.sat, NEW d \in ToSet(q.ids),
             Binds({s.env, e}, d.var, s.expr.impl.val)
      PROVE  Binds({s.env, f}, d.var, s.expr.impl.val)
  <2>1. s.expr.impl.val \in Val \cup {AnyType} /\ d.var \in Var
    BY DEF ItemFits, LibFits
  <2>2. CASE s.expr.impl.val = AnyType \/ s.env.bound[d.var] = s.expr.impl.val
    BY <2>2 DEF Binds
  <2>3. CASE e.bound[d.var] = s.expr.impl.val /\ s.expr.impl.val \in Val
    <3>1. f.bound[d.var] = s.expr.impl.val
      BY <2>1, <2>3, GrewFits
    <3> QED BY <3>1 DEF Binds
  <2> QED BY <1>1, <2>1, <2>2, <2>3 DEF Binds
<1>2. DOMAIN e.asn \subseteq DOMAIN f.asn
  BY DEF Grew
<1> QED BY <1>1, <1>2 DEF ItemFits

\* ids have been bound, which no longer wait; subs are open for it.
LEMMA SoundBound ==
  ASSUME ConstsFit, NEW L, LibFits(L), NEW n \in Nat,
         NEW e, NEW o, NEW Q, NEW S, NEW T, NEW J, NEW K,
         Sound(L, n, e, o, Q, S, T, J, K),
         NEW P \in SUBSET Q, NEW V \in SUBSET T, NEW ids,
         Asked(P) \cup V = (Asked(Q) \cup T) \ ids,
         ids \subseteq Asked(Q) \cup T, NEW h \in ids, NEW subs, Needs(subs, h),
         NEW f, EnvFits(L, f), Grew(e, f), DOMAIN f.asn = DOMAIN e.asn \cup ids,
         Owes(f) \subseteq Held(e, o, Q, T, J) \cup ToSet(subs)
  PROVE  /\ Sound(L, n, f, o \o subs, P, S, V, J, K)
         /\ ToSet(subs) \subseteq Held(f, o \o subs, P, V, J)
<1> DEFINE B == DOMAIN e.asn
           U == Asked(Q) \cup ToSet(o) \cup T \cup K
           H == Held(e, o, Q, T, J)
           G == Held(f, o \o subs, P, V, J)
<1>1. /\ Apart(Asked(Q), ToSet(o), T, K) /\ Distinct(n, B, U)
      /\ IsSeq(o) /\ IsInjective(o) /\ EnvFits(L, e)
  BY DEF Sound
<1>2. ids \in SUBSET U
  OBVIOUS
<1> HIDE DEF B
<1>3. /\ Distinct(n, B \cup ids, (U \ ids) \cup ToSet(subs))
      /\ ToSet(subs) \cap (B \cup U) = {} /\ IsInjective(subs)
  <2> HIDE DEF U
  <2> QED BY <1>1, <1>2, DistinctNeeds
<1>4. ToSet(subs) \cap ToSet(o) = {}
  BY <1>3
<1>5. /\ IsSeq(o \o subs) /\ IsInjective(o \o subs)
      /\ ToSet(o \o subs) = ToSet(o) \cup ToSet(subs)
  BY <1>1, <1>3, <1>4, ConcatIs DEF Needs
<1>6. Asked(P) \subseteq Asked(Q)
  BY DEF Asked
<1>7. Apart(Asked(P), ToSet(o \o subs), V, K)
  BY <1>1, <1>3, <1>5, <1>6 DEF Apart
<1>8. (U \ ids) \cup ToSet(subs) = Asked(P) \cup ToSet(o \o subs) \cup V \cup K
  BY <1>1, <1>5 DEF Apart
<1>9. Distinct(n, DOMAIN f.asn, Asked(P) \cup ToSet(o \o subs) \cup V \cup K)
  <2> HIDE DEF U
  <2>1. DOMAIN f.asn = B \cup ids
    BY DEF B
  <2> QED BY <2>1, <1>3, <1>8
<1>10. H \subseteq G /\ ToSet(subs) \subseteq G
  BY <1>5 DEF Held
<1>11. Kept(f, P, S, G)
  <2>1. Kept(e, Q, S, H)
    BY DEF Sound
  <2> HIDE DEF G, U
  <2> QED BY <2>1, <1>10 DEF Kept
<1>12. \A q \in P : ItemFits(L, f, q)
  <2> TAKE q \in P
  <2>1. ItemFits(L, e, q)
    BY DEF Sound
  <2> QED BY <2>1, <1>1, ItemsGrow
<1>13. \A p, q \in P : p = q \/ ToSet(p.ids) \cap ToSet(q.ids) = {}
  BY DEF Sound
<1> QED BY <1>5, <1>7, <1>9, <1>10, <1>11, <1>12, <1>13 DEF Sound

\* d has been made to wait, for r, with what waited for P.
LEMMA SoundAsked ==
  ASSUME ConstsFit, NEW L, LibFits(L), NEW n \in Nat,
         NEW e, NEW o, NEW Q, NEW S, NEW T, NEW J, NEW K,
         Sound(L, n, e, o, Q, S, T, J, K),
         NEW d \in T, NEW P \in SUBSET Q, NEW r, ItemFits(L, e, r),
         ToSet(r.ids) = Asked(P) \cup {d},
         \A s \in r.sat : Owes(s.env) \subseteq Held(e, o, Q, T, J)
  PROVE  /\ Sound(L, n, e, o, (Q \ P) \cup {r}, S, T \ {d}, J, K)
         /\ r \notin Q
<1> DEFINE R == (Q \ P) \cup {r}
           V == T \ {d}
<1>1. /\ Apart(Asked(Q), ToSet(o), T, K)
      /\ Distinct(n, DOMAIN e.asn, Asked(Q) \cup ToSet(o) \cup T \cup K)
      /\ \A p, q \in Q : p = q \/ ToSet(p.ids) \cap ToSet(q.ids) = {}
  BY DEF Sound
<1>2. Asked(R) = Asked(Q) \cup {d}
  <2>1. ASSUME NEW x \in Asked(R) PROVE x \in Asked(Q) \cup {d}
    BY <2>1 DEF Asked
  <2>2. ASSUME NEW x \in Asked(Q) PROVE x \in Asked(R)
    <3>1. PICK q \in Q : x \in ToSet(q.ids)
      BY <2>2 DEF Asked
    <3>2. CASE q \in P
      BY <3>1, <3>2 DEF Asked
    <3>3. CASE q \notin P
      BY <3>1, <3>3 DEF Asked
    <3> QED BY <3>2, <3>3
  <2>3. d \in Asked(R)
    BY DEF Asked
  <2> QED BY <2>1, <2>2, <2>3
<1>3. d \notin Asked(Q) /\ d \notin ToSet(o) /\ d \notin K
  BY <1>1 DEF Apart
<1>4. r \notin Q
  BY <1>3 DEF Asked
<1>5. Apart(Asked(R), ToSet(o), V, K)
  <2> HIDE DEF R
  <2> QED BY <1>1, <1>2, <1>3 DEF Apart
<1>6. Asked(R) \cup ToSet(o) \cup V \cup K = Asked(Q) \cup ToSet(o) \cup T \cup K
  <2> HIDE DEF R
  <2> QED BY <1>2
<1>7. Held(e, o, R, V, J) = Held(e, o, Q, T, J)
  <2> HIDE DEF R
  <2> QED BY <1>2 DEF Held
<1>8. Kept(e, R, S, Held(e, o, Q, T, J))
  BY DEF Sound, Kept
<1>9. \A q \in R : ItemFits(L, e, q)
  BY DEF Sound
<1>10. \A q \in Q \ P : ToSet(q.ids) \cap ToSet(r.ids) = {}
  <2> TAKE q \in Q \ P
  <2>1. \A p \in P : ToSet(p.ids) \cap ToSet(q.ids) = {}
    BY <1>1
  <2>2. ToSet(q.ids) \cap Asked(P) = {}
    BY <2>1 DEF Asked
  <2>3. d \notin ToSet(q.ids)
    BY <1>3 DEF Asked
  <2> QED BY <2>2, <2>3
<1>11. \A p, q \in R : p = q \/ ToSet(p.ids) \cap ToSet(q.ids) = {}
  BY <1>1, <1>10
<1> HIDE DEF R, V
<1>12. Sound(L, n, e, o, R, S, V, J, K)
  <2>1. EnvFits(L, e) /\ IsSeq(o) /\ IsInjective(o)
    BY DEF Sound
  <2> QED BY <2>1, <1>1, <1>5, <1>6, <1>7, <1>8, <1>9, <1>11 DEF Sound
<1> QED BY <1>4, <1>12 DEF R, V

\* The environments of the choices for Q have been merged.
LEMMA SoundChosen ==
  ASSUME ConstsFit, NEW L, LibFits(L), NEW n \in Nat,
         NEW e, NEW o, NEW Q, NEW S, NEW T, NEW J, NEW K,
         Sound(L, n, e, o, Q, S, T, J, K),
         NEW c, \A q \in Q : c[q] \in q.sat /\ Agree(e, c[q].env),
         \A p, q \in Q : Agree(c[p].env, c[q].env)
  PROVE  LET f == Union({e} \cup {c[q].env : q \in Q})
         IN /\ Sound(L, n, f, o, Q, S, T, J, K)
            /\ Grew(e, f) /\ DOMAIN f.asn = DOMAIN e.asn
            /\ \A q \in Q : Grew(c[q].env, f)
<1> DEFINE es == {e} \cup {c[q].env : q \in Q}
           f == Union(es)
<1>1. \A x \in es : x = e \/ \E q \in Q : x = c[q].env
  OBVIOUS
<1>2. \A q \in Q : /\ c[q] \in q.sat /\ ItemFits(L, e, q) /\ EnvFits(L, c[q].env)
                   /\ DOMAIN c[q].env.asn \subseteq DOMAIN e.asn
  BY DEF Sound, ItemFits
<1>3. \A x, y : Agree(x, y) => Agree(y, x)
  BY DEF Agree
<1>4. Agree(e, e)
  BY DEF Agree
<1>5. EnvFits(L, e)
  BY DEF Sound
<1>6. \A x \in es : EnvFits(L, x) /\ DOMAIN x.asn \subseteq DOMAIN e.asn
  BY <1>1, <1>2, <1>5
<1>7. \A x, y \in es : Agree(x, y)
  <2> TAKE x, y \in es
  <2>1. CASE x = e
    BY <2>1, <1>1, <1>4
  <2>2. CASE \E p \in Q : x = c[p].env
    BY <2>2, <1>1, <1>3
  <2> QED BY <2>1, <2>2, <1>1
<1>8. e \in es /\ \A q \in Q : c[q].env \in es
  OBVIOUS
<1> HIDE DEF es
<1>9. /\ EnvFits(L, f) /\ DOMAIN f.asn = UNION {DOMAIN x.asn : x \in es}
      /\ Owes(f) \subseteq UNION {Owes(x) : x \in es}
      /\ \A x \in es : Grew(x, f)
  BY <1>6, <1>7, UnionFits
<1>10. DOMAIN f.asn = DOMAIN e.asn
  <2> HIDE DEF f
  <2> QED BY <1>6, <1>8, <1>9
<1> HIDE DEF f
<1>11. \A q \in Q : ItemFits(L, f, q)
  <2> TAKE q \in Q
  <2> QED BY <1>2, <1>5, <1>8, <1>9, ItemsGrow
<1>12. Held(f, o, Q, T, J) = Held(e, o, Q, T, J)
  BY <1>10 DEF Held
<1>13. Kept(f, Q, S, Held(e, o, Q, T, J))
  <2> DEFINE H == Held(e, o, Q, T, J)
  <2>1. Kept(e, Q, S, H)
    BY DEF Sound
  <2> HIDE DEF H
  <2>2. \A x \in es : Owes(x) \subseteq H
    BY <1>1, <1>2, <2>1 DEF Kept
  <2>3. Owes(f) \subseteq H
    BY <2>2, <1>9
  <2> QED BY <2>1, <2>3 DEF Kept, H
<1>14. Sound(L, n, f, o, Q, S, T, J, K)
  BY <1>9, <1>10, <1>11, <1>12, <1>13 DEF Sound
<1> QED BY <1>8, <1>9, <1>10, <1>14 DEF f, es

\* The next pass is over what is open.
LEMMA SoundDeeper ==
  ASSUME NEW L, NEW n, NEW e, NEW o, NEW Q, NEW S, NEW J, NEW K,
         Sound(L, n, e, o, Q, S, {}, J, K)
  PROVE  Sound(L, n, e, << >>, Q, S, ToSet(o), J, K)
<1>1. IsSeq(<< >>) /\ IsInjective(<< >>) /\ ToSet(<< >>) = {}
  BY EmptyIs
<1>2. Held(e, << >>, Q, ToSet(o), J) = Held(e, o, Q, {}, J)
  BY <1>1 DEF Held
<1>3. Apart(Asked(Q), ToSet(<< >>), ToSet(o), K)
  BY <1>1 DEF Sound, Apart
<1>4. Asked(Q) \cup ToSet(<< >>) \cup ToSet(o) \cup K
        = Asked(Q) \cup ToSet(o) \cup {} \cup K
  BY <1>1
<1> QED BY <1>1, <1>2, <1>3, <1>4 DEF Sound

-----------------------------------------------------------------------------
(* What resolveWithType() finds.                                           *)

\* An interpretation made by resolveWithType() binds no more than the class of
\* its assertion, and needs what its function declares.
LEMMA InterpretFits ==
  ASSUME ConstsFit, NEW L, LibFits(L), NEW e, EnvFits(L, e),
         NEW d, d.var \in Var, NEW impl \in Usable(L, d, e)
  PROVE  LET s == Interpret(impl, d, e)
         IN /\ EnvFits(L, s.env) /\ Grew(e, s.env)
            /\ s.env = Bind(e, d.var, impl.val)
            /\ s.env.asn = e.asn /\ Owes(s.env) = Owes(e)
            /\ s.expr.impl = impl /\ impl \in L /\ impl.fn = d.fn
            /\ Needs(s.expr.subs, d)
            /\ impl.val \in Val \cup {AnyType}
            /\ impl.val = AnyType \/ e.bound[d.var] \in {Free, impl.val}
            /\ impl.val \in {AnyType, s.env.bound[d.var]}
<1> DEFINE s == Interpret(impl, d, e)
           k == Len(impl.needs)
<1>1. /\ impl \in L /\ impl.fn = d.fn
      /\ impl.val = AnyType \/ e.bound[d.var] \in {Free, impl.val}
  BY DEF Usable
<1>2. impl.val \in Val \cup {AnyType} /\ IsSeq(impl.needs)
  BY <1>1 DEF LibFits
<1>3. /\ s.env = Bind(e, d.var, impl.val) /\ s.expr.impl = impl
      /\ s.expr.subs = [i \in 1 .. k |->
                          Assertion(impl.needs[i], d.var, Append(d.id, i))]
  BY DEF Interpret
<1>4. k \in Nat
  BY <1>2, SeqIs
<1> HIDE DEF s, k
<1>5. s.expr.subs \in [1 .. k -> {s.expr.subs[i] : i \in 1 .. k}]
  BY <1>3
<1>6. IsSeq(s.expr.subs) /\ Len(s.expr.subs) = k
  BY <1>4, <1>5, MapIsSeq
<1>7. \A i \in 1 .. k : /\ s.expr.subs[i].id = Append(d.id, i)
                        /\ s.expr.subs[i].var = d.var
  <2> TAKE i \in 1 .. k
  <2>1. s.expr.subs[i] = Assertion(impl.needs[i], d.var, Append(d.id, i))
    BY <1>3
  <2> QED BY <2>1 DEF Assertion
<1>8. Needs(s.expr.subs, d)
  BY <1>6, <1>7 DEF Needs
<1>9. /\ EnvFits(L, s.env) /\ Grew(e, s.env) /\ s.env.asn = e.asn
      /\ Owes(s.env) = Owes(e) /\ impl.val \in {AnyType, s.env.bound[d.var]}
  <2> DEFINE b == Bind(e, d.var, impl.val)
  <2>1. /\ EnvFits(L, b) /\ Grew(e, b) /\ b.asn = e.asn
        /\ Owes(b) = Owes(e) /\ impl.val \in {AnyType, b.bound[d.var]}
    <3> DEFINE v == d.var
               val == impl.val
    <3>1. /\ v \in Var /\ val \in Val \cup {AnyType}
          /\ val = AnyType \/ e.bound[v] \in {Free, val}
      BY <1>1, <1>2
    <3> HIDE DEF v, val
    <3>2. /\ EnvFits(L, Bind(e, v, val)) /\ Grew(e, Bind(e, v, val))
          /\ Bind(e, v, val).asn = e.asn
          /\ Owes(Bind(e, v, val)) = Owes(e)
          /\ val \in {AnyType, Bind(e, v, val).bound[v]}
      BY <3>1, BindFits
    <3> QED BY <3>2 DEF v, val
  <2> QED BY <2>1, <1>3
<1>10. /\ EnvFits(L, s.env) /\ Grew(e, s.env)
       /\ s.env = Bind(e, d.var, impl.val)
       /\ s.env.asn = e.asn /\ Owes(s.env) = Owes(e)
       /\ s.expr.impl = impl /\ impl \in L /\ impl.fn = d.fn
       /\ Needs(s.expr.subs, d)
       /\ impl.val \in Val \cup {AnyType}
       /\ impl.val = AnyType \/ e.bound[d.var] \in {Free, impl.val}
       /\ impl.val \in {AnyType, s.env.bound[d.var]}
  BY <1>1, <1>2, <1>3, <1>8, <1>9
<1> QED BY <1>10 DEF s

\* The cheapest of each type, in groups; in several groups there are several.
LEMMA FoundIs ==
  ASSUME NEW L, LibFits(L), NEW d, NEW e
  PROVE  LET found == Satisfying(L, d, e)
         IN /\ IsFiniteSet(found) /\ IsFiniteSet(UNION found)
            /\ \A g \in found :
                 /\ IsFiniteSet(g) /\ g # {}
                 /\ \A s \in g : \E impl \in Usable(L, d, e) : s = Interpret(impl, d, e)
            /\ found # {} /\ Cardinality(found) # 1
                 => \E x, y \in UNION found : x # y
<1> DEFINE us == Usable(L, d, e)
           best(x) == {y \in us : TypeOf(y) = TypeOf(x)
                        /\ \A z \in us : TypeOf(z) = TypeOf(x) => y.cost <= z.cost}
           group(x) == {Interpret(y, d, e) : y \in best(x)}
           found == Satisfying(L, d, e)
           all == {Interpret(y, d, e) : y \in us}
<1>1. us \subseteq L /\ IsFiniteSet(us)
  <2>1. us \subseteq L
    BY DEF Usable
  <2> QED BY <2>1, FS_Subset DEF LibFits
<1>2. found = {group(x) : x \in us}
  BY DEF Satisfying
<1> HIDE DEF us
<1>3. IsFiniteSet(all)
  <2> DEFINE F == [y \in us |-> Interpret(y, d, e)]
  <2>1. all = {F[y] : y \in us}
    OBVIOUS
  <2> HIDE DEF F, all
  <2> QED BY <2>1, <1>1, ImageFinite
<1>4. \A x \in us : group(x) \subseteq all
  OBVIOUS
<1>5. \A x \in us : best(x) # {}
  <2> TAKE x \in us
  <2> DEFINE C == {y.cost : y \in {z \in us : TypeOf(z) = TypeOf(x)}}
  <2>1. C \in SUBSET Nat /\ x.cost \in C
    BY <1>1 DEF LibFits
  <2>2. PICK m \in C : \A y \in C : m <= y
    <3> HIDE DEF C
    <3> QED BY <2>1, LeastNat
  <2>3. PICK y \in us : TypeOf(y) = TypeOf(x) /\ y.cost = m
    OBVIOUS
  <2>4. \A z \in us : TypeOf(z) = TypeOf(x) => y.cost <= z.cost
    BY <2>2, <2>3
  <2> QED BY <2>3, <2>4
<1> HIDE DEF found
<1>6. IsFiniteSet(found)
  <2> DEFINE F == [x \in us |-> group(x)]
  <2>1. found = {F[x] : x \in us}
    BY <1>2
  <2> HIDE DEF F
  <2> QED BY <2>1, <1>1, ImageFinite
<1>7. ASSUME NEW g \in found
      PROVE  /\ IsFiniteSet(g) /\ g # {} /\ g \subseteq all
  <2>1. PICK x \in us : g = group(x)
    BY <1>2, <1>7
  <2>2. g \subseteq all
    BY <2>1, <1>4
  <2>3. PICK y : y \in best(x)
    BY <1>5
  <2>4. Interpret(y, d, e) \in g
    BY <2>1, <2>3
  <2> QED BY <2>2, <2>4, <1>3, FS_Subset
<1>8. UNION found \subseteq all
  BY <1>7
<1>9. IsFiniteSet(UNION found)
  BY <1>8, <1>3, FS_Subset
<1>10. ASSUME found # {}, \A x, y \in UNION found : x = y
       PROVE  Cardinality(found) = 1
  <2>1. PICK g : g \in found
    BY <1>10
  <2>2. \A f \in found : f = g
    <3> SUFFICES ASSUME NEW f \in found PROVE f = g
      OBVIOUS
    <3>1. PICK x : x \in f
      BY <1>7
    <3>2. PICK y : y \in g
      BY <1>7, <2>1
    <3>3. \A z \in f : z = x
      BY <3>1, <1>10
    <3>4. \A z \in g : z = x
      BY <3>1, <2>1, <1>10
    <3> QED BY <3>1, <3>2, <3>3, <3>4
  <2>3. found = {g}
    BY <2>1, <2>2
  <2> QED BY <2>3, FS_Singleton
<1>11. \A s \in all : \E impl \in us : s = Interpret(impl, d, e)
  OBVIOUS
<1> HIDE DEF all
<1>12. \A g \in found : \A s \in g : \E impl \in us : s = Interpret(impl, d, e)
  BY <1>7, <1>11
<1> QED BY <1>6, <1>7, <1>9, <1>10, <1>12 DEF found, us

-----------------------------------------------------------------------------
(* Resolvers                                                               *)

\* r is a resolver.
Shaped(r) ==
  /\ r = [env |-> r.env, open |-> r.open, depth |-> r.depth, cache |-> r.cache,
          keys |-> r.keys, deferred |-> r.deferred, ambiguous |-> r.ambiguous,
          inner |-> r.inner, alts |-> r.alts, left |-> r.left, out |-> r.out]
  /\ IsFiniteSet(r.deferred) /\ IsFiniteSet(r.keys)

\* A key with several choices is deferred, and no two are one item; any other has
\* one choice.
Tidy(r) ==
  /\ r.keys \subseteq DOMAIN r.cache
  /\ \A k \in r.keys : /\ IsFiniteSet(r.cache[k].sat)
                       /\ \E x, y \in r.cache[k].sat : x # y
                       /\ r.cache[k] \notin r.deferred
  /\ \A k, l \in r.keys : r.cache[k] = r.cache[l] => k = l
  /\ \A k \in DOMAIN r.cache \ r.keys : \E s : r.cache[k].sat = {s}

\* x fits the assertions with the key k, once es are merged.
Answers(L, k, x, es) ==
  /\ x.impl \in L /\ x.impl.fn = k[1]
  /\ \/ x.impl.val \in {AnyType, k[2]}
     \/ k[2] \in Var /\ Binds(es, k[2], x.impl.val)

\* The cached choices answer their keys, those of a deferred key in an
\* environment that its choice brings.
KeysFit(L, r) ==
  \A k \in DOMAIN r.cache : \A s \in r.cache[k].sat :
    Answers(L, k, s.expr, IF k \in r.keys THEN {s.env, r.env} ELSE {r.env})

\* The expressions that the cache repeats: those of the keys not deferred.
Singles(r) == {s.expr : s \in UNION {r.cache[k].sat : k \in DOMAIN r.cache \ r.keys}}

\* The resolver r is right, with T to resolve in this pass.
Right(L, n, r, T, J, K) ==
  /\ Shaped(r) /\ Tidy(r) /\ KeysFit(L, r)
  /\ Sound(L, n, r.env, r.open, Queues(r), Singles(r), T, J, K)

\* What a pass leaves alone.
Steady(r, b) ==
  b.left = r.left /\ b.inner = r.inner /\ b.ambiguous = r.ambiguous

\* An answer for a key stays one as the environments grow.
LEMMA AnswersOn ==
  ASSUME ConstsFit, NEW L, LibFits(L), NEW k, NEW x, NEW es, NEW fs,
         \A e \in es : EnvFits(L, e) /\ \E f \in fs : EnvFits(L, f) /\ Grew(e, f),
         Answers(L, k, x, es)
  PROVE  Answers(L, k, x, fs)
<1>1. x.impl.val \in Val \cup {AnyType}
  BY DEF Answers, LibFits
<1>2. CASE x.impl.val \in {AnyType, k[2]}
  BY <1>2 DEF Answers
<1>3. CASE x.impl.val \in Val /\ k[2] \in Var
           /\ \E e \in es : e.bound[k[2]] = x.impl.val
  <2>1. PICK e \in es : e.bound[k[2]] = x.impl.val
    BY <1>3
  <2>2. PICK f \in fs : EnvFits(L, f) /\ Grew(e, f)
    OBVIOUS
  <2>3. f.bound[k[2]] = x.impl.val
    BY <1>3, <2>1, <2>2, GrewFits
  <2> QED BY <1>3, <2>3 DEF Answers, Binds
<1> QED BY <1>1, <1>2, <1>3 DEF Answers, Binds

\* An answer for the key of d fits d.
LEMMA KeyFits ==
  ASSUME ConstsFit, NEW L, LibFits(L), NEW e, EnvFits(L, e), NEW d, d.var \in Var,
         NEW x, NEW es, Answers(L, Key(d, e), x, es)
  PROVE  x.impl \in L /\ x.impl.fn = d.fn /\ Binds(es \cup {e}, d.var, x.impl.val)
<1> DEFINE k == Key(d, e)
<1>1. k[1] = d.fn /\ k[2] = IF e.bound[d.var] = Free THEN d.var ELSE e.bound[d.var]
  BY DEF Key
<1>2. x.impl \in L /\ x.impl.val \in Val \cup {AnyType} /\ x.impl.fn = d.fn
  BY <1>1 DEF Answers, LibFits
<1>3. e.bound[d.var] \in Val \cup {Free}
  BY DEF EnvFits
<1>4. CASE e.bound[d.var] = Free
  <2>1. k[2] = d.var
    BY <1>1, <1>4
  <2> QED BY <2>1, <1>2 DEF Answers, Binds, ConstsFit
<1>5. CASE e.bound[d.var] \in Val
  <2>1. k[2] = e.bound[d.var] /\ k[2] \notin Var
    BY <1>1, <1>5 DEF ConstsFit
  <2> QED BY <2>1, <1>2 DEF Answers, Binds
<1> QED BY <1>2, <1>3, <1>4, <1>5

\* What is found for d answers its key.
LEMMA FoundAnswers ==
  ASSUME ConstsFit, NEW L, LibFits(L), NEW e, EnvFits(L, e), NEW d, d.var \in Var,
         NEW impl \in Usable(L, d, e)
  PROVE  LET s == Interpret(impl, d, e) IN Answers(L, Key(d, e), s.expr, {s.env})
<1> DEFINE s == Interpret(impl, d, e)
           k == Key(d, e)
<1>1. k[1] = d.fn /\ k[2] = IF e.bound[d.var] = Free THEN d.var ELSE e.bound[d.var]
  BY DEF Key
<1>2. /\ s.expr.impl = impl /\ impl \in L /\ impl.fn = d.fn
      /\ impl.val = AnyType \/ e.bound[d.var] \in {Free, impl.val}
      /\ impl.val \in {AnyType, s.env.bound[d.var]}
  BY InterpretFits
<1> HIDE DEF s, k
<1>3. Answers(L, k, s.expr, {s.env})
  <2>1. CASE e.bound[d.var] = Free
    BY <1>1, <1>2, <2>1 DEF Answers, Binds
  <2>2. CASE e.bound[d.var] # Free
    BY <1>1, <1>2, <2>2 DEF Answers
  <2> QED BY <2>1, <2>2
<1> QED BY <1>3 DEF s, k

-----------------------------------------------------------------------------
(* Resolving an assertion                                                  *)

\* The cached answers go on fitting as the environment grows.
LEMMA KeysGrow ==
  ASSUME ConstsFit, NEW L, LibFits(L), NEW n, NEW r, NEW T, NEW J, NEW K,
         Right(L, n, r, T, J, K), NEW b, b.cache = r.cache, b.keys = r.keys,
         EnvFits(L, b.env), Grew(r.env, b.env)
  PROVE  KeysFit(L, b)
<1> SUFFICES ASSUME NEW k \in DOMAIN r.cache, NEW s \in r.cache[k].sat
             PROVE  Answers(L, k, s.expr,
                            IF k \in r.keys THEN {s.env, b.env} ELSE {b.env})
  BY DEF KeysFit
<1>1. EnvFits(L, r.env)
  BY DEF Right, Sound
<1>2. Answers(L, k, s.expr, IF k \in r.keys THEN {s.env, r.env} ELSE {r.env})
  BY DEF Right, KeysFit
<1>3. CASE k \in r.keys
  <2>1. r.cache[k] \in Queues(r)
    BY <1>3 DEF Queues
  <2>2. EnvFits(L, s.env)
    BY <2>1 DEF Right, Sound, ItemFits
  <2>3. Grew(s.env, s.env)
    BY DEF Grew
  <2>4. \A e \in {s.env, r.env} :
          EnvFits(L, e) /\ \E f \in {s.env, b.env} : EnvFits(L, f) /\ Grew(e, f)
    BY <1>1, <2>2, <2>3
  <2>5. Answers(L, k, s.expr, {s.env, r.env})
    BY <1>2, <1>3
  <2>6. Answers(L, k, s.expr, {s.env, b.env})
    BY <2>4, <2>5, AnswersOn
  <2> QED BY <2>6, <1>3
<1>4. CASE k \notin r.keys
  <2>1. \A e \in {r.env} :
          EnvFits(L, e) /\ \E f \in {b.env} : EnvFits(L, f) /\ Grew(e, f)
    BY <1>1
  <2>2. Answers(L, k, s.expr, {r.env})
    BY <1>2, <1>4
  <2>3. Answers(L, k, s.expr, {b.env})
    BY <2>1, <2>2, AnswersOn
  <2> QED BY <2>3, <1>4
<1> QED BY <1>3, <1>4

\* Tidiness is of the cache, its keys and the deferred items only.
LEMMA TidyStays ==
  ASSUME NEW r, NEW b, Tidy(r), b.cache = r.cache, b.keys = r.keys,
         b.deferred = r.deferred
  PROVE  Tidy(b)
<1>1. \A k \in r.keys : /\ IsFiniteSet(r.cache[k].sat)
                        /\ \E x, y \in r.cache[k].sat : x # y
                        /\ r.cache[k] \notin r.deferred
  BY DEF Tidy
<1>2. \A k, l \in r.keys : r.cache[k] = r.cache[l] => k = l
  BY DEF Tidy
<1>3. /\ r.keys \subseteq DOMAIN r.cache
      /\ \A k \in DOMAIN r.cache \ r.keys : \E s : r.cache[k].sat = {s}
  BY DEF Tidy
<1> QED BY <1>1, <1>2, <1>3 DEF Tidy

\* b defers q, too, which is not one of those with a key.
Defers(r, q, b) ==
  /\ b.cache = r.cache /\ b.keys = r.keys /\ b.deferred = r.deferred \cup {q}
  /\ \A k \in r.keys : r.cache[k] # q

\* Deferring an item without a key keeps the cache tidy.
LEMMA TidyDefers ==
  ASSUME NEW r, NEW b, Tidy(r), NEW q, Defers(r, q, b)
  PROVE  Tidy(b)
<1>0. /\ b.cache = r.cache /\ b.keys = r.keys /\ b.deferred = r.deferred \cup {q}
      /\ \A k \in r.keys : r.cache[k] # q
  BY DEF Defers
<1>1. \A k \in r.keys : /\ IsFiniteSet(r.cache[k].sat)
                        /\ \E x, y \in r.cache[k].sat : x # y
                        /\ r.cache[k] \notin r.deferred
  BY DEF Tidy
<1>2. \A k \in r.keys : r.cache[k] \notin b.deferred
  BY <1>0, <1>1
<1>3. \A k, l \in r.keys : r.cache[k] = r.cache[l] => k = l
  BY DEF Tidy
<1>4. /\ r.keys \subseteq DOMAIN r.cache
      /\ \A k \in DOMAIN r.cache \ r.keys : \E s : r.cache[k].sat = {s}
  BY DEF Tidy
<1>5. \A k \in b.keys : IsFiniteSet(b.cache[k].sat)
  BY <1>0, <1>1
<1>6. \A k \in b.keys : \E x, y \in b.cache[k].sat : x # y
  BY <1>0, <1>1
<1>7. \A k \in b.keys : b.cache[k] \notin b.deferred
  BY <1>0, <1>2
<1>8. \A k, l \in b.keys : b.cache[k] = b.cache[l] => k = l
  BY <1>0, <1>3
<1>9. /\ b.keys \subseteq DOMAIN b.cache
      /\ \A k \in DOMAIN b.cache \ b.keys : \E s : b.cache[k].sat = {s}
  BY <1>0, <1>4
<1> HIDE <1>1, <1>2, <1>3, <1>4
<1> QED BY <1>5, <1>6, <1>7, <1>8, <1>9 DEF Tidy

\* r with subs open and the environment f.
Opened(r, subs, f) == [r EXCEPT !.open = r.open \o subs, !.env = f]

\* d has been bound, and its expression's assertions opened.
LEMMA RightBound ==
  ASSUME ConstsFit, NEW L, LibFits(L), NEW n \in Nat, NEW r, NEW T, NEW J, NEW K,
         Right(L, n, r, T, J, K), NEW d \in T, NEW subs, Needs(subs, d),
         NEW f, EnvFits(L, f), Grew(r.env, f),
         DOMAIN f.asn = DOMAIN r.env.asn \cup {d},
         Owes(f) \subseteq Held(r.env, r.open, Queues(r), T, J) \cup ToSet(subs),
         NEW b, b = Opened(r, subs, f)
  PROVE  /\ Right(L, n, b, T \ {d}, J, K)
         /\ ToSet(subs) \subseteq Held(b.env, b.open, Queues(b), T \ {d}, J)
<1>1. /\ Shaped(r) /\ Tidy(r)
      /\ Sound(L, n, r.env, r.open, Queues(r), Singles(r), T, J, K)
  BY DEF Right
<1>2. /\ Shaped(b) /\ b.env = f /\ b.open = r.open \o subs /\ b.cache = r.cache
      /\ b.keys = r.keys /\ b.deferred = r.deferred
  BY <1>1 DEF Shaped, Opened
<1>3. Queues(b) = Queues(r) /\ Singles(b) = Singles(r) /\ Tidy(b)
  <2>1. Queues(b) = Queues(r)
    BY <1>2 DEF Queues
  <2>2. Singles(b) = Singles(r)
    BY <1>2 DEF Singles
  <2>3. Tidy(b)
    BY <1>1, <1>2, TidyStays
  <2> QED BY <2>1, <2>2, <2>3
<1>4. KeysFit(L, b)
  <2>1. EnvFits(L, b.env) /\ Grew(r.env, b.env)
    BY <1>2
  <2> QED BY <2>1, <1>2, KeysGrow
<1>5. Asked(Queues(r)) \cap T = {}
  BY <1>1 DEF Sound, Apart
<1> DEFINE Q == Queues(r)
           V == T \ {d}
<1>6. /\ Sound(L, n, f, r.open \o subs, Q, Singles(r), V, J, K)
      /\ ToSet(subs) \subseteq Held(f, r.open \o subs, Q, V, J)
  <2>1. Asked(Q) \cup V = (Asked(Q) \cup T) \ {d}
    BY <1>5
  <2>2. Q \in SUBSET Q /\ V \in SUBSET T /\ {d} \subseteq Asked(Q) \cup T /\ d \in {d}
    OBVIOUS
  <2> HIDE DEF Q, V
  <2> QED BY <1>1, <2>1, <2>2, SoundBound DEF Q
<1> QED BY <1>2, <1>3, <1>4, <1>6 DEF Right

\* A failed resolver has failed.
LEMMA FailedIs ==
  ASSUME NEW r, Shaped(r)
  PROVE  Failed(r).out = "failed"
BY DEF Failed, Shaped

\* b is r with d bound to the match in g, the only one.
Matched(L, n, r, d, g, b, T, J, K) ==
  \/ b.out = "failed"
  \/ /\ b.out = "running" /\ b.depth = r.depth
     /\ Right(L, n, b, T \ {d}, J, K) /\ Grew(r.env, b.env) /\ Steady(r, b)
     /\ b.cache = r.cache /\ b.keys = r.keys /\ b.deferred = r.deferred
     /\ \E s : /\ g = {s} /\ Answers(L, Key(d, r.env), s.expr, {b.env})
               /\ ToSet(s.expr.subs)
                    \subseteq Held(b.env, b.open, Queues(b), T \ {d}, J)

\* A match that is the only one is bound, with its environment.
LEMMA UniqueProceeds ==
  ASSUME ConstsFit, NEW L, LibFits(L), NEW n \in Nat, NEW r, NEW T, NEW J, NEW K,
         Right(L, n, r, T, J, K), r.out = "running", NEW d \in T,
         NEW g \in Satisfying(L, d, r.env), NEW b, b = BindUnique(r, d, g)
  PROVE  Matched(L, n, r, d, g, b, T, J, K)
<1> DEFINE e == r.env
           s == CHOOSE x \in g : TRUE
<1>1. /\ IsFiniteSet(g) /\ g # {}
      /\ \A x \in g : \E impl \in Usable(L, d, e) : x = Interpret(impl, d, e)
  <2>1. g \in Satisfying(L, d, e)
    OBVIOUS
  <2> HIDE DEF e
  <2>2. LET found == Satisfying(L, d, e)
        IN /\ IsFiniteSet(found) /\ IsFiniteSet(UNION found)
           /\ \A h \in found :
                /\ IsFiniteSet(h) /\ h # {}
                /\ \A y \in h : \E impl \in Usable(L, d, e) : y = Interpret(impl, d, e)
           /\ found # {} /\ Cardinality(found) # 1
                => \E x, y \in UNION found : x # y
    BY FoundIs
  <2> QED BY <2>1, <2>2
<1>2. PICK impl \in Usable(L, d, e) : s = Interpret(impl, d, e)
  BY <1>1
<1>3. s \in g
  BY <1>1
<1> HIDE DEF s
<1>4. Shaped(r) /\ EnvFits(L, e) /\ d.var \in Var /\ d \notin DOMAIN e.asn
  BY DEF Right, Sound, Distinct
<1>5. /\ EnvFits(L, s.env) /\ Grew(e, s.env)
      /\ s.env = Bind(e, d.var, impl.val)
      /\ s.env.asn = e.asn /\ Owes(s.env) = Owes(e)
      /\ s.expr.impl = impl /\ impl \in L /\ impl.fn = d.fn
      /\ Needs(s.expr.subs, d)
      /\ impl.val \in Val \cup {AnyType}
      /\ impl.val = AnyType \/ e.bound[d.var] \in {Free, impl.val}
      /\ impl.val \in {AnyType, s.env.bound[d.var]}
  BY <1>2, <1>4, InterpretFits
<1>6. Answers(L, Key(d, e), s.expr, {s.env})
  BY <1>2, <1>4, FoundAnswers
<1> DEFINE f == BindAssertion(s.env, d, s.expr)
<1>7. /\ Agree(BindAssertion(e, d, s.expr), s.env)
      /\ Union({BindAssertion(e, d, s.expr), s.env}) = f
  <2> DEFINE v == d.var
             val == impl.val
             x == s.expr
  <2>1. /\ v \in Var /\ val \in Val \cup {AnyType}
        /\ val = AnyType \/ e.bound[v] \in {Free, val}
    BY <1>4, <1>5
  <2> HIDE DEF v, val, x, e
  <2>2. /\ Agree(BindAssertion(e, d, x), Bind(e, v, val))
        /\ Union({BindAssertion(e, d, x), Bind(e, v, val)})
             = BindAssertion(Bind(e, v, val), d, x)
    BY <2>1, <1>4, MatchMerges
  <2>3. s.env = Bind(e, v, val)
    BY <1>5 DEF v, val
  <2> QED BY <2>2, <2>3 DEF x
<1>8. /\ EnvFits(L, f) /\ Grew(s.env, f) /\ DOMAIN f.asn = DOMAIN e.asn \cup {d}
      /\ Owes(f) \subseteq Owes(e) \cup ToSet(s.expr.subs)
  <2>1. \A c \in {d} : Fits(L, c, s.expr, s.env)
    BY <1>4, <1>5 DEF Fits
  <2>2. LET h == BindAssertions(s.env, {d}, s.expr)
        IN /\ EnvFits(L, h) /\ Grew(s.env, h)
           /\ DOMAIN h.asn = DOMAIN s.env.asn \cup {d}
           /\ Owes(h) \subseteq Owes(s.env) \cup ToSet(s.expr.subs)
    BY <2>1, <1>5, AsnFits
  <2> QED BY <2>2, <1>5 DEF BindAssertion
<1>9. CASE Cardinality(g) > 1 \/ ~CanBind(r, s.expr)
  <2>1. b = Failed(r)
    <3>1. BindRecursive(r, d, s.expr) = Failed(r) \/ Cardinality(g) > 1
      BY <1>9 DEF BindRecursive
    <3>2. Failed(r).out = "failed"
      BY <1>4, FailedIs
    <3> QED BY <3>1, <3>2 DEF BindUnique, s
  <2>2. b.out = "failed"
    BY <2>1, <1>4, FailedIs
  <2> QED BY <2>2 DEF Matched
<1>10. CASE ~(Cardinality(g) > 1) /\ CanBind(r, s.expr)
  <2> DEFINE b1 == BindRecursive(r, d, s.expr)
  <2>1. b1 = [r EXCEPT !.open = r.open \o s.expr.subs,
                       !.env = BindAssertion(e, d, s.expr)]
    BY <1>10 DEF BindRecursive
  <2>2. b1.env = BindAssertion(e, d, s.expr) /\ b1.out = "running"
    BY <2>1, <1>4 DEF Shaped
  <2>3. b = MergeMatch(b1, s)
    BY <1>10, <2>2 DEF BindUnique, s
  <2>4. b = [b1 EXCEPT !.env = f]
    <3> HIDE DEF b1, f
    <3> QED BY <2>2, <2>3, <1>7 DEF MergeMatch
  <2>5. b = [r EXCEPT !.open = r.open \o s.expr.subs, !.env = f]
    <3> HIDE DEF f
    <3> QED BY <2>1, <2>4, <1>4 DEF Shaped
  <2> HIDE DEF b1, f
  <2>6. /\ b.env = f /\ b.out = "running" /\ b.depth = r.depth /\ Steady(r, b)
        /\ b.cache = r.cache /\ b.keys = r.keys /\ b.deferred = r.deferred
    BY <2>5, <1>4 DEF Shaped, Steady
  <2>7. Grew(e, f)
    BY <1>5, <1>8, GrewOn
  <2>8. Owes(f) \subseteq Held(e, r.open, Queues(r), T, J) \cup ToSet(s.expr.subs)
    BY <1>8 DEF Right, Sound, Kept
  <2>9. /\ Right(L, n, b, T \ {d}, J, K)
        /\ ToSet(s.expr.subs) \subseteq Held(b.env, b.open, Queues(b), T \ {d}, J)
    <3> DEFINE subs == s.expr.subs
    <3>1. /\ Needs(subs, d) /\ EnvFits(L, f) /\ Grew(r.env, f)
          /\ DOMAIN f.asn = DOMAIN r.env.asn \cup {d}
          /\ Owes(f) \subseteq Held(r.env, r.open, Queues(r), T, J) \cup ToSet(subs)
          /\ b = Opened(r, subs, f)
      BY <1>5, <1>8, <2>5, <2>7, <2>8 DEF Opened
    <3> HIDE DEF subs, e
    <3>2. /\ Right(L, n, b, T \ {d}, J, K)
          /\ ToSet(subs) \subseteq Held(b.env, b.open, Queues(b), T \ {d}, J)
      BY <3>1, RightBound
    <3> QED BY <3>2 DEF subs
  <2>10. g = {s}
    <3>1. Cardinality(g) \in Nat /\ Cardinality(g) # 0
      BY <1>1, FS_CardinalityType, FS_EmptySet
    <3>2. Cardinality(g) = 1
      BY <3>1, <1>10
    <3> QED BY <3>2, <1>1, <1>3, FS_Singleton
  <2>11. Answers(L, Key(d, e), s.expr, {f})
    <3>1. \A x \in {s.env} : EnvFits(L, x) /\ \E y \in {f} : EnvFits(L, y) /\ Grew(x, y)
      BY <1>5, <1>8
    <3> QED BY <3>1, <1>6, AnswersOn
  <2> QED BY <2>6, <2>7, <2>9, <2>10, <2>11 DEF Matched
<1> QED BY <1>9, <1>10

\* Binding the only match makes a resolver.
LEMMA UniqueShaped ==
  ASSUME NEW r, Shaped(r), NEW d, NEW g
  PROVE  Shaped(BindUnique(r, d, g))
<1> DEFINE s == CHOOSE x \in g : TRUE
           b == BindRecursive(r, d, s.expr)
<1>4. Shaped(Failed(r))
  BY DEF Failed, Shaped
<1>1. Shaped(b) /\ Shaped(Failed(r))
  <2>1. CASE ~ CanBind(r, s.expr)
    BY <2>1, <1>4 DEF BindRecursive
  <2>2. CASE CanBind(r, s.expr)
    <3> DEFINE x == s.expr
               o == r.open \o x.subs
               f == BindAssertion(r.env, d, x)
    <3>1. b = [r EXCEPT !.open = o, !.env = f]
      BY <2>2 DEF BindRecursive
    <3> HIDE DEF b, o, f
    <3>2. Shaped(b)
      BY <3>1 DEF Shaped
    <3> QED BY <3>2, <1>4
  <2> QED BY <2>1, <2>2
<1>2. BindUnique(r, d, g) \in {Failed(r), b, MergeMatch(b, s)}
  BY DEF BindUnique
<1> HIDE DEF b, s
<1>3. Shaped(MergeMatch(b, s))
  BY <1>1 DEF MergeMatch, Shaped
<1> QED BY <1>1, <1>2, <1>3

\* b is r with d resolved, unless that failed.
Resolved(L, n, r, b, T, J, K) ==
  \/ b.out = "failed"
  \/ /\ b.out = "running" /\ b.depth = r.depth
     /\ Right(L, n, b, T, J, K) /\ Grew(r.env, b.env) /\ Steady(r, b)

\* q is an item that waits for d, with several choices.
Several(L, d, e, sat, q) ==
  /\ ItemFits(L, e, q) /\ q.sat = sat /\ ToSet(q.ids) = {d}
  /\ IsFiniteSet(sat) /\ \E x, y \in sat : x # y
  /\ \A s \in sat : /\ Owes(s.env) = Owes(e)
                    /\ Answers(L, Key(d, e), s.expr, {s.env, e})

\* An item made of what was found for d.
LEMMA ItemIs ==
  ASSUME ConstsFit, NEW L, LibFits(L), NEW e, EnvFits(L, e), NEW d, d.var \in Var,
         Satisfying(L, d, e) # {}, Cardinality(Satisfying(L, d, e)) # 1,
         NEW sat, sat = UNION Satisfying(L, d, e), NEW q, q = Item(sat, <<d>>)
  PROVE  Several(L, d, e, sat, q)
<1> DEFINE found == Satisfying(L, d, e)
<1>1. /\ IsFiniteSet(found) /\ IsFiniteSet(UNION found)
      /\ \A h \in found :
           /\ IsFiniteSet(h) /\ h # {}
           /\ \A y \in h : \E impl \in Usable(L, d, e) : y = Interpret(impl, d, e)
      /\ found # {} /\ Cardinality(found) # 1
           => \E x, y \in UNION found : x # y
  BY FoundIs
<1>2. /\ found # {} /\ Cardinality(found) # 1 /\ sat = UNION found
  OBVIOUS
<1> HIDE DEF found
<1>3. IsFiniteSet(sat) /\ \E x, y \in sat : x # y
  BY <1>1, <1>2
<1>4. /\ q.sat = sat /\ q.ids = <<d>> /\ q = Item(q.sat, q.ids)
      /\ IsSeq(q.ids) /\ q.ids # << >> /\ ToSet(q.ids) = {d} /\ q.ids[1] = d
  BY OneIs DEF Item
<1>5. ASSUME NEW s \in sat
      PROVE  /\ EnvFits(L, s.env) /\ s.env.asn = e.asn /\ Owes(s.env) = Owes(e)
             /\ Needs(s.expr.subs, d) /\ s.expr.impl \in L /\ s.expr.impl.fn = d.fn
             /\ Binds({s.env, e}, d.var, s.expr.impl.val)
             /\ Answers(L, Key(d, e), s.expr, {s.env, e})
  <2>1. PICK impl \in Usable(L, d, e) : s = Interpret(impl, d, e)
    BY <1>1, <1>2, <1>5
  <2>2. /\ EnvFits(L, s.env) /\ s.env.asn = e.asn /\ Owes(s.env) = Owes(e)
        /\ s.expr.impl = impl /\ impl \in L /\ impl.fn = d.fn
        /\ Needs(s.expr.subs, d)
        /\ impl.val \in {AnyType, s.env.bound[d.var]}
    BY <2>1, InterpretFits
  <2>3. Answers(L, Key(d, e), s.expr, {s.env})
    BY <2>1, FoundAnswers
  <2>4. Answers(L, Key(d, e), s.expr, {s.env, e})
    <3>1. \A x \in {s.env} : EnvFits(L, x)
                             /\ \E y \in {s.env, e} : EnvFits(L, y) /\ Grew(x, y)
      BY <2>2 DEF Grew
    <3> DEFINE k == Key(d, e)
               x == s.expr
    <3>2. Answers(L, k, x, {s.env})
      BY <2>3
    <3> HIDE DEF k, x
    <3>3. Answers(L, k, x, {s.env, e})
      BY <3>1, <3>2, AnswersOn
    <3> QED BY <3>3 DEF k, x
  <2> QED BY <2>2, <2>4 DEF Binds
<1>6. ItemFits(L, e, q)
  BY <1>4, <1>5 DEF ItemFits
<1> QED BY <1>3, <1>4, <1>5, <1>6 DEF Several

\* d was found in several ways, and is deferred.
LEMMA DeferProceeds ==
  ASSUME ConstsFit, NEW L, LibFits(L), NEW n \in Nat, NEW r, NEW T, NEW J, NEW K,
         Right(L, n, r, T, J, K), r.out = "running", NEW d \in T,
         Satisfying(L, d, r.env) # {}, Cardinality(Satisfying(L, d, r.env)) # 1,
         NEW b, b = Defer(r, d, UNION Satisfying(L, d, r.env))
  PROVE  Resolved(L, n, r, b, T \ {d}, J, K)
<1> DEFINE e == r.env
           sat == UNION Satisfying(L, d, r.env)
           q == Item(sat, <<d>>)
           Q == Queues(r)
<1>1. Shaped(r) /\ Tidy(r) /\ KeysFit(L, r) /\ EnvFits(L, e) /\ d.var \in Var
      /\ Sound(L, n, e, r.open, Q, Singles(r), T, J, K)
  BY DEF Right, Sound, Distinct
<1>2. /\ ItemFits(L, e, q) /\ q.sat = sat /\ ToSet(q.ids) = {d}
      /\ IsFiniteSet(sat) /\ \E x, y \in sat : x # y
      /\ \A s \in sat : /\ Owes(s.env) = Owes(e)
                        /\ Answers(L, Key(d, e), s.expr, {s.env, e})
  <2>1. q = Item(sat, <<d>>) /\ sat = UNION Satisfying(L, d, e)
    OBVIOUS
  <2>2. Satisfying(L, d, e) # {} /\ Cardinality(Satisfying(L, d, e)) # 1
    OBVIOUS
  <2>3. EnvFits(L, e) /\ d.var \in Var
    BY <1>1
  <2> HIDE DEF q, sat, e
  <2>4. Several(L, d, e, sat, q)
    BY <2>1, <2>2, <2>3, ItemIs
  <2> QED BY <2>4 DEF Several
<1>3. b = [r EXCEPT !.deferred = @ \cup {q}]
  <2> HIDE DEF sat
  <2>1. b = Defer(r, d, sat)
    BY DEF sat
  <2> QED BY <2>1 DEF Defer
<1> HIDE DEF q, sat
<1>4. /\ Shaped(b) /\ b.env = r.env /\ b.open = r.open /\ b.cache = r.cache
      /\ b.keys = r.keys /\ b.deferred = r.deferred \cup {q}
      /\ b.out = r.out /\ b.depth = r.depth /\ Steady(r, b)
  <2>1. /\ b = [b EXCEPT !.out = b.out] /\ b.env = r.env /\ b.open = r.open
        /\ b.cache = r.cache
        /\ b.keys = r.keys /\ b.deferred = r.deferred \cup {q}
        /\ b.out = r.out /\ b.depth = r.depth /\ Steady(r, b)
    BY <1>1, <1>3 DEF Shaped, Steady
  <2>2. IsFiniteSet(r.deferred \cup {q})
    BY <1>1, FS_AddElement DEF Shaped
  <2>3. Shaped(b)
    BY <1>1, <1>3, <2>1, <2>2 DEF Shaped
  <2> QED BY <2>1, <2>3
<1>5. Queues(b) = (Q \ {}) \cup {q} /\ Singles(b) = Singles(r)
  <2>1. Queues(b) = (Q \ {}) \cup {q}
    BY <1>4 DEF Queues
  <2>2. Singles(b) = Singles(r)
    BY <1>4 DEF Singles
  <2> QED BY <2>1, <2>2
<1>6. Sound(L, n, e, r.open, (Q \ {}) \cup {q}, Singles(r), T \ {d}, J, K) /\ q \notin Q
  <2>1. ToSet(q.ids) = Asked({}) \cup {d} /\ {} \in SUBSET Q
    BY <1>2 DEF Asked
  <2>2. \A s \in q.sat : Owes(s.env) \subseteq Held(e, r.open, Q, T, J)
    BY <1>1, <1>2 DEF Sound, Kept
  <2> DEFINE P == {}
  <2>3. ToSet(q.ids) = Asked(P) \cup {d} /\ P \in SUBSET Q
    BY <2>1
  <2> HIDE DEF P, Q, e
  <2>4. Sound(L, n, e, r.open, (Q \ P) \cup {q}, Singles(r), T \ {d}, J, K) /\ q \notin Q
    BY <2>2, <2>3, <1>1, <1>2, SoundAsked
  <2> QED BY <2>4 DEF P
<1>7. Tidy(b)
  <2>1. \A k \in r.keys : r.cache[k] # q
    BY <1>6 DEF Queues
  <2>2. Tidy(r) /\ Defers(r, q, b)
    BY <1>1, <1>4, <2>1 DEF Defers
  <2> HIDE DEF e, Q
  <2> QED BY <2>2, TidyDefers
<1>9. Grew(r.env, b.env)
  BY <1>4 DEF Grew
<1>8. KeysFit(L, b)
  <2>1. EnvFits(L, b.env)
    BY <1>1, <1>4
  <2> QED BY <2>1, <1>4, <1>9, KeysGrow
<1>10. Right(L, n, b, T \ {d}, J, K)
  <2> HIDE DEF Q
  <2> QED BY <1>4, <1>5, <1>6, <1>7, <1>8 DEF Right
<1> QED BY <1>4, <1>9, <1>10 DEF Resolved

\* Resolving without the cache is a right step.
LEMMA FreshProceeds ==
  ASSUME ConstsFit, NEW L, LibFits(L), NEW n \in Nat, NEW r, NEW T, NEW J, NEW K,
         Right(L, n, r, T, J, K), r.out = "running", NEW d \in T,
         NEW b, b = ResolveFresh(r, d, Satisfying(L, d, r.env))
  PROVE  Resolved(L, n, r, b, T \ {d}, J, K)
<1> DEFINE found == Satisfying(L, d, r.env)
<1>1. CASE found = {}
  <2>1. b = Failed(r)
    <3> HIDE DEF found
    <3>1. b = ResolveFresh(r, d, found)
      BY DEF found
    <3>2. Cardinality(found) # 1
      BY <1>1, FS_EmptySet
    <3> QED BY <3>1, <3>2, <1>1 DEF ResolveFresh
  <2>2. Shaped(r)
    BY DEF Right
  <2>3. b.out = "failed"
    BY <2>1, <2>2, FailedIs
  <2> QED BY <2>3 DEF Resolved
<1>2. CASE found # {} /\ Cardinality(found) = 1
  <2> DEFINE g == CHOOSE x \in found : TRUE
  <2>1. g \in found
    BY <1>2
  <2>2. b = BindUnique(r, d, g)
    <3> HIDE DEF found
    <3>1. b = ResolveFresh(r, d, found)
      BY DEF found
    <3> QED BY <3>1, <1>2 DEF ResolveFresh
  <2> HIDE DEF g, found
  <2>4. g \in Satisfying(L, d, r.env)
    BY <2>1 DEF found
  <2>3. Matched(L, n, r, d, g, b, T, J, K)
    BY <2>4, <2>2, UniqueProceeds
  <2> QED BY <2>3 DEF Matched, Resolved
<1>3. CASE found # {} /\ Cardinality(found) # 1
  <2>1. b = Defer(r, d, UNION found)
    <3> HIDE DEF found
    <3>1. b = ResolveFresh(r, d, found)
      BY DEF found
    <3> QED BY <3>1, <1>3 DEF ResolveFresh
  <2> QED BY <2>1, <1>3, DeferProceeds
<1> QED BY <1>1, <1>2, <1>3

-----------------------------------------------------------------------------
(* Resolving an assertion, with the cache                                  *)

\* Caching an item changes the cache at its key, and nothing else.
LEMMA CachedIs ==
  ASSUME NEW r, Shaped(r), NEW key, NEW item, NEW b, b = Cached(r, key, item)
  PROVE  /\ Shaped(b) /\ b.env = r.env /\ b.open = r.open /\ b.depth = r.depth
         /\ b.keys = r.keys /\ b.deferred = r.deferred /\ b.out = r.out
         /\ Steady(r, b)
         /\ DOMAIN b.cache = DOMAIN r.cache \cup {key} /\ b.cache[key] = item
         /\ \A k \in DOMAIN r.cache : k = key \/ b.cache[k] = r.cache[k]
<1>1. b = [r EXCEPT !.cache = With(r.cache, {key}, item)]
  BY DEF Cached
<1>2. /\ Shaped(b) /\ b.env = r.env /\ b.open = r.open /\ b.depth = r.depth
      /\ b.keys = r.keys /\ b.deferred = r.deferred /\ b.out = r.out
      /\ Steady(r, b) /\ b.cache = With(r.cache, {key}, item)
  BY <1>1 DEF Shaped, Steady
<1>3. /\ DOMAIN b.cache = DOMAIN r.cache \cup {key} /\ b.cache[key] = item
      /\ \A k \in DOMAIN r.cache : k = key \/ b.cache[k] = r.cache[k]
  BY <1>2 DEF With
<1> QED BY <1>2, <1>3

\* A cached expression may have its assertions held already.
LEMMA SoundKnown ==
  ASSUME NEW L, NEW n, NEW e, NEW o, NEW Q, NEW S, NEW T, NEW J, NEW K,
         Sound(L, n, e, o, Q, S, T, J, K),
         NEW x, ToSet(x.subs) \subseteq Held(e, o, Q, T, J)
  PROVE  Sound(L, n, e, o, Q, S \cup {x}, T, J, K)
<1> DEFINE H == Held(e, o, Q, T, J)
<1>1. Kept(e, Q, S, H)
  BY DEF Sound
<1>2. Kept(e, Q, S \cup {x}, H)
  BY <1>1 DEF Kept
<1> QED BY <1>2 DEF Sound

\* The expressions of the keys that are not deferred, spelled out.
LEMMA SinglesAre ==
  ASSUME NEW r
  PROVE  \A x : x \in Singles(r) <=>
           \E k \in DOMAIN r.cache \ r.keys : \E t \in r.cache[k].sat : x = t.expr
<1> DEFINE D == DOMAIN r.cache \ r.keys
           c == r.cache
           A == UNION {c[k].sat : k \in D}
<1>1. Singles(r) = {t.expr : t \in A}
  BY DEF Singles
<1>2. \A t : t \in A <=> \E k \in D : t \in c[k].sat
  <2> HIDE DEF D, c
  <2> QED OBVIOUS
<1> HIDE DEF A
<1>3. \A x : x \in Singles(r) <=> \E t \in A : x = t.expr
  BY <1>1
<1> HIDE DEF D, c
<1>4. \A x : x \in Singles(r) <=> \E k \in D : \E t \in c[k].sat : x = t.expr
  BY <1>2, <1>3
<1> QED BY <1>4 DEF D, c

SingleAt(r, k, x) ==
  k \in DOMAIN r.cache \ r.keys /\ \E t \in r.cache[k].sat : x = t.expr

\* Each is that of a key.
LEMMA SinglesIn ==
  ASSUME NEW r, NEW x \in Singles(r)
  PROVE  \E k : SingleAt(r, k, x)
BY SinglesAre DEF SingleAt

\* A resolution is cached.
LEMMA RightCached ==
  ASSUME NEW L, NEW n, NEW r, NEW T, NEW J, NEW K, Right(L, n, r, T, J, K),
         NEW key, key \notin DOMAIN r.cache,
         NEW s, Answers(L, key, s.expr, {r.env}),
         ToSet(s.expr.subs) \subseteq Held(r.env, r.open, Queues(r), T, J),
         NEW b, b = Cached(r, key, Item({s}, << >>))
  PROVE  Right(L, n, b, T, J, K)
<1>1. /\ Shaped(r) /\ Tidy(r) /\ KeysFit(L, r)
      /\ Sound(L, n, r.env, r.open, Queues(r), Singles(r), T, J, K)
  BY DEF Right
<1>2. /\ Shaped(b) /\ b.env = r.env /\ b.open = r.open
      /\ b.keys = r.keys /\ b.deferred = r.deferred
      /\ DOMAIN b.cache = DOMAIN r.cache \cup {key}
      /\ b.cache[key] = Item({s}, << >>)
      /\ \A k \in DOMAIN r.cache : b.cache[k] = r.cache[k]
  BY <1>1, CachedIs
<1>3. b.cache[key].sat = {s}
  BY <1>2 DEF Item
<1>4. r.keys \subseteq DOMAIN r.cache /\ key \notin r.keys
  BY <1>1 DEF Tidy
<1>5. \A k \in r.keys : b.cache[k] = r.cache[k]
  BY <1>2, <1>4
<1>6. Queues(b) = Queues(r)
  <2>1. {b.cache[k] : k \in b.keys} = {r.cache[k] : k \in r.keys}
    <3>1. ASSUME NEW y \in {b.cache[k] : k \in b.keys}
          PROVE  y \in {r.cache[k] : k \in r.keys}
      <4>1. PICK k \in b.keys : y = b.cache[k]
        BY <3>1
      <4>2. k \in r.keys /\ y = r.cache[k]
        BY <4>1, <1>2, <1>5
      <4> QED BY <4>2
    <3>2. ASSUME NEW y \in {r.cache[k] : k \in r.keys}
          PROVE  y \in {b.cache[k] : k \in b.keys}
      <4>1. PICK k \in r.keys : y = r.cache[k]
        BY <3>2
      <4>2. k \in b.keys /\ y = b.cache[k]
        BY <4>1, <1>2, <1>5
      <4> QED BY <4>2
    <3> QED BY <3>1, <3>2
  <2>2. /\ Queues(b) = b.deferred \cup {b.cache[k] : k \in b.keys}
        /\ Queues(r) = r.deferred \cup {r.cache[k] : k \in r.keys}
    BY DEF Queues
  <2> QED BY <2>1, <2>2, <1>2
<1> DEFINE D == DOMAIN r.cache \ r.keys
<1>7. DOMAIN b.cache \ b.keys = D \cup {key} /\ \A k \in D : b.cache[k] = r.cache[k]
  BY <1>2, <1>4
<1>8. Singles(b) = Singles(r) \cup {s.expr}
  <2>1. ASSUME NEW x \in Singles(b) PROVE x \in Singles(r) \cup {s.expr}
    <3> HIDE DEF D
    <3>5. PICK k : SingleAt(b, k, x)
      BY <2>1, SinglesIn
    <3>1. k \in DOMAIN b.cache \ b.keys /\ \E t \in b.cache[k].sat : x = t.expr
      BY <3>5 DEF SingleAt
    <3>2. CASE k = key
      BY <3>1, <3>2, <1>3
    <3>3. CASE k \in D
      <4>1. b.cache[k] = r.cache[k]
        BY <3>3, <1>7
      <4>2. x \in Singles(r)
        BY <3>1, <3>3, <4>1, SinglesAre DEF D
      <4> QED BY <4>2
    <3>4. k = key \/ k \in D
      BY <3>1, <1>7
    <3> QED BY <3>2, <3>3, <3>4
  <2>2. ASSUME NEW x \in Singles(r) PROVE x \in Singles(b)
    <3>1. PICK k \in D : \E t \in r.cache[k].sat : x = t.expr
      BY <2>2, SinglesAre
    <3>2. b.cache[k] = r.cache[k] /\ k \in DOMAIN b.cache \ b.keys
      BY <1>7
    <3> QED BY <3>1, <3>2, SinglesAre
  <2>3. s.expr \in Singles(b)
    BY <1>3, <1>7, SinglesAre
  <2> QED BY <2>1, <2>2, <2>3
<1>9. Sound(L, n, r.env, r.open, Queues(r), Singles(b), T, J, K)
  <2> DEFINE x == s.expr
             S == Singles(r)
             e == r.env
             o == r.open
             Q == Queues(r)
  <2>1. Sound(L, n, e, o, Q, S, T, J, K) /\ ToSet(x.subs) \subseteq Held(e, o, Q, T, J)
    BY <1>1
  <2> HIDE DEF x, S, e, o, Q
  <2>2. Sound(L, n, e, o, Q, S \cup {x}, T, J, K)
    BY <2>1, SoundKnown
  <2> QED BY <2>2, <1>8 DEF x, S, e, o, Q
<1>10. Tidy(b)
  <2>1. b.keys \subseteq DOMAIN b.cache
    BY <1>2, <1>4
  <2>2. \A k \in b.keys : b.cache[k] = r.cache[k] /\ k \in r.keys
    BY <1>2, <1>5
  <2>3. \A k \in b.keys : /\ IsFiniteSet(b.cache[k].sat)
                          /\ \E x, y \in b.cache[k].sat : x # y
                          /\ b.cache[k] \notin b.deferred
    <3>1. \A k \in r.keys : /\ IsFiniteSet(r.cache[k].sat)
                            /\ \E x, y \in r.cache[k].sat : x # y
                            /\ r.cache[k] \notin r.deferred
      BY <1>1 DEF Tidy
    <3>2. \A k \in b.keys : IsFiniteSet(b.cache[k].sat)
      BY <3>1, <2>2
    <3>3. ASSUME NEW k \in b.keys PROVE \E x, y \in b.cache[k].sat : x # y
      <4>1. b.cache[k] = r.cache[k] /\ k \in r.keys
        BY <2>2
      <4>2. \E x, y \in r.cache[k].sat : x # y
        BY <4>1, <3>1
      <4> QED BY <4>1, <4>2
    <3>4. \A k \in b.keys : b.cache[k] \notin b.deferred
      BY <3>1, <2>2, <1>2
    <3> QED BY <3>2, <3>3, <3>4
  <2>4. \A k, l \in b.keys : b.cache[k] = b.cache[l] => k = l
    <3>1. \A k, l \in r.keys : r.cache[k] = r.cache[l] => k = l
      BY <1>1 DEF Tidy
    <3> QED BY <3>1, <2>2
  <2>5. \A k \in DOMAIN b.cache \ b.keys : \E t : b.cache[k].sat = {t}
    <3>1. \A k \in D : \E t : r.cache[k].sat = {t}
      BY <1>1 DEF Tidy
    <3> HIDE DEF D
    <3> TAKE k \in DOMAIN b.cache \ b.keys
    <3>2. CASE k = key
      BY <3>2, <1>3
    <3>3. CASE k \in D
      BY <3>1, <3>3, <1>7
    <3> QED BY <3>2, <3>3, <1>7
  <2> QED BY <2>1, <2>3, <2>4, <2>5 DEF Tidy
<1>11. KeysFit(L, b)
  <2> SUFFICES ASSUME NEW k \in DOMAIN b.cache, NEW t \in b.cache[k].sat
               PROVE  Answers(L, k, t.expr, IF k \in b.keys THEN {t.env, b.env}
                                            ELSE {b.env})
    BY DEF KeysFit
  <2>1. CASE k = key
    BY <2>1, <1>2, <1>3, <1>4
  <2>2. CASE k \in DOMAIN r.cache
    <3>1. t \in r.cache[k].sat
      BY <2>2, <1>2
    <3>2. Answers(L, k, t.expr, IF k \in r.keys THEN {t.env, r.env} ELSE {r.env})
      BY <2>2, <3>1, <1>1 DEF KeysFit
    <3> QED BY <3>2, <1>2
  <2> QED BY <2>1, <2>2, <1>2
<1> QED BY <1>2, <1>6, <1>9, <1>10, <1>11 DEF Right

\* d was found in several ways, and is deferred with its key.
LEMMA DeferKeyed ==
  ASSUME ConstsFit, NEW L, LibFits(L), NEW n \in Nat, NEW r, NEW T, NEW J, NEW K,
         Right(L, n, r, T, J, K), r.out = "running", NEW d \in T,
         NEW found, found = Satisfying(L, d, r.env), found # {},
         Cardinality(found) # 1,
         NEW key, key = Key(d, r.env), key \notin DOMAIN r.cache,
         NEW b, b = [Cached(r, key, Item(UNION found, <<d>>)) EXCEPT
                       !.keys = @ \cup {key}]
  PROVE  Resolved(L, n, r, b, T \ {d}, J, K)
<1> DEFINE e == r.env
           sat == UNION found
           q == Item(sat, <<d>>)
           Q == Queues(r)
           c == Cached(r, key, q)
<1>1. Shaped(r) /\ Tidy(r) /\ KeysFit(L, r) /\ EnvFits(L, e) /\ d.var \in Var
      /\ Sound(L, n, e, r.open, Q, Singles(r), T, J, K)
  BY DEF Right, Sound, Distinct
<1>2. /\ ItemFits(L, e, q) /\ q.sat = sat /\ ToSet(q.ids) = {d}
      /\ IsFiniteSet(sat) /\ \E x, y \in sat : x # y
      /\ \A s \in sat : /\ Owes(s.env) = Owes(e)
                        /\ Answers(L, key, s.expr, {s.env, e})
  <2>1. q = Item(sat, <<d>>) /\ sat = UNION Satisfying(L, d, e)
    OBVIOUS
  <2>2. Satisfying(L, d, e) # {} /\ Cardinality(Satisfying(L, d, e)) # 1
    OBVIOUS
  <2>3. EnvFits(L, e) /\ d.var \in Var
    BY <1>1
  <2>5. key = Key(d, e)
    OBVIOUS
  <2> HIDE DEF q, sat, e, c
  <2>4. Several(L, d, e, sat, q)
    BY <2>1, <2>2, <2>3, ItemIs
  <2> QED BY <2>4, <2>5 DEF Several
<1> HIDE DEF q, sat
<1>3. b = [c EXCEPT !.keys = @ \cup {key}]
  BY DEF q, sat
<1>4. /\ Shaped(c) /\ c.env = e /\ c.open = r.open /\ c.depth = r.depth
      /\ c.keys = r.keys /\ c.deferred = r.deferred /\ c.out = r.out
      /\ Steady(r, c)
      /\ DOMAIN c.cache = DOMAIN r.cache \cup {key} /\ c.cache[key] = q
      /\ \A k \in DOMAIN r.cache : c.cache[k] = r.cache[k]
  BY <1>1, CachedIs
<1> HIDE DEF c
<1>5. /\ Shaped(b) /\ b.env = e /\ b.open = r.open /\ b.depth = r.depth
      /\ b.keys = r.keys \cup {key} /\ b.deferred = r.deferred /\ b.out = r.out
      /\ Steady(r, b)
      /\ DOMAIN b.cache = DOMAIN r.cache \cup {key} /\ b.cache[key] = q
      /\ \A k \in DOMAIN r.cache : b.cache[k] = r.cache[k]
  <2>1. IsFiniteSet(c.keys \cup {key})
    BY <1>4, FS_AddElement DEF Shaped
  <2>2. /\ b.env = c.env /\ b.open = c.open /\ b.depth = c.depth
        /\ b.keys = c.keys \cup {key} /\ b.deferred = c.deferred /\ b.out = c.out
        /\ b.cache = c.cache /\ b.left = c.left /\ b.inner = c.inner
        /\ b.ambiguous = c.ambiguous /\ b = [c EXCEPT !.keys = c.keys \cup {key}]
    BY <1>3, <1>4 DEF Shaped
  <2>3. Shaped(b)
    BY <1>4, <2>1, <2>2 DEF Shaped
  <2>4. Steady(r, b)
    BY <1>4, <2>2 DEF Steady
  <2> QED BY <1>4, <2>2, <2>3, <2>4
<1>6. r.keys \subseteq DOMAIN r.cache
  BY <1>1 DEF Tidy
<1>7. \A k \in r.keys : b.cache[k] = r.cache[k]
  BY <1>5, <1>6
<1>8. Queues(b) = (Q \ {}) \cup {q}
  <2>1. ASSUME NEW y \in Queues(b) PROVE y \in Q \cup {q}
    <3>1. CASE y \in b.deferred
      BY <3>1, <1>5 DEF Queues
    <3>2. CASE \E k \in b.keys : y = b.cache[k]
      <4>1. PICK k \in b.keys : y = b.cache[k]
        BY <3>2
      <4>2. CASE k = key
        BY <4>1, <4>2, <1>5
      <4>3. CASE k \in r.keys
        BY <4>1, <4>3, <1>7 DEF Queues
      <4> QED BY <4>2, <4>3, <1>5
    <3> QED BY <2>1, <3>1, <3>2 DEF Queues
  <2>2. ASSUME NEW y \in Q PROVE y \in Queues(b)
    <3>1. CASE y \in r.deferred
      BY <3>1, <1>5 DEF Queues
    <3>2. CASE \E k \in r.keys : y = r.cache[k]
      <4>1. PICK k \in r.keys : y = r.cache[k]
        BY <3>2
      <4>2. k \in b.keys /\ b.cache[k] = y
        BY <4>1, <1>5, <1>7
      <4> QED BY <4>2 DEF Queues
    <3> QED BY <2>2, <3>1, <3>2 DEF Queues
  <2>3. q \in Queues(b)
    BY <1>5 DEF Queues
  <2> HIDE DEF Q
  <2> QED BY <2>1, <2>2, <2>3
<1>9. Singles(b) = Singles(r)
  <2>1. DOMAIN b.cache \ b.keys = DOMAIN r.cache \ r.keys
    BY <1>5
  <2>2. ASSUME NEW x \in Singles(b) PROVE x \in Singles(r)
    <3>1. PICK k : SingleAt(b, k, x)
      BY <2>2, SinglesIn
    <3>2. /\ k \in DOMAIN r.cache \ r.keys /\ b.cache[k] = r.cache[k]
          /\ \E t \in r.cache[k].sat : x = t.expr
      BY <3>1, <2>1, <1>5 DEF SingleAt
    <3> QED BY <3>2, SinglesAre
  <2>3. ASSUME NEW x \in Singles(r) PROVE x \in Singles(b)
    <3>1. PICK k : SingleAt(r, k, x)
      BY <2>3, SinglesIn
    <3>2. /\ k \in DOMAIN b.cache \ b.keys
          /\ \E t \in b.cache[k].sat : x = t.expr
      BY <3>1, <2>1, <1>5 DEF SingleAt
    <3> QED BY <3>2, SinglesAre
  <2> QED BY <2>2, <2>3
<1>10. Sound(L, n, e, r.open, (Q \ {}) \cup {q}, Singles(r), T \ {d}, J, K) /\ q \notin Q
  <2>1. ToSet(q.ids) = Asked({}) \cup {d} /\ {} \in SUBSET Q
    BY <1>2 DEF Asked
  <2>2. \A s \in q.sat : Owes(s.env) \subseteq Held(e, r.open, Q, T, J)
    BY <1>1, <1>2 DEF Sound, Kept
  <2> DEFINE P == {}
  <2>3. ToSet(q.ids) = Asked(P) \cup {d} /\ P \in SUBSET Q
    BY <2>1
  <2> HIDE DEF P, Q, e
  <2>4. Sound(L, n, e, r.open, (Q \ P) \cup {q}, Singles(r), T \ {d}, J, K) /\ q \notin Q
    BY <2>2, <2>3, <1>1, <1>2, SoundAsked
  <2> QED BY <2>4 DEF P
<1>11. \A k \in r.keys : r.cache[k] # q
  BY <1>10 DEF Queues
<1>12. q \notin r.deferred
  BY <1>10 DEF Queues
<1>13. Tidy(b)
  <2>1. \A k \in b.keys : k = key \/ k \in r.keys
    BY <1>5
  <2>2. ASSUME NEW k \in b.keys
        PROVE  /\ IsFiniteSet(b.cache[k].sat)
               /\ \E x, y \in b.cache[k].sat : x # y
               /\ b.cache[k] \notin b.deferred
    <3>1. CASE k = key
      BY <3>1, <1>2, <1>5, <1>12
    <3>2. CASE k \in r.keys
      <4>1. /\ IsFiniteSet(r.cache[k].sat)
            /\ \E x, y \in r.cache[k].sat : x # y
            /\ r.cache[k] \notin r.deferred
        BY <3>2, <1>1 DEF Tidy
      <4> QED BY <4>1, <3>2, <1>5, <1>7
    <3> QED BY <2>1, <3>1, <3>2
  <2>3. ASSUME NEW k \in b.keys, NEW l \in b.keys, b.cache[k] = b.cache[l] PROVE k = l
    <3>1. CASE k = key /\ l \in r.keys
      BY <2>3, <3>1, <1>5, <1>7, <1>11
    <3>2. CASE l = key /\ k \in r.keys
      BY <2>3, <3>2, <1>5, <1>7, <1>11
    <3>3. CASE k \in r.keys /\ l \in r.keys
      <4>1. r.cache[k] = r.cache[l]
        BY <2>3, <3>3, <1>7
      <4> QED BY <4>1, <3>3, <1>1 DEF Tidy
    <3> QED BY <2>1, <3>1, <3>2, <3>3
  <2>4. ASSUME NEW k \in DOMAIN b.cache \ b.keys PROVE \E s : b.cache[k].sat = {s}
    <3>1. k \in DOMAIN r.cache \ r.keys /\ b.cache[k] = r.cache[k]
      BY <1>5
    <3>2. \E s : r.cache[k].sat = {s}
      BY <3>1, <1>1 DEF Tidy
    <3> QED BY <3>1, <3>2
  <2>5. b.keys \subseteq DOMAIN b.cache
    BY <1>5, <1>6
  <2> QED BY <2>2, <2>3, <2>4, <2>5 DEF Tidy
<1>14. KeysFit(L, b)
  <2> SUFFICES ASSUME NEW k \in DOMAIN b.cache, NEW t \in b.cache[k].sat
               PROVE  Answers(L, k, t.expr, IF k \in b.keys THEN {t.env, b.env}
                                            ELSE {b.env})
    BY DEF KeysFit
  <2>1. CASE k = key
    BY <2>1, <1>2, <1>5
  <2>2. CASE k \in DOMAIN r.cache
    <3>1. t \in r.cache[k].sat /\ (k \in r.keys <=> k \in b.keys)
      BY <2>2, <1>5
    <3>2. Answers(L, k, t.expr, IF k \in r.keys THEN {t.env, r.env} ELSE {r.env})
      BY <2>2, <3>1, <1>1 DEF KeysFit
    <3> QED BY <3>1, <3>2, <1>5
  <2> QED BY <2>1, <2>2, <1>5
<1>15. Right(L, n, b, T \ {d}, J, K)
  <2> HIDE DEF Q
  <2> QED BY <1>5, <1>8, <1>9, <1>10, <1>13, <1>14 DEF Right
<1>16. Grew(r.env, b.env)
  BY <1>5 DEF Grew
<1> QED BY <1>5, <1>15, <1>16 DEF Resolved

\* Resolving an assertion whose key is new is a right step.
LEMMA FirstProceeds ==
  ASSUME ConstsFit, NEW L, LibFits(L), NEW n \in Nat, NEW r, NEW T, NEW J, NEW K,
         Right(L, n, r, T, J, K), r.out = "running", NEW d \in T,
         NEW key, key = Key(d, r.env), key \notin DOMAIN r.cache,
         NEW b, b = ResolveFirst(r, d, key, Satisfying(L, d, r.env))
  PROVE  Resolved(L, n, r, b, T \ {d}, J, K)
<1> DEFINE found == Satisfying(L, d, r.env)
<1>1. b = ResolveFirst(r, d, key, found) /\ Shaped(r)
  BY DEF Right
<1>2. found = Satisfying(L, d, r.env)
  OBVIOUS
<1> HIDE DEF found
<1>3. CASE found = {}
  <2>1. Cardinality(found) # 1
    BY <1>3, FS_EmptySet
  <2> DEFINE c == Cached(r, key, Item({}, << >>))
  <2>2. b = Failed(c)
    BY <1>1, <1>3, <2>1 DEF ResolveFirst
  <2>3. Shaped(c)
    BY <1>1, CachedIs
  <2> HIDE DEF c
  <2>4. b.out = "failed"
    BY <2>2, <2>3, FailedIs
  <2> QED BY <2>4 DEF Resolved
<1>4. CASE found # {} /\ Cardinality(found) = 1
  <2> DEFINE g == CHOOSE x \in found : TRUE
             m == BindUnique(r, d, g)
             c == Cached(m, key, Item(IF m.out = "failed" THEN {} ELSE g, << >>))
  <2>1. g \in found
    BY <1>4
  <2>2. b = c
    BY <1>1, <1>4 DEF ResolveFirst
  <2> HIDE DEF g
  <2>3. g \in Satisfying(L, d, r.env) /\ m = BindUnique(r, d, g)
    BY <2>1, <1>2
  <2> HIDE DEF m
  <2>4. Matched(L, n, r, d, g, m, T, J, K) /\ Shaped(m)
    <3>1. Matched(L, n, r, d, g, m, T, J, K)
      BY <2>3, UniqueProceeds
    <3>2. Shaped(m)
      BY <1>1, <2>3, UniqueShaped
    <3> QED BY <3>1, <3>2
  <2>5. c.out = m.out /\ c.depth = m.depth /\ c.env = m.env /\ Steady(m, c)
    BY <2>4, CachedIs
  <2>6. CASE m.out = "failed"
    BY <2>2, <2>5, <2>6 DEF Resolved
  <2>7. CASE m.out # "failed"
    <3>1. /\ m.out = "running" /\ m.depth = r.depth
          /\ Right(L, n, m, T \ {d}, J, K) /\ Grew(r.env, m.env) /\ Steady(r, m)
          /\ m.cache = r.cache /\ m.keys = r.keys /\ m.deferred = r.deferred
      BY <2>4, <2>7 DEF Matched
    <3>2. PICK s : /\ g = {s} /\ Answers(L, key, s.expr, {m.env})
                   /\ ToSet(s.expr.subs)
                        \subseteq Held(m.env, m.open, Queues(m), T \ {d}, J)
      BY <2>4, <2>7 DEF Matched
    <3>3. c = Cached(m, key, Item({s}, << >>))
      BY <2>7, <3>2
    <3>4. key \notin DOMAIN m.cache
      BY <3>1
    <3> HIDE DEF c
    <3> DEFINE V == T \ {d}
    <3>5. /\ Right(L, n, m, V, J, K)
          /\ ToSet(s.expr.subs) \subseteq Held(m.env, m.open, Queues(m), V, J)
      BY <3>1, <3>2
    <3> HIDE DEF V
    <3>6. Right(L, n, c, V, J, K)
      BY <3>2, <3>3, <3>4, <3>5, RightCached
    <3>7. Steady(r, c)
      BY <2>5, <3>1 DEF Steady
    <3> QED BY <2>2, <2>5, <3>1, <3>6, <3>7 DEF Resolved, V
  <2> QED BY <2>6, <2>7
<1>5. CASE found # {} /\ Cardinality(found) # 1
  <2>1. b = [Cached(r, key, Item(UNION found, <<d>>)) EXCEPT !.keys = @ \cup {key}]
    BY <1>1, <1>5 DEF ResolveFirst
  <2> QED BY <2>1, <1>2, <1>5, DeferKeyed
<1> QED BY <1>3, <1>4, <1>5

Repeated(r, d, x) == [r EXCEPT !.env = BindAssertion(@, d, x)]

\* A cached resolution with one expression is repeated.
LEMMA RepeatProceeds ==
  ASSUME ConstsFit, NEW L, LibFits(L), NEW n \in Nat, NEW r, NEW T, NEW J, NEW K,
         Right(L, n, r, T, J, K), r.out = "running", NEW d \in T,
         NEW key, key = Key(d, r.env), key \in DOMAIN r.cache \ r.keys,
         NEW s, r.cache[key].sat = {s},
         NEW b, b = Repeated(r, d, s.expr)
  PROVE  Resolved(L, n, r, b, T \ {d}, J, K)
<1> DEFINE e == r.env
           x == s.expr
           f == BindAssertion(e, d, x)
           subs == << >>
<1>1. /\ Shaped(r) /\ Tidy(r) /\ KeysFit(L, r) /\ EnvFits(L, e) /\ d.var \in Var
      /\ IsSeq(r.open)
      /\ Sound(L, n, e, r.open, Queues(r), Singles(r), T, J, K)
      /\ DOMAIN e.asn \cap T = {}
  BY DEF Right, Sound, Distinct
<1>2. Answers(L, key, x, {e})
  BY <1>1 DEF KeysFit
<1>3. Fits(L, d, x, e)
  <2> HIDE DEF x, e
  <2>1. Answers(L, Key(d, e), x, {e})
    BY <1>2 DEF e
  <2> DEFINE es == {e}
  <2>2. Answers(L, Key(d, e), x, es)
    BY <2>1
  <2> HIDE DEF es
  <2>3. x.impl \in L /\ x.impl.fn = d.fn /\ Binds(es \cup {e}, d.var, x.impl.val)
    BY <2>2, <1>1, KeyFits
  <2>4. x.impl.val \in {AnyType, e.bound[d.var]}
    BY <2>3 DEF Binds, es
  <2> QED BY <2>3, <2>4, <1>1 DEF Fits
<1>4. ToSet(x.subs) \subseteq Held(e, r.open, Queues(r), T, J)
  <2>1. x \in Singles(r)
    BY SinglesAre
  <2> QED BY <2>1, <1>1 DEF Sound, Kept
<1>5. /\ EnvFits(L, f) /\ Grew(e, f) /\ DOMAIN f.asn = DOMAIN e.asn \cup {d}
      /\ Owes(f) \subseteq Owes(e) \cup ToSet(x.subs)
  <2> HIDE DEF x, e
  <2>1. \A c \in {d} : Fits(L, c, x, e)
    BY <1>3
  <2>2. LET h == BindAssertions(e, {d}, x)
        IN /\ EnvFits(L, h) /\ Grew(e, h)
           /\ DOMAIN h.asn = DOMAIN e.asn \cup {d}
           /\ Owes(h) \subseteq Owes(e) \cup ToSet(x.subs)
    BY <2>1, <1>1, AsnFits
  <2> QED BY <2>2 DEF BindAssertion
<1>6. r.open \o subs = r.open
  BY <1>1, ConcatEmptySeq DEF IsSeq
<1>7. b = [r EXCEPT !.open = r.open \o subs, !.env = f]
  <2> HIDE DEF f, subs
  <2>1. b = [r EXCEPT !.env = f]
    BY DEF f, Repeated
  <2>2. [r EXCEPT !.open = r.open, !.env = f] = [r EXCEPT !.env = f]
    BY <1>1 DEF Shaped
  <2> QED BY <2>1, <2>2, <1>6
<1>8. Needs(subs, d) /\ ToSet(subs) = {}
  <2>1. IsSeq(subs) /\ ToSet(subs) = {} /\ Len(subs) = 0
    BY EmptyIs
  <2> QED BY <2>1 DEF Needs
<1>9. Owes(f) \subseteq Held(e, r.open, Queues(r), T, J) \cup ToSet(subs)
  <2>1. Owes(e) \subseteq Held(e, r.open, Queues(r), T, J)
    BY <1>1 DEF Sound, Kept
  <2> QED BY <2>1, <1>4, <1>5
<1>10. Right(L, n, b, T \ {d}, J, K)
  <2> HIDE DEF subs, f
  <2>1. /\ Needs(subs, d) /\ EnvFits(L, f) /\ Grew(r.env, f)
        /\ DOMAIN f.asn = DOMAIN r.env.asn \cup {d}
        /\ Owes(f) \subseteq Held(r.env, r.open, Queues(r), T, J) \cup ToSet(subs)
        /\ b = Opened(r, subs, f)
    BY <1>5, <1>7, <1>8, <1>9 DEF Opened
  <2> HIDE DEF e
  <2>2. /\ Right(L, n, b, T \ {d}, J, K)
        /\ ToSet(subs) \subseteq Held(b.env, b.open, Queues(b), T \ {d}, J)
    BY <2>1, RightBound
  <2> QED BY <2>2
<1>11. b.env = f /\ b.out = "running" /\ b.depth = r.depth /\ Steady(r, b)
  <2> HIDE DEF f
  <2>1. b = [r EXCEPT !.env = f]
    BY DEF f, Repeated
  <2> QED BY <2>1, <1>1 DEF Shaped, Steady
<1> QED BY <1>5, <1>10, <1>11 DEF Resolved

\* d waits with the assertions that share its key.
Waits(r, d, key) ==
  [Cached(r, key, Item(r.cache[key].sat, Append(r.cache[key].ids, d)))
     EXCEPT !.keys = @ \cup {key}]

\* Waiting on a deferred key adds the assertion to its item, and nothing else.
LEMMA WaitsIs ==
  ASSUME NEW r, Shaped(r), NEW d, NEW key \in r.keys, r.keys \subseteq DOMAIN r.cache,
         NEW q, q = r.cache[key], q = Item(q.sat, q.ids),
         NEW w, w = Item(q.sat, Append(q.ids, d)), NEW b, b = Waits(r, d, key)
  PROVE  /\ Shaped(b) /\ b.env = r.env /\ b.open = r.open /\ b.depth = r.depth
         /\ b.keys = r.keys /\ b.deferred = r.deferred /\ b.out = r.out
         /\ Steady(r, b)
         /\ DOMAIN b.cache = DOMAIN r.cache /\ b.cache[key] = w
         /\ \A k \in DOMAIN r.cache : k = key \/ b.cache[k] = r.cache[k]
<1> DEFINE c == Cached(r, key, w)
           ks == c.keys \cup {key}
<1>1. b = [c EXCEPT !.keys = ks]
  BY DEF Waits
<1>2. /\ Shaped(c) /\ c.env = r.env /\ c.open = r.open /\ c.depth = r.depth
      /\ c.keys = r.keys /\ c.deferred = r.deferred /\ c.out = r.out
      /\ Steady(r, c)
      /\ DOMAIN c.cache = DOMAIN r.cache \cup {key} /\ c.cache[key] = w
      /\ \A k \in DOMAIN r.cache : k = key \/ c.cache[k] = r.cache[k]
  BY CachedIs
<1>3. key \in DOMAIN r.cache /\ ks = r.keys
  BY <1>2
<1> HIDE DEF c, ks
<1>6. /\ b.env = c.env /\ b.open = c.open /\ b.depth = c.depth
      /\ b.keys = ks /\ b.deferred = c.deferred /\ b.out = c.out
      /\ b.cache = c.cache /\ b.left = c.left /\ b.inner = c.inner
      /\ b.ambiguous = c.ambiguous
  BY <1>1, <1>2 DEF Shaped
<1>7. Shaped(b)
  BY <1>1, <1>2, <1>3 DEF Shaped
<1>8. Steady(r, b)
  BY <1>2, <1>6 DEF Steady
<1> QED BY <1>2, <1>3, <1>6, <1>7, <1>8

\* Waiting on a deferred key is a right step.
LEMMA WaitProceeds ==
  ASSUME ConstsFit, NEW L, LibFits(L), NEW n \in Nat, NEW r, NEW T, NEW J, NEW K,
         Right(L, n, r, T, J, K), r.out = "running", NEW d \in T,
         NEW key, key = Key(d, r.env), key \in r.keys,
         NEW b, b = Waits(r, d, key)
  PROVE  Resolved(L, n, r, b, T \ {d}, J, K)
<1> DEFINE e == r.env
           q == r.cache[key]
           w == Item(q.sat, Append(q.ids, d))
           Q == Queues(r)
<1>1. /\ Shaped(r) /\ Tidy(r) /\ KeysFit(L, r) /\ EnvFits(L, e) /\ d.var \in Var
      /\ r.keys \subseteq DOMAIN r.cache
      /\ Sound(L, n, e, r.open, Q, Singles(r), T, J, K)
  BY DEF Right, Sound, Distinct, Tidy
<1>2. q \in Q /\ ItemFits(L, e, q)
  BY <1>1 DEF Queues, Sound
<1>3. /\ Shaped(b) /\ b.env = r.env /\ b.open = r.open /\ b.depth = r.depth
      /\ b.keys = r.keys /\ b.deferred = r.deferred /\ b.out = r.out
      /\ Steady(r, b)
      /\ DOMAIN b.cache = DOMAIN r.cache /\ b.cache[key] = w
      /\ \A k \in DOMAIN r.cache : k = key \/ b.cache[k] = r.cache[k]
  <2>1. q = Item(q.sat, q.ids)
    BY <1>2 DEF ItemFits
  <2> HIDE DEF e, Q
  <2> QED BY <2>1, <1>1, WaitsIs
<1>4. /\ w = Item(w.sat, w.ids) /\ w.sat = q.sat /\ IsSeq(w.ids) /\ w.ids # << >>
      /\ ToSet(w.ids) = ToSet(q.ids) \cup {d} /\ w.ids[1] = q.ids[1]
  <2> DEFINE ids == q.ids
  <2>1. IsSeq(ids) /\ ids # << >>
    BY <1>2 DEF ItemFits
  <2>2. w.sat = q.sat /\ w.ids = Append(ids, d) /\ w = Item(w.sat, w.ids)
    BY DEF Item
  <2> HIDE DEF ids, w, q
  <2>3. /\ IsSeq(Append(ids, d)) /\ ToSet(Append(ids, d)) = ToSet(ids) \cup {d}
        /\ Append(ids, d) # << >> /\ Append(ids, d)[1] = ids[1]
    BY <2>1, AppendIs
  <2> QED BY <2>2, <2>3 DEF ids
<1>5. \A k \in r.keys : r.cache[k] \notin r.deferred /\ (r.cache[k] = q => k = key)
  BY <1>1 DEF Tidy
<1> HIDE DEF q, w
<1>6. ASSUME NEW s \in q.sat
      PROVE  /\ s.expr.impl.fn = d.fn
             /\ Binds({s.env, e}, d.var, s.expr.impl.val)
  <2> DEFINE x == s.expr
             es == {s.env, e}
  <2>1. Answers(L, key, s.expr, {s.env, e})
    BY <1>1, <1>6 DEF KeysFit, q
  <2>2. Answers(L, Key(d, e), x, es)
    BY <2>1
  <2> HIDE DEF x, es, e
  <2>3. x.impl \in L /\ x.impl.fn = d.fn /\ Binds(es \cup {e}, d.var, x.impl.val)
    BY <2>2, <1>1, KeyFits
  <2>4. es \cup {e} = es
    BY DEF es
  <2> QED BY <2>3, <2>4 DEF x, es
<1>7. ItemFits(L, e, w)
  <2>1. \A c \in ToSet(w.ids) : c \in ToSet(q.ids) \/ c = d
    BY <1>4
  <2>2. ASSUME NEW s \in w.sat
        PROVE  /\ EnvFits(L, s.env) /\ DOMAIN s.env.asn \subseteq DOMAIN e.asn
               /\ Needs(s.expr.subs, w.ids[1]) /\ s.expr.impl \in L
               /\ \A c \in ToSet(w.ids) : /\ s.expr.impl.fn = c.fn
                                          /\ Binds({s.env, e}, c.var, s.expr.impl.val)
    BY <2>1, <2>2, <1>2, <1>4, <1>6 DEF ItemFits
  <2>3. \A c \in ToSet(w.ids) : c.var \in Var
    BY <2>1, <1>1, <1>2 DEF ItemFits
  <2> QED BY <2>2, <2>3, <1>4 DEF ItemFits
<1>8. Queues(b) = (Q \ {q}) \cup {w}
  <2>1. ASSUME NEW y \in Queues(b) PROVE y \in (Q \ {q}) \cup {w}
    <3>1. CASE y \in r.deferred
      <4>1. y \in Q /\ y # q
        BY <3>1, <1>5 DEF Queues, q
      <4> QED BY <4>1
    <3>2. CASE \E k \in r.keys : y = b.cache[k]
      <4>1. PICK k \in r.keys : y = b.cache[k]
        BY <3>2
      <4>2. CASE k = key
        BY <4>1, <4>2, <1>3
      <4>3. CASE k # key
        <5>1. y = r.cache[k]
          BY <4>1, <4>3, <1>1, <1>3
        <5>2. y \in Q /\ y # q
          BY <5>1, <4>1, <4>3, <1>5 DEF Queues
        <5> QED BY <5>2
      <4> QED BY <4>2, <4>3
    <3>3. y \in b.deferred \/ \E k \in b.keys : y = b.cache[k]
      BY <2>1 DEF Queues
    <3> QED BY <3>1, <3>2, <3>3, <1>3
  <2>2. ASSUME NEW y \in Q, y # q PROVE y \in Queues(b)
    <3>1. CASE y \in r.deferred
      BY <3>1, <1>3 DEF Queues
    <3>2. CASE \E k \in r.keys : y = r.cache[k]
      <4>1. PICK k \in r.keys : y = r.cache[k]
        BY <3>2
      <4>2. k # key
        BY <4>1, <2>2 DEF q
      <4>3. y = b.cache[k] /\ k \in b.keys
        BY <4>1, <4>2, <1>1, <1>3
      <4> QED BY <4>3 DEF Queues
    <3>3. y \in r.deferred \/ \E k \in r.keys : y = r.cache[k]
      BY <2>2 DEF Queues
    <3> QED BY <3>1, <3>2, <3>3
  <2>3. w \in Queues(b)
    BY <1>3 DEF Queues
  <2> HIDE DEF Q
  <2> QED BY <2>1, <2>2, <2>3
<1>9. Singles(b) = Singles(r)
  <2>1. \A k \in DOMAIN r.cache \ r.keys : b.cache[k] = r.cache[k]
    BY <1>3
  <2>2. ASSUME NEW x \in Singles(b) PROVE x \in Singles(r)
    <3>1. PICK k : SingleAt(b, k, x)
      BY <2>2, SinglesIn
    <3>2. /\ k \in DOMAIN r.cache \ r.keys /\ b.cache[k] = r.cache[k]
          /\ \E t \in r.cache[k].sat : x = t.expr
      BY <3>1, <2>1, <1>3 DEF SingleAt
    <3> QED BY <3>2, SinglesAre
  <2>3. ASSUME NEW x \in Singles(r) PROVE x \in Singles(b)
    <3>1. PICK k : SingleAt(r, k, x)
      BY <2>3, SinglesIn
    <3>2. /\ k \in DOMAIN b.cache \ b.keys
          /\ \E t \in b.cache[k].sat : x = t.expr
      BY <3>1, <2>1, <1>3 DEF SingleAt
    <3> QED BY <3>2, SinglesAre
  <2> QED BY <2>2, <2>3
<1>10. Sound(L, n, e, r.open, (Q \ {q}) \cup {w}, Singles(r), T \ {d}, J, K) /\ w \notin Q
  <2> DEFINE P == {q}
  <2>1. ToSet(w.ids) = Asked(P) \cup {d} /\ P \in SUBSET Q
    BY <1>2, <1>4 DEF Asked
  <2>2. \A s \in w.sat : Owes(s.env) \subseteq Held(e, r.open, Q, T, J)
    BY <1>1, <1>2, <1>4 DEF Sound, Kept
  <2> HIDE DEF P, Q, e
  <2>3. Sound(L, n, e, r.open, (Q \ P) \cup {w}, Singles(r), T \ {d}, J, K) /\ w \notin Q
    BY <2>1, <2>2, <1>1, <1>7, SoundAsked
  <2> QED BY <2>3 DEF P
<1>11. \A k \in r.keys : r.cache[k] # w
  BY <1>10 DEF Queues
<1>12. w \notin r.deferred
  BY <1>10 DEF Queues
<1>13. \A k \in DOMAIN r.cache : b.cache[k].sat = r.cache[k].sat
  BY <1>3, <1>4 DEF q
<1>14. Tidy(b)
  <2>1. ASSUME NEW k \in b.keys
        PROVE  /\ IsFiniteSet(b.cache[k].sat)
               /\ \E x, y \in b.cache[k].sat : x # y
               /\ b.cache[k] \notin b.deferred
    <3>1. k \in r.keys /\ b.cache[k].sat = r.cache[k].sat
      BY <1>1, <1>3, <1>13
    <3>2. /\ IsFiniteSet(r.cache[k].sat)
          /\ \E x, y \in r.cache[k].sat : x # y
          /\ r.cache[k] \notin r.deferred
      BY <3>1, <1>1 DEF Tidy
    <3>3. b.cache[k] \notin b.deferred
      BY <3>1, <3>2, <1>1, <1>3, <1>12
    <3> QED BY <3>1, <3>2, <3>3
  <2>2. ASSUME NEW k \in b.keys, NEW l \in b.keys, b.cache[k] = b.cache[l] PROVE k = l
    <3>1. k \in r.keys /\ l \in r.keys
      BY <1>3
    <3>2. CASE k = key /\ l # key
      BY <2>2, <3>1, <3>2, <1>1, <1>3, <1>11
    <3>3. CASE l = key /\ k # key
      BY <2>2, <3>1, <3>3, <1>1, <1>3, <1>11
    <3>4. CASE k # key /\ l # key
      <4>1. r.cache[k] = r.cache[l]
        BY <2>2, <3>1, <3>4, <1>1, <1>3
      <4> QED BY <4>1, <3>1, <1>1 DEF Tidy
    <3> QED BY <3>2, <3>3, <3>4
  <2>3. ASSUME NEW k \in DOMAIN b.cache \ b.keys PROVE \E s : b.cache[k].sat = {s}
    <3>1. k \in DOMAIN r.cache \ r.keys /\ b.cache[k] = r.cache[k]
      BY <1>3
    <3>2. \E s : r.cache[k].sat = {s}
      BY <3>1, <1>1 DEF Tidy
    <3> QED BY <3>1, <3>2
  <2>4. b.keys \subseteq DOMAIN b.cache
    BY <1>1, <1>3
  <2> QED BY <2>1, <2>2, <2>3, <2>4 DEF Tidy
<1>15. KeysFit(L, b)
  <2> SUFFICES ASSUME NEW k \in DOMAIN b.cache, NEW t \in b.cache[k].sat
               PROVE  Answers(L, k, t.expr, IF k \in b.keys THEN {t.env, b.env}
                                            ELSE {b.env})
    BY DEF KeysFit
  <2>1. k \in DOMAIN r.cache /\ t \in r.cache[k].sat
    BY <1>3, <1>13
  <2>2. Answers(L, k, t.expr, IF k \in r.keys THEN {t.env, r.env} ELSE {r.env})
    BY <2>1, <1>1 DEF KeysFit
  <2> QED BY <2>2, <1>3
<1>16. Right(L, n, b, T \ {d}, J, K)
  <2> HIDE DEF Q
  <2> QED BY <1>3, <1>8, <1>9, <1>10, <1>14, <1>15 DEF Right
<1>17. Grew(r.env, b.env)
  BY <1>3 DEF Grew
<1> QED BY <1>3, <1>16, <1>17 DEF Resolved

\* Resolving an assertion whose key is cached is a right step.
LEMMA AgainProceeds ==
  ASSUME ConstsFit, NEW L, LibFits(L), NEW n \in Nat, NEW r, NEW T, NEW J, NEW K,
         Right(L, n, r, T, J, K), r.out = "running", NEW d \in T,
         NEW key, key = Key(d, r.env), key \in DOMAIN r.cache,
         NEW b, b = ResolveAgain(r, d, key)
  PROVE  Resolved(L, n, r, b, T \ {d}, J, K)
<1> DEFINE sat == r.cache[key].sat
<1>1. Shaped(r) /\ Tidy(r)
  BY DEF Right
<1>2. CASE key \notin r.keys
  <2>1. PICK s : sat = {s}
    BY <1>1, <1>2 DEF Tidy
  <2>2. sat # {} /\ Cardinality(sat) = 1 /\ (CHOOSE t \in sat : TRUE) = s
    <3> HIDE DEF sat
    <3> QED BY <2>1, FS_Singleton
  <2>3. b = Repeated(r, d, s.expr)
    <3>1. b = [r EXCEPT !.env = BindAssertion(@, d, (CHOOSE t \in sat : TRUE).expr)]
      BY <2>2 DEF ResolveAgain
    <3> HIDE DEF sat
    <3> QED BY <3>1, <2>2 DEF Repeated
  <2>4. key \in DOMAIN r.cache \ r.keys /\ r.cache[key].sat = {s}
    BY <1>2, <2>1
  <2> QED BY <2>3, <2>4, RepeatProceeds
<1>3. CASE key \in r.keys
  <2>1. IsFiniteSet(sat) /\ \E x, y \in sat : x # y
    BY <1>1, <1>3 DEF Tidy
  <2>2. sat # {} /\ Cardinality(sat) # 1
    <3> HIDE DEF sat
    <3>1. \A x : sat # {x}
      BY <2>1
    <3> QED BY <2>1, <3>1, FS_Singleton
  <2>3. b = Waits(r, d, key)
    BY <2>2 DEF ResolveAgain, Waits
  <2> QED BY <2>3, <1>3, WaitProceeds
<1> QED BY <1>2, <1>3

\* resolveAssertion()
LEMMA AssertionProceeds ==
  ASSUME ConstsFit, NEW L, LibFits(L), NEW n \in Nat, NEW r, NEW T, NEW J, NEW K,
         Right(L, n, r, T, J, K), r.out = "running", NEW d \in T, NEW build,
         NEW b, b = ResolveAssertion(build, L, r, d)
  PROVE  Resolved(L, n, r, b, T \ {d}, J, K)
<1> DEFINE key == Key(d, r.env)
           found == Satisfying(L, d, r.env)
<1>1. CASE build = "def"
  <2>1. b = ResolveFresh(r, d, found)
    BY <1>1 DEF ResolveAssertion
  <2> QED BY <2>1, FreshProceeds
<1>2. CASE build # "def" /\ key \in DOMAIN r.cache
  <2>1. b = ResolveAgain(r, d, key)
    BY <1>2 DEF ResolveAssertion
  <2>2. key = Key(d, r.env)
    OBVIOUS
  <2> HIDE DEF key
  <2> QED BY <2>1, <2>2, <1>2, AgainProceeds
<1>3. CASE build # "def" /\ key \notin DOMAIN r.cache
  <2>1. b = ResolveFirst(r, d, key, found)
    BY <1>3 DEF ResolveAssertion
  <2>2. key = Key(d, r.env)
    OBVIOUS
  <2> HIDE DEF key
  <2> QED BY <2>1, <2>2, <1>3, FirstProceeds
<1> QED BY <1>1, <1>2, <1>3

-----------------------------------------------------------------------------
(* Resolving the assertions of a pass                                      *)

\* Right steps compose.
LEMMA ResolvedOn ==
  ASSUME NEW L, NEW n, NEW r, NEW a, NEW b, NEW T, NEW V, NEW J, NEW K,
         Resolved(L, n, r, a, T, J, K), a.out # "failed", Resolved(L, n, a, b, V, J, K)
  PROVE  Resolved(L, n, r, b, V, J, K)
BY DEF Resolved, Steady, Grew

\* g are the resolvers of a loop over ds, from r, for m rounds.
Rounds(build, L, r, ds, m, g) ==
  g = [k \in 0 .. m |-> IF k = 0 THEN r ELSE ResolveAssertion(build, L, g[k - 1], ds[k])]

\* There is a function of the first m rounds of resolving ds.
LEMMA RoundsExist ==
  ASSUME NEW build, NEW L, NEW r, NEW ds, NEW m \in Nat
  PROVE  \E g : Rounds(build, L, r, ds, m, g)
<1> DEFINE P == {k \in Nat : \E g : Rounds(build, L, r, ds, k, g)}
<1>1. 0 \in P
  <2> DEFINE g == [k \in 0 .. 0 |-> r]
  <2>1. g = [k \in 0 .. 0 |-> IF k = 0 THEN r
                              ELSE ResolveAssertion(build, L, g[k - 1], ds[k])]
    OBVIOUS
  <2> HIDE DEF g
  <2>2. Rounds(build, L, r, ds, 0, g)
    BY <2>1 DEF Rounds
  <2> QED BY <2>2
<1>2. ASSUME NEW i \in P PROVE i + 1 \in P
  <2>1. i \in Nat /\ i + 1 \in Nat
    OBVIOUS
  <2>2. PICK g : Rounds(build, L, r, ds, i, g)
    OBVIOUS
  <2> DEFINE x == ResolveAssertion(build, L, g[i], ds[i + 1])
             h == [k \in 0 .. i + 1 |-> IF k = i + 1 THEN x ELSE g[k]]
  <2>3. \A k \in 0 .. i : g[k] = IF k = 0 THEN r
                                 ELSE ResolveAssertion(build, L, g[k - 1], ds[k])
    BY <2>2 DEF Rounds
  <2>4. /\ \A k \in 0 .. i : h[k] = g[k] /\ k \in 0 .. i + 1
        /\ h[i + 1] = x
    BY <2>1
  <2>5. h = [k \in 0 .. i + 1 |-> h[k]]
    OBVIOUS
  <2> HIDE DEF h
  <2>6. ASSUME NEW k \in 0 .. i + 1
        PROVE  h[k] = IF k = 0 THEN r ELSE ResolveAssertion(build, L, h[k - 1], ds[k])
    <3>1. CASE k = i + 1
      <4>1. k # 0 /\ k - 1 = i /\ i \in 0 .. i
        BY <3>1, <2>1
      <4>2. h[k - 1] = g[i]
        BY <4>1, <2>4
      <4>3. h[k] = ResolveAssertion(build, L, h[k - 1], ds[k])
        BY <4>2, <3>1, <2>4
      <4> QED BY <4>1, <4>3
    <3>2. CASE k # i + 1
      <4>1. k \in 0 .. i /\ (k # 0 => k - 1 \in 0 .. i)
        BY <3>2, <2>1
      <4>2. h[k] = g[k] /\ (k # 0 => h[k - 1] = g[k - 1])
        BY <4>1, <2>4
      <4> QED BY <4>1, <4>2, <2>3
    <3> QED BY <3>1, <3>2
  <2>7. Rounds(build, L, r, ds, i + 1, h)
    BY <2>5, <2>6 DEF Rounds
  <2> QED BY <2>1, <2>7
<1> HIDE DEF P
<1>3. P = Nat
  <2>1. P \in SUBSET Nat
    BY DEF P
  <2> QED BY <2>1, <1>1, <1>2, Induction
<1> QED BY <1>3 DEF P

\* ResolveAll is where it ends.
LEMMA AllIs ==
  ASSUME NEW build, NEW L, NEW r, NEW ds, Len(ds) \in Nat
  PROVE  \E g : /\ Rounds(build, L, r, ds, Len(ds), g)
                /\ ResolveAll(build, L, r, ds) = g[Len(ds)]
<1> DEFINE m == Len(ds)
           g == CHOOSE f : Rounds(build, L, r, ds, m, f)
<1>1. Rounds(build, L, r, ds, m, g)
  BY RoundsExist
<1>2. ResolveAll(build, L, r, ds) = g[m]
  BY DEF ResolveAll, Rounds
<1> QED BY <1>1, <1>2

\* The assertions of a pass are resolved one after the other.
LEMMA AllProceeds ==
  ASSUME ConstsFit, NEW L, LibFits(L), NEW n \in Nat, NEW r, NEW J, NEW K,
         NEW ds, IsSeq(ds), IsInjective(ds),
         Right(L, n, r, ToSet(ds), J, K), r.out = "running", NEW build,
         NEW b, b = ResolveAll(build, L, r, ds)
  PROVE  Resolved(L, n, r, b, {}, J, K)
<1> DEFINE m == Len(ds)
           rest(k) == {ds[i] : i \in k + 1 .. m}
<1>1. m \in Nat /\ DOMAIN ds = 1 .. m /\ ToSet(ds) = rest(0)
  BY SeqIs
<1>2. PICK g : Rounds(build, L, r, ds, m, g) /\ b = g[m]
  BY <1>1, AllIs
<1>3. \A k \in 0 .. m : g[k] = IF k = 0 THEN r
                               ELSE ResolveAssertion(build, L, g[k - 1], ds[k])
  BY <1>2 DEF Rounds
<1>4. \A i, j \in 1 .. m : ds[i] = ds[j] => i = j
  BY <1>1 DEF IsInjective
<1> HIDE DEF m
<1>5. \A k \in Nat : k + 1 <= m => ds[k + 1] \in rest(k) /\ rest(k + 1) = rest(k) \ {ds[k + 1]}
  <2> SUFFICES ASSUME NEW k \in Nat, k + 1 <= m
               PROVE  ds[k + 1] \in rest(k) /\ rest(k + 1) = rest(k) \ {ds[k + 1]}
    OBVIOUS
  <2>1. k + 1 \in k + 1 .. m /\ k + 1 \in 1 .. m
    BY <1>1
  <2>2. \A i \in (k + 1) + 1 .. m : i \in k + 1 .. m /\ i \in 1 .. m /\ i # k + 1
    BY <1>1
  <2>3. \A i \in k + 1 .. m : i = k + 1 \/ i \in (k + 1) + 1 .. m
    BY <1>1
  <2>4. ASSUME NEW x \in rest(k + 1) PROVE x \in rest(k) /\ x # ds[k + 1]
    <3>1. PICK i \in (k + 1) + 1 .. m : x = ds[i]
      BY <2>4
    <3>2. ds[i] # ds[k + 1]
      BY <2>1, <2>2, <1>4
    <3> QED BY <3>1, <3>2, <2>2
  <2>5. ASSUME NEW x \in rest(k), x # ds[k + 1] PROVE x \in rest(k + 1)
    <3>1. PICK i \in k + 1 .. m : x = ds[i]
      BY <2>5
    <3> QED BY <3>1, <2>3, <2>5
  <2>6. ds[k + 1] \in rest(k)
    BY <2>1
  <2> HIDE DEF rest
  <2> QED BY <2>4, <2>5, <2>6
<1> DEFINE P == {k \in Nat : k <= m => Resolved(L, n, r, g[k], rest(k), J, K)}
<1>6. 0 \in P
  <2> HIDE DEF rest
  <2>1. g[0] = r
    BY <1>1, <1>3
  <2>2. Resolved(L, n, r, r, rest(0), J, K)
    BY <1>1 DEF Resolved, Grew, Steady
  <2> QED BY <2>1, <2>2
<1>7. ASSUME NEW k \in P PROVE k + 1 \in P
  <2> HIDE DEF rest
  <2> SUFFICES ASSUME k + 1 <= m PROVE Resolved(L, n, r, g[k + 1], rest(k + 1), J, K)
    OBVIOUS
  <2>1. k \in Nat /\ k <= m /\ k + 1 \in 0 .. m /\ k + 1 # 0 /\ (k + 1) - 1 = k
    BY <1>1
  <2>2. Resolved(L, n, r, g[k], rest(k), J, K)
    BY <2>1
  <2>3. g[k + 1] = ResolveAssertion(build, L, g[k], ds[k + 1])
    BY <2>1, <1>3
  <2>4. CASE g[k].out = "failed"
    <3>1. g[k + 1] = g[k]
      BY <2>3, <2>4 DEF ResolveAssertion
    <3> QED BY <3>1, <2>4 DEF Resolved
  <2>5. CASE g[k].out # "failed"
    <3> DEFINE a == g[k]
               x == g[k + 1]
               d == ds[k + 1]
               T == rest(k)
    <3>1. Right(L, n, a, T, J, K) /\ a.out = "running"
      BY <2>2, <2>5 DEF Resolved
    <3>2. d \in T /\ rest(k + 1) = T \ {d} /\ x = ResolveAssertion(build, L, a, d)
      BY <2>1, <2>3, <1>5
    <3> HIDE DEF a, x, d, T
    <3>3. Resolved(L, n, a, x, T \ {d}, J, K)
      BY <3>1, <3>2, AssertionProceeds
    <3>4. Resolved(L, n, r, a, T, J, K) /\ a.out # "failed"
      BY <2>2, <2>5 DEF a, T
    <3>5. Resolved(L, n, r, x, T \ {d}, J, K)
      BY <3>3, <3>4, ResolvedOn
    <3> QED BY <3>2, <3>5 DEF x
  <2> QED BY <2>4, <2>5
<1>8. m \in P
  <2> HIDE DEF P
  <2>1. P \in SUBSET Nat
    BY DEF P
  <2> QED BY <2>1, <1>1, <1>6, <1>7, Induction
<1>9. rest(m) = {}
  BY <1>1
<1> HIDE DEF rest
<1> QED BY <1>1, <1>2, <1>8, <1>9

-----------------------------------------------------------------------------
(* Choosing for what waits                                                 *)

\* Binding an item is one binding: the first of its assertions, then the others.
LEMMA BindTwice ==
  ASSUME NEW e, e = [bound |-> e.bound, asn |-> e.asn], NEW h, NEW ds, NEW x
  PROVE  BindAssertions(BindAssertion(e, h, x), ds, x) = BindAssertions(e, {h} \cup ds, x)
<1> DEFINE a == e.asn
           w == With(a, {h}, x)
<1>1. BindAssertion(e, h, x) = [bound |-> e.bound, asn |-> w]
  BY DEF BindAssertion, BindAssertions
<1>2. BindAssertions(e, {h} \cup ds, x) = [bound |-> e.bound, asn |-> With(a, {h} \cup ds, x)]
  BY DEF BindAssertions
<1> HIDE DEF a, w
<1>3. BindAssertions(BindAssertion(e, h, x), ds, x)
        = [bound |-> e.bound, asn |-> With(w, ds, x)]
  BY <1>1 DEF BindAssertions
<1>4. With(w, ds, x) = With(a, {h} \cup ds, x)
  <2>1. DOMAIN w = DOMAIN a \cup {h} /\ \A k \in DOMAIN w : w[k] = IF k \in {h} THEN x ELSE a[k]
    BY DEF w, With
  <2>2. DOMAIN w \cup ds = DOMAIN a \cup ({h} \cup ds)
    BY <2>1
  <2>3. \A k \in DOMAIN w \cup ds : (IF k \in ds THEN x ELSE w[k])
                                     = IF k \in {h} \cup ds THEN x ELSE a[k]
    BY <2>1
  <2> QED BY <2>2, <2>3 DEF With
<1> QED BY <1>2, <1>3, <1>4

\* b is like r but for what it has bound and opened.
Alike(r, b) ==
  /\ Shaped(b) /\ b.out = r.out /\ b.depth = r.depth /\ b.cache = r.cache
  /\ b.keys = r.keys /\ b.deferred = r.deferred /\ Steady(r, b)

\* b is r with the choice s bound to what waits for q.
Chosen(L, n, r, q, s, b, Q, S, J, K) ==
  \/ b.out = "failed"
  \/ /\ Sound(L, n, b.env, b.open, Q \ {q}, S \cup {s.expr}, {}, J, K)
     /\ Grew(r.env, b.env) /\ Alike(r, b)

\* Binding what waits to a fitting choice is right.
LEMMA BindItemIs ==
  ASSUME ConstsFit, NEW L, LibFits(L), NEW n \in Nat, NEW r, Shaped(r),
         NEW Q, NEW S, NEW J, NEW K, Sound(L, n, r.env, r.open, Q, S, {}, J, K),
         r.out = "running", NEW q \in Q, NEW s \in q.sat, Grew(s.env, r.env),
         NEW b, b = BindItem(r, q, s.expr)
  PROVE  Chosen(L, n, r, q, s, b, Q, S, J, K)
<1> DEFINE e == r.env
           x == s.expr
           ids == ToSet(q.ids)
           h == q.ids[1]
           rest == ToSet(Tail(q.ids))
           subs == x.subs
           f == BindAssertions(e, ids, x)
<1>1. ItemFits(L, e, q) /\ EnvFits(L, e)
  BY DEF Sound
<1>2. IsSeq(q.ids) /\ h \in ids /\ ids = {h} \cup rest
  BY <1>1, TailIs DEF ItemFits
<1>3. /\ EnvFits(L, s.env) /\ Needs(subs, h) /\ x.impl \in L
      /\ \A d \in ids : /\ d.var \in Var /\ x.impl.fn = d.fn
                        /\ Binds({s.env, e}, d.var, x.impl.val)
  BY <1>1 DEF ItemFits
<1>4. x.impl.val \in Val \cup {AnyType}
  BY <1>3 DEF LibFits
<1> HIDE DEF ids, rest, h
<1>5. ASSUME NEW d \in ids PROVE Fits(L, d, x, e)
  <2>1. x.impl.val \in {AnyType, e.bound[d.var]}
    <3>1. CASE x.impl.val = AnyType \/ e.bound[d.var] = x.impl.val
      BY <3>1
    <3>2. CASE s.env.bound[d.var] = x.impl.val /\ x.impl.val \in Val
      <4> DEFINE v == d.var
                 val == x.impl.val
                 g == s.env
      <4>1. v \in Var /\ val \in Val /\ g.bound[v] = val /\ EnvFits(L, g) /\ Grew(g, e)
        BY <3>2, <1>3
      <4> HIDE DEF v, val, g, e
      <4>2. e.bound[v] = val
        BY <4>1, <1>1, GrewFits DEF e
      <4> QED BY <4>2 DEF v, val
    <3> QED BY <3>1, <3>2, <1>3, <1>4 DEF Binds
  <2> QED BY <2>1, <1>3 DEF Fits
<1>6. /\ EnvFits(L, f) /\ Grew(e, f) /\ DOMAIN f.asn = DOMAIN e.asn \cup ids
      /\ Owes(f) \subseteq Owes(e) \cup ToSet(subs)
  <2> HIDE DEF e, x
  <2> QED BY <1>1, <1>5, AsnFits
<1>7. Owes(f) \subseteq Held(e, r.open, Q, {}, J) \cup ToSet(subs)
  BY <1>6 DEF Sound, Kept
<1> HIDE DEF f
<1>8. /\ Sound(L, n, f, r.open \o subs, Q \ {q}, S, {}, J, K)
      /\ ToSet(subs) \subseteq Held(f, r.open \o subs, Q \ {q}, {}, J)
  <2> DEFINE P == Q \ {q}
             T == {}
             V == {}
             o == r.open
  <2>1. \A p \in Q : p = q \/ ToSet(p.ids) \cap ids = {}
    BY DEF Sound, ids
  <2>2. Asked(P) \cup V = (Asked(Q) \cup T) \ ids
    <3>1. \A d \in Asked(P) : d \in Asked(Q) /\ d \notin ids
      BY <2>1 DEF Asked
    <3>2. ASSUME NEW d \in Asked(Q), d \notin ids PROVE d \in Asked(P)
      BY <3>2 DEF Asked, ids
    <3> QED BY <3>1, <3>2
  <2>3. ids \subseteq Asked(Q) \cup T /\ P \in SUBSET Q /\ V \in SUBSET T
    BY DEF Asked, ids
  <2>4. /\ Sound(L, n, e, o, Q, S, T, J, K)
        /\ Owes(f) \subseteq Held(e, o, Q, T, J) \cup ToSet(subs)
    BY <1>7
  <2> HIDE DEF P, T, V, o, e, x, subs
  <2>5. /\ Sound(L, n, f, o \o subs, P, S, V, J, K)
        /\ ToSet(subs) \subseteq Held(f, o \o subs, P, V, J)
    BY <2>2, <2>3, <2>4, <1>2, <1>3, <1>6, SoundBound
  <2> QED BY <2>5 DEF P, V, o
<1>9. Sound(L, n, f, r.open \o subs, Q \ {q}, S \cup {x}, {}, J, K)
  <2> DEFINE P == Q \ {q}
             V == {}
             o == r.open \o subs
  <2>1. /\ Sound(L, n, f, o, P, S, V, J, K)
        /\ ToSet(x.subs) \subseteq Held(f, o, P, V, J)
    BY <1>8
  <2> HIDE DEF P, V, o, x
  <2>2. Sound(L, n, f, o, P, S \cup {x}, V, J, K)
    BY <2>1, SoundKnown
  <2> QED BY <2>2 DEF P, V, o
<1>10. CASE ~ CanBind(r, x)
  <2>1. b = [Failed(r) EXCEPT !.env = BindAssertions(@, rest, x)]
    BY <1>10 DEF BindItem, BindRecursive, rest
  <2>2. b.out = "failed"
    <3> DEFINE a == Failed(r)
    <3>1. Shaped(a) /\ a.out = "failed"
      BY FailedIs DEF Failed, Shaped
    <3> DEFINE k == BindAssertions(a.env, rest, x)
    <3>2. b = [a EXCEPT !.env = k]
      BY <2>1
    <3> HIDE DEF a, k
    <3> QED BY <3>1, <3>2 DEF Shaped
  <2> QED BY <2>2 DEF Chosen
<1>11. CASE CanBind(r, x)
  <2> DEFINE o == r.open \o subs
             k == BindAssertion(e, h, x)
             a == [r EXCEPT !.open = o, !.env = k]
  <2>1. b = [a EXCEPT !.env = BindAssertions(@, rest, x)]
    BY <1>11 DEF BindItem, BindRecursive, rest, h
  <2>2. BindAssertions(k, rest, x) = f
    <3>1. e = [bound |-> e.bound, asn |-> e.asn]
      BY <1>1 DEF EnvFits
    <3> HIDE DEF e, x
    <3> QED BY <1>2, <3>1, BindTwice DEF f
  <2> HIDE DEF o, k
  <2>3. a.env = k
    BY DEF Shaped
  <2>4. b = [a EXCEPT !.env = f]
    <3> HIDE DEF a
    <3> QED BY <2>1, <2>2, <2>3
  <2>5. b = [r EXCEPT !.open = o, !.env = f]
    BY <2>4 DEF Shaped
  <2> HIDE DEF a
  <2>6. b.env = f /\ b.open = o /\ Alike(r, b)
    BY <2>5 DEF Shaped, Alike, Steady
  <2> QED BY <2>6, <1>6, <1>9 DEF Chosen, o
<1> QED BY <1>10, <1>11

Begun(r, c) == [r EXCEPT !.env = EnvOf(r, c)]

\* g are the resolvers of a loop over the items qs, from r, for m rounds.
Bindings(r, c, qs, m, g) ==
  g = [k \in 0 .. m |-> IF k = 0 THEN Begun(r, c)
                        ELSE BindItem(g[k - 1], qs[k], c[qs[k]].expr)]

\* There is a function of the first m items bound.
LEMMA BindingsExist ==
  ASSUME NEW r, NEW c, NEW qs, NEW m \in Nat
  PROVE  \E g : Bindings(r, c, qs, m, g)
<1> DEFINE P == {k \in Nat : \E g : Bindings(r, c, qs, k, g)}
           z == Begun(r, c)
<1>1. 0 \in P
  <2> DEFINE g == [k \in 0 .. 0 |-> z]
  <2>1. g = [k \in 0 .. 0 |-> IF k = 0 THEN z ELSE BindItem(g[k - 1], qs[k], c[qs[k]].expr)]
    <3> HIDE DEF z
    <3> QED OBVIOUS
  <2> HIDE DEF g
  <2>2. Bindings(r, c, qs, 0, g)
    BY <2>1 DEF Bindings
  <2> QED BY <2>2
<1>2. ASSUME NEW i \in P PROVE i + 1 \in P
  <2>1. i \in Nat /\ i + 1 \in Nat
    OBVIOUS
  <2>2. PICK g : Bindings(r, c, qs, i, g)
    OBVIOUS
  <2> DEFINE x == BindItem(g[i], qs[i + 1], c[qs[i + 1]].expr)
             h == [k \in 0 .. i + 1 |-> IF k = i + 1 THEN x ELSE g[k]]
  <2>3. \A k \in 0 .. i : g[k] = IF k = 0 THEN z
                                 ELSE BindItem(g[k - 1], qs[k], c[qs[k]].expr)
    BY <2>2 DEF Bindings
  <2> HIDE DEF z
  <2>4. /\ \A k \in 0 .. i : h[k] = g[k] /\ k \in 0 .. i + 1
        /\ h[i + 1] = x
    BY <2>1
  <2>5. h = [k \in 0 .. i + 1 |-> h[k]]
    OBVIOUS
  <2> HIDE DEF h
  <2>6. ASSUME NEW k \in 0 .. i + 1
        PROVE  h[k] = IF k = 0 THEN z ELSE BindItem(h[k - 1], qs[k], c[qs[k]].expr)
    <3>1. CASE k = i + 1
      <4>1. k # 0 /\ k - 1 = i /\ i \in 0 .. i
        BY <3>1, <2>1
      <4>2. h[k - 1] = g[i]
        BY <4>1, <2>4
      <4>3. h[k] = BindItem(h[k - 1], qs[k], c[qs[k]].expr)
        BY <4>2, <3>1, <2>4
      <4> QED BY <4>1, <4>3
    <3>2. CASE k # i + 1
      <4>1. k \in 0 .. i /\ (k # 0 => k - 1 \in 0 .. i)
        BY <3>2, <2>1
      <4>2. h[k] = g[k] /\ (k # 0 => h[k - 1] = g[k - 1])
        BY <4>1, <2>4
      <4> QED BY <4>1, <4>2, <2>3
    <3> QED BY <3>1, <3>2
  <2>7. Bindings(r, c, qs, i + 1, h)
    BY <2>5, <2>6 DEF Bindings, z
  <2> QED BY <2>1, <2>7
<1> HIDE DEF P
<1>3. P = Nat
  <2>1. P \in SUBSET Nat
    BY DEF P
  <2> QED BY <2>1, <1>1, <1>2, Induction
<1> QED BY <1>3 DEF P

\* What the loop leaves, without what waited.
Cleared(r, c, x) ==
  [x EXCEPT !.deferred = {}, !.keys = {},
     !.cache = [key \in DOMAIN @ |->
                  IF key \in r.keys THEN Item({c[r.cache[key]]}, << >>) ELSE @[key]]]

\* Settled is where it ends, with nothing deferred.
LEMMA SettledIs ==
  ASSUME NEW r, NEW c, NEW qs, qs = SetToSeq(DOMAIN c), Len(qs) \in Nat
  PROVE  \E g : /\ Bindings(r, c, qs, Len(qs), g)
                /\ Settled(r, c) = Cleared(r, c, g[Len(qs)])
<1> DEFINE m == Len(qs)
           g == CHOOSE f : Bindings(r, c, qs, m, f)
<1>1. Bindings(r, c, qs, m, g)
  BY BindingsExist
<1>2. Settled(r, c) = Cleared(r, c, g[m])
  BY DEF Settled, Bindings, Cleared, Begun
<1> QED BY <1>1, <1>2

\* Nothing more is asked of a resolver that repeats fewer expressions.
LEMMA SoundFewer ==
  ASSUME NEW L, NEW n, NEW e, NEW o, NEW Q, NEW S, NEW T, NEW J, NEW K,
         Sound(L, n, e, o, Q, S, T, J, K), NEW R \in SUBSET S
  PROVE  Sound(L, n, e, o, Q, R, T, J, K)
<1> DEFINE H == Held(e, o, Q, T, J)
<1>1. Kept(e, Q, R, H)
  BY DEF Sound, Kept
<1> QED BY <1>1 DEF Sound

\* Likeness is transitive.
LEMMA AlikeOn ==
  ASSUME NEW r, NEW a, NEW b, Alike(r, a), Alike(a, b)
  PROVE  Alike(r, b)
BY DEF Alike, Steady

\* b is z with the items qs bound as c chooses.
AllBound(L, n, z, b, qs, c, S, J, K) ==
  \/ b.out = "failed"
  \/ /\ Sound(L, n, b.env, b.open, {}, S \cup {c[q].expr : q \in ToSet(qs)}, {}, J, K)
     /\ Grew(z.env, b.env) /\ Alike(z, b)

\* The choices of c fit the environment e.
Fitting(e, c, qs) == \A q \in ToSet(qs) : c[q] \in q.sat /\ Grew(c[q].env, e)

\* The loop over the items.
LEMMA BindingsProceed ==
  ASSUME ConstsFit, NEW L, LibFits(L), NEW n \in Nat, NEW r, NEW c, NEW qs,
         IsSeq(qs), IsInjective(qs), NEW z, Shaped(z), z.out = "running",
         NEW S, NEW J, NEW K, Sound(L, n, z.env, z.open, ToSet(qs), S, {}, J, K),
         Fitting(z.env, c, qs), z = Begun(r, c),
         NEW g, Bindings(r, c, qs, Len(qs), g), NEW b, b = g[Len(qs)]
  PROVE  AllBound(L, n, z, b, qs, c, S, J, K)
<1> DEFINE m == Len(qs)
           rest(k) == {qs[i] : i \in k + 1 .. m}
           known(k) == S \cup {c[qs[i]].expr : i \in 1 .. k}
           Fine(k) == \/ g[k].out = "failed"
                      \/ /\ Sound(L, n, g[k].env, g[k].open, rest(k), known(k), {}, J, K)
                         /\ Grew(z.env, g[k].env) /\ Alike(z, g[k])
<1>1. m \in Nat /\ DOMAIN qs = 1 .. m /\ ToSet(qs) = {qs[i] : i \in 1 .. m}
  BY SeqIs
<1>2. \A k \in 0 .. m : g[k] = IF k = 0 THEN z
                               ELSE BindItem(g[k - 1], qs[k], c[qs[k]].expr)
  BY DEF Bindings
<1>3. \A i, j \in 1 .. m : qs[i] = qs[j] => i = j
  BY <1>1 DEF IsInjective
<1> HIDE DEF m
<1>4. \A k \in Nat : k + 1 <= m =>
        /\ qs[k + 1] \in rest(k) /\ rest(k + 1) = rest(k) \ {qs[k + 1]}
        /\ qs[k + 1] \in ToSet(qs)
  <2> SUFFICES ASSUME NEW k \in Nat, k + 1 <= m
               PROVE  /\ qs[k + 1] \in rest(k) /\ rest(k + 1) = rest(k) \ {qs[k + 1]}
                      /\ qs[k + 1] \in ToSet(qs)
    OBVIOUS
  <2>1. k + 1 \in k + 1 .. m /\ k + 1 \in 1 .. m
    BY <1>1
  <2>2. \A i \in (k + 1) + 1 .. m : i \in k + 1 .. m /\ i \in 1 .. m /\ i # k + 1
    BY <1>1
  <2>3. \A i \in k + 1 .. m : i = k + 1 \/ i \in (k + 1) + 1 .. m
    BY <1>1
  <2>4. ASSUME NEW x \in rest(k + 1) PROVE x \in rest(k) /\ x # qs[k + 1]
    <3>1. PICK i \in (k + 1) + 1 .. m : x = qs[i]
      BY <2>4
    <3>2. qs[i] # qs[k + 1]
      BY <2>1, <2>2, <1>3
    <3> QED BY <3>1, <3>2, <2>2
  <2>5. ASSUME NEW x \in rest(k), x # qs[k + 1] PROVE x \in rest(k + 1)
    <3>1. PICK i \in k + 1 .. m : x = qs[i]
      BY <2>5
    <3> QED BY <3>1, <2>3, <2>5
  <2>6. qs[k + 1] \in rest(k)
    BY <2>1
  <2>7. qs[k + 1] \in ToSet(qs)
    BY <2>1, <1>1
  <2> HIDE DEF rest
  <2> QED BY <2>4, <2>5, <2>6, <2>7
<1>5. \A k \in Nat : known(k + 1) = known(k) \cup {c[qs[k + 1]].expr}
  <2> TAKE k \in Nat
  <2>1. \A i \in 1 .. k + 1 : i \in 1 .. k \/ i = k + 1
    OBVIOUS
  <2>2. k + 1 \in 1 .. k + 1 /\ \A i \in 1 .. k : i \in 1 .. k + 1
    OBVIOUS
  <2> QED BY <2>1, <2>2
<1> DEFINE P == {k \in Nat : k <= m => Fine(k)}
<1>6. 0 \in P
  <2>1. known(0) = S /\ rest(0) = ToSet(qs)
    BY <1>1
  <2> HIDE DEF rest, known
  <2>2. g[0] = z
    BY <1>1, <1>2
  <2>3. Grew(z.env, z.env) /\ Alike(z, z)
    BY DEF Grew, Alike, Steady
  <2> QED BY <2>1, <2>2, <2>3
<1>7. ASSUME NEW k \in P PROVE k + 1 \in P
  <2> HIDE DEF rest, known
  <2> SUFFICES ASSUME k + 1 <= m PROVE Fine(k + 1)
    OBVIOUS
  <2>1. k \in Nat /\ k <= m /\ k + 1 \in 0 .. m /\ k + 1 # 0 /\ (k + 1) - 1 = k
    BY <1>1
  <2>2. Fine(k)
    BY <2>1
  <2> DEFINE a == g[k]
             x == g[k + 1]
             q == qs[k + 1]
             s == c[q]
             Q == rest(k)
             R == known(k)
  <2>3. x = BindItem(a, q, s.expr)
    BY <2>1, <1>2
  <2>4. CASE a.out = "failed"
    <3>1. x = a
      <4> HIDE DEF a, x, s
      <4> QED BY <2>3, <2>4 DEF BindItem
    <3> QED BY <3>1, <2>4
  <2>5. CASE a.out # "failed"
    <3>1. /\ Sound(L, n, a.env, a.open, Q, R, {}, J, K)
          /\ Grew(z.env, a.env) /\ Alike(z, a)
      BY <2>2, <2>5
    <3>2. Shaped(a) /\ a.out = "running"
      BY <3>1 DEF Alike
    <3>3. q \in Q /\ rest(k + 1) = Q \ {q} /\ known(k + 1) = R \cup {s.expr}
      BY <2>1, <1>4, <1>5
    <3>4. s \in q.sat /\ Grew(s.env, z.env)
      BY <2>1, <1>4 DEF Fitting
    <3> HIDE DEF a, x, q, s, Q, R
    <3>5. Grew(s.env, a.env)
      BY <3>1, <3>4, GrewOn
    <3>6. Chosen(L, n, a, q, s, x, Q, R, J, K)
      BY <2>3, <3>1, <3>2, <3>3, <3>4, <3>5, BindItemIs
    <3>7. CASE x.out = "failed"
      BY <3>7 DEF x
    <3>8. CASE x.out # "failed"
      <4>1. /\ Sound(L, n, x.env, x.open, Q \ {q}, R \cup {s.expr}, {}, J, K)
            /\ Grew(a.env, x.env) /\ Alike(a, x)
        BY <3>6, <3>8 DEF Chosen
      <4>2. Grew(z.env, x.env)
        BY <4>1, <3>1, GrewOn
      <4>3. Alike(z, x)
        BY <4>1, <3>1, AlikeOn
      <4> QED BY <4>1, <4>2, <4>3, <3>3 DEF x
    <3> QED BY <3>7, <3>8
  <2> QED BY <2>4, <2>5
<1>8. m \in P
  <2> HIDE DEF P
  <2>1. P \in SUBSET Nat
    BY DEF P
  <2> QED BY <2>1, <1>1, <1>6, <1>7, Induction
<1>9. rest(m) = {} /\ known(m) = S \cup {c[q].expr : q \in ToSet(qs)}
  BY <1>1
<1> HIDE DEF rest, known
<1>10. Fine(m) /\ b = g[m]
  BY <1>1, <1>8 DEF m
<1> QED BY <1>9, <1>10 DEF AllBound

\* Finitely many items wait.
LEMMA QueuesFinite ==
  ASSUME NEW r, Shaped(r)
  PROVE  IsFiniteSet(Queues(r))
<1> DEFINE A == r.deferred
           c == r.cache
           ks == r.keys
           B == {c[k] : k \in ks}
<1>1. IsFiniteSet(A) /\ IsFiniteSet(ks)
  BY DEF Shaped
<1> HIDE DEF A, c, ks
<1>2. IsFiniteSet(B)
  BY <1>1, ImageFinite
<1> HIDE DEF B
<1>3. IsFiniteSet(A \cup B)
  BY <1>1, <1>2, FS_Union
<1> QED BY <1>3 DEF A, B, c, ks, Queues

\* The compatible choice c for all that waits is taken.
LEMMA SettledProceeds ==
  ASSUME ConstsFit, NEW L, LibFits(L), NEW n \in Nat, NEW r, NEW J, NEW K,
         Right(L, n, r, {}, J, K), r.out = "running",
         NEW c \in Compatible(r, Queues(r)), NEW b, b = Settled(r, c)
  PROVE  Resolved(L, n, r, b, {}, J, K)
<1> DEFINE Q == Queues(r)
           S == Singles(r)
           e == r.env
           o == r.open
           qs == SetToSeq(Q)
           f == EnvOf(r, c)
           z == [r EXCEPT !.env = f]
<1>1. /\ Shaped(r) /\ Tidy(r) /\ KeysFit(L, r) /\ EnvFits(L, e)
      /\ Sound(L, n, e, o, Q, S, {}, J, K)
  BY DEF Right, Sound
<1>2. /\ DOMAIN c = Q
      /\ \A q \in Q : c[q] \in q.sat /\ Agree(e, c[q].env)
      /\ \A p, q \in Q : Agree(c[p].env, c[q].env)
  BY DEF Compatible, Combinations
<1>3. IsSeq(qs) /\ IsInjective(qs) /\ ToSet(qs) = Q /\ Len(qs) \in Nat
  <2>1. IsFiniteSet(Q)
    BY <1>1, QueuesFinite
  <2> HIDE DEF Q
  <2> QED BY <2>1, SetToSeqIs, SeqIs
<1>4. /\ Sound(L, n, f, o, Q, S, {}, J, K)
      /\ Grew(e, f) /\ DOMAIN f.asn = DOMAIN e.asn
      /\ \A q \in Q : Grew(c[q].env, f)
  <2>1. f = Union({e} \cup {c[q].env : q \in Q})
    BY <1>2 DEF EnvOf
  <2> HIDE DEF Q, S, e, o, f
  <2> DEFINE T == {}
  <2>2. Sound(L, n, e, o, Q, S, T, J, K)
    BY <1>1
  <2> HIDE DEF T
  <2>3. LET h == Union({e} \cup {c[q].env : q \in Q})
        IN /\ Sound(L, n, h, o, Q, S, T, J, K)
           /\ Grew(e, h) /\ DOMAIN h.asn = DOMAIN e.asn
           /\ \A q \in Q : Grew(c[q].env, h)
    BY <2>2, <1>2, SoundChosen
  <2> QED BY <2>1, <2>3 DEF T
<1>5. PICK g : Bindings(r, c, qs, Len(qs), g) /\ b = Cleared(r, c, g[Len(qs)])
  <2>1. qs = SetToSeq(DOMAIN c)
    BY <1>2
  <2> HIDE DEF qs, Q
  <2> QED BY <2>1, <1>3, SettledIs
<1> DEFINE x == g[Len(qs)]
<1> HIDE DEF f
<1>6. /\ Shaped(z) /\ z.env = f /\ z.open = o /\ z.out = "running" /\ Alike(r, z)
  BY <1>1 DEF Shaped, Alike, Steady
<1>7. z = Begun(r, c)
  BY DEF f, Begun
<1> HIDE DEF z
<1>8. \/ x.out = "failed"
      \/ /\ Sound(L, n, x.env, x.open, {}, S \cup {c[q].expr : q \in Q}, {}, J, K)
         /\ Grew(z.env, x.env) /\ Alike(z, x)
  <2>1. Sound(L, n, z.env, z.open, ToSet(qs), S, {}, J, K)
    BY <1>3, <1>4, <1>6
  <2>2. Fitting(z.env, c, qs)
    BY <1>2, <1>3, <1>4, <1>6 DEF Fitting
  <2> HIDE DEF qs, S, x
  <2>3. x = g[Len(qs)] /\ Bindings(r, c, qs, Len(qs), g) /\ IsSeq(qs) /\ IsInjective(qs)
    BY <1>3, <1>5 DEF x
  <2>4. AllBound(L, n, z, x, qs, c, S, J, K)
    BY <2>1, <2>2, <2>3, <1>6, <1>7, BindingsProceed
  <2> QED BY <2>4, <1>3 DEF AllBound
<1> HIDE DEF x
<1> DEFINE cache == [key \in DOMAIN x.cache |->
                       IF key \in r.keys THEN Item({c[r.cache[key]]}, << >>)
                       ELSE x.cache[key]]
<1>9. b = [x EXCEPT !.deferred = {}, !.keys = {}, !.cache = cache]
  BY <1>5 DEF Cleared, x
<1>10. Shaped(x)
  <2>1. \A a, q, y : Shaped(a) => Shaped(BindItem(a, q, y))
    <3> TAKE a, q, y
    <3> HAVE Shaped(a)
    <3> DEFINE v == BindRecursive(a, q.ids[1], y)
    <3>1. Shaped(v)
      <4>1. CASE CanBind(a, y)
        <5> DEFINE oo == a.open \o y.subs
                   ff == BindAssertion(a.env, q.ids[1], y)
        <5>1. v = [a EXCEPT !.open = oo, !.env = ff]
          BY <4>1 DEF BindRecursive
        <5> HIDE DEF v, oo, ff
        <5> QED BY <5>1 DEF Shaped
      <4>2. CASE ~ CanBind(a, y)
        BY <4>2 DEF BindRecursive, Failed, Shaped
      <4> QED BY <4>1, <4>2
    <3> DEFINE w == BindAssertions(v.env, ToSet(Tail(q.ids)), y)
    <3>2. BindItem(a, q, y) = IF a.out # "running" THEN a ELSE [v EXCEPT !.env = w]
      BY DEF BindItem
    <3> HIDE DEF v, w
    <3>3. Shaped([v EXCEPT !.env = w])
      BY <3>1 DEF Shaped
    <3> QED BY <3>2, <3>3
  <2> DEFINE m == Len(qs)
             P == {k \in Nat : k <= m => Shaped(g[k])}
  <2>2. \A k \in 0 .. m : g[k] = IF k = 0 THEN z
                                 ELSE BindItem(g[k - 1], qs[k], c[qs[k]].expr)
    BY <1>5, <1>7 DEF Bindings
  <2>3. m \in Nat
    BY <1>3
  <2> HIDE DEF m, qs
  <2>4. 0 \in P
    BY <2>2, <2>3, <1>6
  <2>5. ASSUME NEW k \in P PROVE k + 1 \in P
    <3> SUFFICES ASSUME k + 1 <= m PROVE Shaped(g[k + 1])
      OBVIOUS
    <3>1. k \in Nat /\ k <= m /\ k + 1 \in 0 .. m /\ k + 1 # 0 /\ (k + 1) - 1 = k
      BY <2>3
    <3>2. g[k + 1] = BindItem(g[k], qs[k + 1], c[qs[k + 1]].expr)
      BY <3>1, <2>2
    <3>3. Shaped(g[k])
      BY <3>1
    <3> QED BY <3>2, <3>3, <2>1
  <2> HIDE DEF P
  <2>6. P \in SUBSET Nat
    BY DEF P
  <2>7. m \in P
    BY <2>3, <2>4, <2>5, <2>6, Induction
  <2> QED BY <2>3, <2>7 DEF P, x, m
<1>11. /\ Shaped(b) /\ b.env = x.env /\ b.open = x.open /\ b.depth = x.depth
       /\ b.keys = {} /\ b.deferred = {} /\ b.cache = cache /\ b.out = x.out
       /\ b.left = x.left /\ b.inner = x.inner /\ b.ambiguous = x.ambiguous
  <2> HIDE DEF cache
  <2>1. /\ b.env = x.env /\ b.open = x.open /\ b.depth = x.depth
        /\ b.keys = {} /\ b.deferred = {} /\ b.cache = cache /\ b.out = x.out
        /\ b.left = x.left /\ b.inner = x.inner /\ b.ambiguous = x.ambiguous
    BY <1>9, <1>10 DEF Shaped
  <2>2. Shaped(b)
    BY <1>9, <1>10, FS_EmptySet DEF Shaped
  <2> QED BY <2>1, <2>2
<1>12. CASE x.out = "failed"
  BY <1>11, <1>12 DEF Resolved
<1>13. CASE x.out # "failed"
  <2>1. /\ Sound(L, n, x.env, x.open, {}, S \cup {c[q].expr : q \in Q}, {}, J, K)
        /\ Grew(f, x.env) /\ Alike(z, x) /\ EnvFits(L, x.env)
    BY <1>6, <1>8, <1>13 DEF Sound
  <2>2. /\ x.cache = r.cache /\ x.keys = r.keys /\ x.out = "running"
        /\ x.depth = r.depth /\ Steady(r, x)
    BY <2>1, <1>6, AlikeOn DEF Alike
  <2>3. DOMAIN b.cache = DOMAIN r.cache
    BY <1>11, <2>2
  <2>4. ASSUME NEW k \in r.keys
        PROVE  /\ k \in DOMAIN r.cache /\ r.cache[k] \in Q
               /\ b.cache[k].sat = {c[r.cache[k]]}
    <3>1. k \in DOMAIN r.cache /\ r.cache[k] \in Q
      BY <1>1 DEF Tidy, Queues
    <3>2. b.cache[k] = Item({c[r.cache[k]]}, << >>)
      BY <3>1, <1>11, <2>2
    <3> QED BY <3>1, <3>2 DEF Item
  <2>5. \A k \in DOMAIN r.cache \ r.keys : b.cache[k] = r.cache[k]
    BY <1>11, <2>2
  <2>6. Queues(b) = {}
    BY <1>11 DEF Queues
  <2>7. ASSUME NEW y \in Singles(b) PROVE y \in S \cup {c[q].expr : q \in Q}
    <3>1. PICK k : SingleAt(b, k, y)
      BY <2>7, SinglesIn
    <3>2. k \in DOMAIN r.cache /\ \E t \in b.cache[k].sat : y = t.expr
      BY <3>1, <2>3 DEF SingleAt
    <3>3. CASE k \in r.keys
      <4>1. y = c[r.cache[k]].expr /\ r.cache[k] \in Q
        BY <3>2, <3>3, <2>4
      <4> QED BY <4>1
    <3>4. CASE k \notin r.keys
      <4>1. k \in DOMAIN r.cache \ r.keys /\ \E t \in r.cache[k].sat : y = t.expr
        BY <3>2, <3>4, <2>5
      <4> QED BY <4>1, SinglesAre
    <3> QED BY <3>3, <3>4
  <2>8. Sound(L, n, b.env, b.open, Queues(b), Singles(b), {}, J, K)
    <3> DEFINE R == Singles(b)
               U == S \cup {c[q].expr : q \in Q}
               V == {}
               P == {}
    <3>1. R \in SUBSET U
      BY <2>7
    <3>2. Sound(L, n, b.env, b.open, P, U, V, J, K)
      BY <2>1, <1>11
    <3> HIDE DEF R, U, V, P
    <3>3. Sound(L, n, b.env, b.open, P, R, V, J, K)
      BY <3>1, <3>2, SoundFewer
    <3> QED BY <3>3, <2>6 DEF P, R, V
  <2>9. Tidy(b)
    <3>1. ASSUME NEW k \in DOMAIN b.cache PROVE \E s : b.cache[k].sat = {s}
      <4>1. CASE k \in r.keys
        BY <4>1, <2>4
      <4>2. CASE k \notin r.keys
        <5>1. k \in DOMAIN r.cache \ r.keys /\ b.cache[k] = r.cache[k]
          BY <4>2, <2>3, <2>5
        <5>2. \E s : r.cache[k].sat = {s}
          BY <5>1, <1>1 DEF Tidy
        <5> QED BY <5>1, <5>2
      <4> QED BY <4>1, <4>2
    <3> QED BY <3>1, <1>11 DEF Tidy
  <2>10. Grew(e, x.env)
    BY <2>1, <1>4, GrewOn
  <2>11. KeysFit(L, b)
    <3> SUFFICES ASSUME NEW k \in DOMAIN b.cache, NEW t \in b.cache[k].sat
                 PROVE  Answers(L, k, t.expr, {b.env})
      BY <1>11 DEF KeysFit
    <3> DEFINE y == t.expr
               fs == {b.env}
    <3>1. CASE k \in r.keys
      <4> DEFINE q == r.cache[k]
                 es == {t.env, e}
      <4>1. q \in Q /\ t = c[q] /\ k \in DOMAIN r.cache /\ t \in q.sat
        BY <3>1, <2>4, <1>2
      <4>2. Answers(L, k, y, es)
        BY <3>1, <4>1, <1>1 DEF KeysFit
      <4>3. EnvFits(L, t.env)
        <5>1. ItemFits(L, e, q)
          BY <4>1, <1>1 DEF Sound
        <5> QED BY <5>1, <4>1 DEF ItemFits
      <4>4. Grew(t.env, x.env)
        <5>1. Grew(t.env, f)
          BY <4>1, <1>4
        <5> QED BY <5>1, <2>1, GrewOn
      <4>5. \A u \in es : EnvFits(L, u) /\ \E v \in fs : EnvFits(L, v) /\ Grew(u, v)
        BY <4>3, <4>4, <2>1, <2>10, <1>1, <1>11
      <4> HIDE DEF y, es, fs
      <4>6. Answers(L, k, y, fs)
        BY <4>2, <4>5, AnswersOn
      <4> QED BY <4>6 DEF y, fs
    <3>2. CASE k \notin r.keys
      <4> DEFINE es == {e}
      <4>1. k \in DOMAIN r.cache /\ t \in r.cache[k].sat
        BY <3>2, <2>3, <2>5
      <4>2. Answers(L, k, y, es)
        BY <3>2, <4>1, <1>1 DEF KeysFit
      <4>3. \A u \in es : EnvFits(L, u) /\ \E v \in fs : EnvFits(L, v) /\ Grew(u, v)
        BY <2>1, <2>10, <1>1, <1>11
      <4> HIDE DEF y, es, fs
      <4>4. Answers(L, k, y, fs)
        BY <4>2, <4>3, AnswersOn
      <4> QED BY <4>4 DEF y, fs
    <3> QED BY <3>1, <3>2
  <2>12. Right(L, n, b, {}, J, K)
    BY <1>11, <2>8, <2>9, <2>11 DEF Right
  <2>13. b.out = "running" /\ b.depth = r.depth /\ Steady(r, b)
    BY <1>11, <2>2 DEF Steady
  <2> QED BY <1>11, <2>10, <2>12, <2>13 DEF Resolved
<1> QED BY <1>12, <1>13

-----------------------------------------------------------------------------
(* A pass                                                                  *)

\* What is right of r depends on what it binds, opens and defers only.
LEMMA RightSame ==
  ASSUME NEW L, NEW n, NEW r, NEW T, NEW J, NEW K, Right(L, n, r, T, J, K),
         NEW b, Shaped(b), b.env = r.env, b.open = r.open, b.cache = r.cache,
         b.keys = r.keys, b.deferred = r.deferred
  PROVE  Right(L, n, b, T, J, K)
<1>1. Tidy(b)
  BY TidyStays DEF Right
<1>2. KeysFit(L, b)
  BY DEF Right, KeysFit
<1>3. Queues(b) = Queues(r) /\ Singles(b) = Singles(r)
  BY DEF Queues, Singles
<1> QED BY <1>1, <1>2, <1>3 DEF Right

\* b is r, with a choice made for what waited, or ambiguous.
Disambiguated(L, n, r, b, J, K) ==
  \/ b.out = "failed"
  \/ /\ b.out \in {"running", "ambiguous"} /\ b.depth = r.depth
     /\ Right(L, n, b, {}, J, K) /\ Grew(r.env, b.env) /\ Steady(r, b)

\* r with the alternatives of an ambiguous end.
Undecided(r, alts) == [r EXCEPT !.out = "ambiguous", !.alts = alts]

\* An ambiguous choice ends the run, and is right at that.
LEMMA UndecidedIs ==
  ASSUME NEW L, NEW n, NEW r, NEW J, NEW K, Right(L, n, r, {}, J, K), NEW alts,
         NEW b, b = Undecided(r, alts)
  PROVE  Disambiguated(L, n, r, b, J, K)
<1>1. Shaped(r)
  BY DEF Right
<1>2. /\ Shaped(b) /\ b.env = r.env /\ b.open = r.open /\ b.cache = r.cache
      /\ b.keys = r.keys /\ b.deferred = r.deferred /\ b.out = "ambiguous"
      /\ b.depth = r.depth /\ Steady(r, b)
  BY <1>1 DEF Shaped, Undecided, Steady
<1> DEFINE T == {}
<1>3. Right(L, n, r, T, J, K)
  OBVIOUS
<1> HIDE DEF T
<1>4. Right(L, n, b, T, J, K)
  BY <1>2, <1>3, RightSame
<1> QED BY <1>2, <1>4 DEF T, Disambiguated, Grew

\* What the choice among the deferred may return.
LEMMA DisambiguateIs ==
  ASSUME NEW r
  PROVE  LET b == Disambiguate(r)
             qs == Queues(r)
         IN \/ (r.out # "running" \/ qs = {}) /\ b = r
            \/ /\ r.out = "running" /\ qs # {}
               /\ \/ b = Failed(r)
                  \/ \E c \in Compatible(r, qs) : b = Settled(r, c)
                  \/ \E alts : b = Undecided(r, alts)
<1> DEFINE qs == Queues(r)
           best == Cheapest(Compatible(r, qs))
           c == CHOOSE x \in best : TRUE
           alts == {Alternative(r, x) : x \in best}
           b == Disambiguate(r)
<1>1. b = IF r.out # "running" \/ qs = {} THEN r
          ELSE CASE best = {} -> Failed(r)
                 [] Cardinality(best) = 1 -> Settled(r, c)
                 [] OTHER -> Undecided(r, alts)
  BY DEF Disambiguate, Undecided
<1>2. Cardinality({}) # 1
  BY FS_EmptySet
<1>3. best \in SUBSET Compatible(r, qs)
  BY DEF Cheapest
<1> HIDE DEF best, alts, b, qs
<1>4. CASE r.out # "running" \/ qs = {}
  BY <1>1, <1>4 DEF qs, b
<1>5. CASE r.out = "running" /\ qs # {}
  <2>1. b = CASE best = {} -> Failed(r)
              [] Cardinality(best) = 1 -> Settled(r, c)
              [] OTHER -> Undecided(r, alts)
    BY <1>1, <1>5
  <2>2. CASE best = {}
    BY <1>2, <1>5, <2>1, <2>2 DEF qs, b
  <2>3. CASE best # {} /\ Cardinality(best) = 1
    <3>1. b = Settled(r, c)
      BY <2>1, <2>3
    <3>2. c \in Compatible(r, qs)
      BY <2>3, <1>3
    <3> QED BY <1>5, <3>1, <3>2 DEF qs, b
  <2>4. CASE best # {} /\ Cardinality(best) # 1
    <3>1. b = Undecided(r, alts)
      BY <2>1, <2>4
    <3> QED BY <1>5, <3>1 DEF qs, b
  <2> QED BY <2>2, <2>3, <2>4
<1> QED BY <1>4, <1>5

\* Disambiguating keeps a resolver right.
LEMMA DisambiguateProceeds ==
  ASSUME ConstsFit, NEW L, LibFits(L), NEW n \in Nat, NEW r, NEW J, NEW K,
         Right(L, n, r, {}, J, K), r.out = "running", NEW b, b = Disambiguate(r)
  PROVE  Disambiguated(L, n, r, b, J, K)
<1> DEFINE T == {}
<1>0. Right(L, n, r, T, J, K) /\ T = {}
  OBVIOUS
<1>1. CASE b = r
  <2> HIDE DEF T
  <2> QED BY <1>0, <1>1 DEF Disambiguated, Grew, Steady
<1>2. CASE b = Failed(r)
  BY <1>2, FailedIs DEF Disambiguated, Right, Failed, Shaped
<1>3. CASE \E c \in Compatible(r, Queues(r)) : b = Settled(r, c)
  <2>1. PICK c \in Compatible(r, Queues(r)) : b = Settled(r, c)
    BY <1>3
  <2>2. Resolved(L, n, r, b, {}, J, K)
    BY <2>1, SettledProceeds
  <2> QED BY <2>2 DEF Resolved, Disambiguated
<1>4. CASE \E alts : b = Undecided(r, alts)
  BY <1>4, UndecidedIs
<1> QED BY <1>1, <1>2, <1>3, <1>4, DisambiguateIs

\* r a level deeper, with its open assertions next.
Deeper(r) == [r EXCEPT !.depth = @ + 1, !.open = << >>]

\* A pass begins with the assertions that were open as those to resolve.
LEMMA DeeperIs ==
  ASSUME NEW L, NEW n, NEW r, NEW J, NEW K, Right(L, n, r, {}, J, K),
         NEW b, b = Deeper(r)
  PROVE  /\ Right(L, n, b, ToSet(r.open), J, K) /\ IsSeq(r.open) /\ IsInjective(r.open)
         /\ b.env = r.env /\ b.out = r.out /\ b.depth = r.depth + 1 /\ Steady(r, b)
<1>1. Shaped(r)
  BY DEF Right
<1>2. /\ Shaped(b) /\ b.env = r.env /\ b.open = << >> /\ b.cache = r.cache
      /\ b.keys = r.keys /\ b.deferred = r.deferred /\ b.out = r.out
      /\ b.depth = r.depth + 1 /\ Steady(r, b)
  BY <1>1 DEF Shaped, Deeper, Steady
<1>3. Tidy(b)
  BY <1>2, TidyStays DEF Right
<1>4. KeysFit(L, b)
  BY <1>2 DEF Right, KeysFit
<1>5. Queues(b) = Queues(r) /\ Singles(b) = Singles(r)
  BY <1>2 DEF Queues, Singles
<1>6. Sound(L, n, r.env, r.open, Queues(r), Singles(r), {}, J, K)
  BY DEF Right
<1>7. IsSeq(r.open) /\ IsInjective(r.open)
  BY <1>6 DEF Sound
<1>8. Sound(L, n, b.env, b.open, Queues(b), Singles(b), ToSet(r.open), J, K)
  BY <1>2, <1>5, <1>6, SoundDeeper
<1> QED BY <1>2, <1>3, <1>4, <1>7, <1>8 DEF Right

\* b is what a pass has made of r.
Passed(L, n, r, b, J, K) ==
  \/ b.out = "failed"
  \/ /\ b.out \in {"running", "resolved", "ambiguous"}
     /\ Right(L, n, b, {}, J, K) /\ Grew(r.env, b.env) /\ Steady(r, b)
     /\ b.out = "resolved" => b.open = << >>
     /\ b.out = "running" => r.depth # MaxDepth /\ b.depth = r.depth + 1

\* r, its loop at an end.
Ended(r) == [r EXCEPT !.out = "resolved"]

\* A resolver with nothing open ends.
LEMMA EndedIs ==
  ASSUME NEW L, NEW n, NEW r, NEW J, NEW K, Right(L, n, r, {}, J, K),
         NEW b, b = Ended(r)
  PROVE  /\ Right(L, n, b, {}, J, K) /\ b.env = r.env /\ b.open = r.open
         /\ b.out = "resolved" /\ b.depth = r.depth /\ Steady(r, b)
<1>1. Shaped(r)
  BY DEF Right
<1>2. /\ Shaped(b) /\ b.env = r.env /\ b.open = r.open /\ b.cache = r.cache
      /\ b.keys = r.keys /\ b.deferred = r.deferred /\ b.out = "resolved"
      /\ b.depth = r.depth /\ Steady(r, b)
  BY <1>1 DEF Shaped, Ended, Steady
<1> DEFINE T == {}
<1>3. Right(L, n, r, T, J, K)
  OBVIOUS
<1> HIDE DEF T
<1>4. Right(L, n, b, T, J, K)
  BY <1>2, <1>3, RightSame
<1> QED BY <1>2, <1>4 DEF T

\* b is what deepening has made of d, which disambiguating made of r.
Deepened(L, n, r, d, b, J, K) ==
  \/ b.out = "failed"
  \/ /\ b.out = "running" /\ d.out = "running" /\ d.open # << >>
     /\ b.depth = r.depth + 1 /\ r.depth # MaxDepth
     /\ Right(L, n, b, ToSet(d.open), J, K) /\ IsSeq(d.open) /\ IsInjective(d.open)
     /\ Grew(r.env, b.env) /\ Steady(r, b)
  \/ /\ b.out \in {"resolved", "ambiguous"}
     /\ Right(L, n, b, {}, J, K) /\ Grew(r.env, b.env) /\ Steady(r, b)
     /\ b.out = "resolved" => b.open = << >>

\* Ending, failing or beginning the next pass is right.
LEMMA DeepenProceeds ==
  ASSUME NEW L, NEW n, NEW r, NEW d, NEW J, NEW K,
         Disambiguated(L, n, r, d, J, K), NEW b, b = Deepen(d)
  PROVE  Deepened(L, n, r, d, b, J, K)
<1>1. CASE d.out = "failed"
  BY <1>1 DEF Deepen, Deepened
<1>2. CASE d.out = "ambiguous"
  <2>1. b = d
    BY <1>2 DEF Deepen
  <2> QED BY <1>2, <2>1 DEF Disambiguated, Deepened
<1>3. CASE d.out = "running"
  <2>1. /\ Right(L, n, d, {}, J, K) /\ Grew(r.env, d.env) /\ Steady(r, d)
        /\ d.depth = r.depth
    BY <1>3 DEF Disambiguated
  <2>2. CASE d.open = << >>
    <3>1. b = Ended(d)
      BY <1>3, <2>2 DEF Deepen, Ended
    <3>2. /\ Right(L, n, b, {}, J, K) /\ b.env = d.env /\ b.open = d.open
          /\ b.out = "resolved" /\ b.depth = d.depth /\ Steady(d, b)
      BY <2>1, <3>1, EndedIs
    <3> QED BY <2>1, <2>2, <3>2 DEF Deepened, Steady
  <2>3. CASE d.open # << >> /\ d.depth = MaxDepth
    <3>1. b = Failed(d)
      BY <1>3, <2>3 DEF Deepen
    <3>2. Shaped(d)
      BY <2>1 DEF Right
    <3> QED BY <3>1, <3>2, FailedIs DEF Deepened
  <2>4. CASE d.open # << >> /\ d.depth # MaxDepth
    <3>1. b = Deeper(d)
      BY <1>3, <2>4 DEF Deepen, Deeper
    <3>2. /\ Right(L, n, b, ToSet(d.open), J, K) /\ IsSeq(d.open) /\ IsInjective(d.open)
          /\ b.env = d.env /\ b.out = d.out /\ b.depth = d.depth + 1 /\ Steady(d, b)
      BY <2>1, <3>1, DeeperIs
    <3> QED BY <1>3, <2>1, <2>4, <3>2 DEF Deepened, Steady
  <2> QED BY <2>2, <2>3, <2>4
<1> QED BY <1>1, <1>2, <1>3 DEF Disambiguated

\* A resolver that has ended resolves nothing more.
LEMMA AllStopped ==
  ASSUME NEW build, NEW L, NEW r, r.out # "running", NEW ds, Len(ds) \in Nat
  PROVE  ResolveAll(build, L, r, ds) = r
<1> DEFINE m == Len(ds)
<1>1. m \in Nat
  OBVIOUS
<1>2. PICK g : Rounds(build, L, r, ds, m, g) /\ ResolveAll(build, L, r, ds) = g[m]
  BY AllIs
<1>3. \A k \in 0 .. m : g[k] = IF k = 0 THEN r
                               ELSE ResolveAssertion(build, L, g[k - 1], ds[k])
  BY <1>2 DEF Rounds
<1> HIDE DEF m
<1> DEFINE P == {k \in Nat : k <= m => g[k] = r}
<1>4. 0 \in P
  BY <1>1, <1>3
<1>5. ASSUME NEW k \in P PROVE k + 1 \in P
  <2> SUFFICES ASSUME k + 1 <= m PROVE g[k + 1] = r
    OBVIOUS
  <2>1. k \in Nat /\ k <= m /\ k + 1 \in 0 .. m /\ k + 1 # 0 /\ (k + 1) - 1 = k
    BY <1>1
  <2>2. g[k] = r
    BY <2>1
  <2>3. g[k + 1] = ResolveAssertion(build, L, g[k], ds[k + 1])
    BY <2>1, <1>3
  <2> QED BY <2>2, <2>3 DEF ResolveAssertion
<1>6. m \in P
  <2> HIDE DEF P
  <2>1. P \in SUBSET Nat
    BY DEF P
  <2> QED BY <2>1, <1>1, <1>4, <1>5, Induction
<1> QED BY <1>1, <1>2, <1>6

\* A pass keeps a resolver right.
LEMMA PassProceeds ==
  ASSUME ConstsFit, NEW L, LibFits(L), NEW n \in Nat, NEW r, NEW J, NEW K,
         Right(L, n, r, {}, J, K), r.out = "running", NEW build,
         NEW b, b = Pass(build, L, r)
  PROVE  Passed(L, n, r, b, J, K)
<1> DEFINE d == Disambiguate(r)
           x == Deepen(d)
           y == ResolveAll(build, L, x, d.open)
<1>1. Disambiguated(L, n, r, d, J, K)
  BY DisambiguateProceeds
<1>2. b = IF d.out # "running" \/ d.open = << >> THEN x ELSE EndPass(y)
  BY DEF Pass
<1> HIDE DEF d
<1>3. Deepened(L, n, r, d, x, J, K)
  BY <1>1, DeepenProceeds
<1> HIDE DEF x
<1>4. CASE d.out # "running" \/ d.open = << >>
  BY <1>2, <1>3, <1>4 DEF Deepened, Passed
<1>5. CASE d.out = "running" /\ d.open # << >> /\ x.out # "running"
  <2>1. Right(L, n, d, {}, J, K)
    BY <1>1, <1>5 DEF Disambiguated
  <2>2. Len(d.open) \in Nat
    <3>1. IsSeq(d.open)
      BY <2>1 DEF Right, Sound
    <3> QED BY <3>1, SeqIs
  <2>3. y = x
    BY <1>5, <2>2, AllStopped
  <2>4. x.out = "failed"
    <3>1. x = Failed(d) \/ x = Deeper(d)
      BY <1>5 DEF x, Deepen, Deeper
    <3>2. Shaped(d)
      BY <2>1 DEF Right
    <3>3. Failed(d).out = "failed" /\ Deeper(d).out = d.out
      BY <3>2 DEF Shaped, Failed, Deeper
    <3> QED BY <1>5, <3>1, <3>3
  <2>5. b = x
    BY <1>2, <1>5, <2>3, <2>4 DEF EndPass
  <2> QED BY <2>4, <2>5 DEF Passed
<1>6. CASE d.out = "running" /\ d.open # << >> /\ x.out = "running"
  <2>1. /\ Right(L, n, x, ToSet(d.open), J, K) /\ IsSeq(d.open) /\ IsInjective(d.open)
        /\ Grew(r.env, x.env) /\ Steady(r, x) /\ x.depth = r.depth + 1
        /\ r.depth # MaxDepth
    BY <1>3, <1>6 DEF Deepened
  <2>2. Resolved(L, n, x, y, {}, J, K)
    <3> DEFINE ds == d.open
    <3>1. Right(L, n, x, ToSet(ds), J, K) /\ IsSeq(ds) /\ IsInjective(ds)
      BY <2>1
    <3> HIDE DEF ds
    <3>2. Resolved(L, n, x, ResolveAll(build, L, x, ds), {}, J, K)
      BY <3>1, <1>6, AllProceeds
    <3> QED BY <3>2 DEF ds
  <2> HIDE DEF y
  <2>3. b = EndPass(y)
    BY <1>2, <1>6
  <2>4. CASE y.out = "failed"
    BY <2>3, <2>4 DEF EndPass, Passed
  <2>5. CASE y.out # "failed"
    <3>1. /\ y.out = "running" /\ y.depth = r.depth + 1
          /\ Right(L, n, y, {}, J, K) /\ Grew(x.env, y.env) /\ Steady(x, y)
      BY <2>1, <2>2, <2>5 DEF Resolved
    <3>2. Grew(r.env, y.env) /\ Steady(r, y)
      BY <2>1, <3>1, GrewOn DEF Steady
    <3>3. CASE y.open = << >>
      <4>1. b = Ended(y)
        BY <2>3, <3>1, <3>3 DEF EndPass, Ended
      <4>2. /\ Right(L, n, b, {}, J, K) /\ b.env = y.env /\ b.open = y.open
            /\ b.out = "resolved" /\ b.depth = y.depth /\ Steady(y, b)
        BY <3>1, <4>1, EndedIs
      <4> QED BY <3>2, <3>3, <4>2 DEF Passed, Steady
    <3>4. CASE y.open # << >>
      <4>1. b = y
        BY <2>3, <3>4 DEF EndPass
      <4> QED BY <2>1, <3>1, <3>2, <4>1 DEF Passed
    <3> QED BY <3>3, <3>4
  <2> QED BY <2>4, <2>5
<1> QED BY <1>4, <1>5, <1>6

-----------------------------------------------------------------------------
(* All the passes of a resolver                                            *)

Level(build, L, a) == IF a.out = "running" THEN Pass(build, L, a) ELSE a

\* g are the resolvers after each of m passes, the first over ds.
Levels(build, L, r, ds, m, g) ==
  g = [k \in 0 .. m |-> IF k = 0 THEN ResolveAll(build, L, r, ds)
                        ELSE Level(build, L, g[k - 1])]

\* There is a function of the first m passes.
LEMMA LevelsExist ==
  ASSUME NEW build, NEW L, NEW r, NEW ds, NEW m \in Nat
  PROVE  \E g : Levels(build, L, r, ds, m, g)
<1> DEFINE P == {k \in Nat : \E g : Levels(build, L, r, ds, k, g)}
           z == ResolveAll(build, L, r, ds)
<1>1. 0 \in P
  <2> DEFINE g == [k \in 0 .. 0 |-> z]
  <2>1. g = [k \in 0 .. 0 |-> IF k = 0 THEN z ELSE Level(build, L, g[k - 1])]
    <3> HIDE DEF z
    <3> QED OBVIOUS
  <2> HIDE DEF g
  <2>2. Levels(build, L, r, ds, 0, g)
    BY <2>1 DEF Levels
  <2> QED BY <2>2
<1>2. ASSUME NEW i \in P PROVE i + 1 \in P
  <2>1. i \in Nat /\ i + 1 \in Nat
    OBVIOUS
  <2>2. PICK g : Levels(build, L, r, ds, i, g)
    OBVIOUS
  <2> DEFINE x == Level(build, L, g[i])
             h == [k \in 0 .. i + 1 |-> IF k = i + 1 THEN x ELSE g[k]]
  <2>3. \A k \in 0 .. i : g[k] = IF k = 0 THEN z ELSE Level(build, L, g[k - 1])
    BY <2>2 DEF Levels
  <2> HIDE DEF z
  <2>4. /\ \A k \in 0 .. i : h[k] = g[k] /\ k \in 0 .. i + 1
        /\ h[i + 1] = x
    BY <2>1
  <2>5. h = [k \in 0 .. i + 1 |-> h[k]]
    OBVIOUS
  <2> HIDE DEF h
  <2>6. ASSUME NEW k \in 0 .. i + 1
        PROVE  h[k] = IF k = 0 THEN z ELSE Level(build, L, h[k - 1])
    <3>1. CASE k = i + 1
      <4>1. k # 0 /\ k - 1 = i /\ i \in 0 .. i
        BY <3>1, <2>1
      <4>2. h[k - 1] = g[i]
        BY <4>1, <2>4
      <4>3. h[k] = Level(build, L, h[k - 1])
        BY <4>2, <3>1, <2>4
      <4> QED BY <4>1, <4>3
    <3>2. CASE k # i + 1
      <4>1. k \in 0 .. i /\ (k # 0 => k - 1 \in 0 .. i)
        BY <3>2, <2>1
      <4>2. h[k] = g[k] /\ (k # 0 => h[k - 1] = g[k - 1])
        BY <4>1, <2>4
      <4> QED BY <4>1, <4>2, <2>3
    <3> QED BY <3>1, <3>2
  <2>7. Levels(build, L, r, ds, i + 1, h)
    BY <2>5, <2>6 DEF Levels, z
  <2> QED BY <2>1, <2>7
<1> HIDE DEF P
<1>3. P = Nat
  <2>1. P \in SUBSET Nat
    BY DEF P
  <2> QED BY <2>1, <1>1, <1>2, Induction
<1> QED BY <1>3 DEF P

\* Mutate is where the last of MaxDepth passes leads.
LEMMA MutateIs ==
  ASSUME ConstsFit, NEW build, NEW L, NEW r, NEW ds
  PROVE  \E g : /\ Levels(build, L, r, ds, MaxDepth, g)
                /\ Mutate(build, L, r, ds) = g[MaxDepth]
<1> DEFINE g == CHOOSE f : Levels(build, L, r, ds, MaxDepth, f)
<1>1. Levels(build, L, r, ds, MaxDepth, g)
  BY LevelsExist DEF ConstsFit
<1>2. Mutate(build, L, r, ds) = g[MaxDepth]
  BY DEF Mutate, Levels, Level
<1> QED BY <1>1, <1>2

\* b is what mutate() has made of r.
Mutated(L, n, r, b, J, K) ==
  \/ b.out = "failed"
  \/ /\ b.out \in {"resolved", "ambiguous"}
     /\ Right(L, n, b, {}, J, K) /\ Grew(r.env, b.env) /\ Steady(r, b)
     /\ b.out = "resolved" => b.open = << >>

\* a is r after i passes and the first.
Levelled(L, n, r, a, i, J, K) ==
  \/ a.out = "failed"
  \/ /\ a.out \in {"running", "resolved", "ambiguous"}
     /\ Right(L, n, a, {}, J, K) /\ Grew(r.env, a.env) /\ Steady(r, a)
     /\ a.out = "resolved" => a.open = << >>
     /\ a.out = "running" => a.depth = r.depth + i /\ a.depth <= MaxDepth

\* A pass is a right step, and counts in the depth.
LEMMA LevelProceeds ==
  ASSUME ConstsFit, NEW L, LibFits(L), NEW n \in Nat, NEW r, NEW J, NEW K,
         NEW a, NEW i \in Nat, r.depth \in Nat, Levelled(L, n, r, a, i, J, K),
         NEW build, NEW b, b = Level(build, L, a)
  PROVE  Levelled(L, n, r, b, i + 1, J, K)
<1>1. CASE a.out # "running"
  BY <1>1 DEF Level, Levelled
<1>2. CASE a.out = "running"
  <2>1. /\ Right(L, n, a, {}, J, K) /\ Grew(r.env, a.env) /\ Steady(r, a)
        /\ a.depth = r.depth + i /\ a.depth <= MaxDepth
    BY <1>2 DEF Levelled
  <2>2. b = Pass(build, L, a)
    BY <1>2 DEF Level
  <2>3. Passed(L, n, a, b, J, K)
    BY <2>1, <2>2, <1>2, PassProceeds
  <2>4. CASE b.out = "failed"
    BY <2>4 DEF Levelled
  <2>5. CASE b.out # "failed"
    <3>1. /\ b.out \in {"running", "resolved", "ambiguous"}
          /\ Right(L, n, b, {}, J, K) /\ Grew(a.env, b.env) /\ Steady(a, b)
          /\ b.out = "resolved" => b.open = << >>
          /\ b.out = "running" => a.depth # MaxDepth /\ b.depth = a.depth + 1
      BY <2>3, <2>5 DEF Passed
    <3>2. Grew(r.env, b.env) /\ Steady(r, b)
      BY <2>1, <3>1, GrewOn DEF Steady
    <3>3. b.out = "running" => b.depth = r.depth + (i + 1) /\ b.depth <= MaxDepth
      BY <2>1, <3>1 DEF ConstsFit
    <3> QED BY <3>1, <3>2, <3>3 DEF Levelled
  <2> QED BY <2>4, <2>5
<1> QED BY <1>1, <1>2

\* Resolving the assertions of a call, and all that they open, keeps a resolver
\* right; the bound on the depth ends it.
LEMMA MutateProceeds ==
  ASSUME ConstsFit, NEW L, LibFits(L), NEW n \in Nat, NEW r, NEW J, NEW K,
         NEW ds, IsSeq(ds), IsInjective(ds),
         Right(L, n, r, ToSet(ds), J, K), r.out = "running", r.depth \in 1 .. MaxDepth,
         NEW build, NEW b, b = Mutate(build, L, r, ds)
  PROVE  Mutated(L, n, r, b, J, K)
<1>1. MaxDepth \in Nat /\ r.depth \in Nat
  BY DEF ConstsFit
<1>2. PICK g : Levels(build, L, r, ds, MaxDepth, g) /\ b = g[MaxDepth]
  BY MutateIs
<1>3. \A k \in 0 .. MaxDepth : g[k] = IF k = 0 THEN ResolveAll(build, L, r, ds)
                                      ELSE Level(build, L, g[k - 1])
  BY <1>2 DEF Levels
<1> DEFINE P == {k \in Nat : k <= MaxDepth => Levelled(L, n, r, g[k], k, J, K)}
<1>4. 0 \in P
  <2>1. g[0] = ResolveAll(build, L, r, ds)
    BY <1>1, <1>3
  <2>2. Resolved(L, n, r, g[0], {}, J, K)
    BY <2>1, AllProceeds
  <2>3. Levelled(L, n, r, g[0], 0, J, K)
    BY <2>2, <1>1 DEF Resolved, Levelled
  <2> QED BY <2>3
<1>5. ASSUME NEW k \in P PROVE k + 1 \in P
  <2> SUFFICES ASSUME k + 1 <= MaxDepth PROVE Levelled(L, n, r, g[k + 1], k + 1, J, K)
    OBVIOUS
  <2>1. k \in Nat /\ k <= MaxDepth /\ k + 1 \in 0 .. MaxDepth /\ k + 1 # 0
        /\ (k + 1) - 1 = k
    BY <1>1
  <2>2. Levelled(L, n, r, g[k], k, J, K)
    BY <2>1
  <2>3. g[k + 1] = Level(build, L, g[k])
    BY <2>1, <1>3
  <2> QED BY <1>1, <2>1, <2>2, <2>3, LevelProceeds
<1>6. MaxDepth \in P
  <2> HIDE DEF P
  <2>1. P \in SUBSET Nat
    BY DEF P
  <2> QED BY <2>1, <1>1, <1>4, <1>5, Induction
<1>7. Levelled(L, n, r, b, MaxDepth, J, K)
  BY <1>1, <1>2, <1>6
<1>8. b.out # "running" \/ b.out = "failed"
  BY <1>1, <1>7 DEF Levelled
<1> QED BY <1>7, <1>8 DEF Levelled, Mutated

-----------------------------------------------------------------------------
(* The nodes of the tree                                                   *)

\* The next node's assertions are visited.
LEMMA VisitedNext ==
  ASSUME NEW n \in Nat
  PROVE  Visited(n + 1) = Visited(n) \cup ToSet(Declared(tree[n + 1].assns, n + 1, 0))
<1>1. \A i : i \in 1 .. n + 1 <=> i \in 1 .. n \/ i = n + 1
  OBVIOUS
<1> QED BY <1>1 DEF Visited

\* A node without assertions of its own.
LEMMA VisitedSame ==
  ASSUME NEW n \in Nat, tree[n + 1].assns = << >>
  PROVE  Visited(n + 1) = Visited(n)
<1> DEFINE ds == Declared(tree[n + 1].assns, n + 1, 0)
<1>1. Len(<< >>) = 0
  OBVIOUS
<1>2. DOMAIN ds = {}
  BY <1>1 DEF Declared
<1>3. ToSet(ds) = {}
  <2> HIDE DEF ds
  <2> QED BY <1>2 DEF ToSet
<1> QED BY <1>3, VisitedNext

\* The assertions of the next call are to be resolved.
LEMMA CallVisited ==
  ASSUME NEW L, NEW n \in Nat, NEW r, NEW J, NEW K, Right(L, n, r, {}, J, K),
         AssnsFit(tree[n + 1].assns),
         NEW ds, ds = Declared(tree[n + 1].assns, n + 1, 0), K = {}
  PROVE  Right(L, n + 1, r, ToSet(ds), J, K) /\ IsSeq(ds) /\ IsInjective(ds)
<1> DEFINE e == r.env
           o == r.open
           Q == Queues(r)
           S == Singles(r)
           B == DOMAIN e.asn
           U == Asked(Q) \cup ToSet(o) \cup {} \cup K
           T == ToSet(ds)
<1>1. Sound(L, n, e, o, Q, S, {}, J, K)
  BY DEF Right
<1>2. Distinct(n, B, U)
  BY <1>1 DEF Sound
<1>3. IsSeq(ds) /\ IsInjective(ds) /\ T \cap (B \cup U) = {} /\ Distinct(n + 1, B, U \cup T)
  <2> DEFINE assns == tree[n + 1].assns
  <2>1. IsSeq(assns) /\ \A j \in 1 .. Len(assns) : assns[j][2] \in Var
    BY DEF AssnsFit
  <2>2. ds = Declared(assns, n + 1, 0) /\ 0 \in Int
    OBVIOUS
  <2> HIDE DEF assns, B, U
  <2>3. LET xs == Declared(assns, n + 1, 0)
        IN /\ IsSeq(xs) /\ IsInjective(xs) /\ ToSet(xs) \cap (B \cup U) = {}
           /\ Distinct(n + 1, B, U \cup ToSet(xs))
    BY <1>2, <2>1, <2>2, DistinctDeclared
  <2> QED BY <2>2, <2>3
<1>4. Held(e, o, Q, T, J) = Held(e, o, Q, {}, J) \cup T
  BY DEF Held
<1>5. Kept(e, Q, S, Held(e, o, Q, T, J)) /\ Visited(n + 1) \subseteq Held(e, o, Q, T, J)
  <2> DEFINE H == Held(e, o, Q, {}, J)
             I == Held(e, o, Q, T, J)
  <2>1. Kept(e, Q, S, H) /\ Visited(n) \subseteq H
    BY <1>1 DEF Sound
  <2>2. H \subseteq I /\ T \subseteq I
    BY <1>4
  <2> HIDE DEF H, I
  <2>3. Kept(e, Q, S, I)
    BY <2>1, <2>2 DEF Kept
  <2>4. Visited(n + 1) \subseteq I
    BY <2>1, <2>2, VisitedNext
  <2> QED BY <2>3, <2>4 DEF I
<1>6. Apart(Asked(Q), ToSet(o), T, K)
  <2>1. Apart(Asked(Q), ToSet(o), {}, K)
    BY <1>1 DEF Sound
  <2>2. Asked(Q) \in SUBSET U /\ ToSet(o) \in SUBSET U
    OBVIOUS
  <2> HIDE DEF T, U
  <2> QED BY <1>3, <2>1, <2>2 DEF Apart
<1>7. Distinct(n + 1, B, Asked(Q) \cup ToSet(o) \cup T \cup K)
  <2>1. U \cup T = Asked(Q) \cup ToSet(o) \cup T \cup K
    OBVIOUS
  <2> QED BY <1>3, <2>1
<1>8. Sound(L, n + 1, e, o, Q, S, T, J, K)
  BY <1>1, <1>5, <1>6, <1>7 DEF Sound
<1> QED BY <1>3, <1>8 DEF Right

\* A node without assertions leaves a resolver as right as it was.
LEMMA NodePassed ==
  ASSUME NEW L, NEW n \in Nat, NEW r, NEW J, NEW K, Right(L, n, r, {}, J, K),
         tree[n + 1].assns = << >>
  PROVE  Right(L, n + 1, r, {}, J, K)
<1> DEFINE e == r.env
           o == r.open
           Q == Queues(r)
           S == Singles(r)
           B == DOMAIN e.asn
           U == Asked(Q) \cup ToSet(o) \cup {} \cup K
<1>1. Sound(L, n, e, o, Q, S, {}, J, K)
  BY DEF Right
<1>2. Distinct(n + 1, B, U)
  <2>1. Distinct(n, B, U)
    BY <1>1 DEF Sound
  <2> HIDE DEF B, U
  <2> QED BY <2>1, DistinctFewer
<1>3. Visited(n + 1) \subseteq Held(e, o, Q, {}, J)
  BY <1>1, VisitedSame DEF Sound
<1>4. Sound(L, n + 1, e, o, Q, S, {}, J, K)
  BY <1>1, <1>2, <1>3 DEF Sound
<1> QED BY <1>4 DEF Right

\* The resolver of an alternative of the next node.
Own(bound) == [EmptyEnv EXCEPT !.bound = bound]
Tries(r, bound) == NewResolver(Union({r.env, Own(bound)}), r.depth)

\* An alternative's own environment is one, and owes nothing.
LEMMA OwnFits ==
  ASSUME NEW L, NEW bound \in [Var -> Val \cup {Free}]
  PROVE  /\ EnvFits(L, Own(bound)) /\ DOMAIN Own(bound).asn = {}
         /\ Owes(Own(bound)) = {}
<1> DEFINE e == Own(bound)
<1>1. e = [bound |-> bound, asn |-> << >>]
  BY DEF Own, EmptyEnv
<1> HIDE DEF e
<1>2. DOMAIN e.asn = {} /\ e.bound = bound /\ e = [bound |-> e.bound, asn |-> e.asn]
  BY <1>1
<1>3. Owes(e) = {}
  BY <1>2 DEF Owes
<1>4. EnvFits(L, e)
  BY <1>2 DEF EnvFits
<1> QED BY <1>2, <1>3, <1>4 DEF e

Trying(L, n, r, bound, num, assns, J, K) ==
  LET z == Tries(r, bound)
      ds == Declared(assns, n + 1, num)
  IN /\ Right(L, n + 1, z, ToSet(ds), J \cup K, K) /\ IsSeq(ds) /\ IsInjective(ds)
     /\ z.out = "running" /\ z.depth = r.depth /\ Grew(r.env, z.env)

\* An alternative's resolver is right; the outer one's assertions are its K,
\* and are held.
LEMMA TriesRight ==
  ASSUME ConstsFit, NEW L, LibFits(L), NEW n \in Nat, NEW r, NEW J,
         Right(L, n, r, {}, J, {}), tree[n + 1].assns = << >>,
         NEW bound \in [Var -> Val \cup {Free}], Agree(r.env, Own(bound)),
         NEW num \in Int, NEW assns, AssnsFit(assns),
         NEW K, K = Asked(Queues(r)) \cup ToSet(r.open)
  PROVE  Trying(L, n, r, bound, num, assns, J, K)
<1> DEFINE ds == Declared(assns, n + 1, num)
           z == Tries(r, bound)
           e == r.env
           w == Own(bound)
           f == Union({e, w})
           B == DOMAIN e.asn
           T == ToSet(ds)
           I == J \cup K
<1>1. Sound(L, n, e, r.open, Queues(r), Singles(r), {}, J, {})
  BY DEF Right
<1>2. /\ EnvFits(L, f) /\ DOMAIN f.asn = B /\ Owes(f) \subseteq Owes(e) /\ Grew(e, f)
  <2>1. /\ EnvFits(L, w) /\ DOMAIN w.asn = {} /\ Owes(w) = {}
    BY OwnFits
  <2>2. EnvFits(L, e)
    BY <1>1 DEF Sound
  <2>3. Agree(e, w) /\ Agree(w, e) /\ Agree(e, e) /\ Agree(w, w)
    BY DEF Agree
  <2> DEFINE es == {e, w}
  <2>4. \A x \in es : EnvFits(L, x)
    BY <2>1, <2>2
  <2>5. \A x, y \in es : Agree(x, y)
    <3> HIDE DEF e, w
    <3> QED BY <2>3
  <2>6. e \in es /\ \A x \in es : x = e \/ x = w
    OBVIOUS
  <2> HIDE DEF es, e, w
  <2>7. /\ EnvFits(L, Union(es))
        /\ DOMAIN Union(es).asn = UNION {DOMAIN x.asn : x \in es}
        /\ Owes(Union(es)) \subseteq UNION {Owes(x) : x \in es}
        /\ \A x \in es : Grew(x, Union(es))
    BY <2>4, <2>5, UnionFits
  <2>8. UNION {DOMAIN x.asn : x \in es} = DOMAIN e.asn
    BY <2>1, <2>6
  <2>9. UNION {Owes(x) : x \in es} = Owes(e)
    BY <2>1, <2>6
  <2>10. Union(es) = f
    BY DEF es
  <2> HIDE DEF f
  <2> QED BY <2>6, <2>7, <2>8, <2>9, <2>10
<1>3. /\ Shaped(z) /\ z.env = f /\ z.open = << >> /\ z.depth = r.depth
      /\ z.cache = << >> /\ z.keys = {} /\ z.deferred = {} /\ z.out = "running"
  <2> HIDE DEF f
  <2>1. z = NewResolver(f, r.depth)
    BY DEF f, Tries
  <2> QED BY <2>1, FS_EmptySet DEF NewResolver, Shaped
<1> HIDE DEF f
<1>4. DOMAIN << >> = {}
  OBVIOUS
<1>5. Tidy(z) /\ KeysFit(L, z)
  BY <1>3, <1>4 DEF Tidy, KeysFit
<1>6. Queues(z) = {} /\ Singles(z) = {}
  BY <1>3, <1>4 DEF Queues, Singles
<1>7. Distinct(n, B, K)
  <2>1. Asked(Queues(r)) \cup ToSet(r.open) \cup {} \cup {} = K
    OBVIOUS
  <2> QED BY <1>1, <2>1 DEF Sound
<1>8. IsSeq(ds) /\ IsInjective(ds) /\ T \cap (B \cup K) = {} /\ Distinct(n + 1, B, K \cup T)
  <2>1. IsSeq(assns) /\ \A j \in 1 .. Len(assns) : assns[j][2] \in Var
    BY DEF AssnsFit
  <2> DEFINE U == K
  <2>2. Distinct(n, B, U) /\ num \in Int /\ n \in Nat
    BY <1>7
  <2> HIDE DEF B, U
  <2>3. LET xs == Declared(assns, n + 1, num)
        IN /\ IsSeq(xs) /\ IsInjective(xs) /\ ToSet(xs) \cap (B \cup U) = {}
           /\ Distinct(n + 1, B, U \cup ToSet(xs))
    BY <2>1, <2>2, DistinctDeclared
  <2> QED BY <2>3 DEF U
<1>9. Asked({}) = {} /\ ToSet(<< >>) = {} /\ IsSeq(<< >>) /\ IsInjective(<< >>)
  BY EmptyIs DEF Asked
<1>10. Held(f, << >>, {}, T, I) = Held(e, r.open, Queues(r), {}, J) \cup T
  BY <1>2, <1>9 DEF Held
<1>11. Kept(f, {}, {}, Held(f, << >>, {}, T, I))
  <2>1. Owes(e) \subseteq Held(e, r.open, Queues(r), {}, J)
    BY <1>1 DEF Sound, Kept
  <2> HIDE DEF T, I, e
  <2> QED BY <1>2, <1>10, <2>1 DEF Kept
<1>12. Visited(n + 1) \subseteq Held(f, << >>, {}, T, I)
  BY <1>1, <1>10, VisitedSame DEF Sound
<1>13. Apart(Asked({}), ToSet(<< >>), T, K)
  <2> HIDE DEF T
  <2> QED BY <1>8, <1>9 DEF Apart
<1>14. Distinct(n + 1, DOMAIN f.asn, Asked({}) \cup ToSet(<< >>) \cup T \cup K)
  <2>1. Asked({}) \cup ToSet(<< >>) \cup T \cup K = K \cup T
    BY <1>9
  <2> QED BY <1>2, <1>8, <2>1
<1>15. Sound(L, n + 1, f, << >>, {}, {}, T, I, K)
  BY <1>2, <1>9, <1>11, <1>12, <1>13, <1>14 DEF Sound
<1>16. Right(L, n + 1, z, T, I, K)
  BY <1>3, <1>5, <1>6, <1>15 DEF Right
<1> QED BY <1>2, <1>3, <1>8, <1>16 DEF Trying

\* The resolver of an alternative ends, and what it left bound, deferred or open
\* holds the assertions of the tree, with what the outer resolver holds.
LEMMA TriedProceeds ==
  ASSUME ConstsFit, NEW L, LibFits(L), L = lib, NEW n \in Nat, n = pos, NEW r, r = res,
         NEW J, Right(L, n, r, {}, J, {}), r.out = "running", r.depth \in 1 .. MaxDepth,
         tree[n + 1].assns = << >>,
         NEW alt, AssnsFit(alt.assns), alt.num \in Int,
         alt.bound \in [Var -> Val \cup {Free}],
         NEW b, b = Tried(alt), NEW K, K = Asked(Queues(r)) \cup ToSet(r.open)
  PROVE  \/ b.out = "failed"
         \/ /\ b.out \in {"resolved", "ambiguous"}
            /\ Right(L, n + 1, b, {}, J \cup K, K) /\ Grew(r.env, b.env)
            /\ b.out = "resolved" => b.open = << >>
<1> DEFINE own == Own(alt.bound)
           z == Tries(r, alt.bound)
           ds == Declared(alt.assns, n + 1, alt.num)
           I == J \cup K
<1>1. CASE ~ Agree(r.env, own)
  <2>1. b = Failed(r)
    BY <1>1 DEF Tried, Own
  <2>2. Shaped(r)
    BY DEF Right
  <2> QED BY <2>1, <2>2, FailedIs
<1>2. CASE Agree(r.env, own)
  <2>1. b = Mutate(variant, L, z, ds)
    BY <1>2 DEF Tried, Own, Tries
  <2>2. /\ Right(L, n + 1, z, ToSet(ds), I, K) /\ IsSeq(ds) /\ IsInjective(ds)
        /\ z.out = "running" /\ z.depth = r.depth /\ Grew(r.env, z.env)
    <3> DEFINE bound == alt.bound
               num == alt.num
               assns == alt.assns
    <3>1. /\ bound \in [Var -> Val \cup {Free}] /\ Agree(r.env, Own(bound))
          /\ num \in Int /\ AssnsFit(assns) /\ ds = Declared(assns, n + 1, num)
          /\ z = Tries(r, bound)
      BY <1>2
    <3> HIDE DEF bound, num, assns
    <3>2. Trying(L, n, r, bound, num, assns, J, K)
      BY <3>1, TriesRight
    <3> QED BY <3>2 DEF Trying, bound, num, assns
  <2> HIDE DEF z, ds, I
  <2> DEFINE m == n + 1
  <2>3. m \in Nat /\ Right(L, m, z, ToSet(ds), I, K) /\ z.depth \in 1 .. MaxDepth
    BY <2>2
  <2> HIDE DEF m
  <2>4. Mutated(L, m, z, b, I, K)
    BY <2>1, <2>2, <2>3, MutateProceeds
  <2>5. Grew(z.env, b.env) => Grew(r.env, b.env)
    BY <2>2, GrewOn
  <2> QED BY <2>4, <2>5 DEF Mutated, m, I
<1> QED BY <1>1, <1>2

\* An alternative replaces the expression: its resolver's bindings are taken
\* over, and what it left deferred is kept in mind.
Replaced(r, it) == [r EXCEPT !.env = it.env,
                             !.inner = @ \/ it.out = "ambiguous",
                             !.left = @ \cup Waiting(it)]

\* What waits and is not bound.
LEMMA WaitingIs ==
  ASSUME NEW r
  PROVE  Waiting(r) = Asked(Queues(r)) \ DOMAIN r.env.asn
BY DEF Waiting, Asked

\* b is r with what it binds, and I is held.
Replacing(L, n, r, it, b, J, K, I) ==
  /\ Right(L, n + 1, b, {}, I, {}) /\ b.out = r.out /\ b.depth = r.depth
  /\ b.inner = (r.inner \/ it.out = "ambiguous")
  /\ b.left = r.left \cup Waiting(it) /\ b.open = r.open

\* The outer resolver with an alternative's environment is right, and has what the
\* alternative left deferred or open in J.
LEMMA ReplacedRight ==
  ASSUME ConstsFit, NEW L, LibFits(L), NEW n \in Nat, NEW r, NEW J,
         Right(L, n, r, {}, J, {}), NEW K, K = Asked(Queues(r)) \cup ToSet(r.open),
         NEW it, Right(L, n + 1, it, {}, J \cup K, K), Grew(r.env, it.env),
         NEW b, b = Replaced(r, it), NEW I, I = J \cup Waiting(it) \cup ToSet(it.open)
  PROVE  Replacing(L, n, r, it, b, J, K, I)
<1> DEFINE f == it.env
           o == r.open
           Q == Queues(r)
           S == Singles(r)
           H == Held(f, o, Q, {}, I)
<1>1. Shaped(r) /\ Tidy(r) /\ Sound(L, n, r.env, o, Q, S, {}, J, {})
  BY DEF Right
<1>2. /\ Shaped(b) /\ b.env = f /\ b.open = o /\ b.cache = r.cache
      /\ b.keys = r.keys /\ b.deferred = r.deferred /\ b.out = r.out
      /\ b.depth = r.depth /\ b.left = r.left \cup Waiting(it)
      /\ b.inner = (r.inner \/ it.out = "ambiguous")
  <2> DEFINE left == r.left \cup Waiting(it)
             inner == r.inner \/ it.out = "ambiguous"
  <2>1. b = [r EXCEPT !.env = f, !.inner = inner, !.left = left]
    BY DEF Replaced
  <2> HIDE DEF f, left, inner
  <2>2. /\ Shaped(b) /\ b.env = f /\ b.open = o /\ b.cache = r.cache
        /\ b.keys = r.keys /\ b.deferred = r.deferred /\ b.out = r.out
        /\ b.depth = r.depth /\ b.left = left /\ b.inner = inner
    BY <1>1, <2>1 DEF Shaped
  <2> QED BY <2>2 DEF left, inner
<1>3. Sound(L, n + 1, f, it.open, Queues(it), Singles(it), {}, J \cup K, K)
  BY DEF Right
<1>4. EnvFits(L, f) /\ EnvFits(L, r.env)
  BY <1>1, <1>3 DEF Sound
<1>5. Queues(b) = Q /\ Singles(b) = S
  BY <1>2 DEF Queues, Singles
<1>6. Tidy(b)
  BY <1>1, <1>2, TidyStays
<1>7. KeysFit(L, b)
  <2> DEFINE T == {}
             V == {}
  <2>1. Right(L, n, r, T, J, V) /\ EnvFits(L, b.env) /\ Grew(r.env, b.env)
    BY <1>2, <1>4
  <2> HIDE DEF T, V
  <2> QED BY <1>2, <2>1, KeysGrow
<1>8. \A q \in Q : ItemFits(L, f, q)
  <2> TAKE q \in Q
  <2>1. ItemFits(L, r.env, q)
    BY <1>1 DEF Sound
  <2> QED BY <1>4, <2>1, ItemsGrow
<1>9. Held(r.env, o, Q, {}, J) \subseteq H
  BY DEF Held, Grew
<1>10. Held(f, it.open, Queues(it), {}, J \cup K) \subseteq H
  <2> DEFINE A == Asked(Queues(it))
             W == Waiting(it)
             B == DOMAIN f.asn
  <2>1. W = A \ B
    BY WaitingIs
  <2> DEFINE O == ToSet(it.open)
             P == Asked(Q)
             R == ToSet(o)
  <2>2. A \subseteq W \cup B /\ K = P \cup R /\ I = J \cup W \cup O
    BY <2>1
  <2> HIDE DEF A, W, B, O, P, R
  <2>3. B \cup A \cup O \cup {} \cup (J \cup K) \subseteq B \cup P \cup R \cup {} \cup I
    BY <2>2
  <2> QED BY <2>3 DEF Held, A, W, B, O, P, R
<1>11. Kept(f, Q, S, H) /\ Visited(n + 1) \subseteq H
  <2>1. /\ Kept(r.env, Q, S, Held(r.env, o, Q, {}, J))
        /\ Owes(f) \subseteq Held(f, it.open, Queues(it), {}, J \cup K)
        /\ Visited(n + 1) \subseteq Held(f, it.open, Queues(it), {}, J \cup K)
    BY <1>1, <1>3 DEF Sound, Kept
  <2> HIDE DEF H, S, Q, f, o
  <2> QED BY <1>9, <1>10, <2>1 DEF Kept
<1>12. Apart(Asked(Q), ToSet(o), {}, {}) /\ IsSeq(o) /\ IsInjective(o)
       /\ \A p, q \in Q : p = q \/ ToSet(p.ids) \cap ToSet(q.ids) = {}
  BY <1>1 DEF Sound
<1>13. Distinct(n + 1, DOMAIN f.asn, Asked(Q) \cup ToSet(o) \cup {} \cup {})
  <2> DEFINE B == DOMAIN f.asn
             U == Asked(Queues(it)) \cup ToSet(it.open) \cup {} \cup K
             m == n + 1
  <2>1. Distinct(m, B, U) /\ K \in SUBSET U /\ m \in Int /\ m <= m
    BY <1>3 DEF Sound
  <2> HIDE DEF B, U, m
  <2>2. Distinct(m, B, K)
    BY <2>1, DistinctFewer
  <2>3. Asked(Q) \cup ToSet(o) \cup {} \cup {} = K
    OBVIOUS
  <2> QED BY <2>2, <2>3 DEF B, m
<1>14. Sound(L, n + 1, f, o, Q, S, {}, I, {})
  BY <1>4, <1>8, <1>11, <1>12, <1>13 DEF Sound
<1>15. Right(L, n + 1, b, {}, I, {})
  BY <1>2, <1>5, <1>6, <1>7, <1>14 DEF Right
<1> QED BY <1>2, <1>15 DEF Replacing

-----------------------------------------------------------------------------
(* The invariant                                                           *)

\* Unless it failed or was ambiguous, the resolver is right, with the
\* assertions in todo to resolve; J is what the alternatives left deferred.
Faithful(J) ==
  /\ Right(lib, pos, res, ToSet(todo), J, {})
  /\ IsSeq(todo) /\ IsInjective(todo)
  /\ res.inner \/ J = res.left
  /\ res.out = "running" => /\ res.depth \in 1 .. MaxDepth
                            /\ pc = "pass" => pos = Len(tree)
                            /\ pc # "done"
  /\ res.out = "resolved" => pos = Len(tree) /\ res.open = << >> /\ todo = << >>

\* The inductive invariant.  Of a failed resolver, or an ambiguous one, nothing
\* is asked: it binds nothing in the end.
AInv ==
  /\ lib \in Libs /\ tree \in Trees /\ pos \in 0 .. Len(tree)
  /\ pc \in {"visit", "pass", "done"}
  /\ res.out \in {"running", "resolved"} => \E J : Faithful(J)

\* The inputs fit in every state of the invariant.
LEMMA Inputs ==
  ASSUME AInv
  PROVE  /\ ConstsFit /\ LibFits(lib) /\ TreeFits(tree)
         /\ pos \in Nat /\ Len(tree) \in Nat /\ pos <= Len(tree)
<1>1. ConstsFit /\ LibFits(lib) /\ TreeFits(tree)
  BY InputsFit DEF AInv
<1>2. Len(tree) \in Nat
  BY <1>1, SeqIs DEF TreeFits
<1> QED BY <1>1, <1>2 DEF AInv

\* Right in the next state, of the same tree.
LEMMA RightPrimed ==
  ASSUME tree' = tree, NEW J, Right(lib', pos', res', ToSet(todo'), J, {})
  PROVE  Right(lib, pos, res, ToSet(todo), J, {})'
<1>1. Visited(pos)' = Visited(pos')
  BY DEF Visited
<1> QED BY <1>1 DEF Right, Sound

\* Faithful in the next state, of the same tree.
LEMMA FaithfulPrimed ==
  ASSUME tree' = tree, NEW J, Right(lib', pos', res', ToSet(todo'), J, {}),
         IsSeq(todo') /\ IsInjective(todo'), res'.inner \/ J = res'.left,
         res'.out = "running" => /\ res'.depth \in 1 .. MaxDepth
                                 /\ pc' = "pass" => pos' = Len(tree)
                                 /\ pc' # "done",
         res'.out = "resolved" => pos' = Len(tree) /\ res'.open = << >> /\ todo' = << >>
  PROVE  Faithful(J)'
<1>1. Right(lib, pos, res, ToSet(todo), J, {})'
  BY RightPrimed
<1> QED BY <1>1 DEF Faithful

\* The invariant holds at first.
LEMMA InitHolds ==
  ASSUME AssnInit
  PROVE  AInv
<1> DEFINE e == EmptyEnv
<1>1. ConstsFit /\ LibFits(lib) /\ TreeFits(tree)
  BY InputsFit DEF AssnInit
<1>2. Len(tree) \in Nat
  BY <1>1, SeqIs DEF TreeFits
<1>3. /\ Shaped(res) /\ res.env = e /\ res.open = << >> /\ res.depth = 1
      /\ res.cache = << >> /\ res.keys = {} /\ res.deferred = {} /\ res.out = "running"
      /\ res.left = {}
  <2> HIDE DEF e
  <2>1. res = NewResolver(e, 1)
    BY DEF AssnInit, e
  <2> QED BY <2>1, FS_EmptySet DEF NewResolver, Shaped
<1>4. EnvFits(lib, e) /\ DOMAIN e.asn = {} /\ Owes(e) = {}
  BY EmptyFits
<1> HIDE DEF e
<1>5. DOMAIN << >> = {}
  OBVIOUS
<1>6. Tidy(res) /\ KeysFit(lib, res)
  BY <1>3, <1>5 DEF Tidy, KeysFit
<1>7. Queues(res) = {} /\ Singles(res) = {}
  BY <1>3, <1>5 DEF Queues, Singles
<1>8. Asked({}) = {} /\ ToSet(<< >>) = {} /\ IsSeq(<< >>) /\ IsInjective(<< >>)
  BY EmptyIs DEF Asked
<1>9. Kept(e, {}, {}, Held(e, << >>, {}, {}, {}))
  BY <1>4 DEF Kept
<1>10. Apart(Asked({}), ToSet(<< >>), {}, {})
  BY <1>8 DEF Apart
<1>11. Distinct(0, DOMAIN e.asn, Asked({}) \cup ToSet(<< >>) \cup {} \cup {})
  <2>1. Distinct(0, {}, {})
    BY DEF Distinct
  <2>2. Asked({}) \cup ToSet(<< >>) \cup {} \cup {} = {}
    BY <1>8
  <2> QED BY <1>4, <2>1, <2>2
<1>12. Visited(0) = {}
  BY DEF Visited
<1>13. Sound(lib, 0, e, << >>, {}, {}, {}, {}, {})
  BY <1>4, <1>8, <1>9, <1>10, <1>11, <1>12 DEF Sound
<1>14. pos = 0 /\ todo = << >> /\ pc = "visit" /\ lib \in Libs /\ tree \in Trees
  BY DEF AssnInit
<1>15. Right(lib, pos, res, ToSet(todo), {}, {})
  BY <1>3, <1>6, <1>7, <1>8, <1>13, <1>14 DEF Right
<1>16. Faithful({})
  BY <1>1, <1>3, <1>8, <1>14, <1>15 DEF Faithful, ConstsFit
<1> QED BY <1>2, <1>14, <1>16 DEF AInv

\* Visiting a call's node keeps the invariant.
LEMMA CallKeeps ==
  ASSUME AInv, VisitCall
  PROVE  AInv'
<1> DEFINE n == pos
           ds == Declared(tree[pos + 1].assns, pos + 1, 0)
<1>1. /\ res.out = "running" /\ todo = << >> /\ pc = "visit" /\ pos < Len(tree)
      /\ pos' = pos + 1 /\ todo' = ds /\ variant' = variant /\ lib' = lib
      /\ tree' = tree /\ pc' = pc /\ res' = res
  BY DEF VisitCall, Ready
<1>2. /\ ConstsFit /\ LibFits(lib) /\ TreeFits(tree)
      /\ pos \in Nat /\ Len(tree) \in Nat /\ pos <= Len(tree)
  BY Inputs
<1>3. PICK J : Faithful(J)
  BY <1>1 DEF AInv
<1>4. Right(lib, n, res, {}, J, {})
  BY <1>1, <1>3, EmptyIs DEF Faithful
<1>5. n \in Nat /\ n + 1 \in 1 .. Len(tree)
  BY <1>1, <1>2
<1>6. AssnsFit(tree[n + 1].assns)
  BY <1>2, <1>5 DEF TreeFits
<1>7. ds = Declared(tree[n + 1].assns, n + 1, 0)
  OBVIOUS
<1> HIDE DEF n, ds
<1>8. Right(lib, n + 1, res, ToSet(ds), J, {}) /\ IsSeq(ds) /\ IsInjective(ds)
  <2> DEFINE K == {}
  <2>1. Right(lib, n, res, {}, J, K) /\ K = {}
    BY <1>4
  <2> HIDE DEF K
  <2>2. Right(lib, n + 1, res, ToSet(ds), J, K) /\ IsSeq(ds) /\ IsInjective(ds)
    BY <1>5, <1>6, <1>7, <2>1, CallVisited
  <2> QED BY <2>1, <2>2
<1>9. Right(lib', pos', res', ToSet(todo'), J, {})
  BY <1>1, <1>8 DEF n
<1>10. Faithful(J)'
  <2>1. res.inner \/ J = res.left
    BY <1>3 DEF Faithful
  <2>2. res.depth \in 1 .. MaxDepth
    BY <1>1, <1>3 DEF Faithful
  <2> QED BY <1>1, <1>8, <1>9, <2>1, <2>2, FaithfulPrimed
<1> QED BY <1>1, <1>2, <1>5, <1>10 DEF AInv, n

\* Resolving the next assertion keeps it.
LEMMA NextKeeps ==
  ASSUME AInv, ResolveNext
  PROVE  AInv'
<1> DEFINE d == Head(todo)
           T == ToSet(todo)
<1>1. /\ res.out = "running" /\ todo # << >> /\ pc # "done"
      /\ res' = ResolveAssertion(variant, lib, res, d) /\ todo' = Tail(todo)
      /\ variant' = variant /\ lib' = lib /\ tree' = tree /\ pc' = pc /\ pos' = pos
  BY DEF ResolveNext
<1>2. /\ ConstsFit /\ LibFits(lib) /\ pos \in Nat
  BY Inputs
<1>3. PICK J : Faithful(J)
  BY <1>1 DEF AInv
<1>4. /\ Right(lib, pos, res, T, J, {}) /\ IsSeq(todo) /\ IsInjective(todo)
      /\ res.inner \/ J = res.left
      /\ res.depth \in 1 .. MaxDepth /\ (pc = "pass" => pos = Len(tree))
  BY <1>1, <1>3 DEF Faithful
<1>5. /\ d \in T /\ IsSeq(todo') /\ IsInjective(todo') /\ ToSet(todo') = T \ {d}
  BY <1>1, <1>4, TailIs
<1> HIDE DEF d, T
<1>6. Resolved(lib, pos, res, res', T \ {d}, J, {})
  <2> DEFINE K == {}
             b == res'
  <2>1. Right(lib, pos, res, T, J, K) /\ b = ResolveAssertion(variant, lib, res, d)
    BY <1>1, <1>4
  <2> HIDE DEF K, b
  <2>2. Resolved(lib, pos, res, b, T \ {d}, J, K)
    BY <1>1, <1>2, <1>5, <2>1, AssertionProceeds
  <2> QED BY <2>2 DEF K, b
<1>7. lib' \in Libs /\ tree' \in Trees /\ pos' \in 0 .. Len(tree') /\ pc' \in {"visit", "pass", "done"}
  BY <1>1 DEF AInv
<1>8. CASE res'.out = "failed"
  BY <1>7, <1>8 DEF AInv
<1>9. CASE res'.out # "failed"
  <2>1. /\ res'.out = "running" /\ res'.depth = res.depth
        /\ Right(lib, pos, res', T \ {d}, J, {}) /\ Steady(res, res')
    BY <1>6, <1>9 DEF Resolved
  <2>2. Right(lib', pos', res', ToSet(todo'), J, {})
    BY <1>1, <1>5, <2>1
  <2>3. res'.inner \/ J = res'.left
    BY <1>4, <2>1 DEF Steady
  <2>4. Faithful(J)'
    BY <1>1, <1>4, <1>5, <2>1, <2>2, <2>3, FaithfulPrimed
  <2> QED BY <1>7, <2>4 DEF AInv
<1> QED BY <1>8, <1>9

\* What the visit of an ambiguous expression makes of the resolver.
LEMMA AmbiguousCases ==
  ASSUME VisitAmbiguous
  PROVE  \/ res' = Failed(res)
         \/ res' = [res EXCEPT !.ambiguous = TRUE]
         \/ \E alt \in tree[pos + 1].alts :
              Tried(alt).out # "failed" /\ res' = Replaced(res, Tried(alt))
<1> DEFINE alts == tree[pos + 1].alts
           tried == [alt \in alts |-> Tried(alt)]
           kept == {alt \in alts : tried[alt].out # "failed"}
           min == {alt \in kept : \A o \in kept : alt.cost <= o.cost}
           one == CHOOSE alt \in min : TRUE
           it == tried[one]
<1>1. res' = CASE min = {} -> Failed(res)
               [] Cardinality(min) = 1 -> Replaced(res, it)
               [] OTHER -> [res EXCEPT !.ambiguous = TRUE]
  BY DEF VisitAmbiguous, Replaced
<1>2. Cardinality({}) # 1
  BY FS_EmptySet
<1>3. min \subseteq kept /\ \A alt \in kept : alt \in alts /\ tried[alt].out # "failed"
  OBVIOUS
<1>4. \A alt \in alts : tried[alt] = Tried(alt)
  OBVIOUS
<1> HIDE DEF tried, kept, min, alts
<1>5. CASE min = {}
  BY <1>1, <1>2, <1>5
<1>6. CASE min # {} /\ Cardinality(min) = 1
  <2>1. res' = Replaced(res, it)
    BY <1>1, <1>6
  <2>2. one \in min
    BY <1>6
  <2>3. one \in alts /\ it = Tried(one) /\ it.out # "failed"
    BY <1>3, <1>4, <2>2
  <2> QED BY <2>1, <2>3 DEF alts
<1>7. CASE min # {} /\ Cardinality(min) # 1
  BY <1>1, <1>7
<1> QED BY <1>5, <1>6, <1>7

\* r, which is to end as an ambiguous tree.
Unsettled(r) == [r EXCEPT !.ambiguous = TRUE]

\* An ambiguous node leaves the resolver right.
LEMMA UnsettledRight ==
  ASSUME NEW L, NEW n, NEW r, NEW J, NEW K, Right(L, n, r, {}, J, K),
         NEW b, b = Unsettled(r)
  PROVE  /\ Right(L, n, b, {}, J, K) /\ b.out = r.out /\ b.depth = r.depth
         /\ b.inner = r.inner /\ b.left = r.left
<1>1. Shaped(r)
  BY DEF Right
<1>2. /\ Shaped(b) /\ b.env = r.env /\ b.open = r.open /\ b.cache = r.cache
      /\ b.keys = r.keys /\ b.deferred = r.deferred /\ b.out = r.out
      /\ b.depth = r.depth /\ b.inner = r.inner /\ b.left = r.left
  BY <1>1 DEF Shaped, Unsettled
<1> DEFINE T == {}
<1>3. Right(L, n, r, T, J, K)
  OBVIOUS
<1> HIDE DEF T
<1>4. Right(L, n, b, T, J, K)
  BY <1>2, <1>3, RightSame
<1> QED BY <1>2, <1>4 DEF T

\* Visiting an ambiguous expression keeps it.
LEMMA AmbiguousKeeps ==
  ASSUME AInv, VisitAmbiguous
  PROVE  AInv'
<1> DEFINE n == pos
<1>1. /\ res.out = "running" /\ todo = << >> /\ pc = "visit" /\ pos < Len(tree)
      /\ tree[n + 1].alts # {}
      /\ pos' = n + 1 /\ todo' = todo /\ lib' = lib /\ tree' = tree /\ pc' = pc
  BY DEF VisitAmbiguous, Ready
<1>2. /\ ConstsFit /\ LibFits(lib) /\ TreeFits(tree)
      /\ n \in Nat /\ Len(tree) \in Nat /\ n + 1 \in 1 .. Len(tree)
  BY <1>1, Inputs
<1>3. PICK J : Faithful(J)
  BY <1>1 DEF AInv
<1>4. /\ Right(lib, n, res, {}, J, {}) /\ res.depth \in 1 .. MaxDepth
      /\ res.inner \/ J = res.left
  BY <1>1, <1>3, EmptyIs DEF Faithful
<1>5. /\ tree[n + 1].assns = << >>
      /\ \A alt \in tree[n + 1].alts : /\ AssnsFit(alt.assns) /\ alt.num \in Int
                                       /\ alt.bound \in [Var -> Val \cup {Free}]
  BY <1>1, <1>2 DEF TreeFits
<1>6. /\ lib' \in Libs /\ tree' \in Trees /\ pos' \in 0 .. Len(tree')
      /\ pc' \in {"visit", "pass", "done"}
  BY <1>1, <1>2 DEF AInv
<1>7. ToSet(todo') = {} /\ IsSeq(todo') /\ IsInjective(todo')
  BY <1>1, EmptyIs
<1>8. CASE res' = Failed(res)
  <2>1. Shaped(res)
    BY <1>4 DEF Right
  <2>2. res'.out = "failed"
    BY <1>8, <2>1, FailedIs
  <2> QED BY <1>6, <2>2 DEF AInv
<1>9. CASE res' = Unsettled(res)
  <2> DEFINE K == {}
             b == res'
  <2>1. Right(lib, n, res, {}, J, K) /\ b = Unsettled(res)
    BY <1>4, <1>9
  <2> HIDE DEF K, b, n
  <2>2. /\ Right(lib, n, b, {}, J, K) /\ b.out = res.out /\ b.depth = res.depth
        /\ b.inner = res.inner /\ b.left = res.left
    BY <2>1, UnsettledRight
  <2>3. Right(lib, n + 1, b, {}, J, K)
    BY <1>2, <1>5, <2>2, NodePassed
  <2>4. Right(lib', pos', res', ToSet(todo'), J, {})
    BY <1>1, <1>7, <2>3 DEF K, b
  <2>5. res'.inner \/ J = res'.left
    BY <1>4, <2>2 DEF b
  <2>6. res'.out = "running" /\ res'.depth \in 1 .. MaxDepth
    BY <1>1, <1>4, <2>2 DEF b
  <2>7. Faithful(J)'
    BY <1>1, <1>7, <2>4, <2>5, <2>6, FaithfulPrimed
  <2> QED BY <1>6, <2>7 DEF AInv
<1>10. CASE \E alt \in tree[n + 1].alts :
              Tried(alt).out # "failed" /\ res' = Replaced(res, Tried(alt))
  <2>1. PICK alt \in tree[n + 1].alts :
               Tried(alt).out # "failed" /\ res' = Replaced(res, Tried(alt))
    BY <1>10
  <2> DEFINE it == Tried(alt)
             K == Asked(Queues(res)) \cup ToSet(res.open)
             I == J \cup Waiting(it) \cup ToSet(it.open)
             b == res'
  <2>2. /\ it.out \in {"resolved", "ambiguous"}
        /\ Right(lib, n + 1, it, {}, J \cup K, K) /\ Grew(res.env, it.env)
        /\ it.out = "resolved" => it.open = << >>
    <3>1. it = Tried(alt) /\ K = Asked(Queues(res)) \cup ToSet(res.open)
          /\ it.out # "failed" /\ n = pos
      BY <2>1
    <3>2. AssnsFit(alt.assns) /\ alt.num \in Int /\ alt.bound \in [Var -> Val \cup {Free}]
      BY <1>5
    <3> HIDE DEF it, K, n
    <3> QED BY <1>1, <1>2, <1>4, <1>5, <3>1, <3>2, TriedProceeds
  <2>3. K = Asked(Queues(res)) \cup ToSet(res.open) /\ b = Replaced(res, it)
        /\ I = J \cup Waiting(it) \cup ToSet(it.open)
    BY <2>1
  <2> HIDE DEF it, K, I, b, n
  <2>4. /\ Right(lib, n + 1, b, {}, I, {}) /\ b.out = res.out /\ b.depth = res.depth
        /\ b.inner = (res.inner \/ it.out = "ambiguous")
        /\ b.left = res.left \cup Waiting(it) /\ b.open = res.open
    <3>1. Replacing(lib, n, res, it, b, J, K, I)
      BY <1>2, <1>4, <2>2, <2>3, ReplacedRight
    <3> QED BY <3>1 DEF Replacing
  <2>5. Right(lib', pos', res', ToSet(todo'), I, {})
    BY <1>1, <1>7, <2>4 DEF b
  <2>6. res'.inner \/ I = res'.left
    <3>1. CASE it.out = "ambiguous"
      BY <2>4, <3>1 DEF b
    <3>2. CASE it.out = "resolved" /\ ~ res.inner
      <4>1. ToSet(it.open) = {}
        BY <2>2, <3>2, EmptyIs
      <4>2. I = res.left \cup Waiting(it)
        BY <1>4, <2>3, <3>2, <4>1
      <4> QED BY <2>4, <4>2 DEF b
    <3>3. CASE res.inner
      BY <2>4, <3>3 DEF b
    <3> QED BY <2>2, <3>1, <3>2, <3>3
  <2>7. res'.out = "running" /\ res'.depth \in 1 .. MaxDepth
    BY <1>1, <1>4, <2>4 DEF b
  <2>8. PICK X : X = I
    OBVIOUS
  <2>9. Right(lib', pos', res', ToSet(todo'), X, {}) /\ (res'.inner \/ X = res'.left)
    BY <2>5, <2>6, <2>8
  <2>10. Faithful(X)'
    BY <1>1, <1>7, <2>9, <2>7, FaithfulPrimed
  <2> QED BY <1>6, <2>10 DEF AInv
<1>11. \/ res' = Failed(res) \/ res' = Unsettled(res)
       \/ \E alt \in tree[n + 1].alts :
            Tried(alt).out # "failed" /\ res' = Replaced(res, Tried(alt))
  BY AmbiguousCases DEF Unsettled
<1> QED BY <1>8, <1>9, <1>10, <1>11

\* Beginning a pass keeps it.
LEMMA PassKeeps ==
  ASSUME AInv, BeginPass
  PROVE  AInv'
<1> DEFINE d == Disambiguate(res)
           x == Deepen(d)
<1>1. /\ res.out = "running" /\ todo = << >> /\ pc # "done"
      /\ pc = "visit" => pos = Len(tree)
      /\ res' = x /\ todo' = (IF x.out = "running" THEN d.open ELSE << >>)
      /\ pc' = "pass" /\ pos' = pos /\ lib' = lib /\ tree' = tree
  BY DEF BeginPass, Ready
<1>2. ConstsFit /\ LibFits(lib) /\ pos \in Nat
  BY Inputs
<1>3. PICK J : Faithful(J)
  BY <1>1 DEF AInv
<1>4. /\ Right(lib, pos, res, {}, J, {}) /\ res.depth \in 1 .. MaxDepth
      /\ res.inner \/ J = res.left
      /\ pos = Len(tree)
  BY <1>1, <1>3, EmptyIs DEF Faithful, AInv
<1>5. /\ lib' \in Libs /\ tree' \in Trees /\ pos' \in 0 .. Len(tree')
      /\ pc' \in {"visit", "pass", "done"}
  BY <1>1 DEF AInv
<1>6. Deepened(lib, pos, res, d, x, J, {})
  <2> DEFINE K == {}
  <2>1. Right(lib, pos, res, {}, J, K) /\ d = Disambiguate(res) /\ x = Deepen(d)
    BY <1>4
  <2> HIDE DEF K, d, x
  <2>2. Disambiguated(lib, pos, res, d, J, K)
    BY <1>1, <1>2, <2>1, DisambiguateProceeds
  <2>3. Deepened(lib, pos, res, d, x, J, K)
    BY <2>1, <2>2, DeepenProceeds
  <2> QED BY <2>3 DEF K
<1> HIDE DEF d, x
<1>7. CASE x.out = "running"
  <2>1. /\ x.depth = res.depth + 1 /\ res.depth # MaxDepth
        /\ Right(lib, pos, x, ToSet(d.open), J, {})
        /\ IsSeq(d.open) /\ IsInjective(d.open) /\ Steady(res, x)
    BY <1>6, <1>7 DEF Deepened
  <2>2. x.depth \in 1 .. MaxDepth
    BY <1>2, <1>4, <2>1 DEF ConstsFit
  <2>3. todo' = d.open
    BY <1>1, <1>7
  <2>4. Right(lib', pos', res', ToSet(todo'), J, {}) /\ IsSeq(todo') /\ IsInjective(todo')
    BY <1>1, <2>1, <2>3
  <2>5. res'.inner \/ J = res'.left
    BY <1>1, <1>4, <2>1 DEF Steady
  <2>6. Faithful(J)'
    BY <1>1, <1>4, <1>7, <2>2, <2>4, <2>5, FaithfulPrimed
  <2> QED BY <1>5, <2>6 DEF AInv
<1>8. CASE x.out = "resolved"
  <2>1. Right(lib, pos, x, {}, J, {}) /\ Steady(res, x) /\ x.open = << >>
    BY <1>6, <1>8 DEF Deepened
  <2>2. todo' = << >>
    BY <1>1, <1>8
  <2>3. ToSet(todo') = {} /\ IsSeq(todo') /\ IsInjective(todo')
    BY <2>2, EmptyIs
  <2>4. Right(lib', pos', res', ToSet(todo'), J, {})
    BY <1>1, <2>1, <2>3
  <2>5. res'.inner \/ J = res'.left
    BY <1>1, <1>4, <2>1 DEF Steady
  <2>6. Faithful(J)'
    BY <1>1, <1>4, <1>8, <2>1, <2>2, <2>3, <2>4, <2>5, FaithfulPrimed
  <2> QED BY <1>5, <2>6 DEF AInv
<1>9. CASE x.out \notin {"running", "resolved"}
  BY <1>1, <1>5, <1>9 DEF AInv
<1> QED BY <1>7, <1>8, <1>9

\* Ending the run keeps it.
LEMMA FinishKeeps ==
  ASSUME AInv, Finish
  PROVE  AInv'
<1>1. /\ pc' = "done" /\ pos' = pos /\ todo' = todo /\ lib' = lib /\ tree' = tree
  BY DEF Finish
<1>2. /\ lib' \in Libs /\ tree' \in Trees /\ pos' \in 0 .. Len(tree')
      /\ pc' \in {"visit", "pass", "done"}
  BY <1>1 DEF AInv
<1>3. CASE res.out # "running" /\ res' = res
  <2>1. CASE res.out # "resolved"
    BY <1>2, <1>3, <2>1 DEF AInv
  <2>2. CASE res.out = "resolved"
    <3>1. PICK J : Faithful(J)
      BY <2>2 DEF AInv
    <3>2. /\ Right(lib', pos', res', ToSet(todo'), J, {}) /\ IsSeq(todo')
          /\ IsInjective(todo') /\ pos' = Len(tree) /\ res'.open = << >>
          /\ todo' = << >> /\ res'.out = "resolved"
          /\ res'.inner \/ J = res'.left
      BY <1>1, <1>3, <2>2, <3>1 DEF Faithful
    <3>3. Faithful(J)'
      BY <1>1, <3>2, FaithfulPrimed
    <3> QED BY <1>2, <3>3 DEF AInv
  <2> QED BY <2>1, <2>2
<1>4. CASE res.out = "running" /\ res' = [res EXCEPT !.out = "ambiguous"]
  <2>1. PICK J : Faithful(J)
    BY <1>4 DEF AInv
  <2>2. Shaped(res)
    BY <2>1 DEF Faithful, Right
  <2>3. res'.out = "ambiguous"
    BY <1>4, <2>2 DEF Shaped
  <2> QED BY <1>2, <2>3 DEF AInv
<1>5. CASE Ready /\ pc = "pass" /\ res.open = << >> /\ res' = EndPass(res)
  <2>1. res.out = "running" /\ todo = << >>
    BY <1>5 DEF Ready
  <2>2. PICK J : Faithful(J)
    BY <2>1 DEF AInv
  <2>3. /\ Right(lib, pos, res, {}, J, {}) /\ pos = Len(tree)
        /\ res.inner \/ J = res.left
    BY <1>5, <2>1, <2>2, EmptyIs DEF Faithful
  <2> DEFINE b == res'
             K == {}
  <2>4. b = Ended(res) /\ Right(lib, pos, res, {}, J, K)
    BY <1>5, <2>1, <2>3 DEF EndPass, Ended
  <2> HIDE DEF b, K
  <2>5. /\ Right(lib, pos, b, {}, J, K) /\ b.env = res.env /\ b.open = res.open
        /\ b.out = "resolved" /\ b.depth = res.depth /\ Steady(res, b)
    BY <2>4, EndedIs
  <2>6. ToSet(todo') = {} /\ IsSeq(todo') /\ IsInjective(todo') /\ todo' = << >>
    BY <1>1, <2>1, EmptyIs
  <2>7. Right(lib', pos', res', ToSet(todo'), J, {})
    BY <1>1, <2>5, <2>6 DEF b, K
  <2>8. res'.out = "resolved" /\ res'.open = << >> /\ (res'.inner \/ J = res'.left)
    BY <1>5, <2>3, <2>5 DEF b, Steady
  <2>9. Faithful(J)'
    BY <1>1, <2>3, <2>6, <2>7, <2>8, FaithfulPrimed
  <2> QED BY <1>2, <2>9 DEF AInv
<1> QED BY <1>3, <1>4, <1>5 DEF Finish, Ready

\* A stuttering step keeps it.
LEMMA StutterKeeps ==
  ASSUME AInv, UNCHANGED assnVars
  PROVE  AInv'
<1>1. /\ pc' = pc /\ pos' = pos /\ todo' = todo /\ lib' = lib /\ tree' = tree
      /\ res' = res
  BY DEF assnVars
<1>2. ASSUME NEW J, Faithful(J) PROVE Faithful(J)'
  BY <1>1, <1>2, FaithfulPrimed DEF Faithful
<1> QED BY <1>1, <1>2 DEF AInv

\* AInv is an inductive invariant: the resolver is right in every state in
\* which it has not failed.
THEOREM AInvInvariance == AssnSpec => []AInv
<1>1. AssnInit => AInv
  BY InitHolds
<1>2. AInv /\ [AssnNext]_assnVars => AInv'
  <2> SUFFICES ASSUME AInv, [AssnNext]_assnVars PROVE AInv'
    OBVIOUS
  <2>1. CASE VisitCall
    BY <2>1, CallKeeps
  <2>2. CASE VisitAmbiguous
    BY <2>2, AmbiguousKeeps
  <2>3. CASE ResolveNext
    BY <2>3, NextKeeps
  <2>4. CASE BeginPass
    BY <2>4, PassKeeps
  <2>5. CASE Finish
    BY <2>5, FinishKeeps
  <2>6. CASE UNCHANGED assnVars
    BY <2>6, StutterKeeps
  <2> QED BY <2>1, <2>2, <2>3, <2>4, <2>5, <2>6 DEF AssnNext
<1> QED BY <1>1, <1>2, PTL DEF AssnSpec

\* Every binding of a resolved tree is to a function of the library whose type
\* is the one that the final environment gives the assertion's variable.
THEOREM BindingsAlwaysFit == AssnSpec => []BindingsFit
<1>1. AInv => BindingsFit
  <2> SUFFICES ASSUME AInv, Succeeded,  NEW d \in DOMAIN Bound
               PROVE  /\ Bound[d].impl \in lib /\ Bound[d].impl.fn = d.fn
                      /\ Bound[d].impl.val \in {AnyType, res.env.bound[d.var]}
    BY DEF BindingsFit
  <2>1. PICK J : Faithful(J)
    BY DEF AInv, Succeeded
  <2>2. EnvFits(lib, res.env)
    BY <2>1 DEF Faithful, Right, Sound
  <2> QED BY <2>2 DEF EnvFits, Fits, Bound
<1> QED BY <1>1, AInvInvariance, PTL

\* A resolved tree has bound every assertion of its calls, and every assertion
\* that a bound expression needs, or has left it among those it deferred.
THEOREM NothingIsForgotten == AssnSpec => []NothingForgotten
<1>1. AInv => NothingForgotten
  <2> SUFFICES ASSUME AInv, Succeeded PROVE NothingForgotten
    BY DEF NothingForgotten
  <2> DEFINE known == DOMAIN Bound \cup Deferred
  <2>1. res.out = "resolved" /\ ~ res.inner
    BY DEF Succeeded
  <2>2. PICK J : Faithful(J)
    BY <2>1 DEF AInv
  <2>3. /\ Right(lib, pos, res, {}, J, {}) /\ J = res.left /\ pos = Len(tree)
        /\ res.open = << >>
    BY <2>1, <2>2, EmptyIs DEF Faithful
  <2>4. Held(res.env, << >>, Queues(res), {}, J) = known
    <3> DEFINE A == Asked(Queues(res))
               B == DOMAIN res.env.asn
    <3>1. Waiting(res) = A \ B
      BY WaitingIs
    <3>2. known = B \cup ((A \ B) \cup J)
      BY <2>3, <3>1 DEF Bound, Deferred
    <3>3. Held(res.env, << >>, Queues(res), {}, J) = B \cup A \cup {} \cup {} \cup J
      BY EmptyIs DEF Held
    <3> HIDE DEF A, B, known
    <3> QED BY <3>2, <3>3
  <2>5. Visited(Len(tree)) \subseteq known /\ Owes(res.env) \subseteq known
    BY <2>3, <2>4 DEF Right, Sound, Kept
  <2> HIDE DEF known
  <2>6. \A i \in 1 .. Len(tree) : ToSet(Declared(tree[i].assns, i, 0)) \subseteq known
    BY <2>5 DEF Visited
  <2>7. \A d \in DOMAIN Bound : ToSet(Bound[d].subs) \subseteq known
    BY <2>5 DEF Owes, Bound
  <2> QED BY <2>6, <2>7 DEF NothingForgotten, known
<1> QED BY <1>1, AInvInvariance, PTL

-----------------------------------------------------------------------------
(* Prices and totals                                                       *)

CostOf(c) == [q \in DOMAIN c |-> c[q].cost]

\* What FoldFunction computes, one member at a time.
Adding(it, c) ==
  it = [s \in SUBSET DOMAIN c |->
          IF s = {} THEN 0
          ELSE c[CHOOSE x \in s : TRUE].cost + it[s \ {CHOOSE x \in s : TRUE}]]

\* It is a sum of costs.
LEMMA AddingIs ==
  ASSUME NEW c, IsFiniteSet(DOMAIN c), \A q \in DOMAIN c : c[q].cost \in Nat
  PROVE  (CHOOSE it : Adding(it, c))[DOMAIN c] = SumOver(CostOf(c), DOMAIN c)
<1> DEFINE D == DOMAIN c
           w == CostOf(c)
           f == CHOOSE it : Adding(it, c)
<1>1. \A q \in D : w[q] = c[q].cost /\ w[q] \in Nat
  BY DEF CostOf
<1>2. \A it : Adding(it, c) <=> Folding(it, w, SUBSET D)
  <2> TAKE it
  <2>1. [s \in SUBSET D |-> IF s = {} THEN 0 ELSE c[CHOOSE x \in s : TRUE].cost + it[s \ {CHOOSE x \in s : TRUE}]]
        = [s \in SUBSET D |-> IF s = {} THEN 0 ELSE w[CHOOSE x \in s : TRUE] + it[s \ {CHOOSE x \in s : TRUE}]]
    <3>1. \A s \in SUBSET D : s # {} => (CHOOSE x \in s : TRUE) \in D
      OBVIOUS
    <3> HIDE DEF D, w
    <3> QED BY <3>1, <1>1
  <2> HIDE DEF w
  <2> QED BY <2>1 DEF Adding, Folding
<1> HIDE DEF w, D
<1>3. \E it : Folding(it, w, SUBSET D)
  BY FoldingExists DEF D
<1>4. Folding(f, w, SUBSET D)
  <2>1. \E it : Adding(it, c)
    BY <1>2, <1>3
  <2>2. Adding(f, c)
    BY <2>1
  <2> HIDE DEF f
  <2> QED BY <2>2, <1>2
<1> HIDE DEF f
<1>5. IsFiniteSet(D) /\ D \subseteq D
  BY DEF D
<1>6. \A x \in D : w[x] \in Nat
  BY <1>1
<1>7. f[D] \in Nat /\ f[D] = SumOver(w, D)
  BY <1>4, <1>5, <1>6, FoldingSums
<1> QED BY <1>7 DEF f, w, D

\* A combination's price is the sum of its choices' costs.
LEMMA PriceIs ==
  ASSUME NEW c, IsFiniteSet(DOMAIN c), \A q \in DOMAIN c : c[q].cost \in Nat
  PROVE  PriceOf(c) = SumOver(CostOf(c), DOMAIN c)
<1>1. PriceOf(c) = (CHOOSE it : Adding(it, c))[DOMAIN c]
  BY DEF PriceOf, FoldFunction, FoldFunctionOnSet, MapThenFoldSet, Adding
<1> QED BY <1>1, AddingIs

\* An assignment's total is the sum of its functions' costs.
LEMMA TotalIs ==
  ASSUME NEW f, IsFiniteSet(DOMAIN f), \A d \in DOMAIN f : f[d].cost \in Nat
  PROVE  Total(f) = SumOver(CostOf(f), DOMAIN f)
<1>1. Total(f) = (CHOOSE it : Adding(it, f))[DOMAIN f]
  BY DEF Total, FoldFunction, FoldFunctionOnSet, MapThenFoldSet, Adding
<1> QED BY <1>1, AddingIs

-----------------------------------------------------------------------------
(* What a library offers                                                   *)

\* x can be used where a variable is bound to b, or is free.
Suits(b, x) == x.val = AnyType \/ b \in {Free, x.val}
Able(L, fn, b) == {x \in L : x.fn = fn /\ Suits(b, x)}

\* The cheapest for each value.
Lowest(U) == {x \in U : \A z \in U : z.val = x.val => x.cost <= z.cost}

\* x has the value of y, and is y or cheaper.
Beats(x, y) == x.val = y.val /\ (x = y \/ x.cost < y.cost)

\* For everything in U, one of the lowest is of its value and beats it.
LEMMA LowestBeats ==
  ASSUME NEW L, LibFits(L), NEW U, U \subseteq L, NEW y \in U
  PROVE  \E x \in Lowest(U) : Beats(x, y)
<1> DEFINE C == {z.cost : z \in {z \in U : z.val = y.val}}
<1>1. \A z \in U : z.cost \in Nat
  BY DEF LibFits
<1>2. CASE y \in Lowest(U)
  BY <1>2 DEF Beats
<1>3. CASE y \notin Lowest(U)
  <2>1. C \in SUBSET Nat /\ y.cost \in C
    BY <1>1
  <2>2. PICK m \in C : \A k \in C : m <= k
    <3> HIDE DEF C
    <3> QED BY <2>1, LeastNat
  <2>3. PICK x \in U : x.val = y.val /\ x.cost = m
    OBVIOUS
  <2>4. \A z \in U : z.val = y.val => x.cost <= z.cost
    BY <2>2, <2>3
  <2>5. x \in Lowest(U)
    BY <2>3, <2>4 DEF Lowest
  <2>6. PICK z \in U : z.val = y.val /\ ~(y.cost <= z.cost)
    BY <1>3 DEF Lowest
  <2>7. x.cost < y.cost
    <3>1. x.cost <= z.cost /\ x.cost \in Nat /\ y.cost \in Nat /\ z.cost \in Nat
      BY <2>4, <2>6, <1>1
    <3> QED BY <3>1, <2>6
  <2> QED BY <2>3, <2>5, <2>7 DEF Beats
<1> QED BY <1>2, <1>3

\* An assignment of L's implementations to the assertions D.
Meet(x, y) == AnyType \in {x.val, y.val} \/ x.val = y.val
Assign(L, D) ==
  {f \in [D -> L] : /\ \A d \in D : f[d].fn = d.fn
                    /\ \A d, e \in D : d.var = e.var => Meet(f[d], f[e])}

\* The cheapest of them.
Ideal(L, D) == {f \in Assign(L, D) : \A g \in Assign(L, D) : Total(f) <= Total(g)}

\* Totals are ordered as costs are.
LEMMA TotalsOrdered ==
  ASSUME NEW L, LibFits(L), NEW D, IsFiniteSet(D), NEW f \in [D -> L], NEW g \in [D -> L],
         \A d \in D : f[d].cost <= g[d].cost
  PROVE  /\ Total(f) \in Nat /\ Total(g) \in Nat /\ Total(f) <= Total(g)
         /\ (\E d \in D : f[d].cost < g[d].cost) => Total(f) < Total(g)
<1>1. DOMAIN f = D /\ DOMAIN g = D /\ \A d \in D : f[d].cost \in Nat /\ g[d].cost \in Nat
  BY DEF LibFits
<1>2. Total(f) = SumOver(CostOf(f), D) /\ Total(g) = SumOver(CostOf(g), D)
  BY <1>1, TotalIs
<1>3. \A d \in D : CostOf(f)[d] = f[d].cost /\ CostOf(g)[d] = g[d].cost
  BY <1>1 DEF CostOf
<1>4. Weighs(CostOf(f), D) /\ Weighs(CostOf(g), D)
  BY <1>1, <1>3 DEF Weighs
<1>5. \A d \in D : CostOf(f)[d] <= CostOf(g)[d]
  BY <1>3
<1>6. /\ SumOver(CostOf(f), D) \in Nat /\ SumOver(CostOf(g), D) \in Nat
      /\ SumOver(CostOf(f), D) <= SumOver(CostOf(g), D)
      /\ (\E d \in D : CostOf(f)[d] < CostOf(g)[d])
           => SumOver(CostOf(f), D) < SumOver(CostOf(g), D)
  BY <1>4, <1>5, SumLess
<1> QED BY <1>2, <1>3, <1>6

\* A total is a natural.
LEMMA TotalIsNat ==
  ASSUME NEW L, LibFits(L), NEW D, IsFiniteSet(D), NEW f \in [D -> L]
  PROVE  Total(f) \in Nat
<1>1. \A d \in D : f[d].cost <= f[d].cost
  BY DEF LibFits
<1> QED BY <1>1, TotalsOrdered

\* Not one is the cheapest, if no assignment is without two as cheap.
LEMMA NoneIdeal ==
  ASSUME NEW L, LibFits(L), NEW D, IsFiniteSet(D),
         \A f \in Assign(L, D) : \E g, h \in Assign(L, D) :
           g # h /\ Total(g) <= Total(f) /\ Total(h) <= Total(f)
  PROVE  Cardinality(Ideal(L, D)) # 1
<1> SUFFICES ASSUME Cardinality(Ideal(L, D)) = 1 PROVE FALSE
  OBVIOUS
<1>1. IsFiniteSet(Ideal(L, D))
  <2>1. IsFiniteSet([D -> L])
    BY FunctionsFinite DEF LibFits
  <2>2. Ideal(L, D) \subseteq [D -> L]
    BY DEF Ideal, Assign
  <2> QED BY <2>1, <2>2, FS_Subset
<1>2. PICK f : Ideal(L, D) = {f}
  BY <1>1, FS_Singleton
<1>3. f \in Assign(L, D) /\ \A g \in Assign(L, D) : Total(f) <= Total(g)
  BY <1>2 DEF Ideal
<1>4. PICK g, h \in Assign(L, D) : g # h /\ Total(g) <= Total(f) /\ Total(h) <= Total(f)
  BY <1>3
<1>5. \A k \in Assign(L, D) : Total(k) \in Nat
  BY TotalIsNat DEF Assign
<1>6. g \in Ideal(L, D) /\ h \in Ideal(L, D)
  <2>1. \A k \in Assign(L, D) : Total(g) <= Total(k) /\ Total(h) <= Total(k)
    BY <1>3, <1>4, <1>5
  <2> QED BY <2>1, <1>4 DEF Ideal
<1> QED BY <1>2, <1>4, <1>6

-----------------------------------------------------------------------------
(* What waits, and the assignments                                         *)

\* Each choice for x's assertion d in an assignment is x, or dearer and of x's value.
Forced(L, D, d, x) == \A f \in Assign(L, D) : Beats(x, f[d])

\* No assignment goes against e.
Leaves(L, D, e) == \A f \in Assign(L, D), d \in D : Suits(e.bound[d.var], f[d])

\* g binds no more than e does, but perhaps v.
Within(g, e, v) ==
  /\ \A d \in DOMAIN g.asn : d \in DOMAIN e.asn /\ e.asn[d] = g.asn[d]
  /\ \A u \in Var \ {v} : g.bound[u] \in {Free, e.bound[u]}

\* The assertion that q was made for.
Leader(q) == q.ids[1]

\* s is a choice that waits in q, made where the variable was bound to b.
Choice(e, q, b, s) ==
  LET h == Leader(q)
  IN /\ s.cost = s.expr.impl.cost /\ s.expr.subs = << >> /\ Within(s.env, e, h.var)
     /\ s.env.bound[h.var] = IF s.expr.impl.val = AnyType THEN b ELSE s.expr.impl.val

\* q offers the cheapest that are able to take b; what shares it is bound to b.
Offer(L, e, q, b) ==
  LET h == Leader(q)
  IN /\ h \in ToSet(q.ids) /\ h.var \in Var /\ b \in {Free, e.bound[h.var]}
     /\ {s.expr.impl : s \in q.sat} = Lowest(Able(L, h.fn, b))
     /\ \A s, t \in q.sat : s.expr.impl = t.expr.impl => s = t
     /\ \A s \in q.sat : Choice(e, q, b, s)
     /\ \A d \in ToSet(q.ids) : d.var \in Var
     /\ \A d \in ToSet(q.ids) : d = h \/ (b # Free /\ d.fn = h.fn /\ e.bound[d.var] = b)

\* What a choice is.
LEMMA ChoiceIs ==
  ASSUME ConstsFit, NEW L, LibFits(L), NEW e, EnvFits(L, e), NEW q, NEW b,
         Offer(L, e, q, b), NEW s \in q.sat
  PROVE  LET h == Leader(q)
             x == s.expr.impl
         IN /\ x \in L /\ x.fn = h.fn /\ x.val \in Val \cup {AnyType} /\ x.cost \in Nat
            /\ x.val = AnyType \/ b \in {Free, x.val}
            /\ s.cost = x.cost /\ s.cost \in Nat
            /\ h \in ToSet(q.ids) /\ h.var \in Var
            /\ e.bound[h.var] \in Val \cup {Free} /\ b \in {Free, e.bound[h.var]}
            /\ s.env.bound[h.var] = IF x.val = AnyType THEN b ELSE x.val
            /\ Within(s.env, e, h.var)
<1> DEFINE h == Leader(q)
           x == s.expr.impl
<1>1. x \in Lowest(Able(L, h.fn, b))
  BY DEF Offer
<1>2. x \in L /\ x.fn = h.fn /\ (x.val = AnyType \/ b \in {Free, x.val})
  BY <1>1 DEF Lowest, Able, Suits
<1>3. x.val \in Val \cup {AnyType} /\ x.cost \in Nat
  BY <1>2 DEF LibFits
<1>4. h \in ToSet(q.ids) /\ h.var \in Var /\ b \in {Free, e.bound[h.var]} /\ Choice(e, q, b, s)
  BY DEF Offer
<1>5. e.bound[h.var] \in Val \cup {Free}
  BY <1>4 DEF EnvFits
<1> QED BY <1>2, <1>3, <1>4, <1>5 DEF Choice

\* A choice can be merged with the environment if its value suits it.
LEMMA ChoiceAgrees ==
  ASSUME ConstsFit, NEW L, LibFits(L), NEW e, EnvFits(L, e), NEW q, NEW b,
         Offer(L, e, q, b), NEW s \in q.sat
  PROVE  Agree(e, s.env) <=> Suits(e.bound[Leader(q).var], s.expr.impl)
<1> DEFINE v == Leader(q).var
           x == s.expr.impl
           g == s.env
<1>1. /\ x.val \in Val \cup {AnyType} /\ v \in Var /\ e.bound[v] \in Val \cup {Free}
      /\ b \in {Free, e.bound[v]} /\ g.bound[v] = IF x.val = AnyType THEN b ELSE x.val
      /\ Within(g, e, v)
  BY ChoiceIs
<1> HIDE DEF v, x, g
<1>2. Agree(e, g) <=> (Free \in {e.bound[v], g.bound[v]} \/ e.bound[v] = g.bound[v])
  BY <1>1 DEF Agree, Within
<1>3. Free \notin Val
  BY DEF ConstsFit
<1>4. (Free \in {e.bound[v], g.bound[v]} \/ e.bound[v] = g.bound[v]) <=> Suits(e.bound[v], x)
  BY <1>1, <1>3 DEF Suits
<1> QED BY <1>2, <1>4 DEF v, x, g

\* Two such choices can be merged if they have one value, or are of two variables.
LEMMA ChoicesAgree ==
  ASSUME ConstsFit, NEW L, LibFits(L), NEW e, EnvFits(L, e),
         NEW p, NEW a, Offer(L, e, p, a), NEW s \in p.sat,
         Suits(e.bound[Leader(p).var], s.expr.impl),
         NEW q, NEW b, Offer(L, e, q, b), NEW t \in q.sat,
         Suits(e.bound[Leader(q).var], t.expr.impl)
  PROVE  /\ Leader(p).var # Leader(q).var \/ Meet(s.expr.impl, t.expr.impl)
              => Agree(s.env, t.env)
         /\ /\ Agree(s.env, t.env) /\ Leader(p).var = Leader(q).var
            /\ e.bound[Leader(p).var] = Free
            => Meet(s.expr.impl, t.expr.impl)
<1> DEFINE u == Leader(p).var
           v == Leader(q).var
           x == s.expr.impl
           y == t.expr.impl
           f == s.env
           g == t.env
<1>1. /\ x.val \in Val \cup {AnyType} /\ u \in Var /\ e.bound[u] \in Val \cup {Free}
      /\ a \in {Free, e.bound[u]} /\ f.bound[u] = (IF x.val = AnyType THEN a ELSE x.val)
      /\ Within(f, e, u)
  BY ChoiceIs
<1>2. /\ y.val \in Val \cup {AnyType} /\ v \in Var /\ e.bound[v] \in Val \cup {Free}
      /\ b \in {Free, e.bound[v]} /\ g.bound[v] = (IF y.val = AnyType THEN b ELSE y.val)
      /\ Within(g, e, v)
  BY ChoiceIs
<1>3. Suits(e.bound[u], x) /\ Suits(e.bound[v], y)
  OBVIOUS
<1> HIDE DEF u, v, x, y, f, g
<1>4. Free \notin Val
  BY DEF ConstsFit
<1>5. f.bound[u] \in {Free, e.bound[u]} \/ (e.bound[u] = Free /\ f.bound[u] = x.val /\ x.val # AnyType)
  BY <1>1, <1>3 DEF Suits
<1>6. g.bound[v] \in {Free, e.bound[v]} \/ (e.bound[v] = Free /\ g.bound[v] = y.val /\ y.val # AnyType)
  BY <1>2, <1>3 DEF Suits
<1>7. \A d \in DOMAIN f.asn \cap DOMAIN g.asn : f.asn[d] = g.asn[d]
  BY <1>1, <1>2 DEF Within
<1>8. ASSUME u # v \/ Meet(x, y), NEW w \in Var
      PROVE  Free \in {f.bound[w], g.bound[w]} \/ f.bound[w] = g.bound[w]
  <2>1. w # u => f.bound[w] \in {Free, e.bound[w]}
    BY <1>1 DEF Within
  <2>2. w # v => g.bound[w] \in {Free, e.bound[w]}
    BY <1>2 DEF Within
  <2> QED BY <1>5, <1>6, <1>8, <2>1, <2>2 DEF Meet
<1>9. u # v \/ Meet(x, y) => Agree(f, g)
  BY <1>7, <1>8 DEF Agree
<1>10. ASSUME Agree(f, g), u = v, e.bound[u] = Free PROVE Meet(x, y)
  <2>1. Free \in {f.bound[u], g.bound[u]} \/ f.bound[u] = g.bound[u]
    BY <1>1, <1>10 DEF Agree
  <2> QED BY <1>1, <1>2, <1>4, <1>10, <2>1 DEF Meet
<1> QED BY <1>9, <1>10 DEF u, v, x, y, f, g

\* The assertions D are bound in e or wait in Q, each in one place; e binds as
\* every assignment does.
Laid(L, D, e, Q) ==
  /\ ConstsFit /\ LibFits(L) /\ EnvFits(L, e) /\ IsFiniteSet(D) /\ IsFiniteSet(Q)
  /\ DOMAIN e.asn \cup Asked(Q) = D /\ DOMAIN e.asn \cap Asked(Q) = {}
  /\ \A q \in Q : \E b : Offer(L, e, q, b)
  /\ \A p, q \in Q : p = q \/ ToSet(p.ids) \cap ToSet(q.ids) = {}
  /\ Leaves(L, D, e) /\ \A d \in DOMAIN e.asn : Forced(L, D, d, e.asn[d].impl)

\* Where d waits, and what is bound to each of D if c is chosen.
ItemOf(Q, d) == CHOOSE q \in Q : d \in ToSet(q.ids)
Built(D, e, Q, c) ==
  [d \in D |-> IF d \in DOMAIN e.asn THEN e.asn[d].impl ELSE c[ItemOf(Q, d)].expr.impl]

\* Each of D is in its place.
LEMMA Places ==
  ASSUME NEW L, NEW D, NEW e, NEW Q, Laid(L, D, e, Q)
  PROVE  /\ \A q \in Q : \A d \in ToSet(q.ids) : d \in D /\ d \notin DOMAIN e.asn /\ ItemOf(Q, d) = q
         /\ \A d \in D \ DOMAIN e.asn : ItemOf(Q, d) \in Q /\ d \in ToSet(ItemOf(Q, d).ids)
         /\ \A q \in Q : Leader(q) \in ToSet(q.ids)
         /\ \A p, q \in Q : Leader(p) = Leader(q) => p = q
         /\ \A d \in DOMAIN e.asn : d \in D
<1>1. /\ DOMAIN e.asn \cup Asked(Q) = D /\ DOMAIN e.asn \cap Asked(Q) = {}
      /\ \A q \in Q : \E b : Offer(L, e, q, b)
      /\ \A p, q \in Q : p = q \/ ToSet(p.ids) \cap ToSet(q.ids) = {}
  BY DEF Laid
<1>2. ASSUME NEW q \in Q, NEW d \in ToSet(q.ids)
      PROVE  d \in D /\ d \notin DOMAIN e.asn /\ ItemOf(Q, d) = q
  <2>1. d \in Asked(Q)
    BY DEF Asked
  <2>2. ItemOf(Q, d) \in Q /\ d \in ToSet(ItemOf(Q, d).ids)
    BY DEF ItemOf
  <2>3. ItemOf(Q, d) = q
    BY <1>1, <2>2
  <2> QED BY <1>1, <2>1, <2>3
<1>3. ASSUME NEW d \in D, d \notin DOMAIN e.asn
      PROVE  ItemOf(Q, d) \in Q /\ d \in ToSet(ItemOf(Q, d).ids)
  <2>1. \E q \in Q : d \in ToSet(q.ids)
    BY <1>1, <1>3 DEF Asked
  <2> QED BY <2>1 DEF ItemOf
<1>4. \A q \in Q : Leader(q) \in ToSet(q.ids)
  BY <1>1 DEF Offer
<1>5. \A p, q \in Q : Leader(p) = Leader(q) => p = q
  BY <1>1, <1>4
<1>6. \A d \in DOMAIN e.asn : d \in D
  BY <1>1
<1> QED BY <1>2, <1>3, <1>4, <1>5, <1>6

\* A choice for each, of suiting values that meet, is compatible.
LEMMA SuitingCompatible ==
  ASSUME NEW L, NEW D, NEW r, NEW Q, Laid(L, D, r.env, Q), NEW c \in Combinations(Q),
         \A q \in Q : Suits(r.env.bound[Leader(q).var], c[q].expr.impl),
         \A p, q \in Q : Leader(p).var = Leader(q).var => Meet(c[p].expr.impl, c[q].expr.impl)
  PROVE  c \in Compatible(r, Q)
<1> DEFINE e == r.env
<1>1. /\ ConstsFit /\ LibFits(L) /\ EnvFits(L, e)
      /\ \A q \in Q : \E b : Offer(L, e, q, b)
  BY DEF Laid
<1>2. \A q \in Q : c[q] \in q.sat
  BY DEF Combinations
<1>3. \A q \in Q : Suits(e.bound[Leader(q).var], c[q].expr.impl)
  OBVIOUS
<1>4. \A p, q \in Q : Leader(p).var = Leader(q).var => Meet(c[p].expr.impl, c[q].expr.impl)
  OBVIOUS
<1> HIDE DEF e
<1>5. ASSUME NEW q \in Q PROVE Agree(e, c[q].env)
  <2>1. PICK b : Offer(L, e, q, b)
    BY <1>1
  <2> QED BY <1>1, <1>2, <1>3, <2>1, ChoiceAgrees
<1>6. ASSUME NEW p \in Q, NEW q \in Q PROVE Agree(c[p].env, c[q].env)
  <2>1. PICK a : Offer(L, e, p, a)
    BY <1>1
  <2>2. PICK b : Offer(L, e, q, b)
    BY <1>1
  <2>3. /\ c[p] \in p.sat /\ c[q] \in q.sat
        /\ Suits(e.bound[Leader(p).var], c[p].expr.impl)
        /\ Suits(e.bound[Leader(q).var], c[q].expr.impl)
    BY <1>2, <1>3
  <2>4. Leader(p).var # Leader(q).var \/ Meet(c[p].expr.impl, c[q].expr.impl)
    BY <1>4
  <2> HIDE <1>3, <1>4, <1>5
  <2>5. Leader(p).var # Leader(q).var \/ Meet(c[p].expr.impl, c[q].expr.impl)
              => Agree(c[p].env, c[q].env)
    BY <1>1, <2>1, <2>2, <2>3, ChoicesAgree
  <2> QED BY <2>4, <2>5
<1> QED BY <1>5, <1>6 DEF e, Compatible

\* What is compatible is a choice for each, of suiting values.
LEMMA CompatibleSuits ==
  ASSUME NEW L, NEW D, NEW r, NEW Q, Laid(L, D, r.env, Q), NEW c \in Compatible(r, Q)
  PROVE  /\ c \in Combinations(Q) /\ DOMAIN c = Q /\ \A q \in Q : c[q] \in q.sat
         /\ \A q \in Q : Suits(r.env.bound[Leader(q).var], c[q].expr.impl)
         /\ \A p, q \in Q : Leader(p).var = Leader(q).var /\ r.env.bound[Leader(p).var] = Free
              => Meet(c[p].expr.impl, c[q].expr.impl)
<1> DEFINE e == r.env
<1>1. /\ ConstsFit /\ LibFits(L) /\ EnvFits(L, e)
      /\ \A q \in Q : \E b : Offer(L, e, q, b)
  BY DEF Laid
<1>2. /\ c \in Combinations(Q) /\ DOMAIN c = Q /\ \A q \in Q : c[q] \in q.sat
      /\ \A q \in Q : Agree(e, c[q].env)
      /\ \A p, q \in Q : Agree(c[p].env, c[q].env)
  BY DEF Compatible, Combinations
<1> HIDE DEF e
<1>3. ASSUME NEW q \in Q PROVE Suits(e.bound[Leader(q).var], c[q].expr.impl)
  <2>1. PICK b : Offer(L, e, q, b)
    BY <1>1
  <2> QED BY <1>1, <1>2, <2>1, ChoiceAgrees
<1>4. ASSUME NEW p \in Q, NEW q \in Q, Leader(p).var = Leader(q).var,
             e.bound[Leader(p).var] = Free
      PROVE  Meet(c[p].expr.impl, c[q].expr.impl)
  <2>1. PICK a : Offer(L, e, p, a)
    BY <1>1
  <2>2. PICK b : Offer(L, e, q, b)
    BY <1>1
  <2>3. /\ c[p] \in p.sat /\ c[q] \in q.sat
        /\ Suits(e.bound[Leader(p).var], c[p].expr.impl)
        /\ Suits(e.bound[Leader(q).var], c[q].expr.impl)
    BY <1>2, <1>3
  <2>4. /\ Agree(c[p].env, c[q].env) /\ Leader(p).var = Leader(q).var
        /\ e.bound[Leader(p).var] = Free
        => Meet(c[p].expr.impl, c[q].expr.impl)
    BY <1>1, <2>1, <2>2, <2>3, ChoicesAgree
  <2> QED BY <1>2, <1>4, <2>4
<1> QED BY <1>2, <1>3, <1>4 DEF e

\* x suits d, and only for the leader of an item can it bind the variable.
Sits(L, e, Q, c, d, x) ==
  /\ x \in L /\ x.fn = d.fn /\ x.val \in Val \cup {AnyType}
  /\ e.bound[d.var] \in Val \cup {Free}
  /\ Suits(e.bound[d.var], x)
  /\ \/ x.val \in {AnyType, e.bound[d.var]}
     \/ /\ e.bound[d.var] = Free /\ ItemOf(Q, d) \in Q
        /\ d = Leader(ItemOf(Q, d)) /\ x = c[ItemOf(Q, d)].expr.impl

\* What is built of a compatible choice suits, and is a function of the library.
LEMMA BuiltSuits ==
  ASSUME NEW L, NEW D, NEW r, NEW Q, Laid(L, D, r.env, Q), NEW c \in Compatible(r, Q),
         NEW d \in D
  PROVE  Sits(L, r.env, Q, c, d, Built(D, r.env, Q, c)[d])
<1> DEFINE e == r.env
           x == Built(D, e, Q, c)[d]
           q == ItemOf(Q, d)
<1>1. /\ ConstsFit /\ LibFits(L) /\ EnvFits(L, e)
      /\ \A p \in Q : \E b : Offer(L, e, p, b)
  BY DEF Laid
<1>2. Laid(L, D, e, Q)
  OBVIOUS
<1>3. /\ \A p \in Q : c[p] \in p.sat
      /\ \A p \in Q : Suits(e.bound[Leader(p).var], c[p].expr.impl)
  BY CompatibleSuits
<1> HIDE DEF e
<1>4. CASE d \in DOMAIN e.asn
  <2>1. x = e.asn[d].impl
    BY <1>4 DEF Built
  <2>2. Fits(L, d, e.asn[d], e)
    BY <1>1, <1>4 DEF EnvFits
  <2>3. x \in L /\ x.fn = d.fn /\ x.val \in {AnyType, e.bound[d.var]} /\ d.var \in Var
    BY <2>1, <2>2 DEF Fits
  <2>4. x.val \in Val \cup {AnyType} /\ e.bound[d.var] \in Val \cup {Free}
    BY <1>1, <2>3 DEF LibFits, EnvFits
  <2> HIDE DEF x, q
  <2> QED BY <2>3, <2>4 DEF Suits, Sits, e, x
<1>5. CASE d \notin DOMAIN e.asn
  <2>1. q \in Q /\ d \in ToSet(q.ids)
    BY <1>2, <1>5, Places
  <2>2. x = c[q].expr.impl
    BY <1>5 DEF Built
  <2> HIDE DEF x, q
  <2>3. PICK b : Offer(L, e, q, b)
    BY <1>1, <2>1
  <2>4. c[q] \in q.sat /\ Suits(e.bound[Leader(q).var], c[q].expr.impl)
    BY <1>3, <2>1
  <2> DEFINE h == Leader(q)
             y == c[q].expr.impl
  <2>5. /\ y \in L /\ y.fn = h.fn /\ y.val \in Val \cup {AnyType}
        /\ y.val = AnyType \/ b \in {Free, y.val}
        /\ h.var \in Var /\ e.bound[h.var] \in Val \cup {Free}
        /\ b \in {Free, e.bound[h.var]}
    BY <1>1, <2>3, <2>4, ChoiceIs
  <2>6. d = h \/ (b # Free /\ d.fn = h.fn /\ e.bound[d.var] = b)
    BY <2>1, <2>3 DEF Offer
  <2>7. CASE d = h
    <3>1. Suits(e.bound[d.var], x)
      BY <2>2, <2>4, <2>7
    <3>2. x.val \in {AnyType, e.bound[d.var]} \/ e.bound[d.var] = Free
      BY <3>1 DEF Suits
    <3> HIDE DEF h
    <3> QED BY <2>1, <2>2, <2>5, <2>7, <3>1, <3>2 DEF Sits, e, x, q, h
  <2>8. CASE b # Free /\ d.fn = h.fn /\ e.bound[d.var] = b
    <3> HIDE DEF h, y
    <3>1. x = y
      BY <2>2 DEF y
    <3>2. x.val \in {AnyType, e.bound[d.var]}
      BY <2>5, <2>8, <3>1
    <3>3. e.bound[d.var] \in Val \cup {Free}
      BY <2>5, <2>8
    <3>4. Suits(e.bound[d.var], x)
      BY <3>2 DEF Suits
    <3> QED BY <2>5, <2>8, <3>1, <3>2, <3>3, <3>4 DEF Sits, e, x
  <2> QED BY <2>6, <2>7, <2>8
<1> QED BY <1>4, <1>5

\* It is an assignment.
LEMMA BuiltAssigns ==
  ASSUME NEW L, NEW D, NEW r, NEW Q, Laid(L, D, r.env, Q), NEW c \in Compatible(r, Q)
  PROVE  Built(D, r.env, Q, c) \in Assign(L, D)
<1> DEFINE e == r.env
           F == Built(D, e, Q, c)
<1>1. F = [d \in D |-> F[d]] /\ DOMAIN F = D
  BY DEF Built
<1>2. \A d \in D : Sits(L, e, Q, c, d, F[d])
  BY BuiltSuits
<1>3. \A p, q \in Q : Leader(p).var = Leader(q).var /\ e.bound[Leader(p).var] = Free
              => Meet(c[p].expr.impl, c[q].expr.impl)
  BY CompatibleSuits
<1>4. \A d \in D : F[d].val # Free
  <2>1. Free \notin Val /\ AnyType # Free
    BY DEF Laid, ConstsFit
  <2> QED BY <1>2, <2>1 DEF Sits
<1> HIDE DEF e, F
<1>5. ASSUME NEW d \in D, NEW k \in D, d.var = k.var PROVE Meet(F[d], F[k])
  <2>1. CASE F[d].val = AnyType \/ F[k].val = AnyType
    BY <2>1 DEF Meet
  <2>2. CASE F[d].val # AnyType /\ F[k].val # AnyType /\ e.bound[d.var] # Free
    BY <1>2, <1>5, <2>2 DEF Meet, Sits
  <2>3. CASE F[d].val # AnyType /\ F[k].val # AnyType /\ e.bound[d.var] = Free
    BY <1>2, <1>3, <1>4, <1>5, <2>3 DEF Sits
  <2> QED BY <2>1, <2>2, <2>3
<1>6. F \in Assign(L, D)
  BY <1>1, <1>2, <1>5 DEF Assign, Sits
<1> QED BY <1>6 DEF e, F

\* An item has a choice for what an assignment gives any that waits in it.
LEMMA ChoiceFor ==
  ASSUME NEW L, NEW D, NEW e, NEW Q, Laid(L, D, e, Q), NEW f \in Assign(L, D),
         NEW q \in Q, NEW d \in ToSet(q.ids)
  PROVE  \E s \in q.sat : Beats(s.expr.impl, f[d])
<1>1. PICK b : Offer(L, e, q, b)
  BY DEF Laid
<1>2. LibFits(L) /\ Leaves(L, D, e)
  BY DEF Laid
<1>3. d \in D
  BY Places
<1> DEFINE h == Leader(q)
           U == Able(L, h.fn, b)
<1>4. d.fn = h.fn /\ b \in {Free, e.bound[d.var]}
  <2>1. b \in {Free, e.bound[h.var]}
    BY <1>1 DEF Offer
  <2>2. d = h \/ (d.fn = h.fn /\ e.bound[d.var] = b)
    BY <1>1 DEF Offer
  <2> QED BY <2>1, <2>2
<1>5. f[d] \in L /\ f[d].fn = d.fn /\ Suits(e.bound[d.var], f[d])
  BY <1>2, <1>3 DEF Assign, Leaves
<1>6. f[d] \in U /\ U \subseteq L
  BY <1>4, <1>5 DEF Able, Suits
<1>7. {s.expr.impl : s \in q.sat} = Lowest(U)
  BY <1>1 DEF Offer
<1> HIDE DEF U
<1>8. \E x \in Lowest(U) : Beats(x, f[d])
  BY <1>2, <1>6, LowestBeats
<1> QED BY <1>7, <1>8

\* The choices that follow an assignment.
Following(Q, f) == [q \in Q |-> CHOOSE s \in q.sat : Beats(s.expr.impl, f[Leader(q)])]

\* For every assignment some compatible choice follows its leaders, at no more
\* cost.
LEMMA FollowingIs ==
  ASSUME NEW L, NEW D, NEW r, NEW Q, Laid(L, D, r.env, Q), NEW f \in Assign(L, D)
  PROVE  /\ Following(Q, f) \in Compatible(r, Q)
         /\ \A q \in Q : Beats(Following(Q, f)[q].expr.impl, f[Leader(q)])
<1> DEFINE e == r.env
           c == Following(Q, f)
<1>1. /\ \A q \in Q : \A d \in ToSet(q.ids) : d \in D
      /\ \A q \in Q : Leader(q) \in ToSet(q.ids)
  BY Places
<1>2. \A q \in Q : Leader(q) \in D
  BY <1>1
<1>3. Leaves(L, D, e)
  BY DEF Laid
<1>4. ASSUME NEW q \in Q PROVE c[q] \in q.sat /\ Beats(c[q].expr.impl, f[Leader(q)])
  <2>1. \E s \in q.sat : Beats(s.expr.impl, f[Leader(q)])
    BY <1>1, ChoiceFor
  <2> QED BY <2>1 DEF Following
<1>5. c \in Combinations(Q)
  <2>1. c = [q \in Q |-> c[q]]
    BY DEF Following
  <2> HIDE DEF c
  <2> QED BY <1>4, <2>1 DEF Combinations
<1> HIDE DEF c
<1>6. \A q \in Q : Suits(e.bound[Leader(q).var], c[q].expr.impl)
  <2> TAKE q \in Q
  <2>1. Suits(e.bound[Leader(q).var], f[Leader(q)])
    BY <1>2, <1>3 DEF Leaves
  <2> QED BY <1>4, <2>1 DEF Suits, Beats
<1>7. \A p, q \in Q : Leader(p).var = Leader(q).var => Meet(c[p].expr.impl, c[q].expr.impl)
  <2> TAKE p, q \in Q
  <2>1. Leader(p).var = Leader(q).var => Meet(f[Leader(p)], f[Leader(q)])
    BY <1>2 DEF Assign
  <2>2. c[p].expr.impl.val = f[Leader(p)].val /\ c[q].expr.impl.val = f[Leader(q)].val
    BY <1>4 DEF Beats
  <2> QED BY <2>1, <2>2 DEF Meet
<1>8. c \in Compatible(r, Q)
  BY <1>5, <1>6, <1>7, SuitingCompatible
<1> QED BY <1>4, <1>8 DEF c

\* The choice for an item that several share is free.
LEMMA SharedIsFree ==
  ASSUME NEW L, NEW D, NEW r, NEW Q, Laid(L, D, r.env, Q), NEW c \in Compatible(r, Q),
         NEW q \in Q, NEW d \in ToSet(q.ids), d # Leader(q), NEW s \in q.sat
  PROVE  [c EXCEPT ![q] = s] \in Compatible(r, Q)
<1> DEFINE e == r.env
           b == e.bound[Leader(q).var]
           g == [c EXCEPT ![q] = s]
<1>1. /\ c \in Combinations(Q) /\ DOMAIN c = Q /\ \A p \in Q : c[p] \in p.sat
      /\ \A p \in Q : Suits(e.bound[Leader(p).var], c[p].expr.impl)
      /\ \A p, o \in Q : Leader(p).var = Leader(o).var /\ e.bound[Leader(p).var] = Free
           => Meet(c[p].expr.impl, c[o].expr.impl)
  BY CompatibleSuits
<1>2. PICK a : Offer(L, e, q, a)
  BY DEF Laid
<1>3. ConstsFit /\ LibFits(L) /\ EnvFits(L, e)
  BY DEF Laid
<1>4. a # Free /\ a = b
  BY <1>2 DEF Offer
<1>5. Suits(b, s.expr.impl) /\ b # Free
  <2>1. s.expr.impl.val = AnyType \/ a \in {Free, s.expr.impl.val}
    BY <1>2, <1>3, ChoiceIs
  <2> QED BY <1>4, <2>1 DEF Suits
<1>6. \A p \in Q : g[p] = IF p = q THEN s ELSE c[p]
  BY <1>1
<1>7. g \in Combinations(Q)
  <2>1. c \in [Q -> UNION {p.sat : p \in Q}]
    BY DEF Compatible, Combinations
  <2>2. g \in [Q -> UNION {p.sat : p \in Q}]
    BY <2>1
  <2> QED BY <1>1, <1>6, <2>2 DEF Combinations
<1> HIDE DEF g
<1>8. \A p \in Q : Suits(e.bound[Leader(p).var], g[p].expr.impl)
  BY <1>1, <1>5, <1>6
<1>9. \A p, o \in Q : Leader(p).var = Leader(o).var => Meet(g[p].expr.impl, g[o].expr.impl)
  <2> TAKE p, o \in Q
  <2>1. CASE e.bound[Leader(p).var] = Free
    BY <1>1, <1>5, <1>6, <2>1
  <2>2. CASE e.bound[Leader(p).var] # Free
    BY <1>8, <2>2 DEF Suits, Meet
  <2> QED BY <2>1, <2>2
<1>10. g \in Compatible(r, Q)
  BY <1>7, <1>8, <1>9, SuitingCompatible
<1> QED BY <1>10 DEF g

\* Prices are ordered as costs are.
LEMMA PricesOrdered ==
  ASSUME NEW Q, IsFiniteSet(Q), NEW c, NEW g, DOMAIN c = Q, DOMAIN g = Q,
         \A q \in Q : c[q].cost \in Nat /\ g[q].cost \in Nat /\ c[q].cost <= g[q].cost
  PROVE  /\ PriceOf(c) \in Nat /\ PriceOf(g) \in Nat /\ PriceOf(c) <= PriceOf(g)
         /\ (\E q \in Q : c[q].cost < g[q].cost) => PriceOf(c) < PriceOf(g)
<1>1. PriceOf(c) = SumOver(CostOf(c), Q) /\ PriceOf(g) = SumOver(CostOf(g), Q)
  BY PriceIs
<1>2. \A q \in Q : CostOf(c)[q] = c[q].cost /\ CostOf(g)[q] = g[q].cost
  BY DEF CostOf
<1>3. Weighs(CostOf(c), Q) /\ Weighs(CostOf(g), Q)
  BY <1>2 DEF Weighs
<1>4. \A q \in Q : CostOf(c)[q] <= CostOf(g)[q]
  BY <1>2
<1>5. /\ SumOver(CostOf(c), Q) \in Nat /\ SumOver(CostOf(g), Q) \in Nat
      /\ SumOver(CostOf(c), Q) <= SumOver(CostOf(g), Q)
      /\ (\E q \in Q : CostOf(c)[q] < CostOf(g)[q])
           => SumOver(CostOf(c), Q) < SumOver(CostOf(g), Q)
  BY <1>3, <1>4, SumLess
<1> QED BY <1>1, <1>2, <1>5

\* A compatible choice's costs are those of its functions.
Costing(Q, c) ==
  /\ DOMAIN c = Q /\ IsFiniteSet(Q)
  /\ \A q \in Q : c[q] \in q.sat /\ c[q].cost \in Nat /\ c[q].cost = c[q].expr.impl.cost

\* What a compatible choice takes costs what its function does.
LEMMA Costs ==
  ASSUME NEW L, NEW D, NEW r, NEW Q, Laid(L, D, r.env, Q), NEW c \in Compatible(r, Q)
  PROVE  Costing(Q, c)
<1>1. /\ ConstsFit /\ LibFits(L) /\ EnvFits(L, r.env) /\ IsFiniteSet(Q)
      /\ \A q \in Q : \E b : Offer(L, r.env, q, b)
  BY DEF Laid
<1>2. c \in Combinations(Q) /\ DOMAIN c = Q /\ \A q \in Q : c[q] \in q.sat
  BY DEF Compatible, Combinations
<1>3. ASSUME NEW q \in Q PROVE c[q].cost \in Nat /\ c[q].cost = c[q].expr.impl.cost
  <2>1. PICK b : Offer(L, r.env, q, b)
    BY <1>1
  <2> QED BY <1>1, <1>2, <2>1, ChoiceIs
<1> QED BY <1>1, <1>2, <1>3 DEF Costing

\* F gives the leaders what c chooses; but for them F and G are alike.
Leads(Q, F, c) == \A q \in Q : F[Leader(q)] = c[q].expr.impl
Aside(D, Q, F, G) == \A d \in D : (\A q \in Q : d # Leader(q)) => F[d] = G[d]

\* F and G differ in cost as c and g do.
Shifted(F, G, c, g) ==
  /\ Total(F) \in Nat /\ Total(G) \in Nat /\ PriceOf(c) \in Nat /\ PriceOf(g) \in Nat
  /\ Total(F) + PriceOf(g) = Total(G) + PriceOf(c)

\* Assignments that differ in what the leaders are given, by two choices, differ
\* in cost as these do.
LEMMA ChoicesMoved ==
  ASSUME NEW L, NEW D, NEW r, NEW Q, Laid(L, D, r.env, Q), NEW c \in Compatible(r, Q),
         NEW g \in Compatible(r, Q), NEW F \in [D -> L], NEW G \in [D -> L],
         Leads(Q, F, c), Leads(Q, G, g), Aside(D, Q, F, G)
  PROVE  Shifted(F, G, c, g)
<1> DEFINE H == {Leader(q) : q \in Q}
           h == [q \in Q |-> Leader(q)]
           R == D \ H
           u == CostOf(F)
           v == CostOf(G)
<1>1. LibFits(L) /\ IsFiniteSet(D) /\ IsFiniteSet(Q)
  BY DEF Laid
<1>2. /\ \A q \in Q : Leader(q) \in D
      /\ \A p, q \in Q : Leader(p) = Leader(q) => p = q
  BY Places
<1>3. DOMAIN F = D /\ DOMAIN G = D /\ \A d \in D : F[d].cost \in Nat /\ G[d].cost \in Nat
  BY <1>1 DEF LibFits
<1>4. \A d \in D : /\ u[d] = F[d].cost /\ v[d] = G[d].cost
                   /\ u[d] \in Nat /\ v[d] \in Nat
  BY <1>3 DEF CostOf
<1>5. Total(F) = SumOver(u, D) /\ Total(G) = SumOver(v, D)
  BY <1>1, <1>3, TotalIs
<1>6. /\ DOMAIN c = Q /\ DOMAIN g = Q
      /\ \A q \in Q : /\ c[q].cost \in Nat /\ c[q].cost = c[q].expr.impl.cost
                      /\ g[q].cost \in Nat /\ g[q].cost = g[q].expr.impl.cost
  <2>1. Costing(Q, c)
    BY Costs
  <2>2. Costing(Q, g)
    BY Costs
  <2> QED BY <2>1, <2>2 DEF Costing
<1>7. PriceOf(c) = SumOver(CostOf(c), Q) /\ PriceOf(g) = SumOver(CostOf(g), Q)
  BY <1>1, <1>6, PriceIs
<1>8. Weighs(CostOf(c), Q) /\ Weighs(CostOf(g), Q)
  BY <1>1, <1>6 DEF Weighs, CostOf
<1>9. \A p, q \in Q : h[p] = h[q] => p = q
  BY <1>2
<1>10. H = {h[q] : q \in Q}
  OBVIOUS
<1>11. \A q \in Q : u[h[q]] = CostOf(c)[q] /\ v[h[q]] = CostOf(g)[q]
  <2> TAKE q \in Q
  <2>1. h[q] = Leader(q) /\ Leader(q) \in D
    BY <1>2
  <2>2. u[Leader(q)] = c[q].cost /\ v[Leader(q)] = g[q].cost
    BY <1>4, <1>6, <2>1 DEF Leads
  <2> HIDE DEF u, v
  <2> QED BY <1>6, <2>1, <2>2 DEF CostOf
<1>12. D = R \cup H /\ R \cap H = {}
  BY <1>2
<1>13. Weighs(u, D) /\ Weighs(v, D)
  BY <1>1, <1>4 DEF Weighs
<1> HIDE DEF u, v, h
<1>14. SumOver(u, H) = SumOver(CostOf(c), Q) /\ SumOver(v, H) = SumOver(CostOf(g), Q)
  <2>1. \A q \in Q : u[h[q]] = CostOf(c)[q]
    BY <1>11
  <2>2. \A q \in Q : v[h[q]] = CostOf(g)[q]
    BY <1>11
  <2> DEFINE w == CostOf(c)
             z == CostOf(g)
  <2>3. Weighs(w, Q) /\ Weighs(z, Q) /\ \A q \in Q : u[h[q]] = w[q] /\ v[h[q]] = z[q]
    BY <1>8, <2>1, <2>2
  <2> HIDE DEF w, z
  <2>4. \A q \in Q : h[q] \in H
    BY <1>10
  <2>5. \A x \in H : \E q \in Q : x = h[q]
    BY <1>10
  <2> HIDE DEF H, R
  <2>6. SumOver(u, H) = SumOver(w, Q)
    BY <1>9, <2>3, <2>4, <2>5, SumMoved
  <2>7. SumOver(v, H) = SumOver(z, Q)
    BY <1>9, <2>3, <2>4, <2>5, SumMoved
  <2> QED BY <2>6, <2>7 DEF w, z
<1>15. \A d \in R : u[d] = v[d]
  BY <1>4 DEF Aside
<1> HIDE DEF R, H
<1>16. Weighs(u, R \cup H) /\ Weighs(v, R \cup H)
  BY <1>12, <1>13
<1>17. /\ SumOver(u, R) \in Nat /\ SumOver(u, H) \in Nat
       /\ SumOver(u, D) = SumOver(u, R) + SumOver(u, H)
  BY <1>12, <1>16, SumApart
<1>18. /\ SumOver(v, R) \in Nat /\ SumOver(v, H) \in Nat
       /\ SumOver(v, D) = SumOver(v, R) + SumOver(v, H)
  BY <1>12, <1>16, SumApart
<1>19. SumOver(u, R) = SumOver(v, R)
  <2>1. Weighs(u, R) /\ Weighs(v, R)
    BY <1>12, <1>16, FS_Subset DEF Weighs
  <2>2. \A d \in R : u[d] <= v[d] /\ v[d] <= u[d]
    BY <1>15, <2>1 DEF Weighs
  <2>3. SumOver(u, R) <= SumOver(v, R)
    BY <2>1, <2>2, SumLess
  <2>4. SumOver(v, R) <= SumOver(u, R)
    BY <2>1, <2>2, SumLess
  <2> QED BY <1>17, <1>18, <2>3, <2>4
<1> QED BY <1>5, <1>7, <1>8, <1>14, <1>17, <1>18, <1>19 DEF Shifted

\* c's choice for q is no dearer than s, and is s if that is as cheap and c is
\* the only cheapest.
Thrifty(C, c, q, s) ==
  /\ c[q].cost \in Nat /\ s.cost \in Nat /\ c[q].cost <= s.cost
  /\ Cheapest(C) = {c} /\ s.cost = c[q].cost => s = c[q]

\* An item that several share takes its cheapest choice.
LEMMA SharedTakeCheapest ==
  ASSUME NEW L, NEW D, NEW r, NEW Q, Laid(L, D, r.env, Q),
         NEW c \in Cheapest(Compatible(r, Q)),
         NEW q \in Q, NEW d \in ToSet(q.ids), d # Leader(q), NEW s \in q.sat
  PROVE  Thrifty(Compatible(r, Q), c, q, s)
<1> DEFINE C == Compatible(r, Q)
           o == [c EXCEPT ![q] = s]
<1>1. c \in C /\ \A g \in C : PriceOf(c) <= PriceOf(g)
  BY DEF Cheapest
<1>2. o \in C
  BY <1>1, SharedIsFree
<1>3. Costing(Q, c)
  BY <1>1, Costs
<1>4. Costing(Q, o)
  BY <1>2, Costs
<1>5. /\ IsFiniteSet(Q) /\ DOMAIN c = Q /\ DOMAIN o = Q
      /\ o[q] = s /\ \A p \in Q \ {q} : o[p] = c[p]
      /\ \A p \in Q : c[p].cost \in Nat /\ o[p].cost \in Nat
  BY <1>3, <1>4 DEF Costing
<1> HIDE DEF C, o
<1>6. c[q].cost \in Nat /\ s.cost \in Nat
  BY <1>5
<1>7. ASSUME s.cost <= c[q].cost
      PROVE  /\ PriceOf(o) \in Nat /\ PriceOf(c) \in Nat /\ PriceOf(o) <= PriceOf(c)
             /\ s.cost < c[q].cost => PriceOf(o) < PriceOf(c)
  <2>1. \A p \in Q : o[p].cost \in Nat /\ c[p].cost \in Nat /\ o[p].cost <= c[p].cost
    BY <1>5, <1>7
  <2>2. /\ PriceOf(o) \in Nat /\ PriceOf(c) \in Nat /\ PriceOf(o) <= PriceOf(c)
        /\ (\E p \in Q : o[p].cost < c[p].cost) => PriceOf(o) < PriceOf(c)
    BY <1>5, <2>1, PricesOrdered
  <2> QED BY <1>5, <2>2
<1>8. c[q].cost <= s.cost
  <2> SUFFICES ASSUME s.cost < c[q].cost PROVE FALSE
    BY <1>6
  <2>1. s.cost <= c[q].cost
    BY <1>6
  <2> QED BY <1>1, <1>2, <1>7, <2>1
<1>9. ASSUME Cheapest(C) = {c}, s.cost = c[q].cost PROVE s = c[q]
  <2>1. s.cost <= c[q].cost
    BY <1>6, <1>9
  <2>2. /\ PriceOf(o) \in Nat /\ PriceOf(c) \in Nat /\ PriceOf(o) <= PriceOf(c)
    BY <1>7, <2>1
  <2>3. \A g \in C : PriceOf(g) \in Nat
    <3> TAKE g \in C
    <3>1. Costing(Q, g)
      BY Costs DEF C
    <3>2. \A p \in Q : g[p].cost \in Nat /\ g[p].cost <= g[p].cost
      BY <3>1 DEF Costing
    <3>3. DOMAIN g = Q /\ IsFiniteSet(Q)
      BY <3>1 DEF Costing
    <3> QED BY <3>2, <3>3, PricesOrdered
  <2>4. o \in Cheapest(C)
    BY <1>1, <1>2, <2>2, <2>3 DEF Cheapest
  <2>5. o = c
    BY <1>9, <2>4
  <2> QED BY <1>5, <2>5
<1> QED BY <1>6, <1>8, <1>9 DEF C, Thrifty

\* F, but with the leaders given what g chooses.
Led(Q, d) == \E q \in Q : d = Leader(q)
Mixed(D, Q, F, g) == [d \in D |-> IF Led(Q, d) THEN g[ItemOf(Q, d)].expr.impl ELSE F[d]]

\* With what follows an assignment it is no dearer than that anywhere, and if
\* nowhere cheaper, the same.
LEMMA MixedBeats ==
  ASSUME NEW L, NEW D, NEW r, NEW Q, Laid(L, D, r.env, Q),
         NEW c \in Cheapest(Compatible(r, Q)), NEW f \in Assign(L, D), NEW d \in D
  PROVE  LET x == Mixed(D, Q, Built(D, r.env, Q, c), Following(Q, f))[d]
         IN /\ x.cost \in Nat /\ f[d].cost \in Nat /\ x.cost <= f[d].cost
            /\ Cheapest(Compatible(r, Q)) = {c} /\ x.cost = f[d].cost => x = f[d]
<1> DEFINE e == r.env
           F == Built(D, e, Q, c)
           g == Following(Q, f)
           x == Mixed(D, Q, F, g)[d]
           q == ItemOf(Q, d)
<1>1. c \in Compatible(r, Q)
  BY DEF Cheapest
<1>2. Sits(L, e, Q, c, d, F[d])
  BY <1>1, BuiltSuits
<1>3. LibFits(L) /\ \A k \in DOMAIN e.asn : Forced(L, D, k, e.asn[k].impl)
  BY DEF Laid
<1>4. g \in Compatible(r, Q) /\ \A p \in Q : Beats(g[p].expr.impl, f[Leader(p)])
  BY FollowingIs
<1>5. f[d] \in L /\ f[d].cost \in Nat
  BY <1>3 DEF Assign, LibFits
<1>6. F[d].cost \in Nat
  BY <1>2, <1>3 DEF Sits, LibFits
<1>7. Costing(Q, g)
  BY <1>4, Costs
<1>8. Costing(Q, c)
  BY <1>1, Costs
<1>9. /\ \A p \in Q : \A k \in ToSet(p.ids) : k \in D /\ k \notin DOMAIN e.asn /\ ItemOf(Q, k) = p
      /\ \A k \in D \ DOMAIN e.asn : ItemOf(Q, k) \in Q /\ k \in ToSet(ItemOf(Q, k).ids)
      /\ \A p \in Q : Leader(p) \in ToSet(p.ids)
      /\ \A p, o \in Q : Leader(p) = Leader(o) => p = o
      /\ \A k \in DOMAIN e.asn : k \in D
  BY Places
<1>10. CASE Led(Q, d)
  <2>1. PICK p \in Q : d = Leader(p)
    BY <1>10 DEF Led
  <2>2. q = p
    BY <1>9, <2>1
  <2>3. x = g[p].expr.impl
    BY <1>10, <2>2 DEF Mixed
  <2>4. x.cost \in Nat /\ Beats(x, f[d])
    BY <1>4, <1>7, <2>1, <2>3 DEF Costing
  <2> HIDE DEF x
  <2>5. /\ x.cost \in Nat /\ f[d].cost \in Nat /\ x.cost <= f[d].cost
        /\ x.cost = f[d].cost => x = f[d]
    BY <1>5, <2>4 DEF Beats
  <2> QED BY <2>5 DEF x
<1>11. CASE ~ Led(Q, d) /\ d \in DOMAIN e.asn
  <2>1. x = e.asn[d].impl
    BY <1>11 DEF Mixed, Built
  <2>2. x = F[d]
    BY <1>11 DEF Mixed
  <2>3. Beats(x, f[d])
    BY <1>3, <1>11, <2>1 DEF Forced
  <2> HIDE DEF x, F
  <2>4. /\ x.cost \in Nat /\ f[d].cost \in Nat /\ x.cost <= f[d].cost
        /\ x.cost = f[d].cost => x = f[d]
    BY <1>5, <1>6, <2>2, <2>3 DEF Beats
  <2> QED BY <2>4 DEF x, F
<1>12. CASE ~ Led(Q, d) /\ d \notin DOMAIN e.asn
  <2>1. q \in Q /\ d \in ToSet(q.ids) /\ d # Leader(q)
    BY <1>9, <1>12 DEF Led
  <2>2. x = c[q].expr.impl
    BY <1>12 DEF Mixed, Built
  <2>3. x.cost = c[q].cost /\ c[q].cost \in Nat
    BY <1>8, <2>1, <2>2 DEF Costing
  <2>4. PICK s \in q.sat : Beats(s.expr.impl, f[d])
    <3>1. Laid(L, D, e, Q)
      OBVIOUS
    <3> HIDE DEF e, q
    <3> QED BY <2>1, <3>1, ChoiceFor
  <2>5. s.cost = s.expr.impl.cost
    <3>1. PICK b : Offer(L, e, q, b)
      BY <2>1 DEF Laid
    <3>2. ConstsFit /\ EnvFits(L, e)
      BY DEF Laid
    <3> HIDE DEF e, q
    <3> QED BY <1>3, <3>1, <3>2, ChoiceIs
  <2> HIDE DEF q, x
  <2>6. Thrifty(Compatible(r, Q), c, q, s)
    BY <2>1, SharedTakeCheapest
  <2>7. /\ c[q].cost \in Nat /\ s.cost \in Nat /\ c[q].cost <= s.cost
        /\ Cheapest(Compatible(r, Q)) = {c} /\ s.cost = c[q].cost => s = c[q]
    BY <2>6 DEF Thrifty
  <2>8. s.cost <= f[d].cost /\ (s.cost = f[d].cost => s.expr.impl = f[d])
    BY <1>5, <2>4, <2>5, <2>7 DEF Beats
  <2>9. x.cost <= f[d].cost
    BY <1>5, <2>3, <2>7, <2>8
  <2>10. ASSUME Cheapest(Compatible(r, Q)) = {c}, x.cost = f[d].cost PROVE x = f[d]
    <3>1. s.cost = c[q].cost /\ s.cost = f[d].cost
      BY <1>5, <2>3, <2>7, <2>8, <2>10
    <3>2. s = c[q] /\ s.expr.impl = f[d]
      BY <2>7, <2>8, <2>10, <3>1
    <3> QED BY <2>2, <3>2
  <2> QED BY <1>5, <2>3, <2>9, <2>10 DEF x
<1> QED BY <1>10, <1>11, <1>12

\* F costs no more than f, and is f if that costs as much and it is the only best.
NoDearer(only, F, f) ==
  /\ Total(F) \in Nat /\ Total(f) \in Nat /\ Total(F) <= Total(f)
  /\ only /\ Total(F) = Total(f) => F = f

\* What is built of a cheapest choice costs no more than any assignment.
LEMMA BuiltBeats ==
  ASSUME NEW L, NEW D, NEW r, NEW Q, Laid(L, D, r.env, Q),
         NEW c \in Cheapest(Compatible(r, Q)), NEW f \in Assign(L, D)
  PROVE  NoDearer(Cheapest(Compatible(r, Q)) = {c}, Built(D, r.env, Q, c), f)
<1> DEFINE e == r.env
           C == Compatible(r, Q)
           F == Built(D, e, Q, c)
           g == Following(Q, f)
           G == Built(D, e, Q, g)
           M == Mixed(D, Q, F, g)
<1>1. c \in C /\ \A o \in C : PriceOf(c) <= PriceOf(o)
  BY DEF Cheapest
<1>2. g \in C
  BY FollowingIs
<1>3. F \in Assign(L, D) /\ G \in Assign(L, D)
  BY <1>1, <1>2, BuiltAssigns
<1>4. /\ \A q \in Q : \A k \in ToSet(q.ids) : k \in D /\ k \notin DOMAIN e.asn /\ ItemOf(Q, k) = q
      /\ \A k \in D \ DOMAIN e.asn : ItemOf(Q, k) \in Q /\ k \in ToSet(ItemOf(Q, k).ids)
      /\ \A q \in Q : Leader(q) \in ToSet(q.ids)
      /\ \A q, o \in Q : Leader(q) = Leader(o) => q = o
      /\ \A k \in DOMAIN e.asn : k \in D
  BY Places
<1>5. \A q \in Q : Leader(q) \in D /\ Leader(q) \notin DOMAIN e.asn /\ ItemOf(Q, Leader(q)) = q
  BY <1>4
<1>6. ASSUME NEW q \in Q
      PROVE  /\ F[Leader(q)] = c[q].expr.impl /\ G[Leader(q)] = g[q].expr.impl
             /\ M[Leader(q)] = g[q].expr.impl
  <2>1. Led(Q, Leader(q))
    BY DEF Led
  <2> HIDE DEF g
  <2> QED BY <1>5, <2>1 DEF Built, Mixed
<1>7. \A d \in D : IF Led(Q, d) THEN M[d] = G[d] ELSE M[d] = F[d]
  <2> TAKE d \in D
  <2>1. CASE Led(Q, d)
    <3>1. PICK q \in Q : d = Leader(q)
      BY <2>1 DEF Led
    <3> HIDE DEF M, G, F, g
    <3> QED BY <1>6, <2>1, <3>1
  <2>2. CASE ~ Led(Q, d)
    BY <2>2 DEF Mixed
  <2> QED BY <2>1, <2>2
<1>8. F \in [D -> L] /\ G \in [D -> L]
  BY <1>3 DEF Assign
<1>9. M \in [D -> L]
  <2>1. M = [d \in D |-> M[d]]
    BY DEF Mixed
  <2> HIDE DEF M, F, G
  <2> QED BY <1>7, <1>8, <2>1
<1>10. f \in [D -> L] /\ LibFits(L) /\ IsFiniteSet(D)
  BY DEF Assign, Laid
<1>11. /\ \A d \in D : /\ M[d].cost \in Nat /\ f[d].cost \in Nat /\ M[d].cost <= f[d].cost
                       /\ Cheapest(C) = {c} /\ M[d].cost = f[d].cost => M[d] = f[d]
  BY MixedBeats
<1> HIDE DEF F, G, M, g, C
<1>12. /\ Total(F) \in Nat /\ Total(M) \in Nat /\ PriceOf(c) \in Nat /\ PriceOf(g) \in Nat
       /\ Total(F) + PriceOf(g) = Total(M) + PriceOf(c)
  <2>1. Leads(Q, F, c) /\ Leads(Q, M, g)
    BY <1>6 DEF Leads
  <2>2. Aside(D, Q, F, M)
    BY <1>7 DEF Led, Aside
  <2> HIDE DEF e
  <2>3. Laid(L, D, r.env, Q) /\ c \in Compatible(r, Q) /\ g \in Compatible(r, Q)
    BY <1>1, <1>2 DEF C
  <2>4. Shifted(F, M, c, g)
    BY <1>8, <1>9, <2>1, <2>2, <2>3, ChoicesMoved
  <2> QED BY <2>4 DEF Shifted
<1>13. Total(F) <= Total(M) /\ (Total(F) = Total(M) => PriceOf(g) = PriceOf(c))
  <2>1. PriceOf(c) <= PriceOf(g)
    BY <1>1, <1>2
  <2> QED BY <1>12, <2>1
<1>14. /\ Total(M) \in Nat /\ Total(f) \in Nat /\ Total(M) <= Total(f)
       /\ (\E d \in D : M[d].cost < f[d].cost) => Total(M) < Total(f)
  <2>1. \A d \in D : M[d].cost <= f[d].cost
    BY <1>11
  <2> QED BY <1>9, <1>10, <2>1, TotalsOrdered
<1>15. Total(F) <= Total(f)
  BY <1>12, <1>13, <1>14
<1>16. ASSUME Cheapest(C) = {c}, Total(F) = Total(f) PROVE F = f
  <2>1. Total(M) = Total(f) /\ PriceOf(g) = PriceOf(c)
    BY <1>12, <1>13, <1>14, <1>16
  <2>2. g \in Cheapest(C)
    BY <1>1, <1>2, <2>1 DEF Cheapest
  <2>3. g = c
    BY <1>16, <2>2
  <2>4. ASSUME NEW d \in D PROVE M[d] = F[d]
    <3>1. CASE Led(Q, d)
      <4>1. PICK q \in Q : d = Leader(q)
        BY <3>1 DEF Led
      <4> QED BY <1>6, <2>3, <4>1
    <3> QED BY <1>7, <3>1
  <2>5. ASSUME NEW d \in D PROVE M[d] = f[d]
    <3>1. ~(M[d].cost < f[d].cost)
      BY <1>14, <2>1
    <3>2. M[d].cost = f[d].cost
      BY <1>11, <3>1
    <3> QED BY <1>11, <1>16, <3>2
  <2> QED BY <1>8, <1>10, <2>4, <2>5
<1> QED BY <1>12, <1>14, <1>15, <1>16 DEF NoDearer, F, C

\* c is the only cheapest choice.
Sole(C, c) == Cheapest(C) = {c}

\* The only cheapest choice builds the only cheapest assignment.
LEMMA OnlyCheapest ==
  ASSUME NEW L, NEW D, NEW r, NEW Q, Laid(L, D, r.env, Q), NEW c,
         Sole(Compatible(r, Q), c)
  PROVE  Ideal(L, D) = {Built(D, r.env, Q, c)}
<1> DEFINE F == Built(D, r.env, Q, c)
           only == Cheapest(Compatible(r, Q)) = {c}
<1>1. c \in Cheapest(Compatible(r, Q)) /\ only
  BY DEF Sole
<1>2. c \in Compatible(r, Q)
  BY <1>1 DEF Cheapest
<1>3. F \in Assign(L, D)
  BY <1>2, BuiltAssigns
<1>4. \A f \in Assign(L, D) : NoDearer(only, F, f)
  BY <1>1, BuiltBeats
<1> HIDE DEF F, only
<1>5. F \in Ideal(L, D)
  BY <1>3, <1>4 DEF Ideal, NoDearer
<1>6. ASSUME NEW f \in Ideal(L, D) PROVE f = F
  <2>1. f \in Assign(L, D) /\ Total(f) <= Total(F)
    BY <1>3 DEF Ideal
  <2>2. NoDearer(only, F, f)
    BY <1>4, <2>1
  <2>3. Total(F) = Total(f)
    BY <2>1, <2>2 DEF NoDearer
  <2> QED BY <1>1, <2>2, <2>3 DEF NoDearer
<1> QED BY <1>5, <1>6 DEF F

\* Where no choice or several are cheapest, no assignment is alone the cheapest.
LEMMA NoOnlyCheapest ==
  ASSUME NEW L, NEW D, NEW r, NEW Q, Laid(L, D, r.env, Q),
         Cardinality(Cheapest(Compatible(r, Q))) # 1
  PROVE  Cardinality(Ideal(L, D)) # 1
<1> DEFINE e == r.env
           C == Compatible(r, Q)
<1>1. ConstsFit /\ LibFits(L) /\ EnvFits(L, e) /\ IsFiniteSet(D) /\ \A q \in Q : \E b : Offer(L, e, q, b)
  BY DEF Laid
<1>2. CASE Cheapest(C) = {}
  <2>1. C = {}
    <3> SUFFICES ASSUME NEW o \in C PROVE FALSE
      OBVIOUS
    <3> DEFINE P == {PriceOf(g) : g \in C}
    <3>1. \A g \in C : PriceOf(g) \in Nat
      <4> TAKE g \in C
      <4>1. Costing(Q, g)
        BY Costs
      <4>2. \A p \in Q : g[p].cost \in Nat /\ g[p].cost <= g[p].cost
        BY <4>1 DEF Costing
      <4>3. DOMAIN g = Q /\ IsFiniteSet(Q)
        BY <4>1 DEF Costing
      <4> HIDE DEF C
      <4> QED BY <4>2, <4>3, PricesOrdered
    <3> HIDE DEF C
    <3>2. P \in SUBSET Nat /\ PriceOf(o) \in P
      BY <3>1
    <3>3. PICK m \in P : \A k \in P : m <= k
      <4> HIDE DEF P
      <4> QED BY <3>2, LeastNat
    <3>4. PICK g \in C : PriceOf(g) = m
      OBVIOUS
    <3>5. g \in Cheapest(C)
      BY <3>3, <3>4 DEF Cheapest
    <3> QED BY <1>2, <3>5
  <2>2. Assign(L, D) = {}
    BY <2>1, FollowingIs
  <2> QED BY <1>1, <2>2, NoneIdeal
<1>3. CASE Cheapest(C) # {}
  <2>1. PICK c \in Cheapest(C) : TRUE
    BY <1>3
  <2>2. PICK o \in Cheapest(C) : o # c
    <3>1. CASE Cheapest(C) = {c}
      <4>1. Cardinality({c}) = 1
        BY FS_Singleton
      <4> QED BY <3>1, <4>1
    <3> QED BY <2>1, <3>1
  <2> DEFINE F == Built(D, e, Q, c)
             G == Built(D, e, Q, o)
  <2>3. c \in C /\ o \in C
    BY DEF Cheapest
  <2>4. F \in Assign(L, D) /\ G \in Assign(L, D)
    BY <2>3, BuiltAssigns
  <2>5. Costing(Q, c)
    BY <2>3, Costs
  <2>6. Costing(Q, o)
    BY <2>3, Costs
  <2>7. PICK q \in Q : c[q] # o[q]
    <3>1. c = [q \in Q |-> c[q]] /\ o = [q \in Q |-> o[q]]
      BY <2>3 DEF Compatible, Combinations
    <3> QED BY <2>2, <3>1
  <2>8. c[q].expr.impl # o[q].expr.impl
    <3>1. PICK b : Offer(L, e, q, b)
      BY <1>1
    <3>2. c[q] \in q.sat /\ o[q] \in q.sat
      BY <2>5, <2>6 DEF Costing
    <3> QED BY <2>7, <3>1, <3>2 DEF Offer
  <2>9. F # G
    <3>1. Leader(q) \in D /\ Leader(q) \notin DOMAIN e.asn /\ ItemOf(Q, Leader(q)) = q
      <4>1. /\ \A p \in Q : \A k \in ToSet(p.ids) : k \in D /\ k \notin DOMAIN e.asn /\ ItemOf(Q, k) = p
            /\ \A k \in D \ DOMAIN e.asn : ItemOf(Q, k) \in Q /\ k \in ToSet(ItemOf(Q, k).ids)
            /\ \A p \in Q : Leader(p) \in ToSet(p.ids)
            /\ \A p, k \in Q : Leader(p) = Leader(k) => p = k
            /\ \A k \in DOMAIN e.asn : k \in D
        BY Places
      <4> QED BY <4>1
    <3>2. F[Leader(q)] = c[q].expr.impl /\ G[Leader(q)] = o[q].expr.impl
      BY <3>1 DEF Built
    <3> QED BY <2>8, <3>2
  <2>10. ASSUME NEW f \in Assign(L, D)
         PROVE  Total(F) <= Total(f) /\ Total(G) <= Total(f)
    <3>1. NoDearer(Cheapest(C) = {c}, F, f)
      BY BuiltBeats
    <3>2. NoDearer(Cheapest(C) = {o}, G, f)
      BY BuiltBeats
    <3> QED BY <3>1, <3>2 DEF NoDearer
  <2> HIDE DEF F, G
  <2> QED BY <1>1, <2>4, <2>9, <2>10, NoneIdeal
<1> QED BY <1>2, <1>3

-----------------------------------------------------------------------------
(* What is found for an assertion, where no function needs any             *)

PlainLib(L) ==
  /\ \A impl \in L : impl.needs = << >> /\ impl.shape = "call"
  /\ \A x, y \in L : x.fn = y.fn /\ TypeOf(x) = TypeOf(y) => x.val = y.val

\* What can be used for d in e, and what is found for it of x's value.
Fitted(L, d, e) == Able(L, d.fn, e.bound[d.var])
Group(L, d, e, x) ==
  {Interpret(y, d, e) : y \in {y \in Lowest(Fitted(L, d, e)) : y.val = x.val}}

\* Where no function needs any and result types tell functions apart, the choices
\* are grouped by value, and of each value are the lowest.
LEMMA FoundAre ==
  ASSUME NEW L, PlainLib(L), NEW d, NEW e
  PROVE  Satisfying(L, d, e) = {Group(L, d, e, x) : x \in Fitted(L, d, e)}
<1> DEFINE U == Fitted(L, d, e)
           V == Usable(L, d, e)
           best(x) == {y \in V : TypeOf(y) = TypeOf(x)
                        /\ \A z \in V : TypeOf(z) = TypeOf(x) => y.cost <= z.cost}
           low(x) == {y \in Lowest(U) : y.val = x.val}
<1>1. V = U
  BY DEF Usable, Fitted, Able, Suits
<1>2. \A x, y \in U : TypeOf(x) = TypeOf(y) <=> x.val = y.val
  <2>1. U \subseteq L /\ \A x \in U : x.fn = d.fn
    BY DEF Fitted, Able
  <2> HIDE DEF U
  <2>2. \A x, y \in U : x.val = y.val => TypeOf(x) = TypeOf(y)
    BY <2>1 DEF TypeOf
  <2> QED BY <2>1, <2>2 DEF PlainLib
<1> HIDE DEF U, V
<1>3. \A x \in U : best(x) = low(x)
  BY <1>1, <1>2 DEF Lowest
<1>4. Satisfying(L, d, e) = {{Interpret(y, d, e) : y \in best(x)} : x \in V}
  BY DEF Satisfying, V
<1> HIDE DEF best, low
<1>5. Satisfying(L, d, e) = {{Interpret(y, d, e) : y \in low(x)} : x \in U}
  BY <1>1, <1>3, <1>4
<1> QED BY <1>5 DEF low, U, Group

\* An interpretation of a function that needs none.
Plainly(s, x, d, e) ==
  /\ s.expr.impl = x /\ s.expr.subs = << >> /\ s.cost = x.cost
  /\ s.env = Bind(e, d.var, x.val)

\* A function that needs nothing is interpreted as itself, and its value bound.
LEMMA InterpretPlainly ==
  ASSUME NEW L, PlainLib(L), NEW x \in L, NEW d, NEW e
  PROVE  Plainly(Interpret(x, d, e), x, d, e)
<1>1. x.needs = << >>
  BY DEF PlainLib
<1>2. Len(x.needs) = 0
  BY <1>1
<1>3. [i \in 1 .. Len(x.needs) |-> Assertion(x.needs[i], d.var, Append(d.id, i))] = << >>
  BY <1>2
<1> QED BY <1>3 DEF Interpret, Plainly

\* What is found, altogether.
LEMMA FoundTogether ==
  ASSUME NEW L, LibFits(L), PlainLib(L), NEW d, NEW e
  PROVE  UNION Satisfying(L, d, e) = {Interpret(y, d, e) : y \in Lowest(Fitted(L, d, e))}
<1> DEFINE U == Fitted(L, d, e)
<1>1. Satisfying(L, d, e) = {Group(L, d, e, x) : x \in U}
  BY FoundAre
<1>2. \A y \in Lowest(U) : y \in U /\ Interpret(y, d, e) \in Group(L, d, e, y)
  BY DEF Lowest, Group
<1>3. \A x \in U : Group(L, d, e, x) \subseteq {Interpret(y, d, e) : y \in Lowest(U)}
  BY DEF Group
<1> HIDE DEF U
<1>4. \A y \in Lowest(U) : Interpret(y, d, e) \in UNION Satisfying(L, d, e)
  BY <1>1, <1>2
<1>5. ASSUME NEW s \in UNION Satisfying(L, d, e)
      PROVE  s \in {Interpret(y, d, e) : y \in Lowest(U)}
  <2>1. PICK g \in Satisfying(L, d, e) : s \in g
    OBVIOUS
  <2>2. PICK x \in U : g = Group(L, d, e, x)
    BY <1>1
  <2> QED BY <1>3, <2>1, <2>2
<1>6. UNION Satisfying(L, d, e) = {Interpret(y, d, e) : y \in Lowest(U)}
  BY <1>4, <1>5
<1> QED BY <1>6 DEF U

\* x is the only one there is of its value, or the cheapest, and there is no other value.
Only(U, x) == x \in U /\ \A y \in U : Beats(x, y)

\* If all are of one value, the cheapest are all that is found.
Uniform(U) == \A x, y \in U : x.val = y.val

\* One group is found only where all that fits has one value.
LEMMA OneGroup ==
  ASSUME NEW L, LibFits(L), PlainLib(L), NEW d, NEW e, NEW g, Satisfying(L, d, e) = {g}
  PROVE  /\ Fitted(L, d, e) # {} /\ Uniform(Fitted(L, d, e))
         /\ g = {Interpret(y, d, e) : y \in Lowest(Fitted(L, d, e))}
<1> DEFINE U == Fitted(L, d, e)
<1>1. Satisfying(L, d, e) = {Group(L, d, e, x) : x \in U}
  BY FoundAre
<1>2. U \subseteq L
  BY DEF Fitted, Able
<1> HIDE DEF U
<1>3. U # {}
  BY <1>1
<1>4. ASSUME NEW x \in U, NEW y \in U PROVE x.val = y.val
  <2>1. Group(L, d, e, x) = g /\ Group(L, d, e, y) = g
    BY <1>1
  <2>2. PICK z \in Lowest(U) : Beats(z, x)
    BY <1>2, LowestBeats
  <2>3. z.val = x.val
    BY <2>2 DEF Beats
  <2>4. Interpret(z, d, e) \in Group(L, d, e, x)
    BY <2>3 DEF Group, U
  <2>5. PICK w \in Lowest(U) : w.val = y.val /\ Interpret(z, d, e) = Interpret(w, d, e)
    BY <2>1, <2>4 DEF Group, U
  <2>6. z \in L /\ w \in L
    BY <1>2 DEF Lowest
  <2>7. Plainly(Interpret(z, d, e), z, d, e) /\ Plainly(Interpret(w, d, e), w, d, e)
    BY <2>6, InterpretPlainly
  <2>8. z = w
    BY <2>5, <2>7 DEF Plainly
  <2> QED BY <2>3, <2>5, <2>8
<1>5. g = UNION Satisfying(L, d, e)
  OBVIOUS
<1>6. g = {Interpret(y, d, e) : y \in Lowest(U)}
  BY <1>5, FoundTogether DEF U
<1> QED BY <1>3, <1>4, <1>6 DEF U, Uniform

\* An assignment gives d what can be used for it.
LEMMA AssignsFitted ==
  ASSUME NEW L, NEW D, NEW e, Leaves(L, D, e), NEW f \in Assign(L, D), NEW d \in D
  PROVE  f[d] \in Fitted(L, d, e)
<1>1. f[d] \in L /\ f[d].fn = d.fn /\ Suits(e.bound[d.var], f[d])
  BY DEF Leaves, Assign
<1> QED BY <1>1 DEF Fitted, Able

\* Where nothing is found there is no assignment.
LEMMA NothingFound ==
  ASSUME NEW L, LibFits(L), PlainLib(L), NEW D, IsFiniteSet(D), NEW e, Leaves(L, D, e),
         NEW d \in D, Satisfying(L, d, e) = {}
  PROVE  Cardinality(Ideal(L, D)) # 1
<1>1. Fitted(L, d, e) = {}
  <2>1. Satisfying(L, d, e) = {Group(L, d, e, x) : x \in Fitted(L, d, e)}
    BY FoundAre
  <2> QED BY <2>1
<1>2. Assign(L, D) = {}
  BY <1>1, AssignsFitted
<1> QED BY <1>2, NoneIdeal

\* Where two are found alike, no assignment is alone the cheapest.
LEMMA TieFound ==
  ASSUME NEW L, LibFits(L), PlainLib(L), NEW D, IsFiniteSet(D), NEW e, Leaves(L, D, e),
         NEW d \in D, NEW g, Satisfying(L, d, e) = {g}, NEW s \in g, NEW t \in g, s # t
  PROVE  Cardinality(Ideal(L, D)) # 1
<1> DEFINE U == Fitted(L, d, e)
<1>1. Uniform(U) /\ g = {Interpret(y, d, e) : y \in Lowest(U)}
  BY OneGroup
<1>2. PICK x \in Lowest(U), y \in Lowest(U) : x # y
  BY <1>1
<1>3. /\ x \in U /\ y \in U /\ \A z \in U : z.val = x.val /\ z.val = y.val
      /\ \A z \in U : x.cost <= z.cost /\ y.cost <= z.cost
  BY <1>1 DEF Lowest, Uniform
<1>4. \A z \in U : z \in L /\ z.fn = d.fn
  BY DEF Fitted, Able
<1> HIDE DEF U
<1>5. ASSUME NEW f \in Assign(L, D), NEW z \in {x, y}
      PROVE  /\ [f EXCEPT ![d] = z] \in Assign(L, D)
             /\ Total([f EXCEPT ![d] = z]) <= Total(f)
  <2> DEFINE h == [f EXCEPT ![d] = z]
  <2>1. f[d] \in U
    BY AssignsFitted DEF U
  <2>2. /\ f \in [D -> L] /\ \A k \in D : f[k].fn = k.fn
        /\ \A k, l \in D : k.var = l.var => Meet(f[k], f[l])
    BY DEF Assign
  <2>3. h \in [D -> L] /\ \A k \in D : h[k] = IF k = d THEN z ELSE f[k]
    BY <1>3, <1>4, <2>2
  <2>4. z \in U /\ z.val = f[d].val /\ z.cost <= f[d].cost
    BY <1>3, <2>1
  <2> HIDE DEF h
  <2>5. \A k \in D : h[k].fn = k.fn /\ h[k].val = f[k].val
    BY <1>4, <2>2, <2>3, <2>4
  <2>6. \A k, l \in D : k.var = l.var => Meet(h[k], h[l])
    BY <2>2, <2>5 DEF Meet
  <2>7. h \in Assign(L, D)
    BY <2>3, <2>5, <2>6 DEF Assign
  <2>8. \A k \in D : h[k].cost <= f[k].cost
    <3>1. \A k \in D : f[k].cost \in Nat
      BY <2>2 DEF LibFits
    <3> QED BY <2>3, <2>4, <3>1
  <2>9. Total(h) <= Total(f)
    BY <2>2, <2>3, <2>8, TotalsOrdered
  <2> QED BY <2>7, <2>9 DEF h
<1>6. ASSUME NEW f \in Assign(L, D) PROVE [f EXCEPT ![d] = x] # [f EXCEPT ![d] = y]
  BY <1>2 DEF Assign
<1>7. \A f \in Assign(L, D) : \E h, k \in Assign(L, D) :
        h # k /\ Total(h) <= Total(f) /\ Total(k) <= Total(f)
  BY <1>5, <1>6
<1> QED BY <1>7, NoneIdeal

\* A match that is the only one is forced.
LEMMA OneFound ==
  ASSUME NEW L, LibFits(L), PlainLib(L), NEW d, NEW e, NEW s, Satisfying(L, d, e) = {{s}}
  PROVE  \E x \in L : /\ Only(Fitted(L, d, e), x) /\ s = Interpret(x, d, e)
                      /\ Plainly(s, x, d, e)
<1> DEFINE U == Fitted(L, d, e)
<1>1. U # {} /\ Uniform(U) /\ {s} = {Interpret(y, d, e) : y \in Lowest(U)}
  <2> DEFINE g == {s}
  <2>1. Satisfying(L, d, e) = {g}
    OBVIOUS
  <2> HIDE DEF g
  <2>2. U # {} /\ Uniform(U) /\ g = {Interpret(y, d, e) : y \in Lowest(U)}
    BY <2>1, OneGroup
  <2> QED BY <2>2 DEF g
<1>2. U \subseteq L
  BY DEF Fitted, Able
<1> HIDE DEF U
<1>3. PICK x \in Lowest(U) : s = Interpret(x, d, e)
  BY <1>1
<1>4. x \in U /\ x \in L
  BY <1>2 DEF Lowest
<1>5. \A y \in Lowest(U) : y = x
  <2> TAKE y \in Lowest(U)
  <2>1. Interpret(y, d, e) = Interpret(x, d, e)
    BY <1>1, <1>3
  <2>2. y \in L
    BY <1>2 DEF Lowest
  <2>3. Plainly(Interpret(x, d, e), x, d, e) /\ Plainly(Interpret(y, d, e), y, d, e)
    BY <1>4, <2>2, InterpretPlainly
  <2> QED BY <2>1, <2>3 DEF Plainly
<1>6. \A y \in U : Beats(x, y)
  <2> TAKE y \in U
  <2>1. \E z \in Lowest(U) : Beats(z, y)
    BY <1>2, LowestBeats
  <2> QED BY <1>5, <2>1
<1>7. Plainly(s, x, d, e)
  BY <1>3, <1>4, InterpretPlainly
<1> QED BY <1>3, <1>4, <1>6, <1>7 DEF U, Only

\* What alone fits is forced.
LEMMA OnlyForced ==
  ASSUME NEW L, NEW D, NEW e, Leaves(L, D, e), NEW d \in D, NEW x, Only(Fitted(L, d, e), x)
  PROVE  Forced(L, D, d, x)
BY AssignsFitted DEF Only, Forced

\* Binding a variable as a forced function does goes against no assignment.
LEMMA LeavesBound ==
  ASSUME NEW L, NEW D, NEW e, NEW f, Leaves(L, D, e), NEW d \in D, NEW x,
         Forced(L, D, d, x), \A k \in D : k.var \in Var,
         \A v \in Var : f.bound[v] = IF v = d.var /\ x.val # AnyType THEN x.val ELSE e.bound[v]
  PROVE  Leaves(L, D, f)
<1> SUFFICES ASSUME NEW a \in Assign(L, D), NEW k \in D
             PROVE  Suits(f.bound[k.var], a[k])
  BY DEF Leaves
<1>1. Suits(e.bound[k.var], a[k]) /\ k.var \in Var
  BY DEF Leaves
<1>2. a[d].val = x.val
  BY DEF Forced, Beats
<1>3. k.var = d.var => Meet(a[k], a[d])
  BY DEF Assign
<1>4. f.bound[k.var] = IF k.var = d.var /\ x.val # AnyType THEN x.val ELSE e.bound[k.var]
  BY <1>1
<1> QED BY <1>1, <1>2, <1>3, <1>4 DEF Suits, Meet

-----------------------------------------------------------------------------
(* A resolver on its way to the cheapest assignment                        *)

\* The assertions that r has bound or deferred.
Posed(r) == DOMAIN r.env.asn \cup Asked(Queues(r))

\* What waits under the key k was deferred for it.
KeyOffers(L, r, k) ==
  \E b : /\ Offer(L, r.env, r.cache[k], b)
         /\ k = <<Leader(r.cache[k]).fn, IF b = Free THEN Leader(r.cache[k]).var ELSE b>>

\* What r has bound is forced, what it deferred is offered, and what its cache
\* repeats is all there is; of D, the assertions T are yet to resolve.
Searching(L, D, r, T) ==
  /\ r.open = << >> /\ ~ r.inner /\ ~ r.ambiguous /\ r.left = {}
  /\ T \cup Posed(r) \subseteq D
  /\ Leaves(L, D, r.env)
  /\ \A d \in DOMAIN r.env.asn : Forced(L, D, d, r.env.asn[d].impl)
  /\ \A q \in r.deferred : \E b : Offer(L, r.env, q, b)
  /\ \A k \in r.keys : KeyOffers(L, r, k)
  /\ \A k \in DOMAIN r.cache \ r.keys :
       k[2] \in Val => \A s \in r.cache[k].sat : Only(Able(L, k[1], k[2]), s.expr.impl)
  /\ \A k \in DOMAIN r.cache : k[2] \in Val \/ \E d \in Posed(r) : k = <<d.fn, d.var>>

\* What a step leaves alone.
Still(r, b) ==
  b.open = r.open /\ b.left = r.left /\ b.inner = r.inner /\ b.ambiguous = r.ambiguous

\* An assertion is posed if it is bound, deferred or waiting under a key.
LEMMA PosedAre ==
  ASSUME NEW r, NEW d
  PROVE  d \in Posed(r) <=> \/ d \in DOMAIN r.env.asn
                            \/ \E q \in r.deferred : d \in ToSet(q.ids)
                            \/ \E k \in r.keys : d \in ToSet(r.cache[k].ids)
BY DEF Posed, Asked, Queues

\* f keeps what e binds and what to.
Keeps(e, f) ==
  /\ \A d \in DOMAIN e.asn : d \in DOMAIN f.asn /\ f.asn[d] = e.asn[d]
  /\ \A v \in Var : e.bound[v] \in {Free, f.bound[v]}

\* An offer stands as the environment grows.
LEMMA OfferStands ==
  ASSUME NEW L, NEW e, NEW f, Keeps(e, f), NEW q, NEW b, Offer(L, e, q, b)
  PROVE  Offer(L, f, q, b)
<1> DEFINE h == Leader(q)
<1>1. /\ h \in ToSet(q.ids) /\ h.var \in Var /\ b \in {Free, e.bound[h.var]}
      /\ {s.expr.impl : s \in q.sat} = Lowest(Able(L, h.fn, b))
      /\ \A s, t \in q.sat : s.expr.impl = t.expr.impl => s = t
      /\ \A s \in q.sat : Choice(e, q, b, s)
      /\ \A d \in ToSet(q.ids) : d.var \in Var
      /\ \A d \in ToSet(q.ids) : d = h \/ (b # Free /\ d.fn = h.fn /\ e.bound[d.var] = b)
  BY DEF Offer
<1>2. \A v \in Var : e.bound[v] # Free => f.bound[v] = e.bound[v]
  BY DEF Keeps
<1>3. b \in {Free, f.bound[h.var]}
  BY <1>1, <1>2
<1>4. \A d \in ToSet(q.ids) : d = h \/ (b # Free /\ d.fn = h.fn /\ f.bound[d.var] = b)
  BY <1>1, <1>2
<1>5. ASSUME NEW s \in q.sat PROVE Choice(f, q, b, s)
  <2>1. Choice(e, q, b, s)
    BY <1>1
  <2>2. Within(s.env, e, h.var) => Within(s.env, f, h.var)
    <3> DEFINE g == s.env
               v == h.var
    <3>1. Within(g, e, v) => Within(g, f, v)
      BY <1>2 DEF Within, Keeps
    <3> QED BY <3>1
  <2> QED BY <2>1, <2>2 DEF Choice
<1> HIDE DEF h
<1> QED BY <1>1, <1>3, <1>4, <1>5 DEF Offer, h

\* f is e with d bound to the expression x, and its variable to x's value.
BoundTo(e, f, d, x) ==
  /\ DOMAIN f.asn = DOMAIN e.asn \cup {d} /\ d \notin DOMAIN e.asn /\ f.asn[d] = x
  /\ \A k \in DOMAIN e.asn : f.asn[k] = e.asn[k]
  /\ \A v \in Var : f.bound[v] = IF v = d.var /\ x.impl.val # AnyType THEN x.impl.val
                                 ELSE e.bound[v]
  /\ x.impl.val = AnyType \/ e.bound[d.var] \in {Free, x.impl.val}

\* Binding one more keeps what is bound.
LEMMA BoundKeeps ==
  ASSUME NEW e, NEW f, NEW d, NEW x, BoundTo(e, f, d, x)
  PROVE  Keeps(e, f)
BY DEF BoundTo, Keeps

\* The search goes on when an assertion is bound to what is forced.
LEMMA SearchBound ==
  ASSUME NEW L, NEW D, \A k \in D : k.var \in Var, NEW r, NEW T, Searching(L, D, r, T),
         NEW d \in T, NEW x, Forced(L, D, d, x.impl), NEW b, Still(r, b),
         b.cache = r.cache, b.keys = r.keys, b.deferred = r.deferred,
         BoundTo(r.env, b.env, d, x)
  PROVE  Searching(L, D, b, T \ {d}) /\ d \in Posed(b)
<1> DEFINE e == r.env
           f == b.env
<1>1. Keeps(e, f)
  BY BoundKeeps
<1>2. /\ r.open = << >> /\ ~ r.inner /\ ~ r.ambiguous /\ r.left = {}
      /\ T \cup Posed(r) \subseteq D /\ Leaves(L, D, e)
      /\ \A k \in DOMAIN e.asn : Forced(L, D, k, e.asn[k].impl)
      /\ \A q \in r.deferred : \E a : Offer(L, e, q, a)
      /\ \A k \in r.keys : KeyOffers(L, r, k)
      /\ \A k \in DOMAIN r.cache \ r.keys :
           k[2] \in Val => \A s \in r.cache[k].sat : Only(Able(L, k[1], k[2]), s.expr.impl)
      /\ \A k \in DOMAIN r.cache : k[2] \in Val \/ \E c \in Posed(r) : k = <<c.fn, c.var>>
  BY DEF Searching
<1>3. b.open = << >> /\ ~ b.inner /\ ~ b.ambiguous /\ b.left = {}
  BY <1>2 DEF Still
<1>4. Posed(b) = Posed(r) \cup {d}
  <2>1. DOMAIN f.asn = DOMAIN e.asn \cup {d}
    BY DEF BoundTo
  <2>2. Queues(b) = Queues(r)
    BY DEF Queues
  <2> QED BY <2>1, <2>2 DEF Posed
<1>5. (T \ {d}) \cup Posed(b) \subseteq D /\ d \in D
  BY <1>2, <1>4
<1>6. Leaves(L, D, f)
  <2>1. \A v \in Var : f.bound[v] = IF v = d.var /\ x.impl.val # AnyType THEN x.impl.val
                                    ELSE e.bound[v]
    BY DEF BoundTo
  <2> DEFINE y == x.impl
  <2>2. Forced(L, D, d, y)
    OBVIOUS
  <2>3. \A v \in Var : f.bound[v] = IF v = d.var /\ y.val # AnyType THEN y.val ELSE e.bound[v]
    BY <2>1
  <2> HIDE DEF e, f, y
  <2> QED BY <1>2, <1>5, <2>2, <2>3, LeavesBound
<1>7. \A k \in DOMAIN f.asn : Forced(L, D, k, f.asn[k].impl)
  BY <1>2 DEF BoundTo
<1>8. \A q \in b.deferred : \E a : Offer(L, f, q, a)
  BY <1>1, <1>2, OfferStands
<1>9. ASSUME NEW k \in b.keys PROVE KeyOffers(L, b, k)
  <2>1. PICK a : /\ Offer(L, e, r.cache[k], a)
                 /\ k = <<Leader(r.cache[k]).fn, IF a = Free THEN Leader(r.cache[k]).var ELSE a>>
    BY <1>2 DEF KeyOffers
  <2>2. Offer(L, f, r.cache[k], a)
    BY <1>1, <2>1, OfferStands
  <2> QED BY <2>1, <2>2 DEF KeyOffers
<1>10. \A k \in DOMAIN b.cache : k[2] \in Val \/ \E c \in Posed(b) : k = <<c.fn, c.var>>
  BY <1>2, <1>4
<1> HIDE DEF e
<1> QED BY <1>2, <1>3, <1>4, <1>5, <1>6, <1>7, <1>8, <1>9, <1>10 DEF Searching

\* It goes on when what was bound is cached, if it is all there is.
LEMMA SearchCached ==
  ASSUME NEW L, NEW D, NEW r, NEW T, Searching(L, D, r, T), NEW key, NEW item, NEW b,
         r.keys \subseteq DOMAIN r.cache, key \notin DOMAIN r.cache, Still(r, b),
         b.env = r.env, b.keys = r.keys, b.deferred = r.deferred,
         b.cache = With(r.cache, {key}, item),
         key[2] \in Val => \A s \in item.sat : Only(Able(L, key[1], key[2]), s.expr.impl),
         key[2] \in Val \/ \E d \in Posed(r) : key = <<d.fn, d.var>>
  PROVE  Searching(L, D, b, T)
<1>1. /\ r.open = << >> /\ ~ r.inner /\ ~ r.ambiguous /\ r.left = {}
      /\ T \cup Posed(r) \subseteq D /\ Leaves(L, D, r.env)
      /\ \A k \in DOMAIN r.env.asn : Forced(L, D, k, r.env.asn[k].impl)
      /\ \A q \in r.deferred : \E a : Offer(L, r.env, q, a)
      /\ \A k \in r.keys : KeyOffers(L, r, k)
      /\ \A k \in DOMAIN r.cache \ r.keys :
           k[2] \in Val => \A s \in r.cache[k].sat : Only(Able(L, k[1], k[2]), s.expr.impl)
      /\ \A k \in DOMAIN r.cache : k[2] \in Val \/ \E c \in Posed(r) : k = <<c.fn, c.var>>
  BY DEF Searching
<1>2. /\ DOMAIN b.cache = DOMAIN r.cache \cup {key} /\ b.cache[key] = item
      /\ \A k \in DOMAIN r.cache : b.cache[k] = r.cache[k]
  BY DEF With
<1>3. \A k \in r.keys : b.cache[k] = r.cache[k]
  BY <1>2
<1>4. Posed(b) = Posed(r)
  <2>1. Queues(b) = Queues(r)
    BY <1>3 DEF Queues
  <2> QED BY <2>1 DEF Posed
<1>5. \A k \in b.keys : KeyOffers(L, b, k)
  <2> TAKE k \in b.keys
  <2>1. k \in r.keys /\ b.cache[k] = r.cache[k]
    BY <1>3
  <2> QED BY <1>1, <2>1 DEF KeyOffers
<1>6. \A k \in DOMAIN b.cache \ b.keys :
           k[2] \in Val => \A s \in b.cache[k].sat : Only(Able(L, k[1], k[2]), s.expr.impl)
  BY <1>1, <1>2
<1>7. \A k \in DOMAIN b.cache : k[2] \in Val \/ \E c \in Posed(b) : k = <<c.fn, c.var>>
  BY <1>1, <1>2, <1>4
<1> QED BY <1>1, <1>4, <1>5, <1>6, <1>7 DEF Searching, Still

\* It goes on when an assertion is deferred.
LEMMA SearchDeferred ==
  ASSUME NEW L, NEW D, NEW r, NEW T, Searching(L, D, r, T), NEW d \in T, NEW q,
         ToSet(q.ids) = {d}, \E a : Offer(L, r.env, q, a), NEW b, Still(r, b),
         b.env = r.env, b.cache = r.cache, b.keys = r.keys,
         b.deferred = r.deferred \cup {q}
  PROVE  Searching(L, D, b, T \ {d})
<1>1. /\ r.open = << >> /\ ~ r.inner /\ ~ r.ambiguous /\ r.left = {}
      /\ T \cup Posed(r) \subseteq D /\ Leaves(L, D, r.env)
      /\ \A k \in DOMAIN r.env.asn : Forced(L, D, k, r.env.asn[k].impl)
      /\ \A p \in r.deferred : \E a : Offer(L, r.env, p, a)
      /\ \A k \in r.keys : KeyOffers(L, r, k)
      /\ \A k \in DOMAIN r.cache \ r.keys :
           k[2] \in Val => \A s \in r.cache[k].sat : Only(Able(L, k[1], k[2]), s.expr.impl)
      /\ \A k \in DOMAIN r.cache : k[2] \in Val \/ \E c \in Posed(r) : k = <<c.fn, c.var>>
  BY DEF Searching
<1>2. \A c : c \in Posed(b) <=> c \in Posed(r) \/ c = d
  BY PosedAre
<1>3. (T \ {d}) \cup Posed(b) \subseteq D
  BY <1>1, <1>2
<1>4. \A p \in b.deferred : \E a : Offer(L, b.env, p, a)
  BY <1>1
<1>5. \A k \in b.keys : KeyOffers(L, b, k)
  BY <1>1 DEF KeyOffers
<1>6. \A k \in DOMAIN b.cache : k[2] \in Val \/ \E c \in Posed(b) : k = <<c.fn, c.var>>
  BY <1>1, <1>2
<1>7. b.open = << >> /\ ~ b.inner /\ ~ b.ambiguous /\ b.left = {}
  BY <1>1 DEF Still
<1>8. Leaves(L, D, b.env) /\ \A k \in DOMAIN b.env.asn : Forced(L, D, k, b.env.asn[k].impl)
  BY <1>1
<1>9. \A k \in DOMAIN b.cache \ b.keys :
        k[2] \in Val => \A s \in b.cache[k].sat : Only(Able(L, k[1], k[2]), s.expr.impl)
  BY <1>1
<1> QED BY <1>3, <1>4, <1>5, <1>6, <1>7, <1>8, <1>9 DEF Searching

\* It goes on when an assertion waits in a cached item.
LEMMA SearchWaits ==
  ASSUME ConstsFit, NEW L, NEW D, NEW r, NEW T, Searching(L, D, r, T), EnvFits(L, r.env),
         NEW d \in T, NEW q, NEW key, NEW b, Still(r, b),
         r.keys \subseteq DOMAIN r.cache, key \in DOMAIN r.cache => key \in r.keys,
         d \in ToSet(q.ids), \A c \in ToSet(q.ids) : c \in Posed(r) \/ c = d,
         key \in r.keys => ToSet(r.cache[key].ids) \subseteq ToSet(q.ids),
         b.env = r.env, b.deferred = r.deferred, b.keys = r.keys \cup {key},
         b.cache = With(r.cache, {key}, q), KeyOffers(L, b, key)
  PROVE  Searching(L, D, b, T \ {d})
<1>1. /\ r.open = << >> /\ ~ r.inner /\ ~ r.ambiguous /\ r.left = {}
      /\ T \cup Posed(r) \subseteq D /\ Leaves(L, D, r.env)
      /\ \A k \in DOMAIN r.env.asn : Forced(L, D, k, r.env.asn[k].impl)
      /\ \A p \in r.deferred : \E a : Offer(L, r.env, p, a)
      /\ \A k \in r.keys : KeyOffers(L, r, k)
      /\ \A k \in DOMAIN r.cache \ r.keys :
           k[2] \in Val => \A s \in r.cache[k].sat : Only(Able(L, k[1], k[2]), s.expr.impl)
      /\ \A k \in DOMAIN r.cache : k[2] \in Val \/ \E c \in Posed(r) : k = <<c.fn, c.var>>
  BY DEF Searching
<1>2. /\ DOMAIN b.cache = DOMAIN r.cache \cup {key} /\ b.cache[key] = q
      /\ \A k \in DOMAIN r.cache \ {key} : b.cache[k] = r.cache[k]
  BY DEF With
<1>3. \A c : c \in Posed(b) <=> c \in Posed(r) \/ c = d
  <2> TAKE c
  <2>1. c \in Posed(r) <=> \/ c \in DOMAIN r.env.asn
                           \/ \E p \in r.deferred : c \in ToSet(p.ids)
                           \/ \E k \in r.keys : c \in ToSet(r.cache[k].ids)
    BY PosedAre
  <2>2. c \in Posed(b) <=> \/ c \in DOMAIN r.env.asn
                           \/ \E p \in r.deferred : c \in ToSet(p.ids)
                           \/ \E k \in r.keys \cup {key} : c \in ToSet(b.cache[k].ids)
    BY PosedAre
  <2>3. ASSUME c \in Posed(b) PROVE c \in Posed(r) \/ c = d
    <3>1. CASE \E k \in r.keys \cup {key} : c \in ToSet(b.cache[k].ids)
      <4>1. PICK k \in r.keys \cup {key} : c \in ToSet(b.cache[k].ids)
        BY <3>1
      <4>2. CASE k = key
        BY <1>2, <4>1, <4>2
      <4>3. CASE k # key
        BY <1>2, <2>1, <4>1, <4>3
      <4> QED BY <4>2, <4>3
    <3> QED BY <2>1, <2>2, <2>3, <3>1
  <2>4. ASSUME c \in Posed(r) PROVE c \in Posed(b)
    <3>1. CASE \E k \in r.keys : c \in ToSet(r.cache[k].ids)
      <4>1. PICK k \in r.keys : c \in ToSet(r.cache[k].ids)
        BY <3>1
      <4>2. c \in ToSet(b.cache[k].ids)
        BY <1>2, <4>1
      <4> QED BY <2>2, <4>2
    <3> QED BY <2>1, <2>2, <2>4, <3>1
  <2>5. c = d => c \in Posed(b)
    BY <1>2, <2>2
  <2> QED BY <2>3, <2>4, <2>5
<1>4. (T \ {d}) \cup Posed(b) \subseteq D
  BY <1>1, <1>3
<1>5. \A k \in b.keys : KeyOffers(L, b, k)
  <2> TAKE k \in b.keys
  <2>1. CASE k = key
    BY <2>1
  <2>2. CASE k # key
    <3>1. k \in r.keys /\ b.cache[k] = r.cache[k]
      BY <1>2, <2>2
    <3> QED BY <1>1, <3>1 DEF KeyOffers
  <2> QED BY <2>1, <2>2
<1>6. \A k \in DOMAIN b.cache \ b.keys :
           k[2] \in Val => \A s \in b.cache[k].sat : Only(Able(L, k[1], k[2]), s.expr.impl)
  BY <1>1, <1>2
<1>7. \A k \in DOMAIN b.cache : k[2] \in Val \/ \E c \in Posed(b) : k = <<c.fn, c.var>>
  <2>1. \A k \in DOMAIN r.cache : k[2] \in Val \/ \E c \in Posed(b) : k = <<c.fn, c.var>>
    BY <1>1, <1>3
  <2>2. key[2] \in Val \/ \E c \in Posed(b) : key = <<c.fn, c.var>>
    <3> DEFINE h == Leader(q)
    <3>1. PICK a : Offer(L, r.env, q, a) /\ key = <<h.fn, IF a = Free THEN h.var ELSE a>>
      BY <1>2 DEF KeyOffers
    <3>2. h \in ToSet(q.ids) /\ h.var \in Var /\ a \in {Free, r.env.bound[h.var]}
      BY <3>1 DEF Offer
    <3>3. r.env.bound[h.var] \in Val \cup {Free}
      BY <3>2 DEF EnvFits
    <3>4. h \in Posed(b)
      BY <1>3, <3>2
    <3> HIDE DEF h
    <3> QED BY <3>1, <3>2, <3>3, <3>4
  <2> QED BY <1>2, <2>1, <2>2
<1>8. b.open = << >> /\ ~ b.inner /\ ~ b.ambiguous /\ b.left = {}
  BY <1>1 DEF Still
<1>9. Leaves(L, D, b.env) /\ \A k \in DOMAIN b.env.asn : Forced(L, D, k, b.env.asn[k].impl)
  BY <1>1
<1>10. \A p \in b.deferred : \E a : Offer(L, b.env, p, a)
  BY <1>1
<1> QED BY <1>4, <1>5, <1>6, <1>7, <1>8, <1>9, <1>10 DEF Searching

\* Binding an assertion to an expression whose value the environment has.
LEMMA AgainBinds ==
  ASSUME NEW L, NEW e, EnvFits(L, e), NEW d, d \notin DOMAIN e.asn, d.var \in Var,
         NEW x, x.impl.val \in {AnyType, e.bound[d.var]}
  PROVE  BoundTo(e, BindAssertion(e, d, x), d, x)
<1> DEFINE f == BindAssertion(e, d, x)
<1>1. e = [bound |-> e.bound, asn |-> e.asn]
  BY DEF EnvFits
<1>2. f.bound = e.bound /\ f.asn = With(e.asn, {d}, x)
  BY <1>1 DEF BindAssertion, BindAssertions
<1> HIDE DEF f
<1>3. /\ DOMAIN f.asn = DOMAIN e.asn \cup {d} /\ f.asn[d] = x
      /\ \A k \in DOMAIN e.asn : f.asn[k] = e.asn[k]
  BY <1>2 DEF With
<1>4. BoundTo(e, f, d, x)
  BY <1>2, <1>3 DEF BoundTo
<1> QED BY <1>4 DEF f

\* Binding one to an expression and its variable to the expression's value.
LEMMA MatchBinds ==
  ASSUME NEW L, NEW e, EnvFits(L, e), NEW d, d \notin DOMAIN e.asn, d.var \in Var,
         NEW x, x.impl.val = AnyType \/ e.bound[d.var] \in {Free, x.impl.val}
  PROVE  BoundTo(e, BindAssertion(Bind(e, d.var, x.impl.val), d, x), d, x)
<1> DEFINE v == d.var
           val == x.impl.val
           g == Bind(e, v, val)
           f == BindAssertion(g, d, x)
<1>1. /\ e = [bound |-> e.bound, asn |-> e.asn]
      /\ e.bound \in [Var -> Val \cup {Free}]
  BY DEF EnvFits
<1>2. v \in Var
  OBVIOUS
<1> HIDE DEF v, val
<1>3. /\ g = [bound |-> g.bound, asn |-> e.asn]
      /\ \A u \in Var : g.bound[u] = IF u = v /\ val # AnyType THEN val ELSE e.bound[u]
  BY <1>1, <1>2 DEF Bind
<1> HIDE DEF g
<1>4. f.bound = g.bound /\ f.asn = With(e.asn, {d}, x)
  <2>1. f = [g EXCEPT !.asn = With(@, {d}, x)]
    BY DEF BindAssertion, BindAssertions
  <2>2. g.asn = e.asn
    BY <1>3
  <2> HIDE DEF f
  <2> QED BY <1>3, <2>1, <2>2
<1> HIDE DEF f
<1>5. /\ DOMAIN f.asn = DOMAIN e.asn \cup {d} /\ f.asn[d] = x
      /\ \A k \in DOMAIN e.asn : f.asn[k] = e.asn[k]
  BY <1>4 DEF With
<1>6. BoundTo(e, f, d, x)
  BY <1>3, <1>4, <1>5 DEF BoundTo, v, val
<1> QED BY <1>6 DEF f, g, v, val

\* The setting: where no function needs any, D are all the assertions there are.
Set(L, D) ==
  /\ ConstsFit /\ LibFits(L) /\ PlainLib(L) /\ IsFiniteSet(D)
  /\ \A d \in D : d.var \in Var

\* No two assertions of D are of one function and variable.
Unrepeated(D) == \A d, e \in D : d.fn = e.fn /\ d.var = e.var => d = e

\* r has T to resolve, and d is one of them.
At(L, D, r, T, d) ==
  /\ Shaped(r) /\ Tidy(r) /\ EnvFits(L, r.env) /\ r.out = "running"
  /\ Searching(L, D, r, T) /\ d \in T /\ d \notin Posed(r)
  /\ \A q \in Queues(r) : IsSeq(q.ids) /\ q.ids # << >>

\* The search goes on, or ended as it must.
Continues(L, D, b, V) ==
  \/ b.out = "running" /\ Searching(L, D, b, V)
  \/ b.out = "failed" /\ Cardinality(Ideal(L, D)) # 1

\* Where the search is at an assertion, it is a declared one, not yet bound.
LEMMA AtIs ==
  ASSUME NEW L, NEW D, Set(L, D), NEW r, NEW T, NEW d, At(L, D, r, T, d)
  PROVE  /\ d \in D /\ d.var \in Var /\ d \notin DOMAIN r.env.asn
         /\ Leaves(L, D, r.env) /\ r.open = << >> /\ r.keys \subseteq DOMAIN r.cache
         /\ r.env.bound[d.var] \in Val \cup {Free}
<1>1. T \cup Posed(r) \subseteq D /\ Leaves(L, D, r.env) /\ r.open = << >>
  BY DEF At, Searching
<1>2. d \in D /\ d \notin DOMAIN r.env.asn
  BY <1>1 DEF At, Posed
<1>3. d.var \in Var
  BY <1>2 DEF Set
<1>4. r.env.bound[d.var] \in Val \cup {Free}
  BY <1>3 DEF At, EnvFits
<1>5. r.keys \subseteq DOMAIN r.cache
  BY DEF At, Tidy
<1> QED BY <1>1, <1>2, <1>3, <1>4, <1>5

\* b is r with d bound to the only match in g, or there is a tie.
Taken(L, D, r, T, d, g, b) ==
  \/ b.out = "failed" /\ Cardinality(Ideal(L, D)) # 1
  \/ /\ b.out = "running" /\ Searching(L, D, b, T \ {d}) /\ d \in Posed(b)
     /\ b.cache = r.cache /\ b.keys = r.keys
     /\ \E s : g = {s} /\ Only(Fitted(L, d, r.env), s.expr.impl)

\* If only one group is found, its one expression is bound, or several are as
\* cheap and the resolver fails.
LEMMA UniqueTaken ==
  ASSUME NEW L, NEW D, Set(L, D), NEW r, NEW T, NEW d, At(L, D, r, T, d),
         NEW g, Satisfying(L, d, r.env) = {g}, NEW b, b = BindUnique(r, d, g)
  PROVE  Taken(L, D, r, T, d, g, b)
<1> DEFINE e == r.env
           s == CHOOSE x \in g : TRUE
<1>1. /\ ConstsFit /\ LibFits(L) /\ PlainLib(L) /\ IsFiniteSet(D)
      /\ \A k \in D : k.var \in Var
  BY DEF Set
<1>2. /\ d \in D /\ d.var \in Var /\ d \notin DOMAIN r.env.asn
      /\ Leaves(L, D, r.env) /\ r.open = << >> /\ r.keys \subseteq DOMAIN r.cache
      /\ r.env.bound[d.var] \in Val \cup {Free}
  BY AtIs
<1>3. Shaped(r) /\ EnvFits(L, e) /\ r.out = "running" /\ Searching(L, D, r, T) /\ d \in T
  BY DEF At
<1>4. IsFiniteSet(g) /\ g # {} /\ s \in g
  <2>1. /\ IsFiniteSet(Satisfying(L, d, e)) /\ IsFiniteSet(UNION Satisfying(L, d, e))
        /\ \A h \in Satisfying(L, d, e) :
             /\ IsFiniteSet(h) /\ h # {}
             /\ \A y \in h : \E impl \in Usable(L, d, e) : y = Interpret(impl, d, e)
        /\ Satisfying(L, d, e) # {} /\ Cardinality(Satisfying(L, d, e)) # 1
             => \E x, y \in UNION Satisfying(L, d, e) : x # y
    BY <1>1, FoundIs
  <2>2. g \in Satisfying(L, d, e)
    OBVIOUS
  <2> QED BY <2>1, <2>2
<1> HIDE DEF s
<1>5. CASE Cardinality(g) > 1
  <2>1. PICK t \in g : t # s
    <3>1. CASE g = {s}
      <4>1. Cardinality({s}) = 1
        BY FS_Singleton
      <4> QED BY <1>5, <3>1, <4>1
    <3> QED BY <1>4, <3>1
  <2>2. Cardinality(Ideal(L, D)) # 1
    BY <1>1, <1>2, <1>4, <2>1, TieFound
  <2>3. b = Failed(r)
    BY <1>5 DEF BindUnique
  <2>4. b.out = "failed"
    BY <1>3, <2>3, FailedIs
  <2> QED BY <2>2, <2>4 DEF Taken
<1>6. CASE ~(Cardinality(g) > 1)
  <2>1. g = {s}
    <3>1. Cardinality(g) \in Nat /\ Cardinality(g) # 0
      BY <1>4, FS_CardinalityType, FS_EmptySet
    <3>2. Cardinality(g) = 1
      BY <3>1, <1>6
    <3> QED BY <3>2, <1>4, FS_Singleton
  <2>2. PICK x \in L : /\ Only(Fitted(L, d, e), x) /\ s = Interpret(x, d, e)
                       /\ Plainly(s, x, d, e)
    <3>1. Satisfying(L, d, e) = {{s}}
      BY <2>1
    <3> HIDE DEF e
    <3> QED BY <1>1, <3>1, OneFound
  <2>3. /\ s.expr.impl = x /\ s.expr.subs = << >> /\ s.env = Bind(e, d.var, x.val)
        /\ x.shape = "call" /\ x.val \in Val \cup {AnyType}
    BY <1>1, <2>2 DEF Plainly, PlainLib, LibFits
  <2>4. x.val = AnyType \/ e.bound[d.var] \in {Free, x.val}
    BY <2>2 DEF Only, Fitted, Able, Suits
  <2> DEFINE y == s.expr
             f == BindAssertion(s.env, d, y)
             b1 == BindRecursive(r, d, y)
  <2>5. BoundTo(e, f, d, y)
    <3>1. y.impl.val = x.val
      BY <2>3
    <3>2. y.impl.val = AnyType \/ e.bound[d.var] \in {Free, y.impl.val}
      BY <2>4, <3>1
    <3>3. d \notin DOMAIN e.asn /\ d.var \in Var
      BY <1>2
    <3>4. BoundTo(e, BindAssertion(Bind(e, d.var, y.impl.val), d, y), d, y)
      <4> HIDE DEF y, e
      <4> QED BY <1>3, <3>2, <3>3, MatchBinds
    <3> QED BY <2>3, <3>1, <3>4
  <2>6. /\ Agree(BindAssertion(e, d, y), s.env)
        /\ Union({BindAssertion(e, d, y), s.env}) = f
    <3> DEFINE v == d.var
               val == x.val
    <3>1. /\ v \in Var /\ val \in Val \cup {AnyType} /\ d \notin DOMAIN e.asn
          /\ val = AnyType \/ e.bound[v] \in {Free, val}
      BY <1>2, <2>3, <2>4
    <3> HIDE DEF v, val, y, e
    <3>2. /\ Agree(BindAssertion(e, d, y), Bind(e, v, val))
          /\ Union({BindAssertion(e, d, y), Bind(e, v, val)})
               = BindAssertion(Bind(e, v, val), d, y)
      BY <1>1, <1>3, <3>1, MatchMerges
    <3>3. s.env = Bind(e, v, val)
      BY <2>3 DEF v, val
    <3> QED BY <3>2, <3>3
  <2>7. CanBind(r, y)
    BY <2>3 DEF CanBind
  <2>8. b1 = [r EXCEPT !.open = r.open \o y.subs, !.env = BindAssertion(e, d, y)]
    BY <2>7 DEF BindRecursive
  <2>9. b1.env = BindAssertion(e, d, y) /\ b1.out = "running"
    BY <1>3, <2>8 DEF Shaped
  <2>10. b = MergeMatch(b1, s)
    BY <1>6, <2>9 DEF BindUnique, s
  <2>11. b = [b1 EXCEPT !.env = f]
    <3> HIDE DEF b1, f
    <3> QED BY <2>6, <2>9, <2>10 DEF MergeMatch
  <2>12. b = [r EXCEPT !.open = r.open \o y.subs, !.env = f]
    <3> HIDE DEF f
    <3> QED BY <1>3, <2>8, <2>11 DEF Shaped
  <2> HIDE DEF b1, f
  <2>13. r.open \o y.subs = r.open
    BY <1>2, <2>3
  <2>14. /\ b.env = f /\ b.out = "running" /\ Still(r, b)
         /\ b.cache = r.cache /\ b.keys = r.keys /\ b.deferred = r.deferred
    BY <1>3, <2>12, <2>13 DEF Shaped, Still
  <2>15. Only(Fitted(L, d, e), y.impl)
    BY <2>2, <2>3
  <2>16. Forced(L, D, d, y.impl)
    BY <1>2, <2>15, OnlyForced
  <2>17. Searching(L, D, b, T \ {d}) /\ d \in Posed(b)
    <3>1. BoundTo(r.env, b.env, d, y)
      BY <2>5, <2>14
    <3> HIDE DEF y, e
    <3> QED BY <1>1, <1>3, <2>14, <2>16, <3>1, SearchBound
  <2> QED BY <2>1, <2>14, <2>15, <2>17 DEF Taken
<1> QED BY <1>5, <1>6

\* q offers what there is for d, and only d waits for it.
Awaits(L, e, d, q) ==
  Offer(L, e, q, e.bound[d.var]) /\ Leader(q) = d /\ ToSet(q.ids) = {d}

\* What is found in several ways is offered.
LEMMA FoundOffered ==
  ASSUME NEW L, NEW D, Set(L, D), NEW e, EnvFits(L, e), NEW d \in D,
         NEW q, q = Item(UNION Satisfying(L, d, e), <<d>>)
  PROVE  Awaits(L, e, d, q)
<1> DEFINE v == d.var
           b == e.bound[v]
           low == Lowest(Fitted(L, d, e))
<1>1. ConstsFit /\ LibFits(L) /\ PlainLib(L) /\ v \in Var
  BY DEF Set
<1>2. /\ q.sat = UNION Satisfying(L, d, e) /\ q.ids = <<d>>
      /\ ToSet(q.ids) = {d} /\ q.ids[1] = d
  BY OneIs DEF Item
<1>3. Leader(q) = d
  BY <1>2 DEF Leader
<1>4. q.sat = {Interpret(y, d, e) : y \in low}
  BY <1>1, <1>2, FoundTogether
<1>5. \A y \in low : y \in L
  BY DEF Lowest, Fitted, Able
<1>6. ASSUME NEW y \in low PROVE Plainly(Interpret(y, d, e), y, d, e)
  BY <1>1, <1>5, InterpretPlainly
<1>7. low = Lowest(Able(L, d.fn, b))
  BY DEF Fitted
<1> HIDE DEF low
<1>8. \A y \in low : Interpret(y, d, e).expr.impl = y
  BY <1>6 DEF Plainly
<1>9. {s.expr.impl : s \in q.sat} = low
  <2>1. \A y \in low : y \in {s.expr.impl : s \in q.sat}
    BY <1>4, <1>8
  <2>2. \A s \in q.sat : s.expr.impl \in low
    BY <1>4, <1>8
  <2> QED BY <2>1, <2>2
<1>10. ASSUME NEW s \in q.sat, NEW t \in q.sat, s.expr.impl = t.expr.impl PROVE s = t
  <2>1. PICK y \in low : s = Interpret(y, d, e)
    BY <1>4
  <2>2. PICK z \in low : t = Interpret(z, d, e)
    BY <1>4
  <2>3. y = z
    BY <1>8, <1>10, <2>1, <2>2
  <2> QED BY <2>1, <2>2, <2>3
<1>11. ASSUME NEW s \in q.sat PROVE Choice(e, q, b, s)
  <2>1. PICK y \in low : s = Interpret(y, d, e)
    BY <1>4
  <2>2. Plainly(s, y, d, e)
    BY <1>6, <2>1
  <2>3. s.expr.impl = y /\ s.expr.subs = << >> /\ s.cost = y.cost /\ s.env = Bind(e, v, y.val)
    BY <2>2 DEF Plainly
  <2> DEFINE g == s.env
             val == y.val
  <2>4. e = [bound |-> e.bound, asn |-> e.asn] /\ e.bound \in [Var -> Val \cup {Free}]
    BY DEF EnvFits
  <2>5. g = Bind(e, v, val)
    BY <2>3
  <2> HIDE DEF g, val, v, b
  <2>6. /\ g.asn = e.asn
        /\ \A u \in Var : g.bound[u] = IF u = v /\ val # AnyType THEN val ELSE e.bound[u]
    BY <1>1, <2>4, <2>5 DEF Bind
  <2>7. Within(g, e, v)
    BY <2>6 DEF Within
  <2>8. g.bound[v] = IF val = AnyType THEN e.bound[v] ELSE val
    BY <1>1, <2>6
  <2> QED BY <1>3, <2>3, <2>7, <2>8 DEF Choice, g, val, v, b
<1>12. Offer(L, e, q, b)
  <2> HIDE DEF b
  <2>1. b \in {Free, e.bound[v]}
    BY DEF b
  <2> QED BY <1>1, <1>2, <1>3, <1>7, <1>9, <1>10, <1>11, <2>1 DEF Offer
<1> QED BY <1>2, <1>3, <1>12 DEF Awaits

\* Failing where nothing was found.
LEMMA FailContinues ==
  ASSUME NEW L, NEW D, Set(L, D), NEW r, NEW T, NEW d, At(L, D, r, T, d),
         Satisfying(L, d, r.env) = {}, NEW c, Shaped(c), NEW b, b = Failed(c)
  PROVE  Continues(L, D, b, T \ {d})
<1>1. LibFits(L) /\ PlainLib(L) /\ IsFiniteSet(D)
  BY DEF Set
<1>2. /\ d \in D /\ d.var \in Var /\ d \notin DOMAIN r.env.asn
      /\ Leaves(L, D, r.env) /\ r.open = << >> /\ r.keys \subseteq DOMAIN r.cache
      /\ r.env.bound[d.var] \in Val \cup {Free}
  BY AtIs
<1>3. Cardinality(Ideal(L, D)) # 1
  BY <1>1, <1>2, NothingFound
<1>4. b.out = "failed"
  BY FailedIs
<1> QED BY <1>3, <1>4 DEF Continues

\* The groups found are finitely many.
LEMMA FoundFinite ==
  ASSUME NEW L, LibFits(L), NEW d, NEW e, NEW found, found = Satisfying(L, d, e),
         found # {}, Cardinality(found) = 1
  PROVE  found = {CHOOSE x \in found : TRUE}
<1>1. /\ IsFiniteSet(Satisfying(L, d, e)) /\ IsFiniteSet(UNION Satisfying(L, d, e))
        /\ \A h \in Satisfying(L, d, e) :
             /\ IsFiniteSet(h) /\ h # {}
             /\ \A y \in h : \E impl \in Usable(L, d, e) : y = Interpret(impl, d, e)
        /\ Satisfying(L, d, e) # {} /\ Cardinality(Satisfying(L, d, e)) # 1
             => \E x, y \in UNION Satisfying(L, d, e) : x # y
  BY FoundIs
<1>2. PICK g : found = {g}
  BY <1>1, FS_Singleton
<1> QED BY <1>2

\* Resolving an assertion without the cache.
LEMMA FreshContinues ==
  ASSUME NEW L, NEW D, Set(L, D), NEW r, NEW T, NEW d, At(L, D, r, T, d),
         NEW b, b = ResolveFresh(r, d, Satisfying(L, d, r.env))
  PROVE  Continues(L, D, b, T \ {d})
<1> DEFINE found == Satisfying(L, d, r.env)
<1>1. ConstsFit /\ LibFits(L) /\ Shaped(r) /\ EnvFits(L, r.env) /\ r.out = "running"
      /\ Searching(L, D, r, T) /\ d \in T
  BY DEF Set, At
<1>2. /\ d \in D /\ d.var \in Var /\ d \notin DOMAIN r.env.asn
      /\ Leaves(L, D, r.env) /\ r.open = << >> /\ r.keys \subseteq DOMAIN r.cache
      /\ r.env.bound[d.var] \in Val \cup {Free}
  BY AtIs
<1>3. found = Satisfying(L, d, r.env) /\ b = ResolveFresh(r, d, found)
  OBVIOUS
<1> HIDE DEF found
<1>4. CASE found = {}
  <2>1. b = Failed(r)
    <3>1. Cardinality(found) # 1
      BY <1>4, FS_EmptySet
    <3> QED BY <1>3, <3>1, <1>4 DEF ResolveFresh
  <2> QED BY <1>1, <1>3, <1>4, <2>1, FailContinues
<1>5. CASE found # {} /\ Cardinality(found) = 1
  <2> DEFINE g == CHOOSE x \in found : TRUE
  <2>1. b = BindUnique(r, d, g)
    BY <1>3, <1>5 DEF ResolveFresh
  <2>2. found = {g}
    BY <1>1, <1>3, <1>5, FoundFinite
  <2> HIDE DEF g
  <2>3. Satisfying(L, d, r.env) = {g}
    BY <1>3, <2>2
  <2>4. Taken(L, D, r, T, d, g, b)
    BY <2>1, <2>3, UniqueTaken
  <2> QED BY <2>4 DEF Taken, Continues
<1>6. CASE found # {} /\ Cardinality(found) # 1
  <2> DEFINE q == Item(UNION found, <<d>>)
  <2>1. b = Defer(r, d, UNION found)
    BY <1>3, <1>6 DEF ResolveFresh
  <2>2. b = [r EXCEPT !.deferred = r.deferred \cup {q}]
    BY <2>1 DEF Defer
  <2>3. q = Item(UNION Satisfying(L, d, r.env), <<d>>)
    BY <1>3
  <2> HIDE DEF q
  <2>4. /\ b.env = r.env /\ b.cache = r.cache /\ b.keys = r.keys /\ b.out = r.out
        /\ b.deferred = r.deferred \cup {q} /\ Still(r, b)
    BY <1>1, <2>2 DEF Shaped, Still
  <2>8. Awaits(L, r.env, d, q)
    BY <1>1, <1>2, <2>3, FoundOffered
  <2>5. ToSet(q.ids) = {d}
    BY <2>8 DEF Awaits
  <2>6. \E a : Offer(L, r.env, q, a)
    BY <2>8 DEF Awaits
  <2>7. Searching(L, D, b, T \ {d})
    BY <1>1, <2>4, <2>5, <2>6, SearchDeferred
  <2> QED BY <1>1, <2>4, <2>7 DEF Continues
<1> QED BY <1>4, <1>5, <1>6

\* b is r with item waiting under key.
Keyed(r, key, item, b) ==
  /\ b.env = r.env /\ b.out = r.out /\ b.deferred = r.deferred /\ Still(r, b)
  /\ b.keys = r.keys \cup {key} /\ b.cache = With(r.cache, {key}, item)

\* A cached item made to wait.
LEMMA KeyedIs ==
  ASSUME NEW r, Shaped(r), NEW key, NEW item, NEW b,
         b = [Cached(r, key, item) EXCEPT !.keys = @ \cup {key}]
  PROVE  Keyed(r, key, item, b)
<1> DEFINE c == Cached(r, key, item)
           cs == With(r.cache, {key}, item)
           ks == r.keys \cup {key}
<1>1. c = [r EXCEPT !.cache = cs]
  BY DEF Cached
<1> HIDE DEF cs
<1>2. c.keys = r.keys
  BY <1>1 DEF Shaped
<1>3. b = [c EXCEPT !.keys = c.keys \cup {key}]
  OBVIOUS
<1>4. b = [c EXCEPT !.keys = ks]
  BY <1>2, <1>3
<1> HIDE DEF c, ks
<1>5. /\ b.env = r.env /\ b.out = r.out /\ b.deferred = r.deferred /\ Still(r, b)
      /\ b.keys = ks /\ b.cache = cs
  BY <1>1, <1>4 DEF Shaped, Still
<1> QED BY <1>5 DEF ks, cs, Keyed

\* The key of an assertion.
LEMMA KeyIs ==
  ASSUME NEW d, NEW e
  PROVE  /\ Key(d, e) = <<d.fn, IF e.bound[d.var] = Free THEN d.var ELSE e.bound[d.var]>>
         /\ Key(d, e)[1] = d.fn
         /\ Key(d, e)[2] = IF e.bound[d.var] = Free THEN d.var ELSE e.bound[d.var]
BY DEF Key

\* Resolving the first assertion with its key.
LEMMA FirstContinues ==
  ASSUME NEW L, NEW D, Set(L, D), NEW r, NEW T, NEW d, At(L, D, r, T, d),
         NEW key, key = Key(d, r.env), key \notin DOMAIN r.cache,
         NEW b, b = ResolveFirst(r, d, key, Satisfying(L, d, r.env))
  PROVE  Continues(L, D, b, T \ {d})
<1> DEFINE found == Satisfying(L, d, r.env)
           e == r.env
<1>1. /\ ConstsFit /\ LibFits(L) /\ Shaped(r) /\ EnvFits(L, e) /\ r.out = "running"
      /\ Searching(L, D, r, T) /\ d \in T
  BY DEF Set, At
<1>2. /\ d \in D /\ d.var \in Var /\ d \notin DOMAIN r.env.asn
      /\ Leaves(L, D, r.env) /\ r.open = << >> /\ r.keys \subseteq DOMAIN r.cache
      /\ r.env.bound[d.var] \in Val \cup {Free}
  BY AtIs
<1>3. found = Satisfying(L, d, r.env) /\ b = ResolveFirst(r, d, key, found)
  OBVIOUS
<1>4. /\ key = <<d.fn, IF e.bound[d.var] = Free THEN d.var ELSE e.bound[d.var]>>
      /\ key[1] = d.fn
      /\ key[2] = IF e.bound[d.var] = Free THEN d.var ELSE e.bound[d.var]
  BY KeyIs
<1> HIDE DEF found
<1>5. CASE found = {}
  <2> DEFINE c == Cached(r, key, Item({}, << >>))
  <2>1. b = Failed(c)
    <3>1. Cardinality(found) # 1
      BY <1>5, FS_EmptySet
    <3> QED BY <1>3, <3>1, <1>5 DEF ResolveFirst
  <2>2. Shaped(c)
    BY <1>1, CachedIs
  <2> HIDE DEF c
  <2> QED BY <1>3, <1>5, <2>1, <2>2, FailContinues
<1>6. CASE found # {} /\ Cardinality(found) = 1
  <2> DEFINE g == CHOOSE x \in found : TRUE
             m == BindUnique(r, d, g)
             item == Item(IF m.out = "failed" THEN {} ELSE g, << >>)
  <2>1. b = Cached(m, key, item)
    BY <1>3, <1>6 DEF ResolveFirst
  <2>2. found = {g}
    BY <1>1, <1>3, <1>6, FoundFinite
  <2> HIDE DEF g
  <2>3. Satisfying(L, d, r.env) = {g} /\ m = BindUnique(r, d, g)
    BY <1>3, <2>2
  <2>4. Shaped(m)
    BY <1>1, UniqueShaped
  <2> HIDE DEF m, e
  <2>5. Taken(L, D, r, T, d, g, m)
    BY <2>3, UniqueTaken
  <2>6. /\ Still(m, b) /\ b.env = m.env /\ b.keys = m.keys /\ b.deferred = m.deferred
        /\ b.cache = With(m.cache, {key}, item) /\ b.out = m.out
    <3> DEFINE cs == With(m.cache, {key}, item)
    <3>1. b = [m EXCEPT !.cache = cs]
      BY <2>1 DEF Cached
    <3> HIDE DEF cs, item
    <3>2. /\ Still(m, b) /\ b.env = m.env /\ b.keys = m.keys /\ b.deferred = m.deferred
          /\ b.cache = cs /\ b.out = m.out
      BY <2>4, <3>1 DEF Shaped, Still
    <3> QED BY <3>2 DEF cs
  <2>7. CASE m.out = "failed"
    BY <2>5, <2>6, <2>7 DEF Taken, Continues
  <2>8. CASE m.out # "failed"
    <3>1. /\ m.out = "running" /\ Searching(L, D, m, T \ {d}) /\ d \in Posed(m)
          /\ m.cache = r.cache /\ m.keys = r.keys
      BY <2>5, <2>8 DEF Taken
    <3>2. PICK s : g = {s} /\ Only(Fitted(L, d, r.env), s.expr.impl)
      BY <2>5, <2>8 DEF Taken
    <3>3. item.sat = {s}
      BY <2>8, <3>2 DEF Item
    <3> HIDE DEF item
    <3>4. key[2] \in Val => \A t \in item.sat : Only(Able(L, key[1], key[2]), t.expr.impl)
      <4>1. key[2] \in Val => key[2] = e.bound[d.var]
        BY <1>1, <1>2, <1>4 DEF ConstsFit
      <4> QED BY <1>4, <3>2, <3>3, <4>1 DEF Fitted, e
    <3>5. key[2] \in Val \/ \E c \in Posed(m) : key = <<c.fn, c.var>>
      BY <1>2, <1>4, <3>1 DEF e
    <3>6. m.keys \subseteq DOMAIN m.cache /\ key \notin DOMAIN m.cache
      BY <1>2, <3>1
    <3> DEFINE V == T \ {d}
    <3>7. Searching(L, D, m, V)
      BY <3>1
    <3> HIDE DEF V
    <3>8. Searching(L, D, b, V)
      BY <2>6, <3>4, <3>5, <3>6, <3>7, SearchCached
    <3> QED BY <2>6, <3>1, <3>8 DEF Continues, V
  <2> QED BY <2>7, <2>8
<1>7. CASE found # {} /\ Cardinality(found) # 1
  <2> DEFINE q == Item(UNION found, <<d>>)
  <2>1. b = [Cached(r, key, q) EXCEPT !.keys = @ \cup {key}]
    BY <1>3, <1>7 DEF ResolveFirst
  <2>2. q = Item(UNION Satisfying(L, d, r.env), <<d>>)
    BY <1>3
  <2> HIDE DEF q
  <2>9. Keyed(r, key, q, b)
    BY <1>1, <2>1, KeyedIs
  <2>3. /\ b.env = r.env /\ b.out = r.out /\ b.deferred = r.deferred /\ Still(r, b)
        /\ b.keys = r.keys \cup {key} /\ b.cache = With(r.cache, {key}, q)
    BY <2>9 DEF Keyed
  <2>10. Awaits(L, e, d, q)
    BY <1>1, <1>2, <2>2, FoundOffered
  <2>4. Offer(L, e, q, e.bound[d.var]) /\ Leader(q) = d /\ ToSet(q.ids) = {d}
    BY <2>10 DEF Awaits
  <2>5. KeyOffers(L, b, key)
    <3>1. b.cache[key] = q /\ b.env = e
      BY <2>3 DEF With
    <3> QED BY <1>4, <2>4, <3>1 DEF KeyOffers
  <2>6. d \in ToSet(q.ids) /\ \A c \in ToSet(q.ids) : c \in Posed(r) \/ c = d
    BY <2>4
  <2>7. key \notin r.keys
    BY <1>2
  <2> HIDE DEF e
  <2>8. Searching(L, D, b, T \ {d})
    <3>1. EnvFits(L, r.env)
      BY <1>1 DEF e
    <3> QED BY <1>1, <1>2, <2>3, <2>5, <2>6, <2>7, <3>1, SearchWaits
  <2> QED BY <1>1, <2>3, <2>8 DEF Continues
<1> QED BY <1>5, <1>6, <1>7

\* Two assertions of one key: the variable is bound, or they are the same.
LEMMA KeyShared ==
  ASSUME NEW L, NEW D, Set(L, D), Unrepeated(D), NEW r, NEW T, NEW d, At(L, D, r, T, d),
         NEW h \in Posed(r), NEW b, b \in {Free, r.env.bound[h.var]},
         Key(d, r.env) = <<h.fn, IF b = Free THEN h.var ELSE b>>
  PROVE  b \in Val /\ d.fn = h.fn /\ r.env.bound[d.var] = b
<1> DEFINE e == r.env
           v == e.bound[d.var]
           key == Key(d, e)
<1>1. key[1] = d.fn /\ key[2] = IF v = Free THEN d.var ELSE v
  BY KeyIs
<1>2. key[1] = h.fn /\ key[2] = IF b = Free THEN h.var ELSE b
  OBVIOUS
<1>3. /\ ConstsFit /\ EnvFits(L, e) /\ d \notin Posed(r) /\ h \in D /\ d \in D
      /\ d.var \in Var /\ h.var \in Var /\ v \in Val \cup {Free}
  <2>1. T \cup Posed(r) \subseteq D /\ d \notin Posed(r) /\ EnvFits(L, e) /\ ConstsFit
    BY DEF At, Searching, Set
  <2>2. d \in D /\ d.var \in Var /\ e.bound[d.var] \in Val \cup {Free}
    BY AtIs
  <2>3. h.var \in Var
    BY <2>1 DEF Set
  <2> QED BY <2>1, <2>2, <2>3
<1>4. b \in Val \cup {Free}
  BY <1>3 DEF EnvFits
<1> HIDE DEF key, v
<1>5. v # Free
  <2> SUFFICES ASSUME v = Free PROVE FALSE
    OBVIOUS
  <2>1. key[2] = d.var /\ d.var \notin Val
    BY <1>1, <1>3 DEF ConstsFit
  <2>2. b = Free /\ h.var = d.var /\ h.fn = d.fn
    BY <1>1, <1>2, <1>4, <2>1
  <2>3. h = d
    BY <1>3, <2>2 DEF Unrepeated
  <2> QED BY <1>3, <2>3
<1>6. b # Free
  BY <1>1, <1>2, <1>3, <1>5 DEF ConstsFit
<1> QED BY <1>1, <1>2, <1>4, <1>5, <1>6 DEF v, e

\* d may wait in q, whose variable was bound to b, and does in w.
Joins(L, e, q, b, d) ==
  /\ Offer(L, e, q, b) /\ b # Free /\ IsSeq(q.ids) /\ q.ids # << >>
  /\ d.var \in Var /\ d.fn = Leader(q).fn /\ e.bound[d.var] = b
Joined(L, e, q, b, d, w) ==
  /\ Offer(L, e, w, b) /\ Leader(w) = Leader(q)
  /\ ToSet(w.ids) = ToSet(q.ids) \cup {d}

\* What waits in w as it waited in q, with d, is still offered.
LEMMA OfferShared ==
  ASSUME NEW L, NEW e, NEW q, NEW b, NEW d, Joins(L, e, q, b, d),
         NEW w, w = Item(q.sat, Append(q.ids, d))
  PROVE  Joined(L, e, q, b, d, w)
<1>8. /\ Offer(L, e, q, b) /\ b # Free /\ IsSeq(q.ids) /\ q.ids # << >>
      /\ d.var \in Var /\ d.fn = Leader(q).fn /\ e.bound[d.var] = b
  BY DEF Joins
<1>9. w.sat = q.sat /\ w.ids = Append(q.ids, d)
  BY DEF Item
<1>1. ToSet(w.ids) = ToSet(q.ids) \cup {d} /\ w.ids[1] = q.ids[1]
  BY <1>8, <1>9, AppendIs
<1>2. Leader(w) = Leader(q)
  BY <1>1 DEF Leader
<1> DEFINE h == Leader(q)
<1>3. /\ h \in ToSet(q.ids) /\ h.var \in Var /\ b \in {Free, e.bound[h.var]}
      /\ {s.expr.impl : s \in q.sat} = Lowest(Able(L, h.fn, b))
      /\ \A s, t \in q.sat : s.expr.impl = t.expr.impl => s = t
      /\ \A s \in q.sat : Choice(e, q, b, s)
      /\ \A k \in ToSet(q.ids) : k.var \in Var
      /\ \A k \in ToSet(q.ids) : k = h \/ (b # Free /\ k.fn = h.fn /\ e.bound[k.var] = b)
  BY <1>8 DEF Offer
<1>4. \A s \in w.sat : Choice(e, w, b, s)
  BY <1>2, <1>3, <1>9 DEF Choice
<1> HIDE DEF h
<1>5. /\ \A k \in ToSet(w.ids) : k.var \in Var
      /\ \A k \in ToSet(w.ids) : k = h \/ (b # Free /\ k.fn = h.fn /\ e.bound[k.var] = b)
  BY <1>1, <1>3, <1>8 DEF h
<1>6. Leader(w) = h
  BY <1>2 DEF h
<1>7. Offer(L, e, w, b)
  BY <1>1, <1>3, <1>4, <1>5, <1>6, <1>9 DEF Offer
<1> QED BY <1>1, <1>2, <1>7 DEF Joined

\* Repeating a resolution.
LEMMA RepeatContinues ==
  ASSUME NEW L, NEW D, Set(L, D), Unrepeated(D),
         NEW r, NEW T, NEW d, At(L, D, r, T, d),
         NEW key, key = Key(d, r.env), key \in DOMAIN r.cache \ r.keys,
         NEW s, r.cache[key].sat = {s}, NEW b, b = Repeated(r, d, s.expr)
  PROVE  Continues(L, D, b, T \ {d})
<1> DEFINE e == r.env
           x == s.expr
<1>1. /\ ConstsFit /\ LibFits(L) /\ Shaped(r) /\ EnvFits(L, e) /\ r.out = "running"
      /\ Searching(L, D, r, T) /\ d \in T /\ \A k \in D : k.var \in Var
  BY DEF Set, At
<1>2. /\ d \in D /\ d.var \in Var /\ d \notin DOMAIN r.env.asn
      /\ Leaves(L, D, r.env) /\ r.env.bound[d.var] \in Val \cup {Free}
  BY AtIs
<1>3. /\ key[1] = d.fn
      /\ key[2] = IF e.bound[d.var] = Free THEN d.var ELSE e.bound[d.var]
  BY KeyIs
<1>4. /\ \A k \in DOMAIN r.cache \ r.keys :
           k[2] \in Val => \A t \in r.cache[k].sat : Only(Able(L, k[1], k[2]), t.expr.impl)
      /\ \A k \in DOMAIN r.cache : k[2] \in Val \/ \E c \in Posed(r) : k = <<c.fn, c.var>>
  BY <1>1 DEF Searching
<1>5. e.bound[d.var] # Free
  <2> SUFFICES ASSUME e.bound[d.var] = Free PROVE FALSE
    OBVIOUS
  <2>1. key[2] = d.var /\ d.var \notin Val
    BY <1>1, <1>2, <1>3 DEF ConstsFit
  <2>2. PICK h \in Posed(r) : key = <<h.fn, h.var>>
    BY <1>4, <2>1
  <2>3. Key(d, r.env) = <<h.fn, IF Free = Free THEN h.var ELSE Free>>
    BY <2>2
  <2>4. Free \in {Free, r.env.bound[h.var]}
    OBVIOUS
  <2>5. Free \in Val
    BY <2>3, <2>4, KeyShared
  <2> QED BY <1>1, <2>5 DEF ConstsFit
<1>6. e.bound[d.var] \in Val /\ key[2] = e.bound[d.var]
  BY <1>2, <1>3, <1>5
<1>7. Only(Fitted(L, d, e), x.impl)
  BY <1>3, <1>4, <1>6 DEF Fitted
<1>8. Forced(L, D, d, x.impl)
  BY <1>2, <1>7, OnlyForced
<1>9. x.impl.val \in {AnyType, e.bound[d.var]}
  BY <1>5, <1>7 DEF Only, Fitted, Able, Suits
<1> DEFINE f == BindAssertion(e, d, x)
<1>10. BoundTo(e, f, d, x)
  BY <1>1, <1>2, <1>9, AgainBinds
<1>11. /\ b.env = f /\ b.out = "running" /\ Still(r, b)
       /\ b.cache = r.cache /\ b.keys = r.keys /\ b.deferred = r.deferred
  <2>1. b = [r EXCEPT !.env = f]
    BY DEF Repeated
  <2> HIDE DEF f, e
  <2> QED BY <1>1, <2>1 DEF Shaped, Still
<1>12. BoundTo(r.env, b.env, d, x)
  BY <1>10, <1>11
<1> HIDE DEF f, e, x
<1>13. Searching(L, D, b, T \ {d})
  BY <1>1, <1>8, <1>11, <1>12, SearchBound
<1> QED BY <1>11, <1>13 DEF Continues

\* Waiting for an item.
LEMMA WaitContinues ==
  ASSUME NEW L, NEW D, Set(L, D), Unrepeated(D),
         NEW r, NEW T, NEW d, At(L, D, r, T, d),
         NEW key, key = Key(d, r.env), key \in r.keys, NEW b, b = Waits(r, d, key)
  PROVE  Continues(L, D, b, T \ {d})
<1> DEFINE e == r.env
           q == r.cache[key]
           h == Leader(q)
           w == Item(q.sat, Append(q.ids, d))
<1>1. /\ ConstsFit /\ LibFits(L) /\ Shaped(r) /\ EnvFits(L, r.env) /\ r.out = "running"
      /\ Searching(L, D, r, T) /\ d \in T /\ q \in Queues(r)
      /\ IsSeq(q.ids) /\ q.ids # << >>
  BY DEF Set, At, Queues
<1>2. d.var \in Var /\ r.keys \subseteq DOMAIN r.cache
  BY AtIs
<1>3. PICK a : Offer(L, e, q, a) /\ key = <<h.fn, IF a = Free THEN h.var ELSE a>>
  BY <1>1 DEF Searching, KeyOffers
<1>4. \A k \in ToSet(q.ids) : k \in Posed(r)
  BY <1>1, PosedAre
<1>5. a \in {Free, e.bound[h.var]} /\ h \in Posed(r)
  BY <1>3, <1>4 DEF Offer
<1>6. a \in Val /\ d.fn = h.fn /\ e.bound[d.var] = a
  BY <1>3, <1>5, KeyShared
<1>7. a # Free
  BY <1>1, <1>6 DEF ConstsFit
<1>9. Keyed(r, key, w, b)
  <2>1. b = [Cached(r, key, w) EXCEPT !.keys = @ \cup {key}]
    BY DEF Waits
  <2> HIDE DEF w
  <2> QED BY <1>1, <2>1, KeyedIs
<1>8. Joined(L, e, q, a, d, w)
  <2>1. Joins(L, e, q, a, d)
    BY <1>1, <1>2, <1>3, <1>6, <1>7 DEF Joins
  <2> HIDE DEF e, q
  <2> QED BY <2>1, OfferShared
<1> HIDE DEF w
<1>10. /\ Offer(L, e, w, a) /\ Leader(w) = h /\ ToSet(w.ids) = ToSet(q.ids) \cup {d}
  BY <1>8 DEF Joined
<1>11. /\ b.env = e /\ b.out = r.out /\ b.deferred = r.deferred /\ Still(r, b)
       /\ b.keys = r.keys \cup {key} /\ b.cache = With(r.cache, {key}, w)
  BY <1>9 DEF Keyed
<1>12. KeyOffers(L, b, key)
  <2>1. b.cache[key] = w
    BY <1>11 DEF With
  <2> QED BY <1>3, <1>10, <1>11, <2>1 DEF KeyOffers
<1>13. /\ d \in ToSet(w.ids) /\ \A c \in ToSet(w.ids) : c \in Posed(r) \/ c = d
       /\ ToSet(r.cache[key].ids) \subseteq ToSet(w.ids)
  BY <1>4, <1>10
<1> HIDE DEF q, h
<1>14. Searching(L, D, b, T \ {d})
  <2>1. b.env = r.env
    BY <1>11
  <2> HIDE DEF e
  <2> QED BY <1>1, <1>2, <1>11, <1>12, <1>13, <2>1, SearchWaits
<1> QED BY <1>1, <1>11, <1>14 DEF Continues

\* resolveAssertion() goes on, or ended as it must.
LEMMA AssertionContinues ==
  ASSUME NEW L, NEW D, Set(L, D), NEW r, NEW T, NEW d, At(L, D, r, T, d),
         NEW build, build = "def" \/ Unrepeated(D),
         NEW b, b = ResolveAssertion(build, L, r, d)
  PROVE  Continues(L, D, b, T \ {d})
<1> DEFINE key == Key(d, r.env)
           found == Satisfying(L, d, r.env)
           sat == r.cache[key].sat
<1>1. r.out = "running" /\ Tidy(r)
  BY DEF At
<1>2. key = Key(d, r.env)
  OBVIOUS
<1>3. CASE build = "def"
  <2>1. b = ResolveFresh(r, d, found)
    BY <1>1, <1>3 DEF ResolveAssertion
  <2> QED BY <2>1, FreshContinues
<1>4. CASE build # "def" /\ key \notin DOMAIN r.cache
  <2>1. b = ResolveFirst(r, d, key, found)
    BY <1>1, <1>4 DEF ResolveAssertion
  <2> HIDE DEF key
  <2> QED BY <2>1, <1>2, <1>4, FirstContinues
<1>5. CASE build # "def" /\ key \in DOMAIN r.cache \ r.keys
  <2>1. b = ResolveAgain(r, d, key)
    BY <1>1, <1>5 DEF ResolveAssertion
  <2>2. PICK s : sat = {s}
    BY <1>1, <1>5 DEF Tidy
  <2>3. sat # {} /\ Cardinality(sat) = 1 /\ (CHOOSE t \in sat : TRUE) = s
    <3> HIDE DEF sat
    <3> QED BY <2>2, FS_Singleton
  <2>4. b = Repeated(r, d, s.expr)
    <3>1. b = [r EXCEPT !.env = BindAssertion(@, d, (CHOOSE t \in sat : TRUE).expr)]
      BY <2>1, <2>3 DEF ResolveAgain
    <3> HIDE DEF sat
    <3> QED BY <3>1, <2>3 DEF Repeated
  <2>5. r.cache[key].sat = {s}
    BY <2>2
  <2> HIDE DEF key
  <2> QED BY <1>2, <1>5, <2>4, <2>5, RepeatContinues
<1>6. CASE build # "def" /\ key \in r.keys
  <2>1. key \in DOMAIN r.cache
    BY <1>1, <1>6 DEF Tidy
  <2>2. b = ResolveAgain(r, d, key)
    BY <1>1, <1>6, <2>1 DEF ResolveAssertion
  <2>3. IsFiniteSet(sat) /\ \E x, y \in sat : x # y
    BY <1>1, <1>6 DEF Tidy
  <2>4. sat # {} /\ Cardinality(sat) # 1
    <3> HIDE DEF sat
    <3>1. \A x : sat # {x}
      BY <2>3
    <3> QED BY <2>3, <3>1, FS_Singleton
  <2>5. b = Waits(r, d, key)
    BY <2>2, <2>4 DEF ResolveAgain, Waits
  <2> HIDE DEF key
  <2> QED BY <1>2, <1>6, <2>5, WaitContinues
<1> QED BY <1>3, <1>4, <1>5, <1>6

-----------------------------------------------------------------------------
(* What the choice for the deferred assertions binds                       *)

\* f binds the assertions that e does, and to the same.
SameAsn(e, f) ==
  DOMAIN f.asn = DOMAIN e.asn /\ \A d \in DOMAIN e.asn : f.asn[d] = e.asn[d]

\* Merging what the choices bind adds no assertions.
LEMMA ChoicesAsn ==
  ASSUME NEW L, NEW D, NEW r, NEW Q, Laid(L, D, r.env, Q), NEW c \in Compatible(r, Q)
  PROVE  SameAsn(r.env, EnvOf(r, c))
<1> DEFINE e == r.env
           es == {e} \cup {c[q].env : q \in Q}
<1>1. /\ DOMAIN c = Q /\ \A q \in Q : c[q] \in q.sat
  BY DEF Compatible, Combinations
<1>2. /\ EnvFits(L, e) /\ \A q \in Q : \E b : Offer(L, e, q, b)
  BY DEF Laid
<1>3. \A q \in Q : Within(c[q].env, e, Leader(q).var)
  <2> TAKE q \in Q
  <2>1. PICK b : Offer(L, e, q, b)
    BY <1>2
  <2>2. Choice(e, q, b, c[q])
    BY <1>1, <2>1 DEF Offer
  <2> QED BY <2>2 DEF Choice
<1>4. \A g \in es : \A d \in DOMAIN g.asn : d \in DOMAIN e.asn /\ g.asn[d] = e.asn[d]
  BY <1>3 DEF Within
<1>5. EnvOf(r, c) = Union(es)
  BY <1>1 DEF EnvOf
<1>6. e \in es
  OBVIOUS
<1> HIDE DEF es, e
<1>7. Union(es).asn = [d \in UNION {DOMAIN g.asn : g \in es} |->
                         (CHOOSE g \in es : d \in DOMAIN g.asn).asn[d]]
  BY DEF Union
<1>8. UNION {DOMAIN g.asn : g \in es} = DOMAIN e.asn
  BY <1>4, <1>6
<1>9. \A d \in DOMAIN e.asn : (CHOOSE g \in es : d \in DOMAIN g.asn).asn[d] = e.asn[d]
  <2> TAKE d \in DOMAIN e.asn
  <2>1. \E g \in es : d \in DOMAIN g.asn
    BY <1>6
  <2> QED BY <1>4, <2>1
<1> QED BY <1>5, <1>7, <1>8, <1>9 DEF e, SameAsn

\* x can be bound to what waits for q.
Bindable(q, x) == IsSeq(q.ids) /\ q.ids # << >> /\ x.subs = << >> /\ x.impl.shape = "call"

\* b is r with the assertions ds bound to x, and nothing else.
Handed(r, b, ds, x) ==
  /\ Shaped(b) /\ b.out = "running" /\ b.open = r.open /\ Steady(r, b)
  /\ b.env = [bound |-> b.env.bound, asn |-> b.env.asn]
  /\ DOMAIN b.env.asn = DOMAIN r.env.asn \cup ds
  /\ \A d \in DOMAIN b.env.asn : b.env.asn[d] = IF d \in ds THEN x ELSE r.env.asn[d]

\* Binding an item binds all that wait for it.
LEMMA ItemHanded ==
  ASSUME NEW r, Shaped(r), r.out = "running", r.open = << >>,
         r.env = [bound |-> r.env.bound, asn |-> r.env.asn],
         NEW q, NEW x, Bindable(q, x), NEW b, b = BindItem(r, q, x)
  PROVE  Handed(r, b, ToSet(q.ids), x)
<1> DEFINE e == r.env
           h == q.ids[1]
           rest == ToSet(Tail(q.ids))
           ids == ToSet(q.ids)
           f == BindAssertions(e, ids, x)
           k == BindAssertion(e, h, x)
           o == r.open \o x.subs
           a == [r EXCEPT !.open = o, !.env = k]
<1>1. ids = {h} \cup rest
  BY TailIs DEF Bindable
<1>2. CanBind(r, x) /\ o = << >>
  BY DEF CanBind, Bindable
<1>3. b = [a EXCEPT !.env = BindAssertions(@, rest, x)]
  BY <1>2 DEF BindItem, BindRecursive
<1>4. BindAssertions(k, rest, x) = f
  <2> HIDE DEF e, ids, rest, h
  <2>1. e = [bound |-> e.bound, asn |-> e.asn]
    BY DEF e
  <2> QED BY <1>1, <2>1, BindTwice
<1> HIDE DEF k, o, rest, h
<1>5. a.env = k
  BY DEF Shaped
<1>6. b = [a EXCEPT !.env = f]
  <2> HIDE DEF a, f
  <2> QED BY <1>3, <1>4, <1>5
<1>7. f = [bound |-> e.bound, asn |-> With(e.asn, ids, x)]
  BY DEF BindAssertions
<1> HIDE DEF f
<1>8. b = [r EXCEPT !.open = o, !.env = f]
  BY <1>6 DEF Shaped
<1> HIDE DEF a
<1>9. Shaped(b) /\ b.env = f /\ b.open = o /\ b.out = "running" /\ Steady(r, b)
  BY <1>8 DEF Shaped, Steady
<1> HIDE DEF ids
<1>10. /\ DOMAIN f.asn = DOMAIN e.asn \cup ids
       /\ \A d \in DOMAIN f.asn : f.asn[d] = IF d \in ids THEN x ELSE e.asn[d]
       /\ f = [bound |-> f.bound, asn |-> f.asn]
  BY <1>7 DEF With
<1> QED BY <1>2, <1>9, <1>10 DEF Handed, ids

\* b is z with the items qs bound as c chooses, and nothing else.
AllHanded(z, b, qs, c) ==
  /\ Shaped(b) /\ b.out = "running" /\ b.open = << >> /\ Steady(z, b)
  /\ DOMAIN b.env.asn = DOMAIN z.env.asn \cup Asked(ToSet(qs))
  /\ \A d \in DOMAIN z.env.asn : d \notin Asked(ToSet(qs)) => b.env.asn[d] = z.env.asn[d]
  /\ \A q \in ToSet(qs) : \A d \in ToSet(q.ids) : b.env.asn[d] = c[q].expr

\* The loop binds every item to its choice.
LEMMA BindingsHand ==
  ASSUME NEW r, NEW c, NEW qs, IsSeq(qs), IsInjective(qs),
         NEW z, Shaped(z), z.out = "running", z.open = << >>, z = Begun(r, c),
         z.env = [bound |-> z.env.bound, asn |-> z.env.asn],
         \A q \in ToSet(qs) : Bindable(q, c[q].expr),
         \A p, q \in ToSet(qs) : p = q \/ ToSet(p.ids) \cap ToSet(q.ids) = {},
         NEW g, Bindings(r, c, qs, Len(qs), g), NEW b, b = g[Len(qs)]
  PROVE  AllHanded(z, b, qs, c)
<1> DEFINE m == Len(qs)
           done(k) == {qs[i] : i \in 1 .. k}
           Fine(k) ==
             LET a == g[k]
             IN /\ Shaped(a) /\ a.out = "running" /\ a.open = << >> /\ Steady(z, a)
                /\ a.env = [bound |-> a.env.bound, asn |-> a.env.asn]
                /\ DOMAIN a.env.asn = DOMAIN z.env.asn \cup Asked(done(k))
                /\ \A d \in DOMAIN z.env.asn : d \notin Asked(done(k)) => a.env.asn[d] = z.env.asn[d]
                /\ \A q \in done(k) : \A d \in ToSet(q.ids) : a.env.asn[d] = c[q].expr
<1>1. m \in Nat /\ DOMAIN qs = 1 .. m /\ ToSet(qs) = {qs[i] : i \in 1 .. m}
  BY SeqIs
<1>2. \A k \in 0 .. m : g[k] = IF k = 0 THEN z ELSE BindItem(g[k - 1], qs[k], c[qs[k]].expr)
  <2> HIDE DEF m
  <2>1. Bindings(r, c, qs, m, g)
    BY DEF m
  <2> QED BY <2>1 DEF Bindings
<1>3. \A i, j \in 1 .. m : qs[i] = qs[j] => i = j
  BY <1>1 DEF IsInjective
<1> HIDE DEF m
<1>4. \A k \in Nat : done(k + 1) = done(k) \cup {qs[k + 1]}
  <2> TAKE k \in Nat
  <2>1. \A i \in 1 .. k + 1 : i \in 1 .. k \/ i = k + 1
    OBVIOUS
  <2>2. k + 1 \in 1 .. k + 1 /\ \A i \in 1 .. k : i \in 1 .. k + 1
    OBVIOUS
  <2> QED BY <2>1, <2>2
<1> DEFINE P == {k \in Nat : k <= m => Fine(k)}
<1>5. 0 \in P
  <2>1. done(0) = {} /\ Asked({}) = {}
    BY DEF Asked
  <2> HIDE DEF done
  <2>2. g[0] = z
    BY <1>1, <1>2
  <2>3. Steady(z, z)
    BY DEF Steady
  <2>4. Fine(0)
    BY <2>1, <2>2, <2>3
  <2> HIDE DEF Fine
  <2> QED BY <2>4
<1>6. ASSUME NEW k \in P PROVE k + 1 \in P
  <2> HIDE DEF Fine
  <2> SUFFICES ASSUME k + 1 <= m PROVE Fine(k + 1)
    OBVIOUS
  <2> USE DEF Fine
  <2>1. k \in Nat /\ k <= m /\ k + 1 \in 0 .. m /\ k + 1 # 0 /\ (k + 1) - 1 = k
    BY <1>1
  <2> DEFINE a == g[k]
             x == g[k + 1]
             q == qs[k + 1]
             y == c[q].expr
             Q == done(k)
             ids == ToSet(q.ids)
  <2>2. x = BindItem(a, q, y)
    BY <2>1, <1>2
  <2>3. /\ Shaped(a) /\ a.out = "running" /\ a.open = << >> /\ Steady(z, a)
        /\ a.env = [bound |-> a.env.bound, asn |-> a.env.asn]
        /\ DOMAIN a.env.asn = DOMAIN z.env.asn \cup Asked(Q)
        /\ \A d \in DOMAIN z.env.asn : d \notin Asked(Q) => a.env.asn[d] = z.env.asn[d]
        /\ \A p \in Q : \A d \in ToSet(p.ids) : a.env.asn[d] = c[p].expr
    BY <2>1
  <2>4. done(k + 1) = Q \cup {q}
    BY <1>4, <2>1
  <2>5. q \in ToSet(qs) /\ Q \subseteq ToSet(qs) /\ q \notin Q
    <3>1. k + 1 \in 1 .. m /\ \A i \in 1 .. k : i \in 1 .. m /\ i # k + 1
      BY <1>1, <2>1
    <3> QED BY <1>1, <1>3, <3>1
  <2> HIDE DEF a, x, y, Q, done, q
  <2>6. Handed(a, x, ids, y)
    <3>1. Bindable(q, y)
      BY <2>5 DEF y
    <3> QED BY <2>2, <2>3, <3>1, ItemHanded
  <2>7. /\ Shaped(x) /\ x.out = "running" /\ x.open = << >> /\ Steady(a, x)
        /\ x.env = [bound |-> x.env.bound, asn |-> x.env.asn]
        /\ DOMAIN x.env.asn = DOMAIN a.env.asn \cup ids
        /\ \A d \in DOMAIN x.env.asn : x.env.asn[d] = IF d \in ids THEN y ELSE a.env.asn[d]
    BY <2>3, <2>6 DEF Handed
  <2>8. Asked(Q \cup {q}) = Asked(Q) \cup ids
    BY DEF Asked
  <2>9. \A p \in Q : ToSet(p.ids) \cap ids = {}
    BY <2>5
  <2>10. \A p \in Q : \A d \in ToSet(p.ids) : x.env.asn[d] = c[p].expr
    <3> TAKE p \in Q
    <3> TAKE d \in ToSet(p.ids)
    <3>1. d \in Asked(Q) /\ d \notin ids
      BY <2>9 DEF Asked
    <3>2. d \in DOMAIN x.env.asn
      BY <2>3, <2>7, <3>1
    <3> QED BY <2>3, <2>7, <3>1, <3>2
  <2>11. \A d \in ids : x.env.asn[d] = c[q].expr
    BY <2>7 DEF y
  <2>12. \A d \in DOMAIN z.env.asn : d \notin Asked(Q) \cup ids => x.env.asn[d] = z.env.asn[d]
    BY <2>3, <2>7
  <2>13. Steady(z, x)
    BY <2>3, <2>7 DEF Steady
  <2>14. DOMAIN x.env.asn = DOMAIN z.env.asn \cup Asked(Q \cup {q})
    BY <2>3, <2>7, <2>8
  <2> HIDE DEF ids
  <2>15. \A p \in Q \cup {q} : \A d \in ToSet(p.ids) : x.env.asn[d] = c[p].expr
    BY <2>10, <2>11 DEF ids
  <2> QED BY <2>4, <2>7, <2>8, <2>12, <2>13, <2>14, <2>15 DEF x
<1> HIDE DEF Fine
<1>7. m \in P
  <2> HIDE DEF P
  <2>1. P \in SUBSET Nat
    BY DEF P
  <2> QED BY <2>1, <1>1, <1>5, <1>6, Induction
<1>8. Fine(m) /\ b = g[m] /\ done(m) = ToSet(qs)
  BY <1>1, <1>7 DEF m
<1> HIDE DEF done
<1> QED BY <1>8 DEF Fine, AllHanded

\* b binds the only cheapest assignment.
Wins(L, D, b) ==
  /\ ~ b.inner /\ D \subseteq DOMAIN b.env.asn
  /\ Ideal(L, D) = {[d \in D |-> b.env.asn[d].impl]}

\* Clearing leaves what is bound and open.
LEMMA ClearedIs ==
  ASSUME NEW r, NEW c, NEW x, Shaped(x), NEW b, b = Cleared(r, c, x)
  PROVE  Shaped(b) /\ b.env = x.env /\ b.open = x.open /\ b.out = x.out /\ Steady(x, b)
<1> DEFINE cache == [key \in DOMAIN x.cache |->
                       IF key \in r.keys THEN Item({c[r.cache[key]]}, << >>)
                       ELSE x.cache[key]]
<1>1. b = [x EXCEPT !.deferred = {}, !.keys = {}, !.cache = cache]
  BY DEF Cleared
<1> HIDE DEF cache
<1>2. IsFiniteSet({})
  BY FS_EmptySet
<1> QED BY <1>1, <1>2 DEF Shaped, Steady

\* Something waits for each of Q.
Queued(Q) == \A q \in Q : IsSeq(q.ids) /\ q.ids # << >>

\* The only cheapest choice is bound, and wins.
LEMMA SettledWins ==
  ASSUME NEW L, NEW D, Set(L, D), NEW r, Shaped(r), r.out = "running", r.open = << >>,
         ~ r.inner, NEW Q, Q = Queues(r), Laid(L, D, r.env, Q),
         Queued(Q), NEW c, Sole(Compatible(r, Q), c), NEW b, b = Settled(r, c)
  PROVE  Shaped(b) /\ b.out = "running" /\ b.open = << >> /\ Wins(L, D, b)
<1> DEFINE e == r.env
           qs == SetToSeq(Q)
           f == EnvOf(r, c)
           z == [r EXCEPT !.env = f]
<1>1. c \in Compatible(r, Q)
  BY DEF Sole, Cheapest
<1>2. /\ DOMAIN c = Q /\ \A q \in Q : c[q] \in q.sat
      /\ ConstsFit /\ LibFits(L) /\ PlainLib(L) /\ IsFiniteSet(Q) /\ EnvFits(L, e)
      /\ \A q \in Q : \E a : Offer(L, e, q, a)
      /\ \A p, q \in Q : p = q \/ ToSet(p.ids) \cap ToSet(q.ids) = {}
      /\ DOMAIN e.asn \cup Asked(Q) = D /\ DOMAIN e.asn \cap Asked(Q) = {}
  BY <1>1 DEF Compatible, Combinations, Laid, Set
<1>3. IsSeq(qs) /\ IsInjective(qs) /\ ToSet(qs) = Q /\ Len(qs) \in Nat
  <2>1. IsSeq(qs) /\ IsInjective(qs) /\ ToSet(qs) = Q
    BY <1>2, SetToSeqIs
  <2> HIDE DEF qs
  <2> QED BY <2>1, SeqIs
<1>4. PICK g : Bindings(r, c, qs, Len(qs), g) /\ b = Cleared(r, c, g[Len(qs)])
  <2>1. qs = SetToSeq(DOMAIN c)
    BY <1>2
  <2> HIDE DEF qs
  <2> QED BY <2>1, <1>3, SettledIs
<1>5. ASSUME NEW q \in Q PROVE Bindable(q, c[q].expr)
  <2>1. PICK a : Offer(L, e, q, a)
    BY <1>2
  <2>2. c[q] \in q.sat
    BY <1>2
  <2>3. c[q].expr.subs = << >>
    BY <2>1, <2>2 DEF Offer, Choice
  <2>4. c[q].expr.impl \in Lowest(Able(L, Leader(q).fn, a))
    BY <2>1, <2>2 DEF Offer
  <2>5. c[q].expr.impl \in L
    BY <2>4 DEF Lowest, Able
  <2>6. c[q].expr.impl.shape = "call"
    BY <1>2, <2>5 DEF PlainLib
  <2> QED BY <2>3, <2>6 DEF Bindable, Queued
<1>6. /\ DOMAIN f.asn = DOMAIN e.asn /\ \A d \in DOMAIN e.asn : f.asn[d] = e.asn[d]
  <2>1. SameAsn(r.env, EnvOf(r, c))
    BY <1>1, ChoicesAsn
  <2> QED BY <2>1 DEF SameAsn
<1>7. f = [bound |-> f.bound, asn |-> f.asn]
  BY DEF EnvOf, Union
<1> HIDE DEF f
<1>8. Shaped(z) /\ z.env = f /\ z.open = << >> /\ z.out = "running" /\ Steady(r, z)
  BY DEF Shaped, Steady
<1>9. z = Begun(r, c)
  BY DEF f, Begun
<1> DEFINE x == g[Len(qs)]
<1> HIDE DEF z, qs
<1>10. AllHanded(z, x, qs, c)
  <2>1. z.env = [bound |-> z.env.bound, asn |-> z.env.asn]
    BY <1>7, <1>8
  <2>2. /\ \A q \in ToSet(qs) : Bindable(q, c[q].expr)
        /\ \A p, q \in ToSet(qs) : p = q \/ ToSet(p.ids) \cap ToSet(q.ids) = {}
    BY <1>2, <1>3, <1>5
  <2>3. x = g[Len(qs)] /\ Bindings(r, c, qs, Len(qs), g)
    BY <1>4
  <2> HIDE DEF x, e
  <2> QED BY <1>3, <1>8, <1>9, <2>1, <2>2, <2>3, BindingsHand
<1> HIDE DEF x
<1>11. /\ Shaped(x) /\ x.out = "running" /\ x.open = << >> /\ Steady(z, x)
       /\ DOMAIN x.env.asn = D
       /\ \A d \in DOMAIN e.asn : x.env.asn[d] = e.asn[d]
       /\ \A q \in Q : \A d \in ToSet(q.ids) : x.env.asn[d] = c[q].expr
  <2>1. /\ Shaped(x) /\ x.out = "running" /\ x.open = << >> /\ Steady(z, x)
        /\ DOMAIN x.env.asn = DOMAIN z.env.asn \cup Asked(ToSet(qs))
        /\ \A d \in DOMAIN z.env.asn : d \notin Asked(ToSet(qs)) => x.env.asn[d] = z.env.asn[d]
        /\ \A q \in ToSet(qs) : \A d \in ToSet(q.ids) : x.env.asn[d] = c[q].expr
    BY <1>10 DEF AllHanded
  <2>2. DOMAIN x.env.asn = D
    BY <1>2, <1>3, <1>6, <1>8, <2>1
  <2>3. \A d \in DOMAIN e.asn : x.env.asn[d] = e.asn[d]
    BY <1>2, <1>3, <1>6, <1>8, <2>1
  <2> QED BY <1>3, <2>1, <2>2, <2>3
<1>12. Shaped(b) /\ b.env = x.env /\ b.open = << >> /\ b.out = "running" /\ ~ b.inner
  <2>1. b = Cleared(r, c, x)
    BY <1>4 DEF x
  <2>2. Shaped(b) /\ b.env = x.env /\ b.open = x.open /\ b.out = x.out /\ Steady(x, b)
    BY <1>11, <2>1, ClearedIs
  <2> QED BY <1>8, <1>11, <2>2 DEF Steady
<1> DEFINE F == [d \in D |-> b.env.asn[d].impl]
<1>13. F = Built(D, e, Q, c)
  <2>1. ASSUME NEW d \in D
        PROVE  b.env.asn[d].impl
                 = IF d \in DOMAIN e.asn THEN e.asn[d].impl ELSE c[ItemOf(Q, d)].expr.impl
    <3>1. CASE d \in DOMAIN e.asn
      BY <1>11, <1>12, <3>1
    <3>2. CASE d \notin DOMAIN e.asn
      <4>1. ItemOf(Q, d) \in Q /\ d \in ToSet(ItemOf(Q, d).ids)
        BY <3>2, Places
      <4> QED BY <1>11, <1>12, <3>2, <4>1
    <3> QED BY <3>1, <3>2
  <2> QED BY <2>1 DEF Built
<1>14. Ideal(L, D) = {Built(D, e, Q, c)}
  BY OnlyCheapest
<1> HIDE DEF e
<1> QED BY <1>11, <1>12, <1>13, <1>14 DEF Wins

\* All that a resolver has posed is laid out.
LEMMA PosedLaid ==
  ASSUME NEW L, NEW D, Set(L, D), NEW r, Searching(L, D, r, {}), D \subseteq Posed(r),
         NEW n, NEW J, NEW K, Right(L, n, r, {}, J, K)
  PROVE  /\ Laid(L, D, r.env, Queues(r)) /\ Shaped(r)
         /\ Queued(Queues(r))
<1> DEFINE e == r.env
           Q == Queues(r)
<1>1. /\ Shaped(r) /\ EnvFits(L, e) /\ \A q \in Q : ItemFits(L, e, q)
      /\ \A p, q \in Q : p = q \/ ToSet(p.ids) \cap ToSet(q.ids) = {}
      /\ DOMAIN e.asn \cap (Asked(Q) \cup ToSet(r.open) \cup {} \cup K) = {}
  BY DEF Right, Sound, Distinct
<1>2. /\ {} \cup Posed(r) \subseteq D /\ Leaves(L, D, e)
      /\ \A d \in DOMAIN e.asn : Forced(L, D, d, e.asn[d].impl)
      /\ \A q \in r.deferred : \E b : Offer(L, e, q, b)
      /\ \A k \in r.keys : KeyOffers(L, r, k)
  BY DEF Searching
<1>3. DOMAIN e.asn \cup Asked(Q) = D
  BY <1>2 DEF Posed
<1>4. \A q \in Q : \E b : Offer(L, e, q, b)
  <2> TAKE q \in Q
  <2>1. CASE q \in r.deferred
    BY <1>2, <2>1
  <2>2. CASE q \notin r.deferred
    <3>1. PICK k \in r.keys : q = r.cache[k]
      BY <2>2 DEF Queues
    <3> QED BY <1>2, <3>1 DEF KeyOffers
  <2> QED BY <2>1, <2>2
<1>5. IsFiniteSet(Q)
  BY <1>1, QueuesFinite
<1>6. ConstsFit /\ LibFits(L) /\ IsFiniteSet(D)
  BY DEF Set
<1>7. Queued(Q)
  BY <1>1 DEF ItemFits, Queued
<1> HIDE DEF e, Q
<1>8. Laid(L, D, e, Q)
  BY <1>1, <1>2, <1>3, <1>4, <1>5, <1>6 DEF Laid
<1> QED BY <1>1, <1>7, <1>8 DEF e, Q

\* Where nothing waits, there is one choice.
LEMMA NoneWaiting ==
  ASSUME NEW r
  PROVE  \E c : Sole(Compatible(r, {}), c)
<1> DEFINE c == [q \in {} |-> 0]
           C == Compatible(r, {})
<1>1. Combinations({}) = {c}
  BY DEF Combinations
<1>2. C = {c}
  BY <1>1 DEF Compatible
<1>3. PriceOf(c) \in Nat /\ PriceOf(c) <= PriceOf(c)
  <2>1. IsFiniteSet({}) /\ DOMAIN c = {}
    BY FS_EmptySet
  <2> HIDE DEF c
  <2> QED BY <2>1, PricesOrdered
<1> HIDE DEF c, C
<1>4. Sole(C, c)
  BY <1>2, <1>3 DEF Cheapest, Sole
<1> QED BY <1>4 DEF C

\* The choices are finitely many.
LEMMA ChoicesFinite ==
  ASSUME NEW L, NEW D, NEW e, NEW Q, Laid(L, D, e, Q)
  PROVE  IsFiniteSet(Combinations(Q))
<1>1. LibFits(L) /\ IsFiniteSet(Q) /\ \A q \in Q : \E b : Offer(L, e, q, b)
  BY DEF Laid
<1>2. ASSUME NEW q \in Q PROVE IsFiniteSet(q.sat)
  <2>1. PICK b : Offer(L, e, q, b)
    BY <1>1
  <2> DEFINE U == Lowest(Able(L, Leader(q).fn, b))
             f == [x \in U |-> CHOOSE s \in q.sat : s.expr.impl = x]
  <2>2. /\ {s.expr.impl : s \in q.sat} = U
        /\ \A s, t \in q.sat : s.expr.impl = t.expr.impl => s = t
    BY <2>1 DEF Offer
  <2>3. IsFiniteSet(U)
    <3>1. U \subseteq L
      BY DEF Lowest, Able
    <3> QED BY <1>1, <3>1, FS_Subset DEF LibFits
  <2> HIDE DEF U
  <2>4. \A s \in q.sat : s.expr.impl \in U /\ f[s.expr.impl] = s
    <3> TAKE s \in q.sat
    <3>1. s.expr.impl \in U
      BY <2>2
    <3>2. f[s.expr.impl] \in q.sat /\ f[s.expr.impl].expr.impl = s.expr.impl
      BY <3>1
    <3> QED BY <2>2, <3>1, <3>2
  <2> HIDE DEF f
  <2>5. IsFiniteSet({f[x] : x \in U})
    BY <2>3, ImageFinite
  <2>6. q.sat \subseteq {f[x] : x \in U}
    BY <2>4
  <2> QED BY <2>5, <2>6, FS_Subset
<1> DEFINE sats == {q.sat : q \in Q}
           f == [q \in Q |-> q.sat]
<1>3. IsFiniteSet(sats)
  <2>1. IsFiniteSet({f[q] : q \in Q})
    <3> HIDE DEF f
    <3> QED BY <1>1, ImageFinite
  <2>2. sats = {f[q] : q \in Q}
    OBVIOUS
  <2> QED BY <2>1, <2>2
<1>4. \A T \in sats : IsFiniteSet(T)
  BY <1>2
<1> HIDE DEF sats
<1>5. IsFiniteSet(UNION sats)
  BY <1>3, <1>4, FS_UNION
<1>6. IsFiniteSet([Q -> UNION sats])
  BY <1>1, <1>5, FunctionsFinite
<1>7. Combinations(Q) \subseteq [Q -> UNION sats]
  BY DEF Combinations, sats
<1> QED BY <1>6, <1>7, FS_Subset

\* How a resolver ends: it binds the only cheapest assignment, or there is none.
Found(L, D, b) ==
  \/ b.out \in {"failed", "ambiguous"} /\ Cardinality(Ideal(L, D)) # 1
  \/ b.out = "resolved" /\ Wins(L, D, b)

\* At the end of a pass that has posed all assertions, the cheapest assignment
\* is found or there is none.
LEMMA PassFinds ==
  ASSUME NEW L, NEW D, Set(L, D), NEW r, Searching(L, D, r, {}), D \subseteq Posed(r),
         NEW n, NEW J, NEW K, Right(L, n, r, {}, J, K), r.out = "running",
         NEW d, d = Disambiguate(r), NEW b, b = Deepen(d)
  PROVE  Found(L, D, b)
<1> DEFINE e == r.env
           Q == Queues(r)
           best == Cheapest(Compatible(r, Q))
           c == CHOOSE x \in best : TRUE
           alts == {Alternative(r, x) : x \in best}
<1>1. /\ Laid(L, D, e, Q) /\ Shaped(r) /\ r.open = << >> /\ ~ r.inner
      /\ Queued(Q)
  BY PosedLaid DEF Searching
<1>2. d = IF r.out # "running" \/ Q = {} THEN r
          ELSE CASE best = {} -> Failed(r)
                 [] Cardinality(best) = 1 -> Settled(r, c)
                 [] OTHER -> Undecided(r, alts)
  BY DEF Disambiguate, Undecided
<1>3. Cardinality({}) # 1
  BY FS_EmptySet
<1>4. ASSUME NEW x, Shaped(x), x.out = "running", x.open = << >>, Wins(L, D, x), d = x
      PROVE  Found(L, D, b)
  <2>1. b = Ended(x)
    BY <1>4 DEF Deepen, Ended
  <2>2. b.out = "resolved" /\ b.env = x.env /\ b.inner = x.inner
    BY <1>4, <2>1 DEF Ended, Shaped
  <2> QED BY <1>4, <2>2 DEF Found, Wins
<1> HIDE DEF alts
<1>5. CASE Q = {}
  <2>1. d = r
    BY <1>2, <1>5
  <2>2. PICK y : Sole(Compatible(r, {}), y)
    BY NoneWaiting
  <2>3. Ideal(L, D) = {Built(D, e, {}, y)}
    BY <1>1, <1>5, <2>2, OnlyCheapest
  <2>4. D = DOMAIN e.asn
    <3>1. DOMAIN e.asn \cup Asked({}) = D /\ Asked({}) = {}
      BY <1>1, <1>5 DEF Laid, Asked
    <3> QED BY <3>1
  <2>5. Built(D, e, {}, y) = [k \in D |-> r.env.asn[k].impl]
    BY <2>4 DEF Built
  <2>6. Wins(L, D, r)
    BY <1>1, <2>3, <2>4, <2>5 DEF Wins
  <2> QED BY <1>1, <1>4, <2>1, <2>6
<1> HIDE DEF best, c
<1>6. CASE Q # {} /\ Cardinality(best) # 1
  <2>1. d = Failed(r) \/ d = Undecided(r, alts)
    BY <1>2, <1>6
  <2>2. d.out \in {"failed", "ambiguous"}
    BY <1>1, <2>1 DEF Failed, Undecided, Shaped
  <2>3. b = d
    BY <2>2 DEF Deepen
  <2>4. Cardinality(Ideal(L, D)) # 1
    BY <1>1, <1>6, NoOnlyCheapest DEF best
  <2> QED BY <2>2, <2>3, <2>4 DEF Found
<1>7. CASE Q # {} /\ Cardinality(best) = 1
  <2>1. d = Settled(r, c)
    BY <1>2, <1>3, <1>7
  <2>2. best = {c}
    <3>1. best # {}
      BY <1>3, <1>7
    <3>2. IsFiniteSet(best)
      <4>1. IsFiniteSet(Combinations(Q))
        BY <1>1, ChoicesFinite
      <4>2. best \subseteq Combinations(Q)
        BY DEF best, Cheapest, Compatible
      <4> QED BY <4>1, <4>2, FS_Subset
    <3> QED BY <1>7, <3>1, <3>2, FS_Singleton DEF c
  <2>3. Shaped(d) /\ d.out = "running" /\ d.open = << >> /\ Wins(L, D, d)
    <3>1. Sole(Compatible(r, Q), c) /\ Q = Queues(r)
      BY <2>2 DEF best, Sole
    <3> HIDE DEF Q, c
    <3> QED BY <1>1, <2>1, <3>1, SettledWins
  <2> QED BY <1>4, <2>3
<1> QED BY <1>5, <1>6, <1>7

-----------------------------------------------------------------------------
(* The search of a tree of plain calls                                     *)

\* On its way, or at its end with the only cheapest assignment or because
\* there is none.
CInv ==
  Plain => \/ res.out = "running" /\ pc = "visit" /\ Searching(lib, Demanded, res, ToSet(todo))
           \/ Found(lib, Demanded, res)

\* What is declared has a function and a variable that the call names.
LEMMA DeclaredAre ==
  ASSUME NEW assns, AssnsFit(assns), NEW i, NEW d \in ToSet(Declared(assns, i, 0))
  PROVE  d.var \in Var
<1> DEFINE ds == Declared(assns, i, 0)
<1>1. DOMAIN ds = 1 .. Len(assns) /\ \A j \in DOMAIN ds : ds[j].var = assns[j][2]
  BY DEF Declared, Assertion
<1>2. PICK j \in DOMAIN ds : d = ds[j]
  BY DEF ToSet
<1> HIDE DEF ds
<1> QED BY <1>1, <1>2 DEF AssnsFit

\* The assertions of a call are finitely many.
LEMMA DeclaredFinite ==
  ASSUME NEW assns, IsSeq(assns), NEW i
  PROVE  IsFiniteSet(ToSet(Declared(assns, i, 0)))
<1> DEFINE ds == Declared(assns, i, 0)
<1>1. Len(assns) \in Nat
  BY SeqIs
<1>2. DOMAIN ds = 1 .. Len(assns)
  BY DEF Declared
<1>3. IsFiniteSet(DOMAIN ds)
  BY <1>1, <1>2, FS_Interval
<1> HIDE DEF ds
<1>4. ToSet(ds) = {ds[j] : j \in DOMAIN ds}
  BY DEF ToSet
<1>5. IsFiniteSet({ds[j] : j \in DOMAIN ds})
  BY <1>3, ImageFinite
<1> QED BY <1>4, <1>5 DEF ds

\* A plain tree's assertions are a setting for the search.
LEMMA PlainSet ==
  ASSUME AInv, Plain
  PROVE  /\ Set(lib, Demanded) /\ Demanded = Visited(Len(tree))
         /\ variant = "def" \/ Unrepeated(Demanded)
<1> DEFINE f == [i \in 1 .. Len(tree) |-> ToSet(Declared(tree[i].assns, i, 0))]
           F == {f[i] : i \in 1 .. Len(tree)}
<1>1. /\ ConstsFit /\ LibFits(lib) /\ TreeFits(tree)
      /\ pos \in Nat /\ Len(tree) \in Nat /\ pos <= Len(tree)
  BY Inputs
<1>2. \A i \in 1 .. Len(tree) : AssnsFit(tree[i].assns)
  BY <1>1 DEF TreeFits
<1>3. Demanded = UNION F
  BY DEF Demanded
<1>4. IsFiniteSet(Demanded)
  <2>1. IsFiniteSet(1 .. Len(tree))
    BY <1>1, FS_Interval
  <2>2. \A i \in 1 .. Len(tree) : IsFiniteSet(f[i])
    BY <1>2, DeclaredFinite DEF AssnsFit
  <2> HIDE DEF f
  <2>3. IsFiniteSet(F)
    BY <2>1, ImageFinite
  <2>4. \A T \in F : IsFiniteSet(T)
    BY <2>2
  <2> HIDE DEF F
  <2> QED BY <1>3, <2>3, <2>4, FS_UNION
<1>5. \A d \in Demanded : d.var \in Var
  <2> TAKE d \in Demanded
  <2>1. PICK i \in 1 .. Len(tree) : d \in ToSet(Declared(tree[i].assns, i, 0))
    BY DEF Demanded
  <2> QED BY <1>2, <2>1, DeclaredAre
<1>6. PlainLib(lib)
  BY DEF Plain, NoneNested, ToldApart, PlainLib
<1>7. Demanded = Visited(Len(tree))
  BY DEF Demanded, Visited
<1>8. variant = "def" \/ Unrepeated(Demanded)
  BY DEF Plain, NoneRepeated, Unrepeated
<1> QED BY <1>1, <1>4, <1>5, <1>6, <1>7, <1>8 DEF Set

\* The tree, the library and the variant stay.
LEMMA PlainStays ==
  ASSUME tree' = tree, lib' = lib, variant' = variant
  PROVE  Plain' = Plain /\ Demanded' = Demanded
<1>1. Demanded' = Demanded
  BY DEF Demanded
<1> QED BY <1>1 DEF Plain, CallsOnly, NoneNested, ToldApart, NoneRepeated, TypeOf

\* CInv in the next state, of the same inputs.
LEMMA CInvPrimed ==
  ASSUME tree' = tree, lib' = lib, variant' = variant,
         Plain => \/ /\ res'.out = "running" /\ pc' = "visit"
                     /\ Searching(lib, Demanded, res', ToSet(todo'))
                  \/ Found(lib, Demanded, res')
  PROVE  CInv'
<1>1. Plain' = Plain /\ Demanded' = Demanded
  BY PlainStays
<1> QED BY <1>1 DEF CInv

\* The search begins with nothing posed.
LEMMA SearchBegins ==
  ASSUME AssnInit
  PROVE  CInv
<1> DEFINE e == EmptyEnv
           D == Demanded
<1>1. /\ res.env = e /\ res.open = << >> /\ res.cache = << >> /\ res.keys = {}
      /\ res.deferred = {} /\ res.out = "running" /\ res.left = {}
      /\ ~ res.inner /\ ~ res.ambiguous
  <2> HIDE DEF e
  <2>1. res = NewResolver(e, 1)
    BY DEF AssnInit, e
  <2> QED BY <2>1 DEF NewResolver
<1>2. DOMAIN e.asn = {}
  BY EmptyFits
<1>3. \A v \in Var : e.bound[v] = Free
  BY DEF EmptyEnv
<1> HIDE DEF e
<1>4. DOMAIN << >> = {}
  OBVIOUS
<1>5. Posed(res) = {}
  BY <1>1, <1>2 DEF Posed, Asked, Queues
<1>6. todo = << >> /\ pc = "visit" /\ ToSet(todo) = {}
  BY EmptyIs DEF AssnInit
<1>7. ASSUME Plain PROVE Leaves(lib, D, e)
  <2>1. AInv
    BY InitHolds
  <2>2. \A d \in D : d.var \in Var
    BY <1>7, <2>1, PlainSet DEF Set
  <2> HIDE DEF D
  <2> QED BY <1>3, <2>2 DEF Leaves, Suits
<1>8. ASSUME Plain PROVE Searching(lib, D, res, {})
  <2> HIDE DEF D
  <2> QED BY <1>1, <1>2, <1>4, <1>5, <1>7, <1>8 DEF Searching
<1> QED BY <1>1, <1>6, <1>8 DEF CInv

\* Visiting a call poses its assertions.
LEMMA SearchVisits ==
  ASSUME AInv, CInv, VisitCall
  PROVE  CInv'
<1> DEFINE D == Demanded
           ds == Declared(tree[pos + 1].assns, pos + 1, 0)
<1>1. /\ res.out = "running" /\ todo = << >> /\ pc = "visit" /\ pos < Len(tree)
      /\ todo' = ds /\ lib' = lib /\ tree' = tree /\ variant' = variant
      /\ pc' = pc /\ res' = res
  BY DEF VisitCall, Ready
<1>2. pos \in Nat /\ Len(tree) \in Nat
  BY Inputs
<1>3. pos + 1 \in 1 .. Len(tree)
  BY <1>1, <1>2
<1>4. ToSet(ds) \subseteq D
  BY <1>3 DEF Demanded
<1> HIDE DEF ds
<1>5. ASSUME Plain PROVE Searching(lib, D, res, ToSet(ds))
  <2>1. Searching(lib, D, res, {})
    BY <1>1, <1>5, EmptyIs DEF CInv, Found
  <2> HIDE DEF D
  <2> QED BY <1>4, <2>1 DEF Searching
<1> QED BY <1>1, <1>5, CInvPrimed

\* Resolving an assertion goes on with the search, or ends it.
LEMMA SearchResolves ==
  ASSUME AInv, CInv, ResolveNext
  PROVE  CInv'
<1> DEFINE D == Demanded
           d == Head(todo)
           T == ToSet(todo)
           Q == Queues(res)
           e == res.env
<1>1. /\ res.out = "running" /\ todo # << >> /\ pc # "done"
      /\ res' = ResolveAssertion(variant, lib, res, d) /\ todo' = Tail(todo)
      /\ lib' = lib /\ tree' = tree /\ variant' = variant /\ pc' = pc
  BY DEF ResolveNext
<1>2. PICK J : Faithful(J)
  BY <1>1 DEF AInv
<1>3. /\ Right(lib, pos, res, T, J, {}) /\ IsSeq(todo) /\ IsInjective(todo)
  BY <1>2 DEF Faithful
<1>4. /\ d \in T /\ ToSet(todo') = T \ {d}
  BY <1>1, <1>3, TailIs
<1>5. /\ Shaped(res) /\ Tidy(res) /\ EnvFits(lib, e) /\ \A q \in Q : ItemFits(lib, e, q)
      /\ Asked(Q) \cap T = {}
      /\ DOMAIN e.asn \cap (Asked(Q) \cup ToSet(res.open) \cup T \cup {}) = {}
  <2> HIDE DEF T, e, Q
  <2> QED BY <1>3 DEF Right, Sound, Apart, Distinct, e, Q
<1>6. d \notin Posed(res)
  BY <1>4, <1>5 DEF Posed
<1>7. \A q \in Q : IsSeq(q.ids) /\ q.ids # << >>
  BY <1>5 DEF ItemFits
<1> HIDE DEF d, T
<1>8. CASE ~ Plain
  BY <1>1, <1>8, CInvPrimed
<1>9. CASE Plain
  <2>1. pc = "visit" /\ Searching(lib, D, res, T)
    BY <1>1, <1>9 DEF CInv, Found, T
  <2>2. Set(lib, D) /\ (variant = "def" \/ Unrepeated(D))
    BY <1>9, PlainSet
  <2> DEFINE b == res'
  <2>3. b = ResolveAssertion(variant, lib, res, d)
    BY <1>1
  <2> HIDE DEF D, b
  <2>4. At(lib, D, res, T, d)
    BY <1>1, <1>4, <1>5, <1>6, <1>7, <2>1 DEF At
  <2>5. Continues(lib, D, b, T \ {d})
    BY <2>2, <2>3, <2>4, AssertionContinues
  <2>6. \/ b.out = "running" /\ Searching(lib, D, b, T \ {d})
        \/ Found(lib, D, b)
    BY <2>5 DEF Continues, Found
  <2> QED BY <1>1, <1>4, <2>1, <2>6, CInvPrimed DEF D, b
<1> QED BY <1>8, <1>9

\* At the end of the pass the search has ended.
LEMMA SearchEnds ==
  ASSUME AInv, CInv, BeginPass
  PROVE  CInv'
<1> DEFINE D == Demanded
           d == Disambiguate(res)
           x == Deepen(d)
<1>1. /\ res.out = "running" /\ todo = << >> /\ pc # "done"
      /\ pc = "visit" => pos = Len(tree)
      /\ res' = x /\ lib' = lib /\ tree' = tree /\ variant' = variant
  BY DEF BeginPass, Ready
<1>2. CASE ~ Plain
  BY <1>1, <1>2, CInvPrimed
<1>3. CASE Plain
  <2>1. pc = "visit" /\ Searching(lib, D, res, {})
    BY <1>1, <1>3, EmptyIs DEF CInv, Found
  <2>2. PICK J : Faithful(J)
    BY <1>1 DEF AInv
  <2>3. Right(lib, pos, res, {}, J, {}) /\ (res.inner \/ J = res.left)
    BY <1>1, <2>2, EmptyIs DEF Faithful
  <2>4. Set(lib, D) /\ D = Visited(pos)
    BY <1>1, <1>3, <2>1, PlainSet
  <2>5. J = {} /\ res.open = << >>
    BY <2>1, <2>3 DEF Searching
  <2>6. Visited(pos) \subseteq Held(res.env, res.open, Queues(res), {}, J)
    BY <2>3 DEF Right, Sound
  <2>7. D \subseteq Posed(res)
    BY <2>4, <2>5, <2>6, EmptyIs DEF Held, Posed
  <2> DEFINE K == {}
  <2>8. Right(lib, pos, res, {}, J, K) /\ d = Disambiguate(res) /\ x = Deepen(d)
    BY <2>3
  <2> HIDE DEF D, K, d, x
  <2>9. Found(lib, D, x)
    BY <1>1, <2>1, <2>4, <2>7, <2>8, PassFinds
  <2> QED BY <1>1, <2>9, CInvPrimed DEF D
<1> QED BY <1>2, <1>3

\* For a tree of calls and a library as Plain describes them (of the rest CInv
\* says nothing): while the visit is on, no assignment that could be cheapest goes
\* against what is bound; it ends with the one cheapest, or where there is none.
THEOREM CInvInvariance == AssnSpec => []CInv
<1>1. AssnInit => CInv
  BY SearchBegins
<1>2. AInv /\ CInv /\ [AssnNext]_assnVars => CInv'
  <2> SUFFICES ASSUME AInv, CInv, [AssnNext]_assnVars PROVE CInv'
    OBVIOUS
  <2>1. CASE VisitCall
    BY <2>1, SearchVisits
  <2>2. CASE VisitAmbiguous
    <3>1. /\ pos < Len(tree) /\ tree[pos + 1].alts # {}
          /\ lib' = lib /\ tree' = tree /\ variant' = variant
      BY <2>2 DEF VisitAmbiguous
    <3>2. pos + 1 \in 1 .. Len(tree)
      <4>1. pos \in Nat /\ Len(tree) \in Nat
        BY Inputs
      <4> QED BY <3>1, <4>1
    <3>3. ~ Plain
      BY <3>1, <3>2 DEF Plain, CallsOnly
    <3> QED BY <3>1, <3>3, CInvPrimed
  <2>3. CASE ResolveNext
    BY <2>3, SearchResolves
  <2>4. CASE BeginPass
    BY <2>4, SearchEnds
  <2>5. CASE Finish
    <3>1. lib' = lib /\ tree' = tree /\ variant' = variant
      BY <2>5 DEF Finish
    <3>2. ASSUME Plain PROVE res' = res /\ Found(lib, Demanded, res)
      <4>1. CASE res.out # "running" /\ res' = res
        BY <3>2, <4>1 DEF CInv
      <4>2. CASE ~(res.out # "running" /\ res' = res)
        <5>1. res.out = "running" /\ ((pc = "visit" /\ res.ambiguous) \/ pc = "pass")
          BY <2>5, <4>2 DEF Finish, Ready
        <5>2. pc = "visit" /\ Searching(lib, Demanded, res, ToSet(todo))
          BY <3>2, <5>1 DEF CInv, Found
        <5> QED BY <5>1, <5>2 DEF Searching
      <4> QED BY <4>1, <4>2
    <3> QED BY <3>1, <3>2, CInvPrimed
  <2>6. CASE UNCHANGED assnVars
    <3>1. /\ lib' = lib /\ tree' = tree /\ variant' = variant
          /\ res' = res /\ pc' = pc /\ todo' = todo
      BY <2>6 DEF assnVars
    <3> QED BY <3>1, CInvPrimed DEF CInv
  <2> QED BY <2>1, <2>2, <2>3, <2>4, <2>5, <2>6 DEF AssnNext
<1> QED BY <1>1, <1>2, AInvInvariance, PTL DEF AssnSpec

\* Binding what is unambiguous at once, and the rest by the cheapest compatible
\* choice, finds the one assignment that is cheaper than any other, or fails where
\* there is none: for trees of calls, any number of them, and libraries of functions
\* that need nothing and that result types tell apart, whatever they cost; with
\* ASN=dca, where nothing is asserted twice.
THEOREM CheapestIsAlwaysFound == AssnSpec => []FindsTheCheapest
<1>1. CInv => FindsTheCheapest
  <2> SUFFICES ASSUME CInv, pc = "done", Plain PROVE FindsTheOneCheapest
    BY DEF FindsTheCheapest
  <2> DEFINE best == {f \in Assignments : \A g \in Assignments : Total(f) <= Total(g)}
             F == [d \in Demanded |-> Bound[d].impl]
  <2>1. Assignments = Assign(lib, Demanded)
    BY DEF Assignments, Assign, Meet
  <2>2. best = Ideal(lib, Demanded)
    BY <2>1 DEF Ideal
  <2>3. Found(lib, Demanded, res)
    BY DEF CInv
  <2> HIDE DEF best
  <2>4. CASE res.out = "resolved" /\ Wins(lib, Demanded, res)
    <3>1. Succeeded
      BY <2>4 DEF Succeeded, Wins
    <3>2. best = {F}
      BY <2>2, <2>4 DEF Wins, Bound
    <3>3. Cardinality(best) = 1 /\ F \in best
      <4> HIDE DEF F
      <4> QED BY <3>2, FS_Singleton
    <3> QED BY <3>1, <3>3 DEF FindsTheOneCheapest, best
  <2>5. CASE res.out \in {"failed", "ambiguous"} /\ Cardinality(Ideal(lib, Demanded)) # 1
    <3>1. ~ Succeeded
      BY <2>5 DEF Succeeded
    <3>2. ~(Cardinality(best) = 1)
      BY <2>2, <2>5
    <3>3. (Cardinality(best) = 1) = Succeeded
      BY <3>1, <3>2 DEF Succeeded
    <3> QED BY <3>1, <3>3 DEF FindsTheOneCheapest, best
  <2> QED BY <2>3, <2>4, <2>5 DEF Found
<1> QED BY <1>1, CInvInvariance, PTL
=============================================================================
