----------------------------- MODULE Assertions -----------------------------
(***************************************************************************)
(* The assertion resolver (src/resolver/resolve_assertions.h): it finds an *)
(* expression for every assertion of a resolved call, and for the          *)
(* assertions of those expressions in turn.  An assertion satisfied in one *)
(* way is bound at once; one satisfied in several is DEFERRED, and the     *)
(* cheapest compatible choice for all deferred ones is taken later.        *)
(* variant is ASN=def (and ASN=top, the same code), or ASN=dca, which also *)
(* caches resolutions by the assertion's type under the environment.       *)
(*                                                                         *)
(* Abstracted: an environment keeps the value of each class of variables,  *)
(* without the classes (those are EnvPer and ClassEnv); resolveWithType    *)
(* answers from a library of implementations; a typed expression tree is   *)
(* the sequence of its calls, in the order in which the visitor meets      *)
(* them, each as its assertions, or as its alternatives if ambiguous.      *)
(***************************************************************************)
EXTENDS Integers, Sequences, FiniteSets, Lists

CONSTANTS Var, Val,     \* classes of type variables, and concrete types
          Free, AnyType,    \* an unbound class; the type of a generic function
          Returning,    \* functions that return the variable's type
          Libs,         \* the libraries: each a set of implementations
          Trees,        \* the expressions to resolve assertions of
          MaxDepth      \* Resolver::max_recursive_assertions

VARIABLES variant, lib, tree,   \* the instance, chosen by Init
          pos,                  \* the number of nodes of the tree visited
          todo,                 \* assertions of this pass, yet to resolve
          pc,                   \* "visit", "pass" or "done"
          res                   \* the AssertionResolver

assnVars == <<variant, lib, tree, pos, todo, pc, res>>

\* What a library holds: val is the type it takes, needs the functions its
\* own assertions name, shape the kind of expression it resolves to.
Implementation(fn, val, cost, needs, shape) ==
  [fn |-> fn, val |-> val, cost |-> cost, needs |-> needs, shape |-> shape]

\* An assertion: a function asserted of a variable.  id tells apart the
\* declarations of separate instantiations.
Assertion(fn, var, id) == [fn |-> fn, var |-> var, id |-> id]

\* What the constants are: bound and unbound classes are told apart, a library
\* is finite, and the tree's assertions are of type variables.
ConstsFit ==
  /\ MaxDepth \in Nat \ {0}
  /\ Free \notin Val /\ Var \cap Val = {} /\ AnyType # Free /\ AnyType \notin Var

LibFits(L) ==
  /\ IsFiniteSet(L)
  /\ \A impl \in L : /\ IsSeq(impl.needs) /\ impl.cost \in Nat
                     /\ impl.val \in Val \cup {AnyType}

AssnsFit(assns) == IsSeq(assns) /\ \A j \in 1 .. Len(assns) : assns[j][2] \in Var

TreeFits(t) ==
  /\ IsSeq(t)
  /\ \A i \in 1 .. Len(t) :
       /\ AssnsFit(t[i].assns) /\ (t[i].alts # {} => t[i].assns = << >>)
       /\ \A alt \in t[i].alts : /\ AssnsFit(alt.assns) /\ alt.num \in Int
                               /\ alt.bound \in [Var -> Val \cup {Free}]

ASSUME InputsFit ==
  ConstsFit /\ (\A L \in Libs : LibFits(L)) /\ \A t \in Trees : TreeFits(t)

-----------------------------------------------------------------------------
(* Environments                                                            *)

EmptyEnv == [bound |-> [v \in Var |-> Free], asn |-> << >>]

Agree(e, f) ==
  /\ \A v \in Var : Free \in {e.bound[v], f.bound[v]} \/ e.bound[v] = f.bound[v]
  /\ \A d \in DOMAIN e.asn \cap DOMAIN f.asn : e.asn[d] = f.asn[d]

\* env.merge() of environments that agree: what any of them binds.
Union(es) ==
  [bound |-> [v \in Var |-> LET vals == {e.bound[v] : e \in es} \ {Free}
                            IN IF vals = {} THEN Free ELSE CHOOSE x \in vals : TRUE],
   asn |-> [d \in UNION {DOMAIN e.asn : e \in es} |->
              (CHOOSE e \in es : d \in DOMAIN e.asn).asn[d]]]

\* f with the keys of ks bound to x.
With(f, ks, x) == [k \in DOMAIN f \cup ks |-> IF k \in ks THEN x ELSE f[k]]

Bind(e, v, val) == IF val = AnyType THEN e ELSE [e EXCEPT !.bound[v] = val]
BindAssertions(e, ds, expr) == [e EXCEPT !.asn = With(@, ds, expr)]
BindAssertion(e, d, expr) == BindAssertions(e, {d}, expr)

-----------------------------------------------------------------------------
(* Resolver::resolveWithType, for the expression of an assertion           *)

\* The expression holds the assertions of this instantiation of impl.
Interpret(impl, d, env) ==
  [env |-> Bind(env, d.var, impl.val), cost |-> impl.cost,
   expr |-> [impl |-> impl,
             subs |-> [i \in 1 .. Len(impl.needs) |->
                         Assertion(impl.needs[i], d.var, Append(d.id, i))]]]

TypeOf(impl) == IF impl.fn \in Returning THEN impl.val ELSE AnyType

Usable(library, d, env) ==
  {impl \in library : impl.fn = d.fn
     /\ (impl.val = AnyType \/ env.bound[d.var] \in {Free, impl.val})}

\* convertTo() keeps one interpretation for each result type, the cheapest;
\* several of one cost make one ambiguous interpretation, here a larger set.
Satisfying(library, d, env) ==
  LET found == Usable(library, d, env)
      best(x) == {y \in found : TypeOf(y) = TypeOf(x)
                    /\ \A z \in found : TypeOf(z) = TypeOf(x) => y.cost <= z.cost}
  IN {{Interpret(y, d, env) : y \in best(x)} : x \in found}

\* The cache key: the types of the assertion with bound variables replaced.
Key(d, env) ==
  <<d.fn, IF env.bound[d.var] = Free THEN d.var ELSE env.bound[d.var]>>

-----------------------------------------------------------------------------
(* An AssertionResolver: the environment it binds into, its open           *)
(* assertions, the recursion depth, the deferred assertions, the cache.    *)
(* sat are the satisfying interpretations of a deferred or cached item and *)
(* ids the assertions that wait for it.  alts are the environments of an   *)
(* ambiguous result; inner that a subexpression was left ambiguous; left   *)
(* the assertions the resolvers of its alternatives left deferred; out     *)
(* tells how it ended.                                                     *)

NewResolver(env, depth) ==
  [env |-> env, open |-> << >>, depth |-> depth, cache |-> << >>,
   keys |-> {}, deferred |-> {}, ambiguous |-> FALSE, inner |-> FALSE,
   alts |-> {}, left |-> {}, out |-> "running"]

Failed(r) == [r EXCEPT !.out = "failed"]
Item(sat, ids) == [sat |-> sat, ids |-> ids]
Cached(r, key, item) == [r EXCEPT !.cache = With(@, {key}, item)]

\* A function is asserted as a call; a conversion makes a cast of it.
CanBind(r, expr) ==
  expr.impl.shape = "call" /\ (expr.subs = << >> \/ r.depth < MaxDepth)

BindRecursive(r, d, expr) ==
  IF ~ CanBind(r, expr) THEN Failed(r)
  ELSE [r EXCEPT !.open = @ \o expr.subs,
                 !.env = BindAssertion(@, d, expr)]

\* Mutant of MergeMatch: the environment of the match is not merged.
UnmergedMatch(r, s) == r

\* env.merge() after a unique match: its result is not looked at.
MergeMatch(r, s) ==
  IF Agree(r.env, s.env) THEN [r EXCEPT !.env = Union({@, s.env})] ELSE r

BindUnique(r, d, group) ==
  LET s == CHOOSE x \in group : TRUE
  IN IF Cardinality(group) > 1 THEN Failed(r)   \* an AmbiguousExpr
     ELSE LET b == BindRecursive(r, d, s.expr)
          IN IF b.out = "failed" THEN b ELSE MergeMatch(b, s)

Defer(r, d, sat) == [r EXCEPT !.deferred = @ \cup {Item(sat, <<d>>)}]

ResolveFresh(r, d, found) ==
  CASE found = {} -> Failed(r)
    [] Cardinality(found) = 1 -> BindUnique(r, d, CHOOSE g \in found : TRUE)
    [] OTHER -> Defer(r, d, UNION found)

\* The first assertion with its key.
ResolveFirst(r, d, key, found) ==
  CASE found = {} -> Failed(Cached(r, key, Item({}, << >>)))
    [] Cardinality(found) = 1 ->
         LET g == CHOOSE x \in found : TRUE
             b == BindUnique(r, d, g)
         IN Cached(b, key, Item(IF b.out = "failed" THEN {} ELSE g, << >>))
    [] OTHER -> [Cached(r, key, Item(UNION found, <<d>>))
                   EXCEPT !.keys = @ \cup {key}]

\* Mutant of ResolveAgain: a repeated assertion is not added to its deferred item.
ResolveAgainUnlisted(r, d, key) ==
  LET sat == r.cache[key].sat
  IN CASE sat = {} -> Failed(r)
       [] Cardinality(sat) = 1 ->
            [r EXCEPT !.env = BindAssertion(@, d, (CHOOSE s \in sat : TRUE).expr)]
       [] OTHER -> [r EXCEPT !.keys = @ \cup {key}]

\* Repeats an earlier resolution; what it opened has been opened already.
ResolveAgain(r, d, key) ==
  LET sat == r.cache[key].sat
  IN CASE sat = {} -> Failed(r)
       [] Cardinality(sat) = 1 ->
            [r EXCEPT !.env = BindAssertion(@, d, (CHOOSE s \in sat : TRUE).expr)]
       [] OTHER -> [Cached(r, key, Item(sat, Append(r.cache[key].ids, d)))
                      EXCEPT !.keys = @ \cup {key}]

ResolveAssertion(build, library, r, d) ==
  LET key == Key(d, r.env)
      found == Satisfying(library, d, r.env)
  IN IF r.out # "running" THEN r
     ELSE IF build = "def" THEN ResolveFresh(r, d, found)
     ELSE IF key \in DOMAIN r.cache THEN ResolveAgain(r, d, key)
     ELSE ResolveFirst(r, d, key, found)

ResolveAll(build, library, r, ds) ==
  LET after[k \in 0 .. Len(ds)] ==
        IF k = 0 THEN r ELSE ResolveAssertion(build, library, after[k - 1], ds[k])
  IN after[Len(ds)]

-----------------------------------------------------------------------------
(* Choosing for the deferred assertions                                    *)

Queues(r) == r.deferred \cup {r.cache[key] : key \in r.keys}

\* interpretation_env_merger: env.merge() accepts each choice in turn.
\* Merging fails only on a conflict of two bindings, so the order is free.
Combinations(qs) == {c \in [qs -> UNION {q.sat : q \in qs}] :
                  \A q \in qs : c[q] \in q.sat}
\* Mutant of Compatible: each choice is merged with the first environment only.
CompatibleWithEnv(r, qs) ==
  {c \in Combinations(qs) : \A q \in qs : Agree(r.env, c[q].env)}

Compatible(r, qs) ==
  {c \in Combinations(qs) : /\ \A q \in qs : Agree(r.env, c[q].env)
                       /\ \A p, q \in qs : Agree(c[p].env, c[q].env)}

Waiting(r) == (UNION {ToSet(q.ids) : q \in Queues(r)}) \ DOMAIN r.env.asn

PriceOf(c) == FoldFunction(LAMBDA s, sum : s.cost + sum, 0, c)
EnvOf(r, c) == Union({r.env} \cup {c[q].env : q \in DOMAIN c})

\* sort_mins
Cheapest(cs) == {c \in cs : \A o \in cs : PriceOf(c) <= PriceOf(o)}

\* The first assertion of an item is bound with what its expression needs,
\* those that share it are bound to the same expression.
BindItem(r, q, expr) ==
  LET b == BindRecursive(r, q.ids[1], expr)
  IN IF r.out # "running" THEN r
     ELSE [b EXCEPT !.env = BindAssertions(@, ToSet(Tail(q.ids)), expr)]

Settled(r, c) ==
  LET qs == SetToSeq(DOMAIN c)
      bound[k \in 0 .. Len(qs)] ==
        IF k = 0 THEN [r EXCEPT !.env = EnvOf(r, c)]
        ELSE BindItem(bound[k - 1], qs[k], c[qs[k]].expr)
  IN [bound[Len(qs)] EXCEPT !.deferred = {}, !.keys = {},
        !.cache = [key \in DOMAIN @ |->
                     IF key \in r.keys THEN Item({c[r.cache[key]]}, << >>)
                     ELSE @[key]]]

\* One alternative for each cheapest choice, its assertions bound as they
\* are, without those that their expressions need.
Alternative(r, c) ==
  FoldLeft(LAMBDA env, q : BindAssertions(env, ToSet(q.ids), c[q].expr),
           EnvOf(r, c), SetToSeq(DOMAIN c))

Disambiguate(r) ==
  LET qs == Queues(r)
      best == Cheapest(Compatible(r, qs))
  IN IF r.out # "running" \/ qs = {} THEN r
     ELSE CASE best = {} -> Failed(r)
            [] Cardinality(best) = 1 -> Settled(r, CHOOSE c \in best : TRUE)
            [] OTHER -> [r EXCEPT !.out = "ambiguous",
                                  !.alts = {Alternative(r, c) : c \in best}]

\* What follows: nothing is open, or the open assertions are next.
Deepen(r) ==
  IF r.out # "running" THEN r
  ELSE IF r.open = << >> THEN [r EXCEPT !.out = "resolved"]
  ELSE IF r.depth = MaxDepth THEN Failed(r)
  ELSE [r EXCEPT !.depth = @ + 1, !.open = << >>]

\* The loop's condition, at the end of a pass over the open assertions.
EndPass(r) ==
  IF r.out = "running" /\ r.open = << >> THEN [r EXCEPT !.out = "resolved"]
  ELSE r

Pass(build, library, r) ==
  LET d == Disambiguate(r)
  IN IF d.out # "running" \/ d.open = << >> THEN Deepen(d)
     ELSE EndPass(ResolveAll(build, library, Deepen(d), d.open))

\* mutate() of a call with assertions ds, start to end: a pass is a level.
Mutate(build, library, r, ds) ==
  LET after[k \in 0 .. MaxDepth] ==
        IF k = 0 THEN ResolveAll(build, library, r, ds)
        ELSE IF after[k - 1].out = "running" THEN Pass(build, library, after[k - 1])
        ELSE after[k - 1]
  IN after[MaxDepth]

-----------------------------------------------------------------------------
(* The visitor, and the loop of mutate() one assertion at a time           *)

\* A node of a tree: a call, or an ambiguous expression.  An alternative has
\* the bindings of its environment, its cost, and its call's assertions.
Call(assns) == [assns |-> assns, alts |-> {}]
AmbiguousExpr(alts) == [assns |-> << >>, alts |-> alts]
Alt(num, bound, cost, assns) ==
  [num |-> num, bound |-> bound, cost |-> cost, assns |-> assns]

Declared(assns, node, num) ==
  [j \in 1 .. Len(assns) |->
     Assertion(assns[j][1], assns[j][2], <<node, num, j>>)]

AssnInit == /\ variant \in {"def", "dca"}
        /\ lib \in Libs
        /\ tree \in Trees
        /\ pos = 0
        /\ todo = << >>
        /\ pc = "visit"
        /\ res = NewResolver(EmptyEnv, 1)

Ready == pc # "done" /\ res.out = "running" /\ todo = << >>

\* visit(CallExpr)
VisitCall ==
  /\ Ready /\ pc = "visit" /\ pos < Len(tree)
  /\ tree[pos + 1].alts = {}
  /\ pos' = pos + 1
  /\ todo' = Declared(tree[pos + 1].assns, pos + 1, 0)
  /\ UNCHANGED <<variant, lib, tree, pc, res>>

\* An alternative resolved under the current environment, by a resolver of
\* its own, or skipped.
Tried(alt) ==
  LET own == [EmptyEnv EXCEPT !.bound = alt.bound]
  IN IF ~ Agree(res.env, own) THEN Failed(res)
     ELSE Mutate(variant, lib, NewResolver(Union({res.env, own}), res.depth),
                 Declared(alt.assns, pos + 1, alt.num))

\* visit(AmbiguousExpr): a unique cheapest alternative replaces it.  One that
\* mutate() left ambiguous does not mark its resolver as ambiguous.
VisitAmbiguous ==
  /\ Ready /\ pc = "visit" /\ pos < Len(tree)
  /\ tree[pos + 1].alts # {}
  /\ LET alts == tree[pos + 1].alts
         tried == [alt \in alts |-> Tried(alt)]
         kept == {alt \in alts : tried[alt].out # "failed"}
         min == {alt \in kept : \A o \in kept : alt.cost <= o.cost}
         it == tried[CHOOSE alt \in min : TRUE]
     IN res' = CASE min = {} -> Failed(res)
                 [] Cardinality(min) = 1 ->
                      [res EXCEPT !.env = it.env,
                                  !.inner = @ \/ it.out = "ambiguous",
                                  !.left = @ \cup Waiting(it)]
                 [] OTHER -> [res EXCEPT !.ambiguous = TRUE]
  /\ pos' = pos + 1
  /\ UNCHANGED <<variant, lib, tree, todo, pc>>

ResolveNext ==
  /\ pc # "done" /\ res.out = "running" /\ todo # << >>
  /\ res' = ResolveAssertion(variant, lib, res, Head(todo))
  /\ todo' = Tail(todo)
  /\ UNCHANGED <<variant, lib, tree, pos, pc>>

\* The head of the loop.
BeginPass ==
  /\ Ready
  /\ IF pc = "visit" THEN pos = Len(tree) /\ ~ res.ambiguous
     ELSE res.open # << >>
  /\ LET d == Disambiguate(res)
         deeper == Deepen(d)
     IN /\ res' = deeper
        /\ todo' = IF deeper.out = "running" THEN d.open ELSE << >>
  /\ pc' = "pass"
  /\ UNCHANGED <<variant, lib, tree, pos>>

\* Failure, an early end on an ambiguous tree, or the end of the loop.
Finish ==
  /\ pc # "done"
  /\ \/ res.out # "running" /\ res' = res
     \/ /\ Ready /\ pc = "visit" /\ pos = Len(tree) /\ res.ambiguous
        /\ res' = [res EXCEPT !.out = "ambiguous"]
     \/ /\ Ready /\ pc = "pass" /\ res.open = << >>
        /\ res' = EndPass(res)
  /\ pc' = "done"
  /\ UNCHANGED <<variant, lib, tree, pos, todo>>

AssnNext == VisitCall \/ VisitAmbiguous \/ ResolveNext \/ BeginPass \/ Finish

AssnSpec == AssnInit /\ [][AssnNext]_assnVars

-----------------------------------------------------------------------------
(* Properties                                                              *)

Succeeded == pc = "done" /\ res.out = "resolved" /\ ~ res.inner
Deferred == Waiting(res) \cup res.left
Bound == res.env.asn

\* Every assertion bound, whether at once, from the cache, or after it was
\* deferred, is bound to a function that takes the type the final
\* environment gives its variable: the merges whose result resolveAssertion()
\* ignores succeed, and no later choice contradicts an earlier one.
BindingsFit ==
  Succeeded => \A d \in DOMAIN Bound :
                 /\ Bound[d].impl \in lib /\ Bound[d].impl.fn = d.fn
                 /\ Bound[d].impl.val \in {AnyType, res.env.bound[d.var]}

\* No assertion is lost: on success each assertion of the calls, and each that
\* a bound expression needs, is bound, or still among the deferred ones.
NothingForgotten ==
  Succeeded =>
    LET known == DOMAIN Bound \cup Deferred
    IN /\ \A i \in 1 .. Len(tree) : ToSet(Declared(tree[i].assns, i, 0)) \subseteq known
       /\ \A d \in DOMAIN Bound : ToSet(Bound[d].subs) \subseteq known

\* "Ensures that all assertions in an expression tree are resolved"
\* (resolve_assertions.h:31): on success none is left deferred.
AllAssertionsBound == Succeeded => Deferred = {}

\* The assertions of a tree of calls.
Demanded == UNION {ToSet(Declared(tree[i].assns, i, 0)) : i \in 1 .. Len(tree)}

CallsOnly == \A i \in 1 .. Len(tree) : tree[i].alts = {}
NoneNested == \A impl \in lib : impl.needs = << >> /\ impl.shape = "call"
ToldApart == \A x, y \in lib : x.fn = y.fn /\ TypeOf(x) = TypeOf(y) => x.val = y.val
NoneRepeated == \A d, e \in Demanded : d.fn = e.fn /\ d.var = e.var => d = e

\* No alternatives, no function with assertions of its own, and no casts; besides:
\* a function's result type tells which type it takes.  convertTo() keeps only
\* the cheapest of one result type, which may then contradict another assertion
\* that one it dropped would not.  With ASN=dca, no call asserts the same twice:
\* the assertions that share a key are chosen for, and paid for, once.
Plain == CallsOnly /\ NoneNested /\ ToldApart /\ (variant # "def" => NoneRepeated)

Assignments ==
  {f \in [Demanded -> lib] :
     /\ \A d \in Demanded : f[d].fn = d.fn
     /\ \A d, e \in Demanded : d.var = e.var =>
          AnyType \in {f[d].val, f[e].val} \/ f[d].val = f[e].val}
Total(f) == FoldFunction(LAMBDA impl, sum : impl.cost + sum, 0, f)

\* The assertion resolver's answer is the assignment that is cheaper than any
\* other, and it has one exactly where there is such an assignment.
FindsTheOneCheapest ==
  LET best == {f \in Assignments : \A g \in Assignments : Total(f) <= Total(g)}
  IN (Cardinality(best) = 1) = Succeeded
     /\ (Succeeded => [d \in Demanded |-> Bound[d].impl] \in best)

\* Binding what is unambiguous at once, and deferring the rest until the cheapest
\* compatible choice for all of it, loses nothing under the conditions of Plain:
\* the answer tells "whether all assertions can be consistently bound at a unique
\* minimum cost" (resolve_assertions.h:669).
FindsTheCheapest == pc = "done" /\ Plain => FindsTheOneCheapest

\* The same of any trees of calls, with no assertions within assertions, is false:
\* functions that their result types do not tell apart are bound too early, and
\* ASN=dca pays once for what is asserted twice.
FindsTheCheapestAnyhow ==
  pc = "done" /\ CallsOnly /\ NoneNested => FindsTheOneCheapest
=============================================================================
