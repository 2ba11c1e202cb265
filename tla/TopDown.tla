------------------------------ MODULE TopDown -------------------------------
(***************************************************************************)
(* Top-down resolution (src/resolver/resolver-td.cc): an argument is       *)
(* resolved with the type of the parameter it is for, and the answers are  *)
(* kept in the argument cache (ArgCache, resolver.h).                      *)
(*                                                                         *)
(* Every operator that resolves takes the cache and returns it with its    *)
(* results.  The lookups of the type map are those it specifies (TypeMap   *)
(* is its own module).  Type variables stand for whole types here, so that *)
(* a target is partly polymorphic only if it is a tuple, and no conversion *)
(* leads to one (the second half of resolveToPoly).                        *)
(***************************************************************************)
EXTENDS BottomUp

\* typed is indexed by the target type too.
EmptyCache == [typed |-> << >>, untyped |-> << >>]
Found(cache, list) == [cache |-> cache, list |-> list]
Mapped(found, f(_)) == Found(found.cache, ForEach(found.list, f))
After(list, found) == Found(found.cache, list \o found.list)

\* cached(): the entry of a key, which is new if it is not there.
Remembered(new, which, key) ==
  Found([new.cache EXCEPT ![which] = (key :> new.list) @@ @], new.list)
Cached(cache, which, key, new) ==
  IF key \in DOMAIN cache[which] THEN Found(cache, cache[which][key])
  ELSE Remembered(new, which, key)

\* f for the elements of list in turn, the cache handed on.
InTurn(cache, list, f(_, _)) ==
  FoldLeft(LAMBDA acc, x : After(acc.list, f(acc.cache, x)),
           Found(cache, << >>), list)

\* CostedSubstitutor: the bound variables of type replaced, at a cost.
Substituted(type, env) ==
  LET bound(k) == IsVar(type[k]) /\ BoundOf(env, type[k]) # Null
  IN [type |-> [k \in DOMAIN type |-> IF bound(k) THEN BoundOf(env, type[k])
                                      ELSE type[k]],
      cost |-> Poly(Cardinality({k \in DOMAIN type : bound(k)}))]

IsPoly(type) == \E k \in DOMAIN type : IsVar(type[k])

\* Prefixes of a function's return type, as the keys of the type map.
HasPrefix(type, prefix) ==
  Len(type) >= Len(prefix) /\ SubSeq(type, 1, Len(prefix)) = prefix

\* get_poly_maps: target with some types replaced by variables.
PolyMatch(type, target) ==
  /\ Len(type) >= Len(target)
  /\ \A k \in DOMAIN target : type[k] = target[k] \/ IsVar(type[k])
  /\ \E k \in DOMAIN target : IsVar(type[k])

\* get_matching: a variable of target stands for any type, a variable included.
Matching(type, target) ==
  /\ Len(type) >= Len(target)
  /\ \A k \in DOMAIN target :
       IsVar(target[k]) \/ type[k] = target[k] \/ IsVar(type[k])

-----------------------------------------------------------------------------
(* What the results of a call become once they are fitted to target        *)

\* The first n atoms if there are more and truncate allows; first is the
\* interpretation's cost, and becomes its argument cost.
Fitted(i, n, truncate) ==
  LET extra == Len(i.type) - n
      type == SubSeq(i.type, 1, n)
  IN IF truncate /\ extra > 0
     THEN Interpretation(Converted(i.expr, type), type, i.env,
                         Plus(i.cost, Safe(extra)), i.cost)
     ELSE [i EXCEPT !.argCost = i.cost]

\* The first atom converted by conv, to whatever type that leads.
Cast(i, conv, truncate) ==
  LET f == Fitted(i, 1, truncate)
      type == <<conv.to>> \o Tail(f.type)
  IN Interpretation(Converted(i.expr, type), type, i.env, Plus(f.cost, conv.cost), i.cost)

\* resolveToUnbound: i as the binding of the variable var, which lacks one.
Bound(i, var, env, truncate) ==
  LET merged == MergeEnv(env, i)
      atom == i.type[1]
      s == UnifyAll(<<var>>, <<atom>>, State(merged, i.cost))
      f == Fitted([i EXCEPT !.env = s.env, !.cost = s.cost], 1, truncate)
  IN IF merged = InvalidEnv \/ i.type = << >> \/ Fails(s) THEN << >>
     ELSE <<[f EXCEPT !.argCost = i.argCost]>>

-----------------------------------------------------------------------------

RECURSIVE ResolveToAny(_, _, _, _, _, _), ResolveTop(_, _, _, _, _),
          ResolveWithExtType(_, _, _, _, _, _)

\* resolveToUnbound: what was found under the first caller's env serves all.
ResolveToUnbound(cache, expr, var, env, mode, path) ==
  Mapped(Cached(cache, "untyped", <<path, ArgMode>>,
                ResolveTop(cache, expr, env, ArgMode, path)),
         LAMBDA i : Bound(i, var, env, mode.truncate))

\* The next argument of pack p, resolved as the parameter's type.
NextArg(cache, p, param, expr, mode, path) ==
  IF p.next > Len(expr.args) THEN Found(cache, << >>)
  ELSE Mapped(ResolveWithExtType(cache, expr.args[p.next], <<param>>, p.env,
                                 [mode EXCEPT !.truncate = FALSE],
                                 Append(path, p.next)),
              LAMBDA i : <<Take(p, i, State(i.env, Plus(p.cost, i.cost)))>>)

\* One parameter of a call: what MatchParam does, but the next argument is
\* resolved here.
MatchParamTD(found, param, expr, mode, path) ==
  InTurn(found.cache, found.list,
         LAMBDA cache, pack :
           After(TakenMore(pack, param),
                 NextArg(cache, Truncated(pack), param, expr, mode, path)))

\* The calls of func with one argument, which serves all parameters, and with
\* several.
CallOne(cache, func, expr, env, mode, path) ==
  LET id == <<path, func.tag>>
      call(i) == <<Call(func, id, <<i.expr>>, i.env, i.cost, i.argCost)>>
  IN Mapped(ResolveWithExtType(cache, expr.args[1],
                               Instantiate(func.params, func, id), env, mode,
                               Append(path, 1)),
            call)

CallEach(cache, func, expr, env, mode, path) ==
  LET id == <<path, func.tag>>
      calls(pack) == CallsOf(func, id, <<pack>>, Len(expr.args))
  IN Mapped(FoldLeft(LAMBDA f, param : MatchParamTD(f, param, expr, mode, path),
                     Found(cache, <<ArgPack(env)>>),
                     Instantiate(func.params, func, id)),
            calls)

AllExpanded(mode, found) == Found(found.cache, ExpandedIf(mode, found.list))

ResolveToAny(cache, funcs, expr, env, mode, path) ==
  LET n == Len(expr.args)
      usable(func) == /\ mode.void \/ func.returns # << >>
                      /\ Len(func.params) >= n
                      /\ (func.params = << >>) = (n = 0)
  IN AllExpanded(mode,
       InTurn(cache, SelectSeq(funcs, usable),
              LAMBDA c, func :
                CASE n = 0 -> Found(c, MatchNone(<<func>>, env, path))
                  [] n = 1 -> CallOne(c, func, expr, env, mode, path)
                  [] OTHER -> CallEach(c, func, expr, env, mode, path)))

\* The calls of the functions whose return type test accepts, as fit leaves
\* them: what resolveTo and resolveToPoly do for one lookup.
CallsReturning(cache, expr, mode, path, test(_), fit(_)) ==
  LET returning(func) == test(func.returns)
  IN Mapped(ResolveToAny(cache, SelectSeq(Named("func", expr.name), returning),
                         expr, EmptyEnv, mode, path),
            fit)

\* A polymorphic result as the target.
Unified(i, s) == IF Fails(s) THEN << >>
                 ELSE <<[i EXCEPT !.env = s.env, !.cost = s.cost, !.argCost = i.cost]>>

\* The functions that return target, then those that return what converts to
\* it as find_to() has it, then those that return a variable.
ResolveTo(cache, expr, target, mode, path) ==
  LET sub == WithoutConversions(mode)
      convs == IF Len(target) = 1 THEN Listed(FindTo(target[1])) ELSE << >>
      lookups == <<[by |-> "type"]>>
                 \o [k \in DOMAIN convs |-> [by |-> "conv", conv |-> convs[k]]]
                 \o <<[by |-> "poly"]>>
      returns(l, type) == CASE l.by = "type" -> HasPrefix(type, target)
                            [] l.by = "conv" -> HasPrefix(type, <<l.conv.from>>)
                            [] l.by = "poly" -> PolyMatch(type, target)
      fit(l, i) ==
        CASE l.by = "type" -> <<Fitted(i, Len(target), mode.truncate)>>
          [] l.by = "conv" -> <<Cast(i, l.conv, mode.truncate)>>
          [] l.by = "poly" -> Unified(i, UnifyAll(target, i.type, State(i.env, i.cost)))
  IN InTurn(cache, lookups,
            LAMBDA c, l :
              CallsReturning(c, expr, IF l.by = "type" THEN VoidAs(sub, target) ELSE sub,
                             path, LAMBDA type : returns(l, type), LAMBDA i : fit(l, i)))

ResolveToPoly(cache, expr, target, mode, path) ==
  CallsReturning(cache, expr, VoidAs(WithoutConversions(mode), target), path,
                 LAMBDA type : Matching(type, target),
                 LAMBDA i : <<Fitted(i, Len(target), mode.truncate)>>)

\* The answers of the cache under env: the target's variables, if any are
\* left, and the environment the answer brings.
MergedInto(s, i) ==
  LET merged == IF Fails(s) THEN InvalidEnv ELSE MergeEnv(s.env, i)
  IN IF merged = InvalidEnv THEN << >> ELSE <<[i EXCEPT !.env = merged, !.cost = s.cost]>>

UnderEnv(subs, target, env, cost) ==
  LET unified(i, s) ==
        IF IsPoly(target)
        THEN UnifyAll(target, IF Len(i.type) > 1 THEN <<i.type[1]>> ELSE i.type, s)
        ELSE s
      under(i) ==
        MergedInto(unified(i, State(env, IF IsPoly(i.type) THEN i.cost
                                         ELSE Plus(cost, i.cost))),
                   i)
  IN IF env = EmptyEnv /\ cost = Zero THEN subs ELSE Mapped(subs, under)

ResolveWithExtType(cache, expr, type, env, mode, path) ==
  LET sub == Substituted(type, env)
      target == sub.type
  IN CASE Len(target) = 1 /\ IsPoly(target) ->
            ResolveToUnbound(cache, expr, target[1], env, mode, path)
       [] expr.kind = "val" ->
            Found(cache, ConvertedAs(ResolveVal(expr, env)[1],
                                     ConvertTo(target, expr.type, State(env, sub.cost),
                                               mode.truncate)))
       [] expr.kind = "name" -> Found(cache, ConvertAll(target, ResolveName(expr, env)))
       [] OTHER ->
            UnderEnv(Cached(cache, "typed", <<target, path, mode>>,
                            IF IsPoly(target)
                            THEN ResolveToPoly(cache, expr, target, mode, path)
                            ELSE ResolveTo(cache, expr, target, mode, path)),
                     target, env, sub.cost)

\* Resolver::resolve
ResolveTop(cache, expr, env, mode, path) ==
  AllExpanded(mode,
    CASE expr.kind = "val" -> Found(cache, ResolveVal(expr, env))
      [] expr.kind = "name" -> Found(cache, ResolveName(expr, env))
      [] OTHER -> ResolveToAny(cache, Named("func", expr.name), expr, env,
                               WithoutConversions(mode), path))
=============================================================================
