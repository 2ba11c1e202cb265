------------------------------ MODULE BottomUp ------------------------------
(***************************************************************************)
(* Bottom-up resolution (src/resolver/resolver-bu.cc), in its two builds:  *)
(* DIR=bu matches the parameters of a function one by one against the      *)
(* interpretations of the arguments, DIR=co first combines those into      *)
(* argument lists and looks for functions that take each list.  Assertions *)
(* are resolved afterwards (Assertions).                                   *)
(*                                                                         *)
(* An expression is Value(type), Name(name) or Apply(name, args); path     *)
(* tells the nodes of one expression apart.  resolver.id_src gives every   *)
(* instantiation of a function an identifier of its own: here it is the    *)
(* node, the function, and the arguments if one is made for each of them.  *)
(***************************************************************************)
EXTENDS Interpretations

VARIABLE decls      \* the declarations in scope

Value(type) == [kind |-> "val", type |-> type]
Name(name) == [kind |-> "name", name |-> name]
Apply(name, args) == [kind |-> "call", name |-> name, args |-> args]

\* ResolverMode: its defaults, used for every argument, and top_level().
Mode(expand, void, truncate) ==
  [expand |-> expand, void |-> void, truncate |-> truncate]
ArgMode == Mode(TRUE, FALSE, TRUE)
TopLevel == Mode(FALSE, TRUE, TRUE)

\* mode.with_void_as(target)
VoidAs(mode, target) == [mode EXCEPT !.void = (target = << >>)]
WithoutConversions(mode) == [mode EXCEPT !.expand = FALSE]

\* The declarations of a name; functions returning nothing if mode allows.
Named(kind, name) == Listed({d \in decls : d.kind = kind /\ d.name = name})
Callable(name, mode) ==
  LET usable(func) == mode.void \/ func.returns # << >>
  IN SelectSeq(Named("func", name), usable)

ResolveVal(expr, env) ==
  <<Interpretation(Val(expr.type), expr.type, env, Zero, Zero)>>

ResolveName(expr, env) ==
  LET found == Named("var", expr.name)
  IN [k \in DOMAIN found |->
        Interpretation(Val(found[k].returns), found[k].returns, env, Zero, Zero)]

-----------------------------------------------------------------------------
(* Calls                                                                   *)

MatchNone(funcs, env, path) ==
  LET call(func) ==
        IF func.params # << >> THEN << >>
        ELSE <<Call(func, <<path, func.tag>>, << >>, env, Zero, Zero)>>
  IN ForEach(funcs, call)

\* What is left of env once the parameters of func have been unified with
\* the types of args, if they can be.
CallWith(func, args, env, cost, path) ==
  LET exprs == [k \in DOMAIN args |-> args[k].expr]
      types == FlattenSeq([k \in DOMAIN args |-> args[k].type])
      id == <<path, func.tag, exprs>>
      s == UnifyAll(Instantiate(func.params, func, id), types, State(env, Zero))
  IN IF Fails(s) THEN << >>
     ELSE <<Call(func, id, exprs, s.env, Plus(s.cost, cost), cost)>>

MatchOne(funcs, args, env, path) ==
  LET calls(arg) ==
        LET argEnv == IF arg.env = InvalidEnv THEN env ELSE arg.env
            call(func) == CallWith(func, <<arg>>, argEnv, arg.cost, path)
        IN ForEach(funcs, call)
  IN ForEach(args, calls)

\* DIR=bu.  One step of a match: each pack takes the next atom of its last
\* argument, or truncates it and takes the next argument.
TakenMore(pack, param) ==
  LET s == Unify(param, NextAtom(pack), State(pack.env, pack.cost))
  IN IF pack.left = 0 \/ Fails(s) THEN << >> ELSE <<TakeMore(pack, s)>>

TakenNext(pack, param, i) ==
  LET env == MergeEnv(pack.env, i)
      s == Unify(param, i.type[1], State(env, Plus(pack.cost, i.cost)))
  IN IF env = InvalidEnv \/ i.type = << >> \/ Fails(s) THEN << >>
     ELSE <<Take(pack, i, s)>>

NextTaken(pack, param, args) ==
  IF pack.next > Len(args) THEN << >>
  ELSE ForEach(args[pack.next], LAMBDA i : TakenNext(pack, param, i))

MatchParam(packs, param, args) ==
  ForEach(packs, LAMBDA pack : TakenMore(pack, param)
                               \o NextTaken(Truncated(pack), param, args))

\* The calls of func for the packs that have used all n arguments.
CallsOf(func, id, packs, n) ==
  LET call(pack) ==
        LET p == Truncated(pack)
        IN IF p.next # n + 1 THEN << >>
           ELSE <<Call(func, id, p.args, p.env, p.cost, p.argCost)>>
  IN ForEach(packs, call)

MatchEach(funcs, args, env, path) ==
  LET calls(func) ==
        LET id == <<path, func.tag>>
            packs == FoldLeft(LAMBDA ps, param : MatchParam(ps, param, args),
                              <<ArgPack(env)>>, Instantiate(func.params, func, id))
        IN IF Len(func.params) < Len(args) THEN << >>
           ELSE CallsOf(func, id, packs, Len(args))
  IN ForEach(funcs, calls)

\* DIR=co.  Every combination of unambiguous interpretations, with its cost.
Combos(args) ==
  LET merge(combos, queue) ==
        ForEach(combos, LAMBDA c : [k \in DOMAIN queue |-> Append(c, queue[k])])
      valid(combo) == \A k \in DOMAIN combo : ~ IsAmbiguous(combo[k])
  IN SelectSeq(FoldLeft(merge, <<<< >>>>, args), valid)

MatchCombined(funcs, args, env, path) ==
  LET calls(combo) ==
        LET cost == FoldLeft(LAMBDA sum, i : Plus(sum, i.cost), Zero, combo)
            merged == FoldLeft(MergeEnv, env, combo)
            call(func) == CallWith(func, combo, merged, cost, path)
        IN IF merged = InvalidEnv THEN << >> ELSE ForEach(funcs, call)
  IN ForEach(Combos(args), calls)

-----------------------------------------------------------------------------
(* Resolver::resolve and resolveWithType; dir is "bu" or "co"              *)

\* args has the interpretations of each argument.
Match(dir, funcs, args, env, path) ==
  CASE args = << >> -> MatchNone(funcs, env, path)
    [] Len(args) = 1 -> MatchOne(funcs, args[1], env, path)
    [] \E k \in DOMAIN args : args[k] = << >> -> << >>
    [] dir = "bu" -> MatchEach(funcs, args, env, path)
    [] OTHER -> MatchCombined(funcs, args, env, path)

ExpandedIf(mode, list) == IF mode.expand THEN ExpandConversions(list) ELSE list

RECURSIVE Resolve(_, _, _, _, _)
Resolve(dir, expr, env, mode, path) ==
  ExpandedIf(mode,
    CASE expr.kind = "val" -> ResolveVal(expr, env)
      [] expr.kind = "name" -> ResolveName(expr, env)
      [] OTHER -> Match(dir, Callable(expr.name, mode),
                        [k \in DOMAIN expr.args |->
                           Resolve(dir, expr.args[k], env, ArgMode, Append(path, k))],
                        env, path))

ResolveWithType(dir, expr, target, env) ==
  ConvertAll(target, Resolve(dir, expr, env,
                             VoidAs(WithoutConversions(ArgMode), target), << >>))
=============================================================================
