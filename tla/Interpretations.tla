-------------------------- MODULE Interpretations ---------------------------
(***************************************************************************)
(* What the resolver computes with: costs (cost.h), interpretations        *)
(* (interpretation.h), their conversions (expand_conversions.h), unifying  *)
(* the types of arguments and parameters (unify.h), and building the       *)
(* arguments of a call (arg_pack.h).                                       *)
(*                                                                         *)
(* A type is the sequence of its atoms: empty for void, longer than one    *)
(* for a tuple.  An atom is a basic type, or a type variable instantiated  *)
(* for one call, <<name, id>>.  An environment is the set of its classes.  *)
(* Types with parameters, and functions as values, are left to EnvPer.     *)
(***************************************************************************)
EXTENDS Integers, SequencesExt

CONSTANTS Conc, Null,   \* basic types; the null pointer
          Conversion    \* the conversions, [from, to, cost]

VARIABLE arrival        \* the basic types, in the order of addType()

\* A set as a list, in some order.
Listed(S) == FoldSet(LAMBDA x, list : Append(list, x), << >>, S)

\* The lists that f gives for the elements of list, one after the other.
ForEach(list, f(_)) == FlattenSeq([k \in DOMAIN list |-> f(list[k])])

-----------------------------------------------------------------------------
(* Costs: unsafe, poly, vars, spec and safe, in that order                 *)

Zero == <<0, 0, 0, 0, 0>>
Poly(n) == <<0, n, 0, 0, 0>>
Safe(n) == <<0, 0, 0, 0, n>>
Plus(a, b) == [i \in 1 .. 5 |-> a[i] + b[i]]

\* Specialisations lower a cost: they are compared the other way round.
Less(a, b) ==
  \E i \in 1 .. 5 : /\ \A j \in 1 .. i - 1 : a[j] = b[j]
                    /\ IF i = 4 THEN a[i] > b[i] ELSE a[i] < b[i]

-----------------------------------------------------------------------------
(* Environments                                                            *)

EmptyEnv == {}
InvalidEnv == {Null}
Class(vs, bound) == [vars |-> vs, bound |-> bound]

\* The env with class c joined in: invalid if two bounds conflict.
AddClass(env, c) ==
  IF env = InvalidEnv THEN env
  ELSE LET hit == {d \in env : d.vars \cap c.vars # {}}
           bounds == {d.bound : d \in hit \cup {c}} \ {Null}
       IN IF Cardinality(bounds) > 1 THEN InvalidEnv
          ELSE (env \ hit)
               \cup {Class(c.vars \cup UNION {d.vars : d \in hit},
                           IF bounds = {} THEN Null
                           ELSE CHOOSE b \in bounds : TRUE)}

Merge(env, from) == FoldSet(LAMBDA c, acc : AddClass(acc, c), env, from)

IsVar(atom) == atom \notin Conc
BoundOf(env, v) ==
  LET cs == {c \in env : v \in c.vars}
  IN IF cs = {} THEN Null ELSE (CHOOSE c \in cs : TRUE).bound

-----------------------------------------------------------------------------
(* Unification.  s is [env, cost]; an invalid env is failure.              *)

State(env, cost) == [env |-> env, cost |-> cost]
Fails(s) == s.env = InvalidEnv
NoMatch == State(InvalidEnv, Zero)

\* TypeUnifier: each variable that takes part counts as one binding.
Unify(param, arg, s) ==
  LET vs == {param, arg} \ Conc
      conc == {param, arg} \cap Conc
      n == IF IsVar(param) /\ IsVar(arg) THEN 2 ELSE Cardinality(vs)
  IN IF vs = {} THEN IF param = arg THEN s ELSE NoMatch
     ELSE State(AddClass(s.env, Class(vs, IF conc = {} THEN Null
                                          ELSE CHOOSE t \in conc : TRUE)),
                Plus(s.cost, Poly(n)))

\* Element by element; of tuples, and of the lists of a call.
UnifyAll(params, args, s) ==
  IF Len(params) # Len(args) THEN NoMatch
  ELSE FoldLeft(LAMBDA acc, i : IF Fails(acc) THEN acc
                                ELSE Unify(params[i], args[i], acc),
                s, [i \in 1 .. Len(params) |-> i])

-----------------------------------------------------------------------------
(* Interpretations.  A typed expression is a value or a variable, a call   *)
(* of an instance of a function, or an ambiguous choice of                 *)
(* interpretations; casts and truncations only mark the type they lead to. *)

Val(type) == <<"val", type>>
CallOf(func, id, args) == <<"call", func, id, args>>
Converted(expr, type) == <<"conv", expr, type>>
Ambiguous(alts) == <<"amb", alts>>

Interpretation(expr, type, env, cost, argCost) ==
  [expr |-> expr, type |-> type, env |-> env, cost |-> cost,
   argCost |-> argCost]

IsAmbiguous(i) == i.expr[1] = "amb"

CheaperThan(i, j) ==
  \/ Less(i.cost, j.cost)
  \/ i.cost = j.cost /\ Less(i.argCost, j.argCost)

Alternatives(i) == IF IsAmbiguous(i) THEN i.expr[2] ELSE {i}

\* Mutant of MergeAmbiguous: the later of two equals is dropped.
KeepEarlier(i, j) == i

MergeAmbiguous(i, j) ==
  Interpretation(Ambiguous(Alternatives(i) \cup Alternatives(j)), i.type,
                 InvalidEnv, i.cost, i.argCost)

\* Mutant of MergeEnv: what the argument has bound is forgotten.
OwnEnv(env, i) == env

\* The environment of an interpretation, merged into env if it has one.
MergeEnv(env, i) == IF i.env = InvalidEnv THEN env ELSE Merge(env, i.env)

-----------------------------------------------------------------------------
(* Looking conversions up                                                  *)
(*                                                                         *)
(* Conversions has the graph and how addType() fills it.  Its readers see: *)
(* with each type, all conversions from it, and of the conversions between *)
(* it and older types those in both directions (conversion.cc:117).        *)

Older(type) ==
  {arrival[j] : j \in {k \in DOMAIN arrival :
                        \E n \in DOMAIN arrival : k < n /\ arrival[n] = type}}

FindFrom(type) == {c \in Conversion : c.from = type}

FindTo(type) == {c \in Conversion : \/ c.to = type /\ c.from \in Older(type)
                                    \/ c.from = type /\ c.to \in Older(type)}

\* The shorter list is searched.  The set is empty for nullptr.
FindBetween(from, to) ==
  IF Cardinality(FindTo(to)) < Cardinality(FindFrom(from))
  THEN {c \in FindTo(to) : c.from = from}
  ELSE {c \in FindFrom(from) : c.to = to}

-----------------------------------------------------------------------------
(* Conversions                                                             *)

\* Mutant of SetOrUpdate: the first interpretation of a type stays.
SetOnce(expanded, i) ==
  IF i.type \in DOMAIN expanded THEN expanded ELSE (i.type :> i) @@ expanded

\* expanded maps each type reached to its interpretation so far.
SetOrUpdate(expanded, i) ==
  LET set(x) == (i.type :> x) @@ expanded
  IN IF i.type \notin DOMAIN expanded THEN set(i)
     ELSE LET j == expanded[i.type]
          IN IF CheaperThan(i, j) THEN set(i)
             ELSE IF CheaperThan(j, i) THEN expanded
             ELSE set(MergeAmbiguous(j, i))

NoConversion(atom) == [from |-> atom, to |-> atom, cost |-> Zero]

\* One interpretation for each choice of conversions, or none, of the atoms.
ExpansionsBy(i, conversions) ==
  LET n == Len(i.type)
      steps == {c \in conversions : c.from \in ToSet(i.type)}
               \cup {NoConversion(i.type[k]) : k \in 1 .. n}
      choices == {q \in [1 .. n -> steps] : \A k \in 1 .. n : q[k].from = i.type[k]}
      to(q) == [k \in 1 .. n |-> q[k].to]
      cost(q) == FoldLeft(LAMBDA sum, c : Plus(sum, c.cost), i.cost, q)
  IN {IF to(q) = i.type THEN i
      ELSE Interpretation(Converted(i.expr, to(q)), to(q), i.env, cost(q), i.argCost)
      : q \in choices}

Expansions(i) ==
  ExpansionsBy(i, UNION {FindFrom(i.type[k]) : k \in DOMAIN i.type})

\* The interpretations is, one after the other.
Updated(expanded, is) == FoldLeft(SetOrUpdate, expanded, is)

Expand(expanded, i) == Updated(expanded, Listed(Expansions(i)))

Values(expanded) == Listed({expanded[t] : t \in DOMAIN expanded})

ExpandConversions(results) == Values(FoldLeft(Expand, << >>, results))

\* convertTo() of an expression: s with the type that results, "keep" if the
\* expression itself serves.
Conversed(s, type, keep) ==
  [env |-> s.env, cost |-> s.cost, type |-> type, keep |-> keep]
Unconvertible == Conversed(NoMatch, << >>, FALSE)

ClassBinds(var, conc, s, type) ==
  LET env == AddClass(s.env, Class({var}, conc))
  IN Conversed(State(env, Plus(s.cost, Poly(1))), type, TRUE)

ConvertAtom(target, atom, s) ==
  LET between == FindBetween(atom, target)
      conv == CHOOSE c \in between : TRUE
  IN CASE ~ IsVar(atom) /\ ~ IsVar(target) ->
            IF atom = target THEN Conversed(s, <<atom>>, TRUE)
            ELSE IF between = {} THEN Unconvertible
            ELSE Conversed(State(s.env, Plus(s.cost, conv.cost)), <<target>>, FALSE)
       [] ~ IsVar(atom) /\ IsVar(target) -> ClassBinds(target, atom, s, <<atom>>)
       [] IsVar(atom) /\ ~ IsVar(target) -> ClassBinds(atom, target, s, <<atom>>)
       [] OTHER -> Conversed(State(AddClass(s.env, Class({atom, target}, Null)),
                                   Plus(s.cost, Poly(1))), <<atom>>, TRUE)

\* Truncation: n atoms trimmed are a safe cost.
Trimmed(s, type, n, keep) ==
  Conversed(State(s.env, Plus(s.cost, Safe(n))), type, keep)

\* The first elements converted one by one; type collects what results.
Joined(acc, el) == IF Fails(acc) THEN acc
                   ELSE Conversed(el, acc.type \o el.type, acc.keep /\ el.keep)
ConvertPrefix(target, type, s) ==
  FoldLeft(LAMBDA acc, k : Joined(acc, ConvertAtom(target[k], type[k], acc)),
           Conversed(s, << >>, TRUE), [k \in 1 .. Len(target) |-> k])

\* What becomes of the elements after the converted ones.
WithRest(prefix, rest, truncate) ==
  CASE Fails(prefix) -> Unconvertible
    [] rest = << >> -> prefix
    [] truncate -> Trimmed(prefix, prefix.type, Len(rest), FALSE)
    [] OTHER -> Conversed(prefix, prefix.type \o rest, prefix.keep)

ConvertTo(target, type, s, truncate) ==
  LET tn == Len(target)
      en == Len(type)
  IN CASE tn > en -> Unconvertible
       [] en = 0 -> Conversed(s, type, TRUE)
       [] tn = 0 /\ en = 1 /\ IsVar(type[1]) -> Unconvertible
       [] tn = 0 -> IF truncate THEN Trimmed(s, target, en, FALSE)
                    ELSE Conversed(s, type, TRUE)
       [] OTHER -> WithRest(ConvertPrefix(target, type, s),
                            SubSeq(type, tn + 1, en), truncate)

\* Interpretation i as what its expression was converted to, if it was.
ConvertedAs(i, to) ==
  IF Fails(to) THEN << >>
  ELSE <<Interpretation(IF to.keep THEN i.expr ELSE Converted(i.expr, to.type),
                        to.type, to.env, to.cost, i.argCost)>>

\* convertTo() of a list: the best for each type that results.
ConvertAll(target, results) ==
  LET fitting(i) ==
        IF i.type = target THEN <<i>>
        ELSE ConvertedAs(i, ConvertTo(target, i.type, State(i.env, i.cost), TRUE))
  IN Values(Updated(<< >>, ForEach(results, fitting)))

-----------------------------------------------------------------------------
(* Declarations and argument packs                                         *)

\* A declaration of a function; its type names its own variables, vs.
Func(name, tag, params, returns, vs) ==
  [kind |-> "func", name |-> name, tag |-> tag, params |-> params,
   returns |-> returns, vars |-> vs, assertions |-> 0]

\* A declaration of a variable.
Variable(name, tag, type) ==
  [kind |-> "var", name |-> name, tag |-> tag, returns |-> type]

\* FuncDecl::poly_cost
PolyCost(func) == <<0, 0, Cardinality(func.vars), func.assertions, 0>>

\* ForallSubstitutor: the variables of one instantiation.
Instantiate(type, func, id) ==
  [k \in 1 .. Len(type) |-> IF type[k] \in func.vars THEN <<type[k], id>>
                            ELSE type[k]]

\* The interpretation of a call whose arguments have been matched.
Call(func, id, args, env, cost, argCost) ==
  Interpretation(CallOf(func, id, args), Instantiate(func.returns, func, id), env,
                 Plus(PolyCost(func), cost), argCost)

\* crnt is the type of the last argument while some of its atoms, left of
\* them, are still to be matched.
ArgPack(env) ==
  [env |-> env, cost |-> Zero, argCost |-> Zero, args |-> << >>,
   crnt |-> << >>, left |-> 0, next |-> 1]

\* The argument's expression is appended at once, and truncated later if its
\* last atoms stay unmatched.
Take(pack, i, s) ==
  [env |-> s.env, cost |-> s.cost, argCost |-> Plus(pack.argCost, i.argCost),
   args |-> Append(pack.args, i.expr), crnt |-> i.type, left |-> Len(i.type) - 1,
   next |-> pack.next + 1]

TakeMore(pack, s) ==
  [pack EXCEPT !.env = s.env, !.cost = s.cost, !.left = @ - 1]

NextAtom(pack) == pack.crnt[Len(pack.crnt) - pack.left + 1]

\* truncate(): the cost is the number of atoms kept.
Truncated(pack) ==
  LET trunc == Len(pack.crnt) - pack.left
      n == Len(pack.args)
  IN IF pack.left = 0 THEN pack
     ELSE [pack EXCEPT
             !.args[n] = Converted(@, SubSeq(pack.crnt, 1, trunc)),
             !.cost = Plus(@, Safe(trunc)),
             !.left = 0]
=============================================================================
