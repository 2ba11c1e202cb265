----------------------------- MODULE Directions -----------------------------
(***************************************************************************)
(* One question to the resolver, in each of its three builds: DIR=bu and   *)
(* DIR=co (BottomUp), and DIR=td (TopDown).  Declarations come in, an      *)
(* expression is resolved, on its own or as a given type, and the results  *)
(* are expanded by their conversions, one after the other, as              *)
(* expandConversions() does for every argument (expand_conversions.h).     *)
(*                                                                         *)
(* What the three should find is Typings: every way to choose functions    *)
(* and conversions, with nothing left out because something else is        *)
(* cheaper or was found before.  DIR=td looks conversions up by the type   *)
(* they lead to, which depends on the order in which the types came in, so *)
(* that what it should find is stated from above and from below.           *)
(***************************************************************************)
EXTENDS TopDown

CONSTANTS Pool, MaxDecls,   \* what may be declared, and how much of it
          Exprs, Targets,   \* what is asked for, and as which types
          MaxExpanded,      \* how many answers are expanded in every order
          Arrivals          \* the orders in which the types may come in

VARIABLES dir,          \* the build: "bu", "co" or "td"
          question,     \* [expr, target], or Null
          answers,      \* the interpretations found
          todo,         \* indices of those not expanded yet
          expanded      \* the cheapest interpretation for each type so far

vars == <<decls, arrival, dir, question, answers, todo, expanded>>

\* parse_type() adds every type when it first meets it: all of them have been
\* met, in earlier lines, when the declarations come in.
Init ==
  /\ arrival \in Arrivals
  /\ decls = {}
  /\ dir \in {"bu", "co", "td"}
  /\ question = Null
  /\ answers = << >>
  /\ todo = {}
  /\ expanded = << >>

\* Resolver::addDecl
AddDecl ==
  /\ question = Null
  /\ Cardinality(decls) < MaxDecls
  /\ \E d \in Pool : d \notin decls /\ decls' = decls \cup {d}
  /\ UNCHANGED <<arrival, dir, question, answers, todo, expanded>>

\* Resolver::resolve, up to its last line.
Ask(expr) ==
  LET mode == WithoutConversions(ArgMode)
      found == IF dir = "td" THEN ResolveTop(EmptyCache, expr, EmptyEnv, mode, << >>).list
               ELSE Resolve(dir, expr, EmptyEnv, mode, << >>)
  IN /\ question = Null
     /\ question' = [expr |-> expr, target |-> Null]
     /\ answers' = found
     /\ todo' = DOMAIN found
     /\ UNCHANGED <<decls, arrival, dir, expanded>>

\* The last line: expandConversions(), in whatever order the hash table of
\* functions listed the results.
ExpandOne ==
  /\ Len(answers) <= MaxExpanded
  /\ \E k \in todo : /\ expanded' = Expand(expanded, answers[k])
                     /\ todo' = todo \ {k}
  /\ UNCHANGED <<decls, arrival, dir, question, answers>>

\* Resolver::resolveWithType
AskAs(expr, target) ==
  /\ question = Null
  /\ question' = [expr |-> expr, target |-> target]
  /\ answers' = IF dir = "td"
                THEN ResolveWithExtType(EmptyCache, expr, target, EmptyEnv,
                                        ArgMode, << >>).list
                ELSE ResolveWithType(dir, expr, target, EmptyEnv)
  /\ UNCHANGED <<decls, arrival, dir, todo, expanded>>

Next ==
  \/ AddDecl
  \/ \E expr \in Exprs : Ask(expr) \/ \E target \in Targets : AskAs(expr, target)
  \/ ExpandOne

Spec == Init /\ [][Next]_vars

-----------------------------------------------------------------------------
(* The reference                                                           *)

(* With every conversion there is, or with those that DIR=td finds for an  *)
(* argument: through find_to() for a call, and find_between() for others.  *)

Lookups(expr, found) ==
  CASE ~ found \/ dir # "td" -> Conversion
    [] expr.kind = "call" -> {c \in Conversion : c \in FindTo(c.to)}
    [] OTHER -> {c \in Conversion : c \in FindBetween(c.from, c.to)}

AllExpansions(is, conversions) ==
  Listed(UNION {ExpansionsBy(is[k], conversions) : k \in DOMAIN is})

RECURSIVE Typings(_, _, _, _)
Typings(expr, mode, found, path) ==
  LET arg(k) == AllExpansions(Typings(expr.args[k], ArgMode, found, Append(path, k)),
                              Lookups(expr.args[k], found))
  IN CASE expr.kind = "val" -> ResolveVal(expr, EmptyEnv)
       [] expr.kind = "name" -> ResolveName(expr, EmptyEnv)
       [] OTHER -> MatchCombined(Callable(expr.name, mode),
                                 [k \in DOMAIN expr.args |-> arg(k)], EmptyEnv, path)

TypingsAs(expr, target, found) ==
  LET known(i) == \A k \in DOMAIN i.type \cap DOMAIN target :
                    \/ i.type[k] = target[k] \/ IsVar(i.type[k])
                    \/ \E c \in Lookups(expr, found) : c.from = i.type[k] /\ c.to = target[k]
      to(i) == ConvertTo(target, i.type, State(i.env, i.cost), TRUE)
  IN {s \in {to(i) : i \in {j \in ToSet(Typings(expr, VoidAs(ArgMode, target), found, << >>)) :
                              known(j)}} :
        ~ Fails(s)}

Costs(is) == {is[k].cost : k \in DOMAIN is}

\* What the typings of the question cost; of those that can be found only.
TypingCosts(found) ==
  IF question.target = Null
  THEN Costs(Typings(question.expr, ArgMode, found, << >>))
  ELSE {t.cost : t \in TypingsAs(question.expr, question.target, found)}

\* Two ways of typing an argument that cost the same: DIR=co drops both.
RECURSIVE Ambiguities(_, _)
Ambiguities(expr, path) ==
  IF expr.kind # "call" THEN FALSE
  ELSE \E k \in DOMAIN expr.args :
         LET arg == AllExpansions(Typings(expr.args[k], ArgMode, FALSE, Append(path, k)),
                                  Conversion)
         IN \/ \E m, n \in DOMAIN arg : /\ m # n
                                        /\ arg[m].type = arg[n].type
                                        /\ arg[m].cost = arg[n].cost
            \/ Ambiguities(expr.args[k], Append(path, k))

\* Declarations that the build treats as it should for this question: see the
\* README on the others.  Interpretations whose type is a variable are taken
\* for the same type, whatever the variable is bound to, unless each has an
\* instantiation of its own.
Nested(expr) ==
  expr.kind = "call" /\ \E k \in DOMAIN expr.args : expr.args[k].kind = "call"

ReturnsVar(func) == \E k \in DOMAIN func.returns : func.returns[k] \in func.vars

PolyParams(func) == {k \in DOMAIN func.params : func.params[k] \in func.vars}

Simple(d) ==
  /\ Len(d.returns) <= 1
  /\ d.kind = "func" =>
       /\ Cardinality(PolyParams(d)) <= Cardinality(d.vars)
       /\ question.target = << >> => d.vars = {}
       /\ ReturnsVar(d) => CASE dir = "bu" -> Len(d.params) = 1
                             [] dir = "co" -> TRUE
                             [] dir = "td" -> ~ Nested(question.expr)

\* The argument cache of DIR=td serves two type variables badly.
Plain(d) ==
  Simple(d) /\ (dir = "td" /\ d.kind = "func" => Cardinality(PolyParams(d)) <= 1)

-----------------------------------------------------------------------------
(* Properties                                                              *)

\* An atom under env: a basic type, or the class of a variable.
Replaced(atom, env) ==
  IF ~ IsVar(atom) THEN atom
  ELSE IF BoundOf(env, atom) # Null THEN BoundOf(env, atom)
  ELSE UNION ({{atom}} \cup {c.vars : c \in {d \in env : atom \in d.vars}})

SameUnder(env, s, t) ==
  /\ Len(s) = Len(t)
  /\ \A k \in DOMAIN s : Replaced(s[k], env) = Replaced(t[k], env)

TypeOf(expr) ==
  CASE expr[1] = "val" -> expr[2]
    [] expr[1] = "conv" -> expr[3]
    [] expr[1] = "call" -> Instantiate(expr[2].returns, expr[2], expr[3])
    [] OTHER -> (CHOOSE i \in expr[2] : TRUE).type

\* Every call in expr gets arguments of its parameters' types, and every cast
\* is one of the conversions, with some atoms dropped at the end.
RECURSIVE Fits(_, _)
Fits(expr, env) ==
  CASE expr[1] = "conv" ->
         LET from == TypeOf(expr[2])
         IN /\ Len(expr[3]) <= Len(from)
            /\ \A k \in DOMAIN expr[3] :
                 \/ Replaced(expr[3][k], env) = Replaced(from[k], env)
                 \/ \E c \in Conversion : c.from = from[k] /\ c.to = expr[3][k]
            /\ Fits(expr[2], env)
    [] expr[1] = "call" ->
         LET args == expr[4]
         IN /\ SameUnder(env, Instantiate(expr[2].params, expr[2], expr[3]),
                         FlattenSeq([k \in DOMAIN args |-> TypeOf(args[k])]))
            /\ \A k \in DOMAIN args : Fits(args[k], env)
    [] OTHER -> TRUE

\* The type of an answer under its environment, and of all that it is built of.
WellTyped(i) ==
  i.env # InvalidEnv =>
    /\ Fits(i.expr, i.env)
    /\ TypeOf(i.expr) = i.type
    /\ question.target # Null => SameUnder(i.env, i.type, question.target)

\* An argument among several is not truncated, and a call of one argument hands
\* that on to its own argument.
RECURSIVE HandsOn(_)
HandsOn(expr) ==
  expr.kind = "call" /\ \E k \in DOMAIN expr.args :
    LET arg == expr.args[k]
    IN \/ HandsOn(arg)
       \/ Len(expr.args) > 1 /\ arg.kind = "call" /\ Len(arg.args) = 1
          /\ arg.args[1].kind = "call"

ReturnsTuple(d) == Len(d.returns) > 1

\* Every answer that can be chosen is well typed under its own environment, and
\* has the type it was asked for: whatever was merged, cached or truncated on
\* the way (resolver-bu.cc, resolver-td.cc, expand_conversions.h, arg_pack.h).
\* DIR=td also has dearer answers, in which find_to() gave a conversion from the
\* type asked for, and does not truncate what is handed on: see the README.
AnswersFit ==
  \A k \in DOMAIN answers :
    \/ WellTyped(answers[k])
    \/ dir = "td" /\ \/ \E j \in DOMAIN answers : Less(answers[j].cost, answers[k].cost)
                     \/ HandsOn(question.expr) /\ \E d \in decls : ReturnsTuple(d)

\* "Resolves expression with the target type" (resolver-td.cc:475): of every
\* answer of every build, whatever it costs.
AllAnswersFit == \A k \in DOMAIN answers : WellTyped(answers[k])

\* Questions and scopes to compare with typings, once: expanding the answers
\* does not change them.
Compared ==
  /\ question # Null /\ expanded = << >>
  /\ \A d \in decls : Plain(d)
  /\ ~ (dir = "co" /\ Ambiguities(question.expr, << >>))

NoneMissed(costs) == \A t \in costs : \E c \in Costs(answers) : ~ Less(t, c)

\* The argument cache of DIR=td holds interpretations "under same environment"
\* (resolver.h:156): so that nothing is missed because an argument was resolved
\* before, while another type variable had another type.
CacheLosesNothing ==
  question # Null /\ dir = "td" /\ (\A d \in decls : Simple(d)) =>
    NoneMissed(TypingCosts(TRUE))

\* No answer is cheaper than every typing, and no typing whose conversions can be
\* found is cheaper than every answer: nothing is lost by keeping the cheapest
\* interpretation for each type of an argument only (expand_conversions.h:27),
\* by combining arguments first, or by asking for the types of parameters.
\* DIR=bu and co find every conversion of an argument, and so the cheapest of
\* all typings.
CheapestIsFound ==
  Compared =>
    LET all == TypingCosts(FALSE)
    IN /\ \A c \in Costs(answers) : \E t \in all : ~ Less(c, t)
       /\ NoneMissed(IF dir = "td" THEN TypingCosts(TRUE) ELSE all)

\* "Returns a range containing all the conversions to ty" (conversion.h:160): so
\* that DIR=td, too, finds the cheapest of all typings.
CheapestOfAllIsFound == Compared => NoneMissed(TypingCosts(FALSE))

\* Whatever the order in which results are expanded, each type is left with the
\* cheapest interpretation that leads to it, and with an ambiguous one of all
\* the cheapest if there are several (setOrUpdateInterpretation).
ExpansionIsCheapest ==
  LET all == UNION {Expansions(answers[k]) : k \in DOMAIN answers \ todo}
      best(type) == {i \in all : i.type = type /\ \A j \in all :
                                   j.type = type => ~ CheaperThan(j, i)}
  IN question # Null /\ question.target = Null =>
       /\ DOMAIN expanded = {i.type : i \in all}
       /\ \A type \in DOMAIN expanded : Alternatives(expanded[type]) = best(type)

\* "Merges two interpretations (must have same cost, type, and underlying
\* expression)" (interpretation.h:64): alternatives that are merged as
\* ambiguous have the same type, each under its own environment.
MergedAreOneType ==
  \A type \in DOMAIN expanded :
    \A i, j \in Alternatives(expanded[type]) :
      \A k \in DOMAIN type : Replaced(type[k], i.env) = Replaced(type[k], j.env)
=============================================================================
