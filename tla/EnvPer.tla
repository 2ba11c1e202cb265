------------------------------- MODULE EnvPer -------------------------------
(***************************************************************************)
(* Env over persistent structures (src/resolver/env-per.h, env-per.cc) and *)
(* the unifier that fills it (type_unifier.h, unify.h, occurs_in.h).       *)
(*                                                                         *)
(* An environment partitions type variables into classes; each class has a *)
(* root, and the root a binding: a type, or Null for none.  It is three    *)
(* versions, of a persistent_disjoint_set and of two persistent_maps.      *)
(* PersistentDisjointSet and PersistentMap show that a version's content   *)
(* never changes and that its edit leads to its base, so that a version is *)
(* modelled by its content and its HISTORY, the edits from the initial     *)
(* version; two versions have in common the nodes of the common prefix of  *)
(* their histories (a node is told by the operation that made it).         *)
(*                                                                         *)
(* Every client of Env works on a copy and drops it when an operation      *)
(* fails, so an operation takes a live environment and, if it succeeds,    *)
(* adds one.  `says` is a history variable: the equations between types    *)
(* each environment was made to satisfy.                                   *)
(***************************************************************************)
EXTENDS TypeTerms, SequencesExt

CONSTANTS Decl, Impl,     \* assertions, and the expressions that satisfy them
          None,           \* no entry
          UnifyInputs,    \* the pairs <<paramType, argType>> to unify
          AssnTypes,      \* bound: those unified in a behaviour with assertions
          MaxOps          \* bound: operations in a behaviour

VARIABLES envs,    \* the live environments, in the order they were made
          says,    \* says[i]: the equations envs[i] was made to satisfy
          failed   \* the equations of the last operation, if it failed

vars == <<envs, says, failed>>

\* Env(): three initial versions.  `lost` is set when the code follows a
\* cycle of bindings, or merges a class with itself: it need not come back.
EmptyEnv == [rep |-> [v \in Var |-> None], height |-> [v \in Var |-> 0],
             bound |-> [v \in Var |-> None], assn |-> [d \in Decl |-> None],
             classLog |-> << >>, boundLog |-> << >>, assnLog |-> << >>,
             lost |-> FALSE]

-----------------------------------------------------------------------------
(* Reading an environment                                                  *)

\* persistent_disjoint_set::find: the root of v's class.
RECURSIVE Find(_, _)
Find(env, v) == IF env.rep[v] = v THEN v ELSE Find(env, env.rep[v])

Present(env, v) == env.rep[v] # None

\* ClassRef::get_bound() of v's class.
Bound(env, v) == IF Present(env, v) /\ env.bound[Find(env, v)] # None
                   THEN env.bound[Find(env, v)] ELSE Null

\* persistent_disjoint_set::find_class: nothing for a variable not there.
ClassOf(env, v) == {w \in Var : /\ Present(env, v) /\ Present(env, w)
                                /\ Find(env, w) = Find(env, v)}

\* The variables met when those of vs are expanded, k times over.
RECURSIVE Expansion(_, _, _)
Expansion(env, vs, k) ==
  IF k = 0 THEN vs
  ELSE Expansion(env, vs \cup UNION {VarsOf(Bound(env, v)) : v \in vs}, k - 1)

\* The variables t leads to.
Leads(env, t) == Expansion(env, VarsOf(t), Cardinality(Var))

\* The bindings lead from some class back to itself.
Cyclic(env) == \E v \in Var : ClassOf(env, v) \cap Leads(env, Bound(env, v)) # {}

\* Env::occursIn: one of vs occurs in t, expanded according to env.
OccursIn(env, vs, t) == vs \cap Leads(env, t) # {}

-----------------------------------------------------------------------------
(* Writing one                                                             *)

\* classes->add(v)
AddClass(env, v) ==
  [env EXCEPT !.rep[v] = v, !.height[v] = 0,
              !.classLog = Append(@, [mode |-> "ADD", key |-> v, root |-> Null,
                                      at |-> Len(envs)])]

\* classes->merge(r, s): the lower tree goes under the higher, r wins a tie.
MergeTrees(env, r, s) ==
  LET root == IF env.height[r] < env.height[s] THEN s ELSE r
      child == IF root = r THEN s ELSE r
  IN [env EXCEPT !.rep[child] = root,
                 !.height[root] = IF env.height[r] = env.height[s]
                                    THEN @ + 1 ELSE @,
                 !.classLog = Append(@, [mode |-> "ADDTO", key |-> child,
                                         root |-> root, at |-> Len(envs)])]

\* Mutation: a key bound to no type counts as a key without an entry.
NullIsNoEntry(key, old, new) ==
  [mode |-> IF new = None THEN "REM"
            ELSE IF old \in {None, Null} THEN "INS" ELSE "UPD",
   key |-> key, old |-> old, val |-> new, at |-> Len(envs)]

\* An edit of a persistent_map: what it did to the key, and the value before.
MapEdit(key, old, new) ==
  [mode |-> IF new = None THEN "REM" ELSE IF old = None THEN "INS" ELSE "UPD",
   key |-> key, old |-> old, val |-> new, at |-> Len(envs)]

\* bindings->set(v, t); bindings->erase(v), which does nothing without entry.
SetBound(env, v, t) ==
  [env EXCEPT !.bound[v] = t,
              !.boundLog = Append(@, MapEdit(v, env.bound[v], t))]

EraseBound(env, v) ==
  IF env.bound[v] = None THEN env
  ELSE [env EXCEPT !.bound[v] = None,
                   !.boundLog = Append(@, MapEdit(v, env.bound[v], None))]

\* assns->set(d, x)
SetAssn(env, d, x) ==
  [env EXCEPT !.assn[d] = x,
              !.assnLog = Append(@, MapEdit(d, env.assn[d], x))]

\* insert(), getClass(), insertVar(): a class of its own for a new variable.
GetClass(env, v) == IF Present(env, v) THEN env
                    ELSE SetBound(AddClass(env, v), v, Null)

Lost(env) == [env EXCEPT !.lost = TRUE]

\* What an operation on an environment gives: the environment, and whether it
\* succeeded; the unifier also gives a type, Null for none.
Done(env, ok) == [env |-> env, ok |-> ok]
Typed(env, ok, t) == [env |-> env, ok |-> ok, type |-> t]

-----------------------------------------------------------------------------
(* Binding and unifying                                                    *)

\* bindType(r, t), r the class of v: fails if it would make a loop.
BindType(env, v, t) ==
  IF OccursIn(env, ClassOf(env, v), t) THEN Done(env, FALSE)
  ELSE Done(SetBound(env, Find(env, v), t), TRUE)

RECURSIVE Unify(_, _, _), UnifyParams(_, _, _), BindVar(_, _, _),
          MergeBound(_, _, _), MergeClasses(_, _, _)

\* unifyConcPoly: the class of variable u gets t, or what t and the type it
\* is bound to have in common.
UnifyConcPoly(env, t, u) ==
  LET env1 == GetClass(env, u)
      rec == Unify(env1, t, Bound(env1, u))
      bind(e, r) == LET b == BindType(e, u, r) IN Typed(b.env, b.ok, r)
  IN IF Bound(env1, u) = Null THEN bind(env1, t)
     ELSE IF rec.type = Null THEN Typed(rec.env, FALSE, Null)
     ELSE bind(rec.env, rec.type)

\* visit(PolyType) against a concrete or named type: the same, sides swapped.
UnifyPolyConc(env, p, u) ==
  LET env1 == GetClass(env, p)
      rec == Unify(env1, Bound(env1, p), u)
      bind(e, r) == LET b == BindType(e, p, r) IN Typed(b.env, b.ok, r)
  IN IF Bound(env1, p) = Null THEN bind(env1, u)
     ELSE IF rec.type = Null THEN Typed(rec.env, FALSE, Null)
     ELSE bind(rec.env, rec.type)

UnifyPolyPoly(env, p, u) ==
  LET b == BindVar(GetClass(env, p), p, u)
      bound == Bound(b.env, p)
  IN IF ~b.ok THEN Typed(b.env, FALSE, Null)
     ELSE Typed(b.env, TRUE, IF bound = Null THEN p ELSE bound)

UnifyNamed(env, t, u) ==
  LET ps == UnifyParams(env, t.params, u.params)
  IN IF ps.ok THEN Typed(ps.env, TRUE, Named(t.name, ps.types))
     ELSE Typed(ps.env, FALSE, Null)

\* TypeUnifier's visit().  Where it fails under a class it returns a type and
\* `false`: ok is what it returns, type what it leaves in its reference.  The
\* common type may be spelt with t's or with u's variables, equal in env.
Unify(env, t, u) ==
  IF env.lost THEN Typed(env, FALSE, Null)
  ELSE CASE IsVar(t) /\ IsVar(u) -> UnifyPolyPoly(env, t, u)
         [] IsVar(t) /\ ~IsVar(u) -> UnifyPolyConc(env, t, u)
         [] ~IsVar(t) /\ IsVar(u) -> UnifyConcPoly(env, t, u)
         [] IsConc(t) /\ t = u -> Typed(env, TRUE, t)
         [] IsNamed(t) /\ IsNamed(u) /\ SameShape(t, u) -> UnifyNamed(env, t, u)
         [] OTHER -> Typed(env, FALSE, Null)

\* mutateAll: the parameters in turn, up to the first that fails.
UnifyParams(env, ts, us) ==
  IF ts = << >> THEN [env |-> env, ok |-> TRUE, types |-> << >>]
  ELSE LET first == Unify(env, Head(ts), Head(us))
           rest == UnifyParams(first.env, Tail(ts), Tail(us))
       IN IF ~first.ok THEN [env |-> first.env, ok |-> FALSE, types |-> << >>]
          ELSE [rest EXCEPT !.types = << first.type >> \o @]

\* Mutation: two bindings are compatible only when they are the same.
MergeEqualBounds(env, v, cbound) ==
  LET rbound == Bound(env, v)
  IN IF cbound \in {Null, rbound} THEN Done(env, TRUE)
     ELSE IF rbound = Null THEN BindType(env, v, cbound)
     ELSE Done(env, FALSE)

\* mergeBound(r, cbound), r the class of v.
MergeBound(env, v, cbound) ==
  LET rbound == Bound(env, v)
      tu == Unify(env, rbound, cbound)
  IN IF cbound = Null THEN Done(env, TRUE)
     ELSE IF Cyclic(env) THEN Done(Lost(env), FALSE)
     ELSE IF rbound = Null THEN BindType(env, v, cbound)
     ELSE IF rbound = cbound THEN Done(env, TRUE)
     ELSE IF tu.type = Null THEN Done(tu.env, FALSE)
     ELSE Done(SetBound(tu.env, Find(tu.env, v), tu.type), TRUE)

\* Mutation: the binding of the root that is one no longer is left behind.
JoinLeavesBinding(env, r, s) ==
  LET joined == MergeTrees(env, r, s)
      moved == IF Find(joined, r) = r THEN joined
               ELSE EraseBound(SetBound(joined, s, joined.bound[r]), r)
  IN IF r = s \/ Cyclic(moved) THEN Done(Lost(env), FALSE)
     ELSE Done(moved, TRUE)

\* Roots r and s become one class; the binding of r is kept.
JoinRoots(env, r, s) ==
  LET joined == MergeTrees(env, r, s)
      moved == IF Find(joined, r) = r THEN EraseBound(joined, s)
               ELSE EraseBound(SetBound(joined, s, joined.bound[r]), r)
  IN IF r = s \/ Cyclic(moved) THEN Done(Lost(env), FALSE)
     ELSE Done(moved, TRUE)

\* mergeClasses(r, s), r and s the classes of v and w.
MergeClasses(env, v, w) ==
  LET b == MergeBound(env, v, Bound(env, w))
  IN IF ~b.ok THEN b
     ELSE IF OccursIn(b.env, ClassOf(b.env, w), Bound(b.env, v))
       THEN Done(b.env, FALSE)
     ELSE JoinRoots(b.env, Find(b.env, v), Find(b.env, w))

\* bindVar(r, w), r the class of v.
BindVar(env, v, w) ==
  IF Present(env, w)
    THEN IF Find(env, w) = Find(env, v) THEN Done(env, TRUE)
         ELSE MergeClasses(env, v, w)
    ELSE IF OccursIn(env, {w}, Bound(env, v)) THEN Done(env, FALSE)
         ELSE Done(MergeTrees(AddClass(env, w), Find(env, v), w), TRUE)

-----------------------------------------------------------------------------
(* Merging two environments                                                *)

\* The path from version `from` to version `to` in their version tree, as the
\* edits its nodes have once `to` is the BASE: those made on the way to `from`,
\* last first, then those made on the way to `to`, undone.
Path(from, to, Undo(_)) ==
  LET shared == Len(LongestCommonPrefix({from, to}))
  IN Reverse(SubSeq(from, shared + 1, Len(from)))
       \o [k \in 1 .. Len(to) - shared |-> Undo(to[shared + k])]

UndoClassEdit(e) ==
  [e EXCEPT !.mode = CASE e.mode = "ADD" -> "REM" [] e.mode = "ADDTO" -> "REMFROM"]

UndoMapEdit(e) ==
  [e EXCEPT !.mode = CASE e.mode = "INS" -> "REM" [] e.mode = "REM" -> "INS"
                       [] e.mode = "UPD" -> "UPD",
            !.old = e.val, !.val = e.old]

ClassPath(o, env) == Path(o.classLog, env.classLog, UndoClassEdit)
BoundPath(o, env) == Path(o.boundLog, env.boundLog, UndoMapEdit)
AssnPath(o, env) == Path(o.assnLog, env.assnLog, UndoMapEdit)

Undoes(e, later) ==
  /\ e.key = later.key
  /\ \/ e.mode = "ADD" /\ later.mode = "REM"
     \/ e.mode = "REM" /\ later.mode = "ADD"
     \/ e.mode = "ADDTO" /\ later.mode = "REMFROM" /\ e.root = later.root
     \/ e.mode = "REMFROM" /\ later.mode = "ADDTO" /\ e.root = later.root

\* One step of the walk from o: an edit that the next edit of its key undoes
\* goes with it, any other is put before the edits there are.
TraceClassEdit(edits, e) ==
  LET later == {k \in 1 .. Len(edits) : edits[k].key = e.key}
      next == CHOOSE k \in later : \A l \in later : k <= l
  IN IF later # {} /\ Undoes(e, edits[next]) THEN RemoveAt(edits, next)
     ELSE << e >> \o edits

\* The edits that make o's classes out of env's.
ClassEdits(o, env) == FoldLeft(TraceClassEdit, << >>, ClassPath(o, env))

\* The same for a map: one edit for each key, the later one prevailing.
TraceMapEdit(edits, e) ==
  LET later == edits[e.key] IN
    [edits EXCEPT ![e.key] =
       IF later = None THEN e
       ELSE CASE e.mode = "REM" -> [later EXCEPT !.mode = "UPD"]
              [] e.mode = "INS" /\ later.mode = "REM" -> None
              [] e.mode = "INS" /\ later.mode # "REM" ->
                   [later EXCEPT !.mode = "INS"]
              [] e.mode = "UPD" -> later]

BoundEdits(o, env) ==
  FoldLeft(TraceMapEdit, [v \in Var |-> None], BoundPath(o, env))

AssnEdits(o, env) ==
  FoldLeft(TraceMapEdit, [d \in Decl |-> None], AssnPath(o, env))

\* Apply one edit of the classes; m has the environment and the edits of
\* bindings still to apply.  A variable is added with its final binding.
ApplyAdd(m, e) ==
  LET b == m.bedits[e.key]
      t == IF b = None THEN Null ELSE b.val
  IN [env |-> SetBound(AddClass(m.env, e.key), e.key, t),
      bedits |-> [m.bedits EXCEPT ![e.key] = None]]

\* Mutation: the binding of the root that is one no longer is forgotten.
AddToForgetsBinding(m, e) ==
  LET kr == Find(m.env, e.key)
      mr == Find(m.env, e.root)
      joined == MergeTrees(m.env, kr, mr)
  IN IF kr = mr THEN m
     ELSE [env |-> EraseBound(joined, IF Find(joined, kr) = kr THEN mr ELSE kr),
           bedits |-> m.bedits]

\* Two classes are merged; the binding of the root that is one no longer is
\* taken out, and put with the edits still to apply, under the edit's key.
ApplyAddTo(m, e) ==
  LET kr == Find(m.env, e.key)
      mr == Find(m.env, e.root)
      joined == MergeTrees(m.env, kr, mr)
      newChild == IF Find(joined, kr) = kr THEN mr ELSE kr
      t == m.env.bound[newChild]
  IN IF kr = mr THEN m
     ELSE [env |-> EraseBound(joined, newChild),
           bedits |-> IF t \in {None, Null} THEN m.bedits
                      ELSE [m.bedits EXCEPT ![e.key] =
                              [mode |-> "INS", key |-> e.key, old |-> None,
                               val |-> t, at |-> Len(envs)]]]

\* Nothing is removed and no class is split.
ApplyClassEdit(m, e) == CASE e.mode = "ADD" -> ApplyAdd(m, e)
                          [] e.mode = "ADDTO" -> ApplyAddTo(m, e)
                          [] OTHER -> m

\* Merge the binding edits in the order given, up to the first that fails.
MergeBounds(m, order) ==
  FoldLeft(LAMBDA done, v :
             IF ~done.ok \/ m.bedits[v] = None \/ m.bedits[v].mode = "REM"
               THEN done
               ELSE MergeBound(done.env, v, m.bedits[v].val),
           Done(m.env, TRUE), order)

ApplyClassEdits(env, o) ==
  FoldLeft(ApplyClassEdit, [env |-> env, bedits |-> BoundEdits(o, env)],
           ClassEdits(o, env))

\* The orders in which bindings may be merged: those of a hash table, any.
Orders(env, o) ==
  LET m == ApplyClassEdits(env, o)
  IN SetToSeqs({v \in Var : m.bedits[v] # None})

MergeAllClasses(env, o, order) == MergeBounds(ApplyClassEdits(env, o), order)

\* Mutation: without updates, o's assertions are taken for all there are.
TakesOtherAssns(env, o) ==
  LET edits == AssnEdits(o, env)
      Of(mode) == {d \in Decl : edits[d] # None /\ edits[d].mode = mode}
  IN IF Of("UPD") = {}
       THEN Done([env EXCEPT !.assn = o.assn, !.assnLog = o.assnLog], TRUE)
     ELSE Done(FoldLeft(LAMBDA e, d : SetAssn(e, d, edits[d].val),
                        env, SetToSeq(Of("INS"))),
               \A d \in Of("UPD") : env.assn[d] = edits[d].val)

\* mergeAssns(): insert o's assertions; one that both have must be the same.
MergeAssns(env, o) ==
  LET edits == AssnEdits(o, env)
      Of(mode) == {d \in Decl : edits[d] # None /\ edits[d].mode = mode}
  IN IF Of("UPD") = {} /\ Of("INS") = {} THEN Done(env, TRUE)
     ELSE IF Of("UPD") = {} /\ Of("REM") = {}
       THEN Done([env EXCEPT !.assn = o.assn, !.assnLog = o.assnLog], TRUE)
     ELSE Done(FoldLeft(LAMBDA e, d : SetAssn(e, d, edits[d].val),
                        env, SetToSeq(Of("INS"))),
               \A d \in Of("UPD") : env.assn[d] = edits[d].val)

Empty(env) == /\ \A v \in Var : ~Present(env, v)
              /\ \A d \in Decl : env.assn[d] = None

Merge(env, o, order) ==
  LET classes == MergeAllClasses(env, o, order)
  IN IF Empty(o) THEN Done(env, TRUE)
     ELSE IF Empty(env) THEN Done(o, TRUE)
     ELSE IF ~classes.ok THEN classes
     ELSE MergeAssns(classes.env, o)

-----------------------------------------------------------------------------
(* The machine: environments made from one initial environment.            *)

Says(types, assns) == [types |-> types, assns |-> assns]

NoFailure == Says({}, {})

\* There is an environment that satisfies what s says.
Satisfiable(s) == /\ Solvable(s.types)
                  /\ \A a, b \in s.assns : a[1] = b[1] => a[2] = b[2]

Init == /\ envs = << EmptyEnv >>
        /\ says = << NoFailure >>
        /\ failed = NoFailure

\* Bounds: the number of operations; no further use of an environment nothing
\* satisfies (there should be none, but see UnifiedIsSolvable); and nothing
\* after a failure, which changes no live environment.
Usable == IF failed = NoFailure /\ Len(envs) <= MaxOps
            THEN {i \in 1 .. Len(envs) : Satisfiable(says[i])} ELSE {}

\* Bound: classes and assertions are separate maps, so that of each behaviour
\* with assertions the classes stay few.
OneSubject(s) == LET all == Range(says) \cup {s}
                 IN \/ \A h \in all : h.assns = {}
                    \/ \A h \in all : h.types \subseteq AssnTypes

\* The client gets the environment of `done`, or drops it if that failed.
Keep(done, s) ==
  /\ OneSubject(s)
  /\ IF done.ok /\ ~done.env.lost
       THEN /\ envs' = Append(envs, done.env)
            /\ says' = Append(says, s)
            /\ failed' = NoFailure
       ELSE /\ failed' = s
            /\ UNCHANGED <<envs, says>>

\* unify(paramType, argType): it succeeds when the unifier returns a type.
UnifyTypes(i, in) ==
  LET tu == Unify(envs[i], in[1], in[2])
  IN Keep(Done(tu.env, tu.type # Null),
          Says(says[i].types \cup {in}, says[i].assns))

\* Bound: only the first environment; elsewhere unifying inserts variables.
InsertVar(i, v) == /\ i = 1
                   /\ ~Present(envs[i], v)
                   /\ Keep(Done(GetClass(envs[i], v), TRUE), says[i])

\* bindAssertion(f, assn): f is not bound yet.
BindAssertion(i, d, x) ==
  /\ envs[i].assn[d] = None
  /\ Keep(Done(SetAssn(envs[i], d, x), TRUE),
          Says(says[i].types, says[i].assns \cup {<<d, x>>}))

MergeEnvs(i, j, order) ==
  Keep(Merge(envs[i], envs[j], order),
       Says(says[i].types \cup says[j].types, says[i].assns \cup says[j].assns))

Next == \E i \in Usable :
          \/ \E in \in UnifyInputs : UnifyTypes(i, in)
          \/ \E v \in Var : InsertVar(i, v)
          \/ \E d \in Decl, x \in Impl : BindAssertion(i, d, x)
          \/ \E j \in Usable \ {i} :
               \E order \in Orders(envs[i], envs[j]) : MergeEnvs(i, j, order)

Spec == Init /\ [][Next]_vars

-----------------------------------------------------------------------------
(* Properties.  Live environments never change and every one was once the   *)
(* newest, so it is enough to look at the newest.                          *)

Newest == Len(envs)

\* What Env::verify() asserts of classes and bindings: every variable's root
\* has a binding (of a type or of none), and only roots have.
RootsAreBound ==
  \A v \in Var :
    LET env == envs[Newest] IN
      /\ Present(env, v) => env.bound[Find(env, v)] # None
      /\ env.bound[v] # None => Present(env, v) /\ Find(env, v) = v

\* env satisfies the equation <<t, u>>: expanded, the two types are one.
Image(env) == [v \in Var |-> LET b == Bound(env, v) IN
                               IF b # Null THEN b
                               ELSE IF Present(env, v) THEN Find(env, v) ELSE v]

RECURSIVE Expanded(_, _, _)
Expanded(env, t, k) == IF k = 0 THEN t
                       ELSE Expanded(env, Substitute(t, Image(env)), k - 1)

Entails(env, e) ==
  Expanded(env, e[1], Cardinality(Var)) = Expanded(env, e[2], Cardinality(Var))

\* The classes and bindings of env, as equations.
Equations(env) ==
  {<<v, Find(env, v)>> : v \in {w \in Var : Present(env, w)}}
    \cup {<<v, env.bound[v]>> :
            v \in {w \in Var : env.bound[w] \notin {None, Null}}}

\* An environment is the MOST GENERAL one that satisfies what it was made to
\* satisfy: unifying and merging forget no equation and invent none, wherever
\* in their common tree the versions merged are.
MostGeneral ==
  Satisfiable(says[Newest]) =>
    LET image == Solve(says[Newest].types) IN
      /\ \A e \in says[Newest].types : Entails(envs[Newest], e)
      /\ \A e \in Equations(envs[Newest]) :
           Substitute(e[1], image) = Substitute(e[2], image)

\* unify() and merge() fail (or lose themselves in a cycle) only when no
\* environment satisfies both sides.
FailuresAreReal == failed # NoFailure => ~Satisfiable(failed)

\* What mergeAllClasses() and mergeAssns() assume() of the path between two
\* versions: the modes of successive edits of a key fit together.
ClassModesFit(later, e) ==
  \/ Undoes(e, later)
  \/ e.mode = "ADD" /\ later.mode = "ADDTO"
  \/ e.mode = "REMFROM" /\ later.mode = "REM"
  \/ e.mode = "REMFROM" /\ later.mode = "ADDTO" /\ e.root # later.root

ClassPathFits(path) ==
  FoldLeft(LAMBDA t, e :
             LET later == SelectSeq(t.edits, LAMBDA d : d.key = e.key)
             IN [fits |-> t.fits /\ (later # << >> => ClassModesFit(later[1], e)),
                 edits |-> TraceClassEdit(t.edits, e)],
           [fits |-> TRUE, edits |-> << >>], path).fits

MapModesFit(later, e) == \/ e.mode = "REM" /\ later.mode = "INS"
                         \/ e.mode = "INS" /\ later.mode \in {"REM", "UPD"}
                         \/ e.mode = "UPD" /\ later.mode \in {"REM", "UPD"}

MapPathFits(path, keys) ==
  FoldLeft(LAMBDA t, e :
             LET later == t.edits[e.key]
             IN [fits |-> t.fits /\ (later # None => MapModesFit(later, e)),
                 edits |-> TraceMapEdit(t.edits, e)],
           [fits |-> TRUE, edits |-> [k \in keys |-> None]], path).fits

PathFits(o, env) == /\ ClassPathFits(ClassPath(o, env))
                    /\ MapPathFits(BoundPath(o, env), Var)
                    /\ MapPathFits(AssnPath(o, env), Decl)

\* A failure changes no environment.
PathsFit == failed = NoFailure =>
              \A i \in 1 .. Newest - 1 : /\ PathFits(envs[i], envs[Newest])
                                         /\ PathFits(envs[Newest], envs[i])

\* An environment has exactly the assertions bound on the way to it.
AssertionsKept ==
  LET assn == envs[Newest].assn IN
    Satisfiable(says[Newest]) =>
      {<<d, assn[d]>> : d \in {f \in Decl : assn[f] # None}}
        = says[Newest].assns

\* "occurs check not subverted": no class is bound to a type that it occurs in.
Acyclic == ~Cyclic(envs[Newest])

\* What unify() accepts has a solution: the two types have a common type.
UnifiedIsSolvable == Satisfiable(says[Newest])
=============================================================================
