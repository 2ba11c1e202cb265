------------------------------ MODULE ClassEnv ------------------------------
(***************************************************************************)
(* The two environments that keep their classes in a list: ENV=inc         *)
(* (src/resolver/env-inc.h, env-inc.cc) and ENV=bas (env-bas.h,            *)
(* env-bas.cc), with the unifier that fills them (type_unifier.h).         *)
(*                                                                         *)
(* A basic Env is one list of classes, copied with the Env.  An            *)
(* incremental Env points to a GENERATION: a copy is a new generation, the *)
(* child of the one it was made from, with the classes it changed and a    *)
(* cache of where it found the others.  Both hand out ClassRefs, a         *)
(* generation and an index into its list.  The build chooses the variant:  *)
(* here Init does.                                                         *)
(*                                                                         *)
(* Clients change an Env in place, but none that another was copied from.  *)
(***************************************************************************)
EXTENDS TypeTerms, SequencesExt

CONSTANTS Decl, Impl,     \* assertions, and the expressions that satisfy them
          None,           \* no entry
          UnifyInputs,    \* the pairs <<paramType, argType>> to unify
          MaxEnvs,        \* bound: live environments
          MaxOps          \* bound: operations in a behaviour

VARIABLES variant,   \* "inc" or "bas"
          gens,      \* the generations (the lists, for "bas")
          live,      \* the generation of each live Env
          says,      \* says[i]: what the i-th Env was made to satisfy
          last,      \* the Env operated on last
          failed,    \* what the last operation was to satisfy, if it failed
          stale,     \* a ClassRef was used after its class had moved
          ops        \* the number of operations

vars == <<variant, gens, live, says, last, failed, stale, ops>>

NoRef == [gen |-> 0, ind |-> 0]
RefTo(g, i) == [gen |-> g, ind |-> i]

Class(vs, bound) == [vars |-> vs, bound |-> bound]

\* EnvGen(): parent 0 is the null pointer, `local` is localAssns.
Generation(parent) ==
  [classes |-> << >>, bindings |-> [v \in Var |-> NoRef],
   assns |-> [d \in Decl |-> None], local |-> 0, parent |-> parent]

-----------------------------------------------------------------------------
(* Generations                                                             *)

\* EnvGen::empty(): nothing unique is stored here.
Vacant(gen) == gen.local = 0 /\ gen.classes = << >>

\* getNonempty(): an empty generation has a nonempty parent, or none.
Nonempty(gs, g) == IF Vacant(gs[g]) THEN gs[g].parent ELSE g

RECURSIVE InheritsFrom(_, _, _)
InheritsFrom(gs, g, o) ==
  g = o \/ (gs[g].parent # 0 /\ InheritsFrom(gs, gs[g].parent, o))

\* An Env under an operation: all generations, its own, and the stale mark.
Env(gs, g) == [gens |-> gs, self |-> g, stale |-> FALSE]

Own(e) == e.gens[e.self]

\* Env(const Env&), operator=: "inc" makes a child of g, "bas" copies it.
CopyOf(gs, g) ==
  Env(Append(gs, IF variant = "inc" THEN Generation(Nonempty(gs, g))
                 ELSE gs[g]),
      Len(gs) + 1)

IsEmptyEnv(gs, g) == Nonempty(gs, g) = 0

-----------------------------------------------------------------------------
(* Classes                                                                 *)

At(e, r) == e.gens[r.gen].classes[r.ind]
VarSet(class) == ToSet(class.vars)

\* Env::findRef of "inc", from generation g on: the nearest entry for v.
RECURSIVE SearchFrom(_, _, _)
SearchFrom(gs, g, v) ==
  IF g = 0 THEN NoRef
  ELSE IF gs[g].bindings[v] # NoRef THEN gs[g].bindings[v]
  ELSE SearchFrom(gs, gs[g].parent, v)

\* Env::findRef of "bas": the first class that has v.
ScanFor(gs, g, v) ==
  LET found == {i \in DOMAIN gs[g].classes : v \in VarSet(gs[g].classes[i])}
  IN IF found = {} THEN NoRef
     ELSE RefTo(g, CHOOSE i \in found : \A j \in found : i <= j)

FindFrom(e, g, v) == IF variant = "inc" THEN SearchFrom(e.gens, g, v)
                     ELSE ScanFor(e.gens, g, v)

FindRef(e, v) == FindFrom(e, e.self, v)

BoundOf(e, v) == LET r == FindRef(e, v) IN
                   IF r = NoRef THEN Null ELSE At(e, r).bound

\* The index of "inc" is told that vs are in the class at r.
Index(e, vs, r) ==
  IF variant = "bas" THEN e
  ELSE [e EXCEPT !.gens[e.self].bindings =
                   [v \in Var |-> IF v \in vs THEN r ELSE @[v]]]

\* The lookups of vs leave what they found in the index.
Caching(e, vs) ==
  IF variant = "bas" THEN e
  ELSE [e EXCEPT !.gens[e.self].bindings =
                   [v \in Var |-> IF v \in vs THEN FindRef(e, v) ELSE @[v]]]

\* Mutation: the variables of a copied class keep their entry.
PushUnindexed(e, class) ==
  LET r == RefTo(e.self, Len(Own(e).classes) + 1)
  IN [env |-> [e EXCEPT !.gens[e.self].classes = Append(@, class)], ref |-> r]

\* copyClass(), insert(): a class put at the end of the list.
PushClass(e, class) ==
  LET r == RefTo(e.self, Len(Own(e).classes) + 1)
  IN [env |-> Index([e EXCEPT !.gens[e.self].classes = Append(@, class)],
                    VarSet(class), r),
      ref |-> r]

\* A class is copied up before it is changed.
MakeLocal(e, r) == IF r.gen = e.self THEN [env |-> e, ref |-> r]
                   ELSE PushClass(e, At(e, r))

AddToClass(e, i, v) ==
  Index([e EXCEPT !.gens[e.self].classes[i].vars = Append(@, v)],
        {v}, RefTo(e.self, i))

\* getClass(), insertVar()
GetClass(e, v) ==
  IF FindRef(e, v) = NoRef THEN PushClass(e, Class(<< v >>, Null))
  ELSE [env |-> Caching(e, {v}), ref |-> FindRef(e, v)]

RECURSIVE Expansion(_, _, _)
Expansion(e, vs, k) ==
  IF k = 0 THEN vs
  ELSE Expansion(e, vs \cup UNION {VarsOf(BoundOf(e, v)) : v \in vs}, k - 1)

\* The variables t leads to, and occursIn: whether one of vs is among them.
Leads(e, t) == Expansion(e, VarsOf(t), Cardinality(Var))
OccursIn(e, vs, t) == vs \cap Leads(e, t) # {}

\* An operation gives the Env and the class (r, by reference) or fails.
Ok(e, r) == [env |-> e, ok |-> TRUE, ref |-> r]
Fail(e) == [env |-> e, ok |-> FALSE, ref |-> NoRef]
Typed(e, ok, t) == [env |-> e, ok |-> ok, type |-> t]

-----------------------------------------------------------------------------
(* Binding and unifying                                                    *)

\* Mutation: a class of a parent is changed where it is.
BindInPlace(e, r, t) ==
  IF OccursIn(e, VarSet(At(e, r)), t) THEN Fail(e)
  ELSE Ok([e EXCEPT !.gens[r.gen].classes[r.ind].bound = t], r)

\* The class at c.ref, and its bound; c.ref bound to t.
BoundAt(c) == At(c.env, c.ref).bound
Bound(l, t) == Ok([l.env EXCEPT !.gens[l.env.self].classes[l.ref.ind].bound = t],
                  l.ref)

\* bindType(r, t): fails if it would make a loop.
BindType(e, r, t) ==
  IF OccursIn(e, VarSet(At(e, r)), t) THEN Fail(e)
  ELSE Bound(MakeLocal(Caching(e, Leads(e, t)), r), t)

RECURSIVE Unify(_, _, _), MergeClasses(_, _, _)

\* Mutation: two bounds are compatible only when they are the same.
MergeEqualBound(e, r, cbound) ==
  IF cbound \in {Null, At(e, r).bound} THEN Ok(e, r)
  ELSE IF At(e, r).bound = Null THEN BindType(e, r, cbound)
  ELSE Fail(e)

\* The class, found again from generation g by its variable v, gets the type
\* that its bound was unified to.
Rebound(tu, g, v) ==
  IF tu.type = Null THEN Fail(tu.env)
  ELSE Bound(MakeLocal(tu.env, FindFrom(tu.env, g, v)), tu.type)

\* mergeBound(r, cbound)
MergeBound(e, r, cbound) ==
  LET class == At(e, r)
  IN IF cbound \in {Null, class.bound} THEN Ok(e, r)
     ELSE IF class.bound = Null THEN BindType(e, r, cbound)
     ELSE Rebound(Unify(e, class.bound, cbound), r.gen, class.vars[1])

\* Two classes of one list become one: the last class takes the place of s,
\* and r is told if it was the last.
Join(e, r, s) ==
  LET list == Own(e).classes
      n == Len(list)
      joined == [list EXCEPT ![r.ind].vars = @ \o list[s.ind].vars]
      moved == joined[n]
      e1 == [e EXCEPT !.gens[e.self].classes =
                        SubSeq([joined EXCEPT ![s.ind] = moved], 1, n - 1)]
      e2 == Index(e1, VarSet(joined[r.ind]), r)
  IN IF s.ind = n THEN Ok(e2, r)
     ELSE Ok(Index(e2, VarSet(moved), s), IF r.ind = n THEN s ELSE r)

\* Variable v, met in another class, comes to the class at m.ref.
Absorb(m, v, s) ==
  LET rr == FindRef(m.env, v)
      c == Caching(m.env, {v})
  IN IF ~m.ok \/ rr = m.ref THEN m
     ELSE IF rr \in {NoRef, s} THEN Ok(AddToClass(c, m.ref.ind, v), m.ref)
     ELSE MergeClasses(c, m.ref, rr)

\* The class at s comes to the one at b.ref, which has both bounds: in one
\* list, as it always is for "bas", or variable by variable.
Unite(b, s) ==
  IF ~b.ok THEN b
  ELSE IF OccursIn(b.env, VarSet(At(b.env, s)), BoundAt(b)) THEN Fail(b.env)
  ELSE IF s.gen = b.env.self THEN Join(b.env, b.ref, s)
  ELSE FoldLeft(LAMBDA m, v : Absorb(m, v, s), b, At(b.env, s).vars)

\* s is found again by its first variable.
UniteWith(b, g, v) == Unite(b, FindFrom(b.env, g, v))

\* mergeClasses(r, s): r is in the newest generation.
MergeClasses(e, r, s) ==
  UniteWith(MergeBound(e, r, At(e, s).bound), s.gen, At(e, s).vars[1])

\* Variable v, whose class is at vr, is bound to the class at l.ref.
BindVarTo(l, v, vr) ==
  IF vr # NoRef THEN MergeClasses(l.env, l.ref, vr)
  ELSE IF OccursIn(l.env, {v}, BoundAt(l)) THEN Fail(l.env)
  ELSE Ok(AddToClass(l.env, l.ref.ind, v), l.ref)

BindVar(e, r, v) ==
  IF FindRef(e, v) = r THEN Ok(e, r)
  ELSE BindVarTo(MakeLocal(Caching(e, {v}), r), v, FindRef(e, v))

\* What visit() makes of an operation on classes, for type t.
Visited(b, t) == Typed(b.env, b.ok, t)

\* The unifier binds the class at r, found for v before it went on to v's old
\* bound: update_root() does nothing for these variants.  If the class is no
\* longer there, r is past the end of the list or at another class.
BindAfter(e, r, v, t) ==
  IF FindRef(e, v) # r THEN Typed([e EXCEPT !.stale = TRUE], FALSE, Null)
  ELSE Visited(BindType(e, r, t), t)

\* The bound of the class at r, unified.
Rebind(rec, r, v) == IF rec.type = Null THEN Typed(rec.env, FALSE, Null)
                     ELSE BindAfter(rec.env, r, v, rec.type)

UnifyConcPoly(e, t, u) ==
  LET uc == GetClass(e, u)
  IN IF BoundAt(uc) = Null THEN BindAfter(uc.env, uc.ref, u, t)
     ELSE Rebind(Unify(uc.env, t, BoundAt(uc)), uc.ref, u)

UnifyPolyConc(e, p, t) ==
  LET pc == GetClass(e, p)
  IN IF BoundAt(pc) = Null THEN BindAfter(pc.env, pc.ref, p, t)
     ELSE Rebind(Unify(pc.env, BoundAt(pc), t), pc.ref, p)

\* A class has the type it is bound to, or that of its variable p.
ClassType(b, p) ==
  IF ~b.ok THEN Visited(b, Null)
  ELSE Visited(b, IF BoundAt(b) = Null THEN p ELSE BoundAt(b))

UnifyPolyPoly(e, p, u) ==
  LET pc == GetClass(e, p) IN ClassType(BindVar(pc.env, pc.ref, u), p)

\* One more parameter is unified; list has the env and the types so far.
AddParam(list, tu) ==
  [env |-> tu.env, ok |-> tu.ok, types |-> Append(list.types, tu.type)]

UnifyParam(list, t, u) ==
  IF list.ok THEN AddParam(list, Unify(list.env, t, u)) ELSE list

UnifyParams(e, ts, us) ==
  FoldLeft(LAMBDA list, k : UnifyParam(list, ts[k], us[k]),
           [env |-> e, ok |-> TRUE, types |-> << >>], [k \in DOMAIN ts |-> k])

NamedOf(list, name) ==
  Typed(list.env, list.ok, IF list.ok THEN Named(name, list.types) ELSE Null)

UnifyNamed(e, t, u) == NamedOf(UnifyParams(e, t.params, u.params), t.name)

\* TypeUnifier: ok is what visit() returns, type what it leaves in r.
Unify(e, t, u) ==
  IF e.stale THEN Typed(e, FALSE, Null)
  ELSE CASE IsVar(t) /\ IsVar(u) -> UnifyPolyPoly(e, t, u)
         [] IsVar(t) /\ ~IsVar(u) -> UnifyPolyConc(e, t, u)
         [] ~IsVar(t) /\ IsVar(u) -> UnifyConcPoly(e, t, u)
         [] IsConc(t) /\ t = u -> Typed(e, TRUE, t)
         [] IsNamed(t) /\ IsNamed(u) /\ SameShape(t, u) -> UnifyNamed(e, t, u)
         [] OTHER -> Typed(e, FALSE, Null)

-----------------------------------------------------------------------------
(* Merging two environments                                                *)

\* Variables vs join the class at l.ref.
AddAll(l, vs) ==
  Ok(FoldLeft(LAMBDA e, v : AddToClass(e, l.ref.ind, v), l.env, vs), l.ref)

\* The class at b.ref has the bound of a class of the other Env: its variables
\* come, those before the first that is here at once.
AbsorbRest(b, class, before, after) ==
  IF ~b.ok THEN b
  ELSE IF OccursIn(b.env, VarSet(class), BoundAt(b)) THEN Fail(b.env)
  ELSE FoldLeft(LAMBDA n, v : Absorb(n, v, NoRef),
                AddAll(MakeLocal(b.env, b.ref), before), after)

Seen(b, vs) == [env |-> b.env, ok |-> b.ok, seen |-> vs]

\* One class of the other Env.  m has the Env and the variables seen in nearer
\* generations of the other, whose classes there are newer.
MergeClass(m, class) ==
  LET unseen == {i \in DOMAIN class.vars : class.vars[i] \notin m.seen}
      here == {i \in unseen : FindRef(m.env, class.vars[i]) # NoRef}
      first == Min(here)
      before == SubSeq(class.vars, 1, first - 1)
      after == SelectSeq(SubSeq(class.vars, first + 1, Len(class.vars)),
                         LAMBDA v : v \notin m.seen)
      new == IF here = {} THEN Ok(PushClass(m.env, class).env, NoRef)
             ELSE AbsorbRest(MergeBound(Caching(m.env, VarSet(class)),
                                        FindRef(m.env, class.vars[first]),
                                        class.bound),
                             class, before, after)
  IN IF ~m.ok \/ unseen = {} THEN m ELSE Seen(new, m.seen \cup VarSet(class))

\* Mutation: the assertions of an Env that has some are enough.
MergeNoAssns(m, o) == IF Own(m.env).local > 0 THEN m
                      ELSE [m EXCEPT !.env.gens[m.env.self].assns =
                                       m.env.gens[o].assns]

\* The assertions of generation o, compared with those of e's own.
MergeAssns(m, o) ==
  LET mine == Own(m.env).assns
      theirs == m.env.gens[o].assns
      new == {d \in Decl : theirs[d] # None /\ mine[d] = None}
      clash == {d \in Decl : None \notin {theirs[d], mine[d]}
                               /\ theirs[d] # mine[d]}
  IN IF ~m.ok THEN m
     ELSE [m EXCEPT !.ok = clash = {},
                    !.env.gens[m.env.self].assns =
                       [d \in Decl |-> IF d \in new THEN theirs[d] ELSE @[d]],
                    !.env.gens[m.env.self].local = @ + Cardinality(new)]

\* Generation o, its classes and its assertions.
MergeGen(m, o) ==
  MergeAssns(FoldLeft(MergeClass, m, m.env.gens[o].classes), o)

\* Mutation: what o inherits is left out.
MergeNewestOnly(m, o) == MergeGen(m, o)

\* EnvGen::merge: o, then the generations it inherits from, up to one that is
\* an ancestor of this Env as well.
RECURSIVE MergeInc(_, _)
MergeParents(m, parent) ==
  IF ~m.ok \/ parent = 0 THEN m
  ELSE IF Vacant(m.env.gens[parent])
            \/ InheritsFrom(m.env.gens, m.env.self, parent) THEN m
  ELSE MergeInc(m, parent)
MergeInc(m, o) == MergeParents(MergeGen(m, o), m.env.gens[o].parent)

Merged(e, ok) == [env |-> e, ok |-> ok, seen |-> {}]

\* Env::merge of "inc", with its short cuts.
MergeEnvInc(e, o) ==
  LET child == CopyOf(e.gens, o)
  IN IF IsEmptyEnv(e.gens, o) THEN Merged(e, TRUE)
     ELSE IF IsEmptyEnv(e.gens, e.self) THEN Merged(child, TRUE)
     ELSE IF InheritsFrom(e.gens, e.self, o) THEN Merged(e, TRUE)
     ELSE IF InheritsFrom(e.gens, o, e.self) THEN Merged(child, TRUE)
     ELSE MergeInc(Merged(e, TRUE), o)

\* Env::merge of "bas".
MergeEnvBas(e, o) ==
  IF Vacant(e.gens[o]) THEN Merged(e, TRUE)
  ELSE IF Vacant(Own(e))
    THEN Merged([e EXCEPT !.gens[e.self] = e.gens[o]], TRUE)
  ELSE MergeGen(Merged(e, TRUE), o)

MergeEnv(e, o) == IF variant = "inc" THEN MergeEnvInc(e, o)
                  ELSE MergeEnvBas(e, o)

-----------------------------------------------------------------------------
(* The machine                                                             *)

Says(types, assns) == [types |-> types, assns |-> assns]
NoFailure == Says({}, {})

Satisfiable(s) == /\ Solvable(s.types)
                  /\ \A a, b \in s.assns : a[1] = b[1] => a[2] = b[2]

Init == /\ variant \in {"inc", "bas"}
        /\ gens = << Generation(0) >>
        /\ live = << 1 >>
        /\ says = << NoFailure >>
        /\ last = 1
        /\ failed = NoFailure
        /\ stale = FALSE
        /\ ops = 0

\* Bounds as in EnvPer: operations, no use of what nothing satisfies, nothing
\* after a failure.
Usable == IF failed = NoFailure /\ ~stale /\ ops < MaxOps
            THEN {i \in DOMAIN live : Solvable(says[i].types)} ELSE {}

\* No Env was copied from this one: its client may change it.
Unshared(i) == \A k \in DOMAIN live \ {i} : ~InheritsFrom(gens, live[k], live[i])

\* The i-th Env is e from now on, or is dropped if the operation failed.
Keep(i, e, ok, s) ==
  /\ last' = i
  /\ ops' = ops + 1
  /\ stale' = e.stale
  /\ UNCHANGED variant
  /\ IF ok THEN /\ gens' = e.gens
                /\ live' = [live EXCEPT ![i] = e.self]
                /\ says' = [says EXCEPT ![i] = s]
                /\ failed' = NoFailure
     ELSE /\ failed' = s
          /\ UNCHANGED <<gens, live, says>>

Copy(i) ==
  LET c == CopyOf(gens, live[i])
  IN /\ Len(live) < MaxEnvs
     /\ gens' = c.gens
     /\ live' = Append(live, c.self)
     /\ says' = Append(says, says[i])
     /\ last' = Len(live')
     /\ ops' = ops + 1
     /\ UNCHANGED <<variant, failed, stale>>

\* unify(): the unifier works on a copy, of which the Env becomes a copy.
KeepUnified(i, tu, s) ==
  Keep(i, [CopyOf(tu.env.gens, tu.env.self) EXCEPT !.stale = tu.env.stale],
       tu.type # Null, s)

UnifyTypes(i, in) == KeepUnified(i, Unify(CopyOf(gens, live[i]), in[1], in[2]),
                                 Says(says[i].types \cup {in}, says[i].assns))

\* Bound: before the first copy; elsewhere unifying inserts variables.
InsertVar(i, v) ==
  LET e == Env(gens, live[i])
  IN /\ Len(live) = 1
     /\ FindRef(e, v) = NoRef
     /\ Keep(i, GetClass(e, v).env, TRUE, says[i])

\* findAssertion(d): from generation g on.
RECURSIVE AssnFrom(_, _, _)
AssnFrom(gs, g, d) == IF g = 0 THEN None
                      ELSE IF gs[g].assns[d] # None THEN gs[g].assns[d]
                      ELSE AssnFrom(gs, gs[g].parent, d)

Assertion(i, d) == AssnFrom(gens, live[i], d)

BindAssertion(i, d, x) ==
  LET e == Env(gens, live[i])
  IN /\ Assertion(i, d) = None
     /\ Keep(i, [e EXCEPT !.gens[e.self].assns[d] = x,
                          !.gens[e.self].local = @ + 1],
             TRUE, Says(says[i].types, says[i].assns \cup {<<d, x>>}))

\* Lookups of everything, as for printing: "inc" remembers what it found,
\* whether the Env is shared or not.
LookUp(i) ==
  LET e == Caching(Env(gens, live[i]), Var)
      all == [e EXCEPT !.gens[e.self].assns = [d \in Decl |-> Assertion(i, d)]]
  IN /\ variant = "inc"
     /\ all.gens # gens
     /\ Keep(i, all, TRUE, says[i])

KeepMerged(i, m, s) == Keep(i, m.env, m.ok, s)

Merge(i, j) == KeepMerged(i, MergeEnv(Env(gens, live[i]), live[j]),
                          Says(says[i].types \cup says[j].types,
                               says[i].assns \cup says[j].assns))

Next ==
  \E i \in Usable :
    \/ Copy(i)
    \/ LookUp(i)
    \/ /\ Unshared(i)
       /\ \/ \E in \in UnifyInputs : UnifyTypes(i, in)
          \/ \E v \in Var : InsertVar(i, v)
          \/ \E d \in Decl, x \in Impl : BindAssertion(i, d, x)
          \/ \E j \in Usable \ {i} : Merge(i, j)

Spec == Init /\ [][Next]_vars

-----------------------------------------------------------------------------
(* Properties                                                              *)

This(i) == Env(gens, live[i])

\* The classes an Env shows: v's variables and bound, or None.
Shown(i) ==
  [v \in Var |->
     LET r == FindRef(This(i), v)
     IN IF r = NoRef THEN None
        ELSE [vars |-> VarSet(At(This(i), r)), bound |-> At(This(i), r).bound]]

\* getUnbound(): the unbound classes from generation g on, skipping those with
\* variables already met in a nearer one.
RECURSIVE UnboundFrom(_, _)
UnboundFrom(g, seen) ==
  IF g = 0 THEN {}
  ELSE LET new == {c \in ToSet(gens[g].classes) : VarSet(c) \cap seen = {}}
           met == seen \cup UNION {VarSet(c) : c \in ToSet(gens[g].classes)}
       IN {VarSet(c) : c \in {d \in new : d.bound = Null}}
            \cup UnboundFrom(gens[g].parent, met)

\* What EnvGen::verify() asserts, and what it is for.  In every generation an
\* Env reads, a variable is in one class and its index entry, local or cached,
\* leads to a class that has it; looking up the variables of one class leads
\* to that class; and getUnbound() lists the unbound classes lookups show.
LookupsAgree ==
  \A i \in DOMAIN live :
    /\ \A g \in {k \in DOMAIN gens : InheritsFrom(gens, live[i], k)} :
         \A a \in DOMAIN gens[g].classes :
           LET vs == gens[g].classes[a].vars IN
             /\ Cardinality(ToSet(vs)) = Len(vs)
             /\ \A b \in DOMAIN gens[g].classes \ {a} :
                  ToSet(vs) \cap VarSet(gens[g].classes[b]) = {}
             /\ \A v \in ToSet(vs) : FindFrom(This(i), g, v) = RefTo(g, a)
    /\ \A v \in Var :
         LET r == FindRef(This(i), v) IN
           r # NoRef => /\ r.ind <= Len(gens[r.gen].classes)
                        /\ v \in VarSet(At(This(i), r))
                        /\ \A w \in VarSet(At(This(i), r)) :
                             FindRef(This(i), w) = r
    /\ UnboundFrom(live[i], {})
         = {Shown(i)[v].vars : v \in {w \in Var : /\ Shown(i)[w] # None
                                                  /\ Shown(i)[w].bound = Null}}

Root(e, v) == At(e, FindRef(e, v)).vars[1]

Image(e) == [v \in Var |-> IF BoundOf(e, v) # Null THEN BoundOf(e, v)
                           ELSE IF FindRef(e, v) # NoRef THEN Root(e, v) ELSE v]

RECURSIVE Expanded(_, _, _)
Expanded(t, image, k) == IF k = 0 THEN t
                         ELSE Expanded(Substitute(t, image), image, k - 1)

\* An Env is the most general one that satisfies what it was made to satisfy,
\* whichever generations its classes are found in.
MostGeneral ==
  Satisfiable(says[last]) =>
    LET e == This(last)
        image == Image(e)
        n == Cardinality(Var)
        solution == Solve(says[last].types)
    IN /\ \A q \in says[last].types :
            Expanded(q[1], image, n) = Expanded(q[2], image, n)
       /\ \A v \in Var :
            Substitute(v, solution) = Substitute(image[v], solution)

\* unify() and merge() fail only when nothing satisfies both sides.
FailuresAreReal == failed # NoFailure => stale \/ ~Satisfiable(failed)

\* An Env has the assertions bound on the way to it.  "bas" has no two for one
\* declaration; "inc" compares with its newest generation only, and shows one.
AssertionsKept ==
  \A i \in DOMAIN live :
    Solvable(says[i].types) =>
      LET shown == {<<d, Assertion(i, d)>> :
                      d \in {f \in Decl : Assertion(i, f) # None}}
      IN /\ shown \subseteq says[i].assns
         /\ {a[1] : a \in shown} = {a[1] : a \in says[i].assns}
         /\ variant = "bas" => shown = says[i].assns

\* An operation on one Env changes what no other shows: a generation others
\* inherit from is never written to.
EnvsApart ==
  [][\A k \in DOMAIN live : k # last' =>
       /\ Shown(k)' = Shown(k)
       /\ \A d \in Decl : Assertion(k, d)' = Assertion(k, d)]_vars

\* A ClassRef is used while its class is where it was ("in case of iterator
\* invalidation", type_unifier.h).
RefsAreCurrent == ~stale
=============================================================================
