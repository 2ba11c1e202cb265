------------------------------ MODULE TypeMap -------------------------------
(***************************************************************************)
(* The map from types to values of src/resolver/type_map.h: a trie whose   *)
(* edges are the atoms of a type (a basic type, a variable, the name of a  *)
(* parameterised type with the number of its parameters, a function with   *)
(* the number of its).  A node is modelled by its path from the root.      *)
(*                                                                         *)
(* Insertion, setOrUpdateInterpretation() and get_canon() are actions; the *)
(* three iterators are computed as the code steps them, on the map as it   *)
(* stands (no client changes a map it iterates over).                      *)
(***************************************************************************)
EXTENDS Integers, Sequences, FiniteSets, SequencesExt, TLC

CONSTANTS Offered,  \* <<type, cost>> given to the map: an interpretation is known
                    \* by its cost
          Asked,    \* the types it is asked for
          Null      \* the null pointer

VARIABLES nodes,   \* the paths of the nodes; << >> is the root
          polys,   \* the paths that end in a variable, in order of creation
          leaves,  \* leaves[path]: Leaf, the key and the value stored there
          given    \* history: what a map from types to values would hold

vars == <<nodes, polys, leaves, given>>

-----------------------------------------------------------------------------
(* Types and their atoms                                                   *)

Type(mode, name, args) == [mode |-> mode, name |-> name, args |-> args]
ConcType(c) == Type("conc", c, << >>)
PolyType(v) == Type("poly", v, << >>)
NamedType(n, params) == Type("named", n, params)
FuncType(params, returns) == Type("func", "func", Append(params, returns))
TupleType(types) == Type("tuple", "", types)   \* VoidType if there are none

\* TypeKey: the key of one atom; not of a tuple.
Key(t) == [mode |-> t.mode, name |-> t.name, children |-> Len(t.args)]

\* type_atoms()
RECURSIVE Atoms(_)
Atoms(t) == (IF t.mode = "tuple" THEN << >> ELSE <<Key(t)>>)
            \o FlattenSeq([k \in DOMAIN t.args |-> Atoms(t.args[k])])

\* fill_step(), fill_to(): insertion gives each type of a list ONE atom, its
\* own; a function's return type may be a tuple, the list of its types.
Filled(t) ==
  LET keys(ts) == [k \in DOMAIN ts |-> Key(ts[k])]
  IN CASE t.mode = "tuple" -> keys(t.args)
       [] t.mode = "func" ->
            <<Key(t)>> \o keys(Front(t.args))
            \o (IF Last(t.args).mode = "tuple" THEN keys(Last(t.args).args)
                                               ELSE <<Key(Last(t.args))>>)
       [] OTHER -> <<Key(t)>> \o keys(t.args)

\* count(): a parameterised return type is counted with its parameters.
Counted(t) ==
  IF t.mode = "func" /\ Last(t.args).mode = "named"
    THEN Filled(t) \o [k \in DOMAIN Last(t.args).args |-> Key(Last(t.args).args[k])]
    ELSE Filled(t)

IsPolyNode(path) == path # << >> /\ Last(path).mode = "poly"

-----------------------------------------------------------------------------
(* Lookup                                                                  *)

\* get(): the node of a type, found by all its atoms (get() of the last atom
\* is null exactly if the path is not there).
Has(t) == Atoms(t) \in nodes
Leaf(path) == IF path \in DOMAIN leaves THEN leaves[path] ELSE Null

\* find(), locate(): end() if there is no leaf.
Find(t) == IF Has(t) THEN Leaf(Atoms(t)) ELSE Null

Count(t) == IF Counted(t) \in DOMAIN leaves THEN 1 ELSE 0

-----------------------------------------------------------------------------
(* Insertion                                                               *)

Init == nodes = {<< >>} /\ polys = << >> /\ leaves = << >> /\ given = << >>

\* The nodes down to path, each new variable in its parent's list.
FillTo(path) ==
  LET new == {p \in Prefixes(path) \ nodes : IsPolyNode(p)}
  IN /\ nodes' = nodes \cup Prefixes(path)
     /\ polys' = polys \o SetToSortSeq(new, LAMBDA p, q : Len(p) < Len(q))

Stored(path, t, v) == (path :> [key |-> t, value |-> v]) @@ leaves

\* Mutant of StoreNew: the last value inserted stays.
StoreAlways(path, t, v) == leaves' = Stored(path, t, v)

\* if ( ! tm->leaf ) set( ty, v )
StoreNew(path, t, v) ==
  leaves' = IF path \in DOMAIN leaves THEN leaves ELSE Stored(path, t, v)

\* insert()
InsertNode(t, v) == FillTo(Filled(t)) /\ StoreNew(Filled(t), t, v)

Value(cost) == [cost |-> cost, ambiguous |-> FALSE]

\* The value of a type once i has been compared with j, the one there.
Better(j, i) == CASE i.cost < j.cost -> i
                  [] i.cost = j.cost -> [j EXCEPT !.ambiguous = TRUE]
                  [] OTHER -> j

Insert(t, cost) ==
  /\ InsertNode(t, Value(cost))
  /\ given' = IF t \in DOMAIN given THEN given ELSE (t :> Value(cost)) @@ given

\* setOrUpdateInterpretation()
SetOrUpdate(t, cost) ==
  LET i == Value(cost)
      set(v) == leaves' = Stored(Atoms(t), t, v) /\ UNCHANGED <<nodes, polys>>
  IN /\ CASE ~Has(t) -> InsertNode(t, i)
          [] Has(t) /\ Find(t) = Null -> set(i)
          [] Has(t) /\ Find(t) # Null ->
               LET j == Find(t).value
               IN IF Better(j, i) = j THEN UNCHANGED <<nodes, polys, leaves>>
                                      ELSE set(Better(j, i))
     /\ given' = (t :> IF t \in DOMAIN given THEN Better(given[t], i) ELSE i) @@ given

\* get_canon() of a basic or a parameterised type: the stored value, or a new one.
GetCanon(t, cost) ==
  /\ t.mode \in {"conc", "named"}
  /\ CASE ~Has(t) -> InsertNode(t, Value(cost))
       [] Has(t) /\ Find(t) = Null ->
            /\ leaves' = Stored(Atoms(t), t, Value(cost))
            /\ UNCHANGED <<nodes, polys>>
       [] OTHER -> UNCHANGED <<nodes, polys, leaves>>
  /\ given' = IF t \in DOMAIN given THEN given ELSE (t :> Value(cost)) @@ given

Next == \E o \in Offered :
          Insert(o[1], o[2]) \/ SetOrUpdate(o[1], o[2]) \/ GetCanon(o[1], o[2])

Spec == Init /\ [][Next]_vars

-----------------------------------------------------------------------------
(* Iter: every leaf of the map                                             *)

\* A node's children in the order of its KeyMap (any order will do), and the
\* variables among them in order of creation.
Children(path) == FoldSet(LAMBDA p, list : Append(list, p), << >>,
                          {p \in nodes : p # << >> /\ Front(p) = path})
Polys(path) == SelectSeq(polys, LAMBDA p : Front(p) = path)

HasLeaf(path) == path \in DOMAIN leaves
Done == [base |-> Null, prefix |-> << >>]

\* push_prefix(): the first child; repeated down to a leaf.
RECURSIVE ToLeaf(_)
Push(it) == [base |-> Children(it.base)[1],
             prefix |-> Append(it.prefix, [base |-> it.base, child |-> 1])]
ToLeaf(it) == IF HasLeaf(it.base) THEN it ELSE ToLeaf(Push(it))

Begin == IF ~HasLeaf(<< >>) /\ Children(<< >>) = << >> THEN Done
         ELSE ToLeaf([base |-> << >>, prefix |-> << >>])

\* operator++ of a node without children: the next sibling, or the parent's.
RECURSIVE ToSibling(_)
ToSibling(prefix) ==
  IF prefix = << >> THEN Done
  ELSE LET top == Last(prefix)
           next == [top EXCEPT !.child = @ + 1]
       IN IF next.child > Len(Children(top.base)) THEN ToSibling(Front(prefix))
          ELSE ToLeaf([base |-> Children(top.base)[next.child],
                       prefix |-> Append(Front(prefix), next)])

\* Mutant of Advance: the types a type is the beginning of are passed over.
AdvanceAcross(it) == ToSibling(it.prefix)

Advance(it) == IF Children(it.base) # << >> THEN ToLeaf(Push(it))
                                            ELSE ToSibling(it.prefix)

RECURSIVE Listing(_)
Listing(it) == IF it = Done THEN << >>
               ELSE <<leaves[it.base]>> \o Listing(Advance(it))

-----------------------------------------------------------------------------
(* PolyIter: the nodes of a type, variables standing for some of its atoms *)

\* An iterator; m is Null at the end.  A frame of prefix has the node stepped
\* from and the position in its variables' list to try next.
PolyIter(m, prefix) == [m |-> m, prefix |-> prefix]
DeadEnd == PolyIter(Null, << >>)
Frame(base, next) == [base |-> base, next |-> next]

PushPoly(it, atoms) ==
  LET conc == Append(it.m, atoms[Len(it.prefix) + 1])
      vs == Polys(it.m)
  IN IF conc \in nodes THEN PolyIter(conc, Append(it.prefix, Frame(it.m, 1)))
     ELSE IF vs # << >> THEN PolyIter(vs[1], Append(it.prefix, Frame(it.m, 2)))
     ELSE DeadEnd

\* Fill the tail; on a dead end drop the last frame and its siblings with it.
RECURSIVE FillPoly(_, _), NextPoly(_, _)
FillPoly(it, atoms) ==
  IF Len(it.prefix) = Len(atoms) THEN it
  ELSE LET pushed == PushPoly(it, atoms)
       IN IF pushed # DeadEnd THEN FillPoly(pushed, atoms)
          ELSE IF it.prefix = << >> THEN DeadEnd
          ELSE NextPoly(Front(it.prefix), atoms)

\* Mutant of NextPoly: a frame whose variables are used up ends the search.
NextPolyOnce(prefix, atoms) ==
  LET top == Last(prefix)
      vs == Polys(top.base)
  IN IF prefix = << >> \/ top.next > Len(vs) THEN DeadEnd
     ELSE FillPoly(PolyIter(vs[top.next],
                            Append(Front(prefix), Frame(top.base, top.next + 1))),
                   atoms)

\* next_valid()
NextPoly(prefix, atoms) ==
  IF prefix = << >> THEN DeadEnd
  ELSE LET top == Last(prefix)
           vs == Polys(top.base)
       IN IF top.next > Len(vs) THEN NextPoly(Front(prefix), atoms)
          ELSE FillPoly(PolyIter(vs[top.next],
                                 Append(Front(prefix), Frame(top.base, top.next + 1))),
                        atoms)

IsConcrete(it) == \A k \in DOMAIN it.prefix : it.prefix[k].next = 1

RECURSIVE PolyListing(_, _)
PolyListing(it, atoms) ==
  IF it.m = Null THEN << >>
  ELSE <<it>> \o PolyListing(NextPoly(it.prefix, atoms), atoms)

\* get_poly_maps(), for a target with at least one atom.
PolyMaps(target) ==
  PolyListing(FillPoly(PolyIter(<< >>, << >>), Atoms(target)), Atoms(target))

-----------------------------------------------------------------------------
(* MatchIter: as PolyIter; a variable of the target takes any type         *)

\* The frames keep how many atoms are missing of the type a variable of the
\* target takes.  nc and np: the children and the variables still to try.
MFrame(base, nc, np, left) == [base |-> base, nc |-> nc, np |-> np, left |-> left]
Left(prefix) == IF prefix = << >> THEN 0 ELSE Last(prefix).left
Match(m, prefix, i) == [m |-> m, prefix |-> prefix, i |-> i]
Stuck == Match(Null, << >>, 0)

TakeAny(it, i, left) ==
  LET cs == Children(it.m)
      na == left + Last(cs[1]).children - 1
  IN IF cs = << >> THEN [Stuck EXCEPT !.i = i]
     ELSE Match(cs[1], Append(it.prefix, MFrame(it.m, Tail(cs), << >>, na)), i)

\* push_prefix(): i counts the target's atoms begun, a failed one included.
PushMatch(it, atoms) ==
  LET left == Left(it.prefix)
      i == it.i + 1
      conc == Append(it.m, atoms[i])
      vs == Polys(it.m)
  IN IF left > 0 THEN TakeAny(it, it.i, left)
     ELSE IF atoms[i].mode = "poly" THEN TakeAny(it, i, 1)
     ELSE IF conc \in nodes
       THEN Match(conc, Append(it.prefix, MFrame(it.m, << >>, vs, 0)), i)
     ELSE IF vs # << >>
       THEN Match(vs[1], Append(it.prefix, MFrame(it.m, << >>, Tail(vs), 0)), i)
     ELSE [Stuck EXCEPT !.i = i]

\* pop_prefix()
Popped(prefix, i) ==
  [prefix |-> Front(prefix), i |-> IF Left(Front(prefix)) = 0 THEN i - 1 ELSE i]

RECURSIVE FillMatch(_, _), NextMatch(_, _, _)
FillMatch(it, atoms) ==
  IF it.i >= Len(atoms) THEN it
  ELSE LET pushed == PushMatch(it, atoms)
       IN IF pushed.m # Null THEN FillMatch(pushed, atoms)
          ELSE IF it.prefix = << >> THEN Stuck
          ELSE LET p == Popped(it.prefix, pushed.i)
               IN NextMatch(p.prefix, p.i, atoms)

NextMatch(prefix, i, atoms) ==
  IF prefix = << >> THEN Stuck
  ELSE LET top == Last(prefix)
           to(m, frame) == FillMatch(Match(m, Append(Front(prefix), frame), i), atoms)
       IN IF top.nc # << >> THEN to(top.nc[1], [top EXCEPT !.nc = Tail(@)])
          ELSE IF top.np # << >> THEN to(top.np[1], [top EXCEPT !.np = Tail(@)])
          ELSE LET p == Popped(prefix, i) IN NextMatch(p.prefix, p.i, atoms)

RECURSIVE MatchListing(_, _)
MatchListing(it, atoms) ==
  IF it.m = Null THEN << >>
  ELSE <<it.m>> \o MatchListing(NextMatch(it.prefix, it.i, atoms), atoms)

\* get_matching()
MatchMaps(target) ==
  MatchListing(FillMatch(Match(<< >>, << >>, 0), Atoms(target)), Atoms(target))

-----------------------------------------------------------------------------
(* Properties                                                              *)

Given(t) == IF t \in DOMAIN given THEN [key |-> t, value |-> given[t]] ELSE Null

\* "A map from types to some value" (type_map.h:449): each type finds what was
\* given for it, and counts as present exactly then; and iteration, by which
\* convertTo() and expandConversions() return their results, visits every type
\* given once, with its value, and nothing else.
FoundIsGiven ==
  LET listing == Listing(Begin)
  IN /\ \A t \in Asked : Find(t) = Given(t)
                           /\ Count(t) = IF t \in DOMAIN given THEN 1 ELSE 0
     /\ Len(listing) = Cardinality(DOMAIN given)
     /\ Range(listing) = {Given(t) : t \in DOMAIN given}

\* The nodes that match the first n atoms of a target.
AtomMatches(atom, targetAtom) == atom = targetAtom \/ atom.mode = "poly"
PolyMatches(atoms, n) == {p \in nodes : /\ Len(p) = n
                                        /\ \A k \in 1 .. n : AtomMatches(p[k], atoms[k])}
NoDeadEnds(atoms) ==
  \A n \in 0 .. Len(atoms) - 1 : \A p \in PolyMatches(atoms, n) :
    \E q \in PolyMatches(atoms, n + 1) : Front(q) = p

Basic(t) == \A k \in DOMAIN Atoms(t) : Atoms(t)[k].mode = "conc"
MapsOf(its) == [k \in DOMAIN its |-> its[k].m]

\* For a target of basic types get_poly_maps() and get_matching() yield only
\* nodes that match it and no node twice; where every node that matches its
\* beginning leads to a match, they yield all; the exact match comes first, and
\* is the one is_concrete() tells apart (resolver-td.cc:314).  For a variable,
\* get_matching() yields the node of each first atom, once.
IteratorsMatch ==
  \A t \in Asked :
    /\ t.mode = "poly" => /\ Range(MatchMaps(t)) = {p \in nodes : Len(p) = 1}
                          /\ Len(MatchMaps(t)) = Cardinality({p \in nodes : Len(p) = 1})
    /\ LET atoms == Atoms(t)
           its == PolyMaps(t)
           maps == MapsOf(its)
           all == PolyMatches(atoms, Len(atoms))
       IN Basic(t) /\ atoms # << >> =>
            /\ Range(maps) \subseteq all
            /\ Cardinality(Range(maps)) = Len(maps)
            /\ \A k \in DOMAIN its : IsConcrete(its[k]) <=> its[k].m = atoms
            /\ \A k \in DOMAIN its : IsConcrete(its[k]) => k = 1
            /\ NoDeadEnds(atoms) => Range(maps) = all /\ MatchMaps(t) = maps
=============================================================================
